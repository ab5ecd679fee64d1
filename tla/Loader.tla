------------------------------- MODULE Loader -------------------------------
(* The boot loader of the x86 platform (am/src/x86/qemu/boot/main.c): the    *)
(* argument, the file's header and the segments of the program copied from   *)
(* the disk by whole sectors, the uninitialised parts cleared.               *)
EXTENDS Integers, Sequences

CONSTANTS SECTSIZE,  \* bytes of a sector
          ARGSIZE,   \* bytes of the argument area in front of the program
          MAINARG_ADDR, HeaderAddr,  \* where the argument and the header go
          HeaderSize,  \* bytes of the header that are read
          MemoryBytes, \* bytes of memory, a multiple of a sector
          MaxSegments, \* program headers of a file, at most
          Segments     \* program headers: [filesz, memsz, paddr, offset]

(* The argument and the header do not overlap. A segment has no more bytes   *)
(* in the file than in memory, and one of none begins with a sector (a       *)
(* header such as GNU_STACK, which is loaded like the others, is all zeros). *)
ASSUME LoaderAssumption ==
  /\ SECTSIZE \in Nat \ {0}
  /\ \A bytes \in {ARGSIZE, MAINARG_ADDR, HeaderAddr, HeaderSize, MemoryBytes} :
       bytes \in Nat /\ bytes % SECTSIZE = 0
  /\ MAINARG_ADDR + ARGSIZE <= HeaderAddr /\ HeaderAddr + HeaderSize <= MemoryBytes
  /\ \A s \in Segments : /\ {s.filesz, s.memsz, s.paddr, s.offset} \subseteq Nat
                         /\ s.filesz <= s.memsz
                         /\ s.memsz = 0 => s.paddr % SECTSIZE = 0

VARIABLES step,    \* what load_kernel does next
          loaded,  \* the segments loaded so far
          memory   \* what each byte of memory holds

loaderVars == <<step, loaded, memory>>

(* A byte of the disk is named by its place: the boot sector, the argument,  *)
(* the program's file. 0 is a byte that was cleared, Stale one that nobody   *)
(* has written.                                                              *)
Image(offset) == SECTSIZE + ARGSIZE + offset
Stale == -1

SectorsThrough(from, to) ==
  {a \in 0 .. MemoryBytes - 1 : a >= from /\ a - (a % SECTSIZE) < to}

copy_unaligned(buf, nbytes, disk_offset) ==
  LET sect == disk_offset \div SECTSIZE + ARGSIZE \div SECTSIZE + 1
  IN  [a \in DOMAIN memory |->
         IF a \in SectorsThrough(buf, buf + nbytes)
         THEN sect * SECTSIZE + (a - buf) ELSE memory[a]]

(* copy_from_disk: sectors from the one with disk_offset on, to the memory   *)
(* from the sector of buf on, as long as the sector begins before the end.   *)
copy_from_disk(buf, nbytes, disk_offset) ==
  LET cur == buf - (buf % SECTSIZE)
      sect == disk_offset \div SECTSIZE + ARGSIZE \div SECTSIZE + 1
  IN  [a \in DOMAIN memory |->
         IF a \in SectorsThrough(cur, buf + nbytes)
         THEN sect * SECTSIZE + (a - cur) ELSE memory[a]]

load_program(s) ==
  LET copied == copy_from_disk(s.paddr, s.filesz, s.offset)
  IN  [a \in DOMAIN memory |-> IF a \in s.paddr + s.filesz .. s.paddr + s.memsz - 1
                               THEN 0 ELSE copied[a]]

LoaderInit ==
  /\ step = "argument"
  /\ loaded = <<>>
  /\ memory = [a \in 0 .. MemoryBytes - 1 |-> Stale]

load_argument ==
  /\ step = "argument"
  /\ memory' = copy_from_disk(MAINARG_ADDR, ARGSIZE, -ARGSIZE)
  /\ step' = "header"
  /\ UNCHANGED loaded

load_header ==
  /\ step = "header"
  /\ memory' = copy_from_disk(HeaderAddr, HeaderSize, 0)
  /\ step' = "segments"
  /\ UNCHANGED loaded

(* What a linker makes: address and offset of a segment agree within a       *)
(* sector, and no two segments touch the same sector, nor one the argument   *)
(* or the header.                                                            *)
Sectors(s) == {a \div SECTSIZE : a \in s.paddr .. s.paddr + s.memsz - 1}
AsLinked(s) ==
  /\ s.paddr % SECTSIZE = s.offset % SECTSIZE
  /\ s.paddr + s.memsz <= MemoryBytes
  /\ \A t \in {loaded[n] : n \in DOMAIN loaded} \cup
              {[paddr |-> MAINARG_ADDR, memsz |-> ARGSIZE],
               [paddr |-> HeaderAddr, memsz |-> HeaderSize]} :
       Sectors(s) \cap Sectors(t) = {}

(* load_elf32, load_elf64: the headers of the file in their order.           *)
load_elf(s) ==
  /\ step = "segments" /\ Len(loaded) < MaxSegments
  /\ AsLinked(s)
  /\ memory' = load_program(s)
  /\ loaded' = Append(loaded, s)
  /\ UNCHANGED step

LoaderNext == load_argument \/ load_header \/ \E s \in Segments : load_elf(s)

LoaderSpec == LoaderInit /\ [][LoaderNext]_loaderVars
-----------------------------------------------------------------------------
(* All that is loaded so far is in place: the argument and the header byte   *)
(* for byte, of each segment the part in the file, and its other part clear, *)
(* although whole sectors were written around it (main.c:26).                *)
SegmentsInPlace ==
  /\ step # "argument" =>
       \A i \in 0 .. ARGSIZE - 1 : memory[MAINARG_ADDR + i] = Image(i - ARGSIZE)
  /\ step = "segments" =>
       \A i \in 0 .. HeaderSize - 1 : memory[HeaderAddr + i] = Image(i)
  /\ \A n \in DOMAIN loaded :
       LET s == loaded[n] IN
       /\ \A i \in 0 .. s.filesz - 1 : memory[s.paddr + i] = Image(s.offset + i)
       /\ \A i \in s.filesz .. s.memsz - 1 : memory[s.paddr + i] = 0
=============================================================================
