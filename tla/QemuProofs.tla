------------------------------ MODULE QemuProofs -----------------------------
(***************************************************************************)
(* Proofs about the x86 platform: processors boot and halt safely, for any *)
(* number of processors and any number of halts; user code runs in its own *)
(* space and over its own kernel stack, and at most two frames nest, for   *)
(* any number of threads of the kernel and of users; the boot loader puts  *)
(* every segment of a program into place, for any size of sectors; the     *)
(* page tables are sound and implement the address spaces of am.h, for any *)
(* number of levels, entries, frames, pages and spaces; and the drivers of *)
(* the clock, the disk and the keyboard do what they are called for, for   *)
(* any size of the disk, any keys and any length of minutes and hours.     *)
(***************************************************************************)
EXTENDS QemuBoot, Traps, Loader, PageTables, QemuDevices, SequenceTheorems,
        FiniteSetTheorems, FunctionTheorems, WellFoundedInduction, TLAPS

-----------------------------------------------------------------------------
(* Boot and halt (QemuBoot).                                                 *)

jmp_code == boot_record.jmp_code

\* Between the boot loader and the program: the part of the code that uses
\* the storage all processors share.
OnTheWay == {"loader", "start", "set_gdt", "lgdt", "select IRQ_KBD", "write IRQ_KBD",
            "select IRQ_COM1", "write IRQ_COM1"}
Behind == {"ready", "main", "bootap", "await", "entry"}
Halting == {"stop the world", "hlt", "stopped"}
LinesSet == \A line \in Lines : ioapic.table[line] = line

BootTypes ==
  /\ pc \in [Cpu -> OnTheWay \cup Behind \cup Halting \cup {"off"}]
  /\ boot_record \in [jmp_code : {NULL, "jmp loader", "jmp ."}, is_ap : BOOLEAN]
  /\ ipi \subseteq Cpu
  /\ next \in [Cpu -> Nat] /\ (pc[0] = "bootap" => next[0] < Ncpu)
  /\ ap_ready \in BOOLEAN /\ power \in BOOLEAN
  /\ gdtr \in [Cpu -> Nat]
  /\ ioapic \in [reg : Lines \cup {NULL}, table : [Lines -> Lines \cup {"disabled"}]]

\* While the boot record is empty only the bootstrap processor runs.
Alone ==
  jmp_code = NULL =>
    /\ pc[0] \in OnTheWay \cup {"main"}
    /\ \A c \in Cpu \ {0} : pc[c] = "off"
    /\ ipi = {} /\ ~ap_ready /\ ~boot_record.is_ap /\ power

\* While it leads to the boot loader, the processors from the one that is
\* started on are off or, this one alone, on their way.
Starting ==
  jmp_code = "jmp loader" =>
    /\ pc[0] \in {"bootap", "await", "entry"} /\ 0 \notin ipi /\ power
    /\ \A c \in Cpu \ {0} : pc[c] \in OnTheWay \cup {"ready", "entry", "off"}
    /\ pc[0] \in {"bootap", "entry"} =>
         ipi = {} /\ ~ap_ready /\ \A c \in Cpu \ {0} : pc[c] \in {"off", "entry"}
    /\ pc[0] = "bootap" => next[0] # 0 /\ \A c \in Cpu : c >= next[0] => pc[c] = "off"
    /\ pc[0] = "await" =>
         /\ boot_record.is_ap /\ next[0] # 0
         /\ \A c \in Cpu \ {0, next[0]} : pc[c] \in {"off", "entry"} /\ c \notin ipi
         /\ \A c \in Cpu : c > next[0] => pc[c] = "off"
         /\ next[0] \in ipi => pc[next[0]] = "off" /\ ~ap_ready
         /\ ap_ready => pc[next[0]] = "entry"

\* Later the bootstrap processor is through with its own boot, and nobody
\* boots who is not marked as one of the others.
Through ==
  jmp_code # NULL =>
    /\ pc[0] \in {"bootap", "await", "entry"} \cup Halting
    /\ \A c \in Cpu \ {0} : pc[c] \notin {"main", "bootap", "await"}
    /\ LinesSet
OneAtATime ==
  /\ \A c, d \in Cpu : pc[c] \in OnTheWay /\ pc[d] \in OnTheWay => c = d
  /\ \A c \in Cpu \ {0} : pc[c] \in OnTheWay => boot_record.is_ap

\* What a processor has set up by the time it is at a place of its boot.
SetUp(c) ==
  /\ pc[c] = "lgdt" => gdt_data = c
  /\ pc[c] \in Behind \cup {"select IRQ_KBD", "write IRQ_KBD", "select IRQ_COM1", "write IRQ_COM1"} =>
       gdtr[c] = c
  /\ pc[c] = "write IRQ_KBD" => ioapic.reg = "IRQ_KBD"
  /\ pc[c] = "write IRQ_COM1" => ioapic.reg = "IRQ_COM1"
  /\ pc[c] \in {"select IRQ_COM1", "write IRQ_COM1"} => ioapic.table["IRQ_KBD"] = "IRQ_KBD"
  /\ pc[c] = "main" => LinesSet
SetUpSoFar == \A c \in Cpu : SetUp(c)

LoadedByOne == loads = IF pc[0] = "loader" THEN 0 ELSE 1

\* Whom a halting processor has dealt with is stopped, or will be.
StoppedSoFar ==
  /\ \A c, d \in Cpu : pc[c] = "stop the world" /\ d < next[c] /\ d # c => d \in ipi \/ pc[d] = "stopped"
  /\ ~power => \A c \in Cpu \ ipi : pc[c] \in {"hlt", "stopped"}

BootInv ==
  /\ BootTypes /\ Alone /\ Starting /\ Through /\ OneAtATime
  /\ SetUpSoFar /\ LoadedByOne /\ StoppedSoFar
-----------------------------------------------------------------------------
\* The processors are the numbers below the count.
LEMMA CpuFacts ==
  /\ 0 \in Cpu /\ \A c \in Cpu : c \in Nat /\ c < Ncpu
  /\ \A n \in Nat : n < Ncpu => n \in Cpu
BY QemuBootAssumption DEF Cpu

\* What is used of the order of their numbers.
LEMMA Numbered ==
  /\ \A c, d \in Cpu : d > c => d # c
  /\ \A n \in Nat : n + 1 \in Nat /\ n + 1 # 0
  /\ \A n \in Nat, c \in Cpu : (c > n => c >= n /\ c # 0) /\ c >= c /\ (c >= n + 1 => c > n)
  /\ \A n \in Nat, c \in Cpu : c >= n /\ n # 0 => c # 0
BY QemuBootAssumption DEF Cpu

\* The places are different strings, the sets of them disjoint.
LEMMA Places ==
  /\ OnTheWay \cap (Behind \cup Halting \cup {"off"}) = {}
  /\ Behind \cap (Halting \cup {"off"}) = {}
BY DEF OnTheWay, Behind, Halting

\* While the boot record leads to the loader, whoever boots is the processor
\* that the bootstrap processor waits for.
LEMMA WhoBoots ==
  ASSUME BootInv, NEW c \in Cpu, pc[c] \in OnTheWay, jmp_code = "jmp loader"
  PROVE  c # 0 /\ pc[0] = "await" /\ c = next[0] /\ ~ap_ready /\ c \notin ipi
<1>1. c # 0
  BY CpuFacts, Places DEF BootInv, Starting, Behind
<1>2. pc[0] = "await"
  BY <1>1, CpuFacts, Places DEF BootInv, Starting, Behind
<1>3. c = next[0]
  BY <1>1, <1>2, Places DEF BootInv, Starting, Behind
<1>4. ~ap_ready /\ c \notin ipi
  BY <1>2, <1>3, Places DEF BootInv, Starting, Behind
<1>5. QED
  BY <1>1, <1>2, <1>3, <1>4

\* A step of a processor within its boot keeps what is said of all places.
LEMMA BootingMoves ==
  ASSUME BootInv, NEW c \in Cpu, pc[c] \in OnTheWay,
         NEW place \in OnTheWay, place # "loader",
         pc' = [pc EXCEPT ![c] = place],
         UNCHANGED <<boot_record, ipi, next, ap_ready, power>>
  PROVE  Starting' /\ OneAtATime'
<1>1. pc'[c] = place /\ \A d \in Cpu \ {c} : pc'[d] = pc[d]
  BY DEF BootInv, BootTypes
<1>2. jmp_code' = jmp_code /\ next'[0] = next[0]
  BY DEF jmp_code
<1>3. Starting'
  <2> SUFFICES ASSUME jmp_code = "jmp loader"
               PROVE  Starting'
    BY <1>2 DEF Starting
  <2>1. c # 0 /\ pc'[0] = "await" /\ pc[0] = "await" /\ c = next[0] /\ ~ap_ready /\ c \notin ipi
    BY <1>1, WhoBoots, CpuFacts
  <2>2. \A d \in Cpu : d > next[0] => d # c
    BY <2>1, Numbered
  <2>3. \A d \in Cpu \ {0} : pc'[d] \in OnTheWay \cup {"ready", "entry", "off"}
    BY <1>1, <1>2 DEF BootInv, Starting
  <2>4. \A d \in Cpu \ {0, next[0]} : pc'[d] \in {"off", "entry"} /\ d \notin ipi
    BY <1>1, <1>2, <2>1 DEF BootInv, Starting
  <2>5. \A d \in Cpu : d > next[0] => pc'[d] = "off"
    BY <1>1, <1>2, <2>1, <2>2 DEF BootInv, Starting
  <2>6. boot_record.is_ap /\ next[0] # 0 /\ 0 \notin ipi /\ power
    BY <1>2, <2>1 DEF BootInv, Starting
  <2>7. QED
    BY <1>2, <2>1, <2>3, <2>4, <2>5, <2>6 DEF Starting
<1>4. OneAtATime'
  BY <1>1 DEF BootInv, OneAtATime
<1>5. QED
  BY <1>3, <1>4

\* Whoever is woken then is that processor, and nobody boots.
LEMMA WhoIsWoken ==
  ASSUME BootInv, NEW c \in Cpu, c \in ipi, jmp_code = "jmp loader"
  PROVE  /\ c # 0 /\ pc[0] = "await" /\ c = next[0] /\ pc[c] = "off" /\ ~ap_ready
         /\ \A d \in Cpu : pc[d] \notin OnTheWay
<1>1. c # 0 /\ pc[0] = "await"
  BY CpuFacts DEF BootInv, Starting
<1>2. c = next[0]
  BY <1>1 DEF BootInv, Starting
<1>3. pc[c] = "off" /\ ~ap_ready
  BY <1>1, <1>2 DEF BootInv, Starting
<1>4. \A d \in Cpu : pc[d] \notin OnTheWay
  BY <1>2, <1>3, WhoBoots, Places
<1>5. QED
  BY <1>1, <1>2, <1>3, <1>4

\* A processor that neither stops nor is told to leaves alone what is said of
\* those that have been told to (trm.c:43).
LEMMA StoppedKept ==
  ASSUME BootInv, NEW c \in Cpu,
         pc[c] \notin {"hlt", "stopped"}, pc'[c] # "stop the world",
         \A d \in Cpu \ {c} : pc'[d] = pc[d] /\ next'[d] = next[d],
         ipi \subseteq ipi', power' = power
  PROVE  StoppedSoFar'
<1>1. StoppedSoFar
  BY DEF BootInv
<1>2. ASSUME NEW a \in Cpu, NEW d \in Cpu, pc'[a] = "stop the world", d < next'[a], d # a
      PROVE  d \in ipi' \/ pc'[d] = "stopped"
  <2>1. a # c /\ pc[a] = "stop the world" /\ d < next[a]
    BY <1>2
  <2>2. d \in ipi \/ pc[d] = "stopped"
    BY <1>1, <1>2, <2>1 DEF StoppedSoFar
  <2>3. QED
    BY <2>2
<1>3. ASSUME ~power', NEW d \in Cpu \ ipi'
      PROVE  pc'[d] \in {"hlt", "stopped"}
  <2>1. pc[d] \in {"hlt", "stopped"}
    BY <1>1, <1>3 DEF StoppedSoFar
  <2>2. QED
    BY <2>1
<1>4. QED
  BY <1>2, <1>3 DEF StoppedSoFar

\* While a processor boots, no other one is at a place where it relies on the
\* storage they share (x86.h:293, ioe.c:451).
LEMMA OthersSetUp ==
  ASSUME BootInv, NEW c \in Cpu, pc[c] \in OnTheWay, NEW d \in Cpu, d # c,
         pc'[d] = pc[d], gdtr'[d] = gdtr[d]
  PROVE  SetUp(d)'
<1>1. pc[d] \notin OnTheWay
  BY DEF BootInv, OneAtATime
<1>2. pc[d] # "main"
  <2>1. CASE jmp_code = NULL
    BY <2>1, CpuFacts, Places DEF BootInv, Alone
  <2>2. CASE jmp_code # NULL
    BY <2>2, CpuFacts DEF BootInv, Through, Halting
  <2>3. QED
    BY <2>1, <2>2
<1>3. pc[d] \in Behind => gdtr[d] = d
  BY DEF BootInv, SetUpSoFar, SetUp
<1>4. QED
  BY <1>1, <1>2, <1>3 DEF SetUp, OnTheWay

\* The machine is switched on with the bootstrap processor at the boot loader.
LEMMA BootStarts == BootInit => BootInv
<1> SUFFICES ASSUME BootInit
             PROVE  BootInv
  OBVIOUS
<1>1. pc[0] = "loader" /\ \A c \in Cpu \ {0} : pc[c] = "off"
  BY CpuFacts DEF BootInit
<1>2. BootTypes
  BY CpuFacts, QemuBootAssumption DEF BootInit, NoTable, BootTypes, OnTheWay,
                                      Behind, Halting, NULL, Lines
<1>3. Alone /\ Starting /\ Through /\ LoadedByOne
  BY <1>1, CpuFacts DEF BootInit, Alone, Starting, Through, LoadedByOne, jmp_code,
                        NULL, OnTheWay
<1>4. OneAtATime /\ SetUpSoFar /\ StoppedSoFar
  BY <1>1, CpuFacts DEF BootInit, OneAtATime, SetUpSoFar, SetUp, StoppedSoFar, OnTheWay,
                        Behind
<1>5. QED
  BY <1>2, <1>3, <1>4 DEF BootInv

\* A processor that INIT and STARTUP reach boots alone, or halts (boot/main.c).
LEMMA WakeKeeps ==
  ASSUME BootInv, NEW c \in Cpu, Wake(c)
  PROVE  BootInv'
<1>1. /\ pc'[c] = (IF boot_record.jmp_code = "jmp loader" THEN "loader" ELSE "stopped")
      /\ \A d \in Cpu \ {c} : pc'[d] = pc[d]
  BY CpuFacts DEF BootInv, BootTypes, Wake, Goto
<1>2. BootTypes'
  BY <1>1, CpuFacts DEF BootInv, BootTypes, OnTheWay, Behind, Halting, Lines, NULL,
                        Goto, Wake
<1>3. Alone'
  BY <1>1, CpuFacts DEF BootInv, BootTypes, Alone, Starting, Through, jmp_code,
                        OnTheWay, Behind, Halting, NULL, Goto, Wake
<1>4. Starting'
  <2> SUFFICES ASSUME jmp_code = "jmp loader"
               PROVE  Starting'
    BY DEF Starting, Wake, jmp_code
  <2>1. /\ c # 0 /\ pc[0] = "await" /\ c = next[0] /\ ~ap_ready
        /\ \A d \in Cpu : pc[d] \notin OnTheWay
    BY WhoIsWoken DEF Wake
  <2>2. pc'[0] = "await" /\ pc'[c] = "loader" /\ ipi' = ipi \ {c} /\ jmp_code' = "jmp loader"
    BY <1>1, <2>1, CpuFacts DEF Wake, jmp_code
  <2>3. UNCHANGED <<boot_record, next, ap_ready, power>>
    BY DEF Wake
  <2>4. \A d \in Cpu : d > next[0] => d # c
    BY <2>1, Numbered
  <2>5. \A d \in Cpu : d > next[0] => pc'[d] = "off"
    BY <1>1, <2>1, <2>4 DEF BootInv, Starting
  <2>6. \A d \in Cpu \ {0, next[0]} : pc'[d] \in {"off", "entry"} /\ d \notin ipi'
    BY <1>1, <2>1, <2>2 DEF BootInv, Starting
  <2>7. /\ \A d \in Cpu \ {0} : pc'[d] \in OnTheWay \cup {"ready", "entry", "off"}
        /\ 0 \notin ipi' /\ power /\ boot_record.is_ap /\ next[0] # 0
    BY <1>1, <2>1, <2>2 DEF BootInv, Starting, OnTheWay
  <2>8. QED
    BY <2>1, <2>2, <2>3, <2>5, <2>6, <2>7 DEF Starting
<1>5. Through'
  <2>1. CASE jmp_code = "jmp loader"
    BY <1>1, <2>1, WhoIsWoken, CpuFacts DEF BootInv, Through, Wake, LinesSet,
                                            jmp_code
  <2>2. CASE jmp_code # "jmp loader"
    BY <1>1, <2>2, CpuFacts DEF BootInv, Through, Wake, LinesSet, jmp_code, Halting
  <2>3. QED
    BY <2>1, <2>2
<1>6. OneAtATime'
  <2>1. CASE jmp_code = "jmp loader"
    <3>1. \A d \in Cpu \ {c} : pc'[d] \notin OnTheWay
      BY <1>1, <2>1, WhoIsWoken DEF Wake
    <3>2. boot_record.is_ap /\ boot_record' = boot_record
      BY <2>1, WhoIsWoken DEF BootInv, Starting, Wake
    <3>3. QED
      BY <3>1, <3>2 DEF OneAtATime
  <2>2. CASE jmp_code # "jmp loader"
    BY <1>1, <2>2 DEF BootInv, OneAtATime, Wake, OnTheWay, jmp_code
  <2>3. QED
    BY <2>1, <2>2
<1>7. SetUpSoFar'
  BY <1>1, CpuFacts DEF BootInv, BootTypes, Alone, Through, OneAtATime, SetUpSoFar, SetUp,
                        jmp_code, OnTheWay, Behind, Halting, LinesSet, Lines, NULL,
                        Goto, Wake
<1>8. LoadedByOne'
  <2>1. CASE jmp_code = "jmp loader"
    <3>1. c # 0 /\ pc'[0] = pc[0] /\ loads' = loads
      BY <1>1, <2>1, WhoIsWoken, CpuFacts DEF Wake
    <3>2. QED
      BY <3>1 DEF BootInv, LoadedByOne
  <2>2. CASE jmp_code # "jmp loader"
    <3>1. jmp_code # NULL
      BY DEF BootInv, Alone, Wake
    <3>2. pc[0] # "loader"
      BY <3>1 DEF BootInv, Through, Halting
    <3>3. pc'[0] # "loader" /\ loads' = loads
      BY <1>1, <2>2, <3>2, CpuFacts DEF Wake, jmp_code
    <3>4. QED
      BY <3>2, <3>3 DEF BootInv, LoadedByOne
  <2>3. QED
    BY <2>1, <2>2
<1>9. StoppedSoFar'
  <2>1. CASE jmp_code = "jmp loader"
    <3>1. pc[c] = "off" /\ pc'[c] = "loader" /\ power
      BY <1>1, <2>1, WhoIsWoken DEF BootInv, Starting, Wake, jmp_code
    <3>2. next' = next /\ ipi' = ipi \ {c} /\ power' = power
      BY DEF Wake
    <3>3. \A a \in Cpu : pc[a] # "stop the world"
      BY <2>1, CpuFacts DEF BootInv, Starting, OnTheWay
    <3>4. QED
      BY <1>1, <3>1, <3>2, <3>3 DEF StoppedSoFar
  <2>2. CASE jmp_code # "jmp loader"
    <3>1. pc'[c] = "stopped" /\ next' = next /\ ipi' = ipi \ {c} /\ power' = power
      BY <1>1, <2>2 DEF Wake, jmp_code
    <3>2. QED
      BY <1>1, <3>1 DEF BootInv, StoppedSoFar
  <2>3. QED
    BY <2>1, <2>2
<1>10. QED
  BY <1>2, <1>3, <1>4, <1>5, <1>6, <1>7, <1>8, <1>9 DEF BootInv

\* load_kernel reads the program once, before any other processor runs (boot/main.c:71).
LEMMA LoadKernelKeeps ==
  ASSUME BootInv, NEW c \in Cpu, load_kernel(c)
  PROVE  BootInv'
<1>1. /\ pc'[c] = ("start")
      /\ \A d \in Cpu \ {c} : pc'[d] = pc[d]
  BY CpuFacts DEF BootInv, BootTypes, load_kernel, Goto
<1>2. BootTypes'
  BY <1>1, CpuFacts DEF BootInv, BootTypes, OnTheWay, Behind, Halting, Lines, NULL,
                        Goto, load_kernel
<1>3. Alone'
  BY <1>1, CpuFacts DEF BootInv, BootTypes, Alone, Starting, Through, jmp_code,
                        OnTheWay, Behind, Halting, NULL, Goto, load_kernel
<1>4. Starting' /\ OneAtATime'
  BY BootingMoves DEF load_kernel, Goto, OnTheWay
<1>5. Through'
  BY <1>1, CpuFacts DEF BootInv, BootTypes, Alone, Through, SetUpSoFar, SetUp, jmp_code,
                        OnTheWay, Behind, Halting, LinesSet, Lines, NULL, Goto,
                        load_kernel
<1>6. SetUpSoFar'
  BY <1>1, CpuFacts DEF BootInv, BootTypes, Alone, Through, OneAtATime, SetUpSoFar, SetUp,
                        jmp_code, OnTheWay, Behind, Halting, LinesSet, Lines, NULL,
                        Goto, load_kernel
<1>7. LoadedByOne'
  <2>1. CASE c = 0
    <3>1. jmp_code = NULL
      BY <2>1 DEF BootInv, Through, Halting, load_kernel
    <3>2. loads' = 1
      BY <2>1, <3>1 DEF BootInv, Alone, LoadedByOne, load_kernel
    <3>3. QED
      BY <1>1, <2>1, <3>2 DEF LoadedByOne
  <2>2. CASE c # 0
    <3>1. boot_record.is_ap
      BY <2>2 DEF BootInv, OneAtATime, load_kernel, OnTheWay
    <3>2. loads' = loads /\ pc'[0] = pc[0]
      BY <1>1, <2>2, <3>1, CpuFacts DEF load_kernel
    <3>3. QED
      BY <3>2 DEF BootInv, LoadedByOne
  <2>3. QED
    BY <2>1, <2>2
<1>8. StoppedSoFar'
  <2>1. pc[c] \notin {"hlt", "stopped"} /\ pc'[c] # "stop the world"
    BY <1>1 DEF load_kernel
  <2>2. next' = next /\ ipi' = ipi /\ power' = power
    BY DEF load_kernel
  <2>3. QED
    BY <1>1, <2>1, <2>2, StoppedKept
<1>9. QED
  BY <1>2, <1>3, <1>4, <1>5, <1>6, <1>7, <1>8 DEF BootInv

\* _start_c masks the interrupt lines only before they are set up (trm.c, ioe.c).
LEMMA StartKeeps ==
  ASSUME BootInv, NEW c \in Cpu, _start_c(c)
  PROVE  BootInv'
<1>1. /\ pc'[c] = ("set_gdt")
      /\ \A d \in Cpu \ {c} : pc'[d] = pc[d]
  BY CpuFacts DEF BootInv, BootTypes, _start_c, Goto
<1>2. BootTypes'
  BY <1>1, CpuFacts DEF BootInv, BootTypes, OnTheWay, Behind, Halting, Lines, NULL,
                        Goto, _start_c
<1>3. Alone'
  BY <1>1, CpuFacts DEF BootInv, BootTypes, Alone, Starting, Through, jmp_code,
                        OnTheWay, Behind, Halting, NULL, Goto, _start_c
<1>4. Starting' /\ OneAtATime'
  BY BootingMoves DEF _start_c, Goto, OnTheWay
<1>5. Through'
  <2> SUFFICES ASSUME jmp_code # NULL
               PROVE  Through'
    BY DEF Through, _start_c, jmp_code
  <2>1. c # 0
    BY DEF BootInv, Through, Halting, _start_c
  <2>2. boot_record.is_ap
    BY <2>1 DEF BootInv, OneAtATime, _start_c, OnTheWay
  <2>3. ioapic' = ioapic /\ boot_record' = boot_record
    BY <2>2 DEF _start_c
  <2>4. QED
    BY <1>1, <2>1, <2>3, CpuFacts DEF BootInv, Through, LinesSet, jmp_code
<1>6. SetUpSoFar'
  <2>1. pc[c] \in OnTheWay
    BY DEF _start_c, OnTheWay, Lines
  <2>2. \A d \in Cpu \ {c} : SetUp(d)'
    <3>1. \A d \in Cpu \ {c} : gdtr'[d] = gdtr[d]
      BY DEF _start_c
    <3>2. QED
      BY <1>1, <2>1, <3>1, OthersSetUp
  <2>3. SetUp(c)'
    BY <1>1 DEF SetUp, Behind
  <2>4. QED
    BY <2>2, <2>3 DEF SetUpSoFar
<1>7. LoadedByOne'
  BY <1>1, CpuFacts DEF BootInv, BootTypes, Alone, Starting, Through, OneAtATime,
                        LoadedByOne, jmp_code, OnTheWay, Behind, Halting, NULL,
                        Goto, _start_c
<1>8. StoppedSoFar'
  <2>1. pc[c] \notin {"hlt", "stopped"} /\ pc'[c] # "stop the world"
    BY <1>1 DEF _start_c
  <2>2. next' = next /\ ipi' = ipi /\ power' = power
    BY DEF _start_c
  <2>3. QED
    BY <1>1, <2>1, <2>2, StoppedKept
<1>9. QED
  BY <1>2, <1>3, <1>4, <1>5, <1>6, <1>7, <1>8 DEF BootInv

\* The operand of lgdt is the descriptor table of the processor that boots (x86.h:293).
LEMMA SetGdtKeeps ==
  ASSUME BootInv, NEW c \in Cpu, set_gdt(c)
  PROVE  BootInv'
<1>1. /\ pc'[c] = ("lgdt")
      /\ \A d \in Cpu \ {c} : pc'[d] = pc[d]
  BY CpuFacts DEF BootInv, BootTypes, set_gdt, Goto
<1>2. BootTypes'
  BY <1>1, CpuFacts DEF BootInv, BootTypes, OnTheWay, Behind, Halting, Lines, NULL,
                        Goto, set_gdt
<1>3. Alone'
  BY <1>1, CpuFacts DEF BootInv, BootTypes, Alone, Starting, Through, jmp_code,
                        OnTheWay, Behind, Halting, NULL, Goto, set_gdt
<1>4. Starting' /\ OneAtATime'
  BY BootingMoves DEF set_gdt, Goto, OnTheWay
<1>5. Through'
  BY <1>1, CpuFacts DEF BootInv, BootTypes, Alone, Through, SetUpSoFar, SetUp, jmp_code,
                        OnTheWay, Behind, Halting, LinesSet, Lines, NULL, Goto,
                        set_gdt
<1>6. SetUpSoFar'
  <2>1. gdt_data' = c /\ UNCHANGED <<gdtr, ioapic>>
    BY DEF set_gdt
  <2>2. \A d \in Cpu : SetUp(d)
    BY DEF BootInv, SetUpSoFar
  <2>3. SetUp(c)'
    BY <1>1, <2>1 DEF SetUp, Behind
  <2>4. ASSUME NEW d \in Cpu \ {c}  PROVE SetUp(d)'
    <3>1. pc'[d] = pc[d] /\ pc[d] # "lgdt"
      BY <1>1 DEF BootInv, OneAtATime, OnTheWay, set_gdt
    <3>2. SetUp(d)
      BY <2>2
    <3>3. QED  BY <2>1, <3>1, <3>2 DEF SetUp, LinesSet
  <2>5. QED  BY <2>3, <2>4 DEF SetUpSoFar
<1>7. LoadedByOne'
  BY <1>1, CpuFacts DEF BootInv, BootTypes, Alone, Starting, Through, OneAtATime,
                        LoadedByOne, jmp_code, OnTheWay, Behind, Halting, NULL,
                        Goto, set_gdt
<1>8. StoppedSoFar'
  <2>1. pc[c] \notin {"hlt", "stopped"} /\ pc'[c] # "stop the world"
    BY <1>1 DEF set_gdt
  <2>2. next' = next /\ ipi' = ipi /\ power' = power
    BY DEF set_gdt
  <2>3. QED
    BY <1>1, <2>1, <2>2, StoppedKept
<1>9. QED
  BY <1>2, <1>3, <1>4, <1>5, <1>6, <1>7, <1>8 DEF BootInv

\* Between set_gdt's store and lgdt nobody else changes the operand (x86.h:293).
LEMMA LgdtKeeps ==
  ASSUME BootInv, NEW c \in Cpu, lgdt(c)
  PROVE  BootInv'
<1>1. /\ pc'[c] = ("select IRQ_KBD")
      /\ \A d \in Cpu \ {c} : pc'[d] = pc[d]
  BY CpuFacts DEF BootInv, BootTypes, lgdt, Goto
<1>2. BootTypes'
  <2>1. gdt_data = c
    BY DEF BootInv, SetUpSoFar, SetUp, lgdt
  <2>2. gdtr' \in [Cpu -> Nat]
    BY <2>1, CpuFacts DEF BootInv, BootTypes, lgdt
  <2>3. QED
    BY <2>2, CpuFacts DEF BootInv, BootTypes, lgdt, OnTheWay, Behind, Goto
<1>3. Alone'
  BY <1>1, CpuFacts DEF BootInv, BootTypes, Alone, Starting, Through, jmp_code,
                        OnTheWay, Behind, Halting, NULL, Goto, lgdt
<1>4. Starting' /\ OneAtATime'
  BY BootingMoves DEF lgdt, Goto, OnTheWay
<1>5. Through'
  BY <1>1, CpuFacts DEF BootInv, BootTypes, Alone, Through, SetUpSoFar, SetUp, jmp_code,
                        OnTheWay, Behind, Halting, LinesSet, Lines, NULL, Goto, lgdt
<1>6. SetUpSoFar'
  <2>1. pc[c] \in OnTheWay
    BY DEF lgdt, OnTheWay, Lines
  <2>2. \A d \in Cpu \ {c} : SetUp(d)'
    <3>1. \A d \in Cpu \ {c} : gdtr'[d] = gdtr[d]
      BY DEF BootInv, BootTypes, lgdt
    <3>2. QED
      BY <1>1, <2>1, <3>1, OthersSetUp
  <2>3. gdtr'[c] = c
    BY DEF BootInv, BootTypes, SetUpSoFar, SetUp, lgdt
  <2>4. SetUp(c)'
    BY <1>1, <2>3 DEF SetUp
  <2>5. QED
    BY <2>2, <2>4 DEF SetUpSoFar
<1>7. LoadedByOne'
  BY <1>1, CpuFacts DEF BootInv, BootTypes, Alone, Starting, Through, OneAtATime,
                        LoadedByOne, jmp_code, OnTheWay, Behind, Halting, NULL,
                        Goto, lgdt
<1>8. StoppedSoFar'
  <2>1. pc[c] \notin {"hlt", "stopped"} /\ pc'[c] # "stop the world"
    BY <1>1 DEF lgdt
  <2>2. next' = next /\ ipi' = ipi /\ power' = power
    BY DEF lgdt
  <2>3. QED
    BY <1>1, <2>1, <2>2, StoppedKept
<1>9. QED
  BY <1>2, <1>3, <1>4, <1>5, <1>6, <1>7, <1>8 DEF BootInv

\* The ioapic's register is selected by one processor at a time (ioe.c:451).
LEMMA SelectKeeps ==
  ASSUME BootInv, NEW c \in Cpu, NEW line \in Lines, ioapic_select(c, line)
  PROVE  BootInv'
<1>1. /\ pc'[c] = (IF line = "IRQ_KBD" THEN "write IRQ_KBD" ELSE "write IRQ_COM1")
      /\ \A d \in Cpu \ {c} : pc'[d] = pc[d]
  BY CpuFacts DEF BootInv, BootTypes, ioapic_select, Goto
<1>2. BootTypes'
  BY <1>1, CpuFacts DEF BootInv, BootTypes, OnTheWay, Behind, Halting, Lines, NULL,
                        Goto, ioapic_select
<1>3. Alone'
  BY <1>1, CpuFacts DEF BootInv, BootTypes, Alone, Starting, Through, jmp_code,
                        OnTheWay, Behind, Halting, NULL, Goto, ioapic_select
<1>4. Starting' /\ OneAtATime'
  BY BootingMoves DEF ioapic_select, Goto, OnTheWay, Lines
<1>5. Through'
  BY <1>1, CpuFacts DEF BootInv, BootTypes, Alone, Through, SetUpSoFar, SetUp, jmp_code,
                        OnTheWay, Behind, Halting, LinesSet, Lines, NULL, Goto,
                        ioapic_select
<1>6. SetUpSoFar'
  <2>1. pc[c] \in OnTheWay
    BY DEF ioapic_select, OnTheWay, Lines
  <2>2. \A d \in Cpu \ {c} : SetUp(d)'
    <3>1. \A d \in Cpu \ {c} : gdtr'[d] = gdtr[d]
      BY DEF ioapic_select
    <3>2. QED
      BY <1>1, <2>1, <3>1, OthersSetUp
  <2>3. gdtr[c] = c /\ gdtr' = gdtr
    BY DEF BootInv, SetUpSoFar, SetUp, ioapic_select, Lines
  <2>4. ioapic'.reg = line /\ ioapic'.table = ioapic.table
    BY DEF BootInv, BootTypes, ioapic_select
  <2>5. line = "IRQ_COM1" => ioapic.table["IRQ_KBD"] = "IRQ_KBD"
    BY DEF BootInv, SetUpSoFar, SetUp, ioapic_select
  <2>6. SetUp(c)'
    BY <1>1, <2>3, <2>4, <2>5 DEF SetUp, Lines
  <2>7. QED
    BY <2>2, <2>6 DEF SetUpSoFar
<1>7. LoadedByOne'
  BY <1>1, CpuFacts DEF BootInv, BootTypes, Alone, Starting, Through, OneAtATime,
                        LoadedByOne, jmp_code, OnTheWay, Behind, Halting, NULL,
                        Goto, ioapic_select
<1>8. StoppedSoFar'
  <2>1. pc[c] \notin {"hlt", "stopped"} /\ pc'[c] # "stop the world"
    BY <1>1 DEF ioapic_select, Lines
  <2>2. next' = next /\ ipi' = ipi /\ power' = power
    BY DEF ioapic_select
  <2>3. QED
    BY <1>1, <2>1, <2>2, StoppedKept
<1>9. QED
  BY <1>2, <1>3, <1>4, <1>5, <1>6, <1>7, <1>8 DEF BootInv

\* The write goes to the entry that this processor has selected (ioe.c:451).
LEMMA WriteKeeps ==
  ASSUME BootInv, NEW c \in Cpu, NEW line \in Lines, ioapic_write(c, line)
  PROVE  BootInv'
<1>1. /\ pc'[c] = (IF line = "IRQ_KBD" THEN "select IRQ_COM1" ELSE IF c = 0 THEN "main" ELSE "ready")
      /\ \A d \in Cpu \ {c} : pc'[d] = pc[d]
  BY CpuFacts DEF BootInv, BootTypes, ioapic_write, Goto
<1>2. BootTypes'
  BY <1>1, CpuFacts DEF BootInv, BootTypes, OnTheWay, Behind, Halting, Lines, NULL,
                        Goto, ioapic_write
<1>3. Alone'
  BY <1>1, CpuFacts DEF BootInv, BootTypes, Alone, Starting, Through, jmp_code,
                        OnTheWay, Behind, Halting, NULL, Goto, ioapic_write
<1>4. Starting'
  <2> SUFFICES ASSUME jmp_code = "jmp loader"
               PROVE  Starting'
    BY DEF Starting, ioapic_write, jmp_code
  <2>1. pc[c] \in OnTheWay
    BY DEF ioapic_write, OnTheWay, Lines
  <2>2. c # 0 /\ pc[0] = "await" /\ c = next[0] /\ ~ap_ready /\ c \notin ipi
    BY <2>1, WhoBoots
  <2>3. pc'[0] = "await" /\ pc'[c] \in OnTheWay \cup {"ready"}
    BY <1>1, <2>2, CpuFacts DEF OnTheWay
  <2>4. UNCHANGED <<boot_record, ipi, next, ap_ready, power>>
    BY DEF ioapic_write
  <2>5. \A d \in Cpu : d > next[0] => pc'[d] = "off"
    <3>1. \A d \in Cpu : d > next[0] => d # c
      BY <2>2, Numbered
    <3>2. \A d \in Cpu : d > next[0] => pc[d] = "off"
      BY <2>2 DEF BootInv, Starting
    <3>3. QED
      BY <1>1, <3>1, <3>2
  <2>6. \A d \in Cpu \ {0, next[0]} : pc'[d] \in {"off", "entry"} /\ d \notin ipi
    BY <1>1, <2>2 DEF BootInv, Starting
  <2>7. \A d \in Cpu \ {0} : pc'[d] \in OnTheWay \cup {"ready", "entry", "off"}
    BY <1>1, <2>3 DEF BootInv, Starting
  <2>8. boot_record.is_ap /\ next[0] # 0 /\ 0 \notin ipi /\ power
    BY <2>2 DEF BootInv, Starting
  <2>9. QED
    BY <2>2, <2>3, <2>4, <2>5, <2>6, <2>7, <2>8 DEF Starting
<1>5. Through'
  BY <1>1, CpuFacts DEF BootInv, BootTypes, Alone, Through, SetUpSoFar, SetUp, jmp_code,
                        OnTheWay, Behind, Halting, LinesSet, Lines, NULL, Goto,
                        ioapic_write
<1>6. OneAtATime'
  <2>1. \A d \in Cpu \ {c} : pc'[d] \notin OnTheWay
    BY <1>1 DEF BootInv, OneAtATime, ioapic_write, OnTheWay, Lines
  <2>2. c # 0 => boot_record'.is_ap
    BY DEF BootInv, OneAtATime, ioapic_write, OnTheWay, Lines
  <2>3. QED
    BY <2>1, <2>2 DEF OneAtATime
<1>7. SetUpSoFar'
  <2>1. pc[c] \in OnTheWay
    BY DEF ioapic_write, OnTheWay, Lines
  <2>2. \A d \in Cpu \ {c} : SetUp(d)'
    <3>1. \A d \in Cpu \ {c} : gdtr'[d] = gdtr[d]
      BY DEF ioapic_write
    <3>2. QED
      BY <1>1, <2>1, <3>1, OthersSetUp
  <2>3. gdtr[c] = c /\ gdtr' = gdtr /\ ioapic.reg = line
    BY DEF BootInv, SetUpSoFar, SetUp, ioapic_write, Lines
  <2>4. /\ ioapic'.table[line] = line
        /\ \A l \in Lines \ {line} : ioapic'.table[l] = ioapic.table[l]
    BY <2>3 DEF BootInv, BootTypes, ioapic_write
  <2>5. line = "IRQ_COM1" => ioapic.table["IRQ_KBD"] = "IRQ_KBD"
    BY DEF BootInv, SetUpSoFar, SetUp, ioapic_write
  <2>6. line = "IRQ_COM1" => LinesSet'
    BY <2>4, <2>5 DEF LinesSet, Lines
  <2>7. SetUp(c)'
    BY <1>1, <2>3, <2>4, <2>6 DEF SetUp, Lines
  <2>8. QED
    BY <2>2, <2>7 DEF SetUpSoFar
<1>8. LoadedByOne'
  BY <1>1, CpuFacts DEF BootInv, BootTypes, Alone, Starting, Through, OneAtATime,
                        LoadedByOne, jmp_code, OnTheWay, Behind, Halting, NULL,
                        Goto, ioapic_write
<1>9. StoppedSoFar'
  <2>1. pc[c] \notin {"hlt", "stopped"} /\ pc'[c] # "stop the world"
    BY <1>1 DEF ioapic_write, Lines
  <2>2. next' = next /\ ipi' = ipi /\ power' = power
    BY DEF ioapic_write
  <2>3. QED
    BY <1>1, <2>1, <2>2, StoppedKept
<1>10. QED
  BY <1>2, <1>3, <1>4, <1>5, <1>6, <1>7, <1>8, <1>9 DEF BootInv

\* othercpu_entry tells the bootstrap processor who waits for it (mpe.c).
LEMMA SayReadyKeeps ==
  ASSUME BootInv, NEW c \in Cpu, SayReady(c)
  PROVE  BootInv'
<1>1. /\ pc'[c] = ("entry")
      /\ \A d \in Cpu \ {c} : pc'[d] = pc[d]
  BY CpuFacts DEF BootInv, BootTypes, SayReady, Goto
<1>2. BootTypes'
  BY <1>1, CpuFacts DEF BootInv, BootTypes, OnTheWay, Behind, Halting, Lines, NULL,
                        Goto, SayReady
<1>3. Alone'
  BY <1>1, CpuFacts DEF BootInv, BootTypes, Alone, Starting, Through, jmp_code,
                        OnTheWay, Behind, Halting, NULL, Goto, SayReady
<1>4. Starting'
  <2> SUFFICES ASSUME jmp_code = "jmp loader"
               PROVE  Starting'
    BY DEF Starting, SayReady, jmp_code
  <2>1. c # 0 /\ pc[c] = "ready"
    BY DEF BootInv, Starting, SayReady
  <2>2. pc[0] = "await"
    BY <2>1 DEF BootInv, Starting
  <2>3. c = next[0] /\ c \notin ipi
    BY <2>1, <2>2 DEF BootInv, Starting
  <2>4. pc'[0] = "await" /\ pc'[c] = "entry"
    BY <1>1, <2>1, <2>2, CpuFacts
  <2>5. UNCHANGED <<boot_record, ipi, next, power>>
    BY DEF SayReady
  <2>6. \A d \in Cpu : d > next[0] => pc'[d] = "off"
    <3>1. \A d \in Cpu : d > next[0] => d # c
      BY <2>3, Numbered
    <3>2. \A d \in Cpu : d > next[0] => pc[d] = "off"
      BY <2>2 DEF BootInv, Starting
    <3>3. QED
      BY <1>1, <3>1, <3>2
  <2>7. \A d \in Cpu \ {0, next[0]} : pc'[d] \in {"off", "entry"} /\ d \notin ipi
    BY <1>1, <2>2, <2>3 DEF BootInv, Starting
  <2>8. \A d \in Cpu \ {0} : pc'[d] \in OnTheWay \cup {"ready", "entry", "off"}
    BY <1>1, <2>4 DEF BootInv, Starting
  <2>9. boot_record.is_ap /\ next[0] # 0 /\ 0 \notin ipi /\ power
    BY <2>2 DEF BootInv, Starting
  <2>10. QED
    BY <2>3, <2>4, <2>5, <2>6, <2>7, <2>8, <2>9 DEF Starting
<1>5. Through'
  BY <1>1, CpuFacts DEF BootInv, BootTypes, Alone, Through, SetUpSoFar, SetUp, jmp_code,
                        OnTheWay, Behind, Halting, LinesSet, Lines, NULL, Goto,
                        SayReady
<1>6. OneAtATime'
  BY <1>1, CpuFacts DEF BootInv, BootTypes, Alone, Starting, Through, OneAtATime,
                        jmp_code, OnTheWay, Behind, Halting, NULL, Goto, SayReady
<1>7. SetUpSoFar'
  BY <1>1, CpuFacts DEF BootInv, BootTypes, Alone, Through, OneAtATime, SetUpSoFar, SetUp,
                        jmp_code, OnTheWay, Behind, Halting, LinesSet, Lines, NULL,
                        Goto, SayReady
<1>8. LoadedByOne'
  BY <1>1, CpuFacts DEF BootInv, BootTypes, Alone, Starting, Through, OneAtATime,
                        LoadedByOne, jmp_code, OnTheWay, Behind, Halting, NULL,
                        Goto, SayReady
<1>9. StoppedSoFar'
  <2>1. pc[c] \notin {"hlt", "stopped"} /\ pc'[c] # "stop the world"
    BY <1>1 DEF SayReady
  <2>2. next' = next /\ ipi' = ipi /\ power' = power
    BY DEF SayReady
  <2>3. QED
    BY <1>1, <2>1, <2>2, StoppedKept
<1>10. QED
  BY <1>2, <1>3, <1>4, <1>5, <1>6, <1>7, <1>8, <1>9 DEF BootInv

\* Each turn of __am_stop_the_world deals with one more processor (trm.c:43).
LEMMA StopTheWorldKeeps ==
  ASSUME BootInv, NEW c \in Cpu, __am_stop_the_world(c)
  PROVE  BootInv'
<1>1. BootTypes'
  <2>1. ipi' \subseteq Cpu
    BY CpuFacts DEF BootInv, BootTypes, __am_stop_the_world, OtherThan
  <2>2. next' \in [Cpu -> Nat]
    <3>1. next[c] + 1 \in Nat
      BY Numbered DEF BootInv, BootTypes
    <3>2. QED
      BY <3>1 DEF BootInv, BootTypes, __am_stop_the_world
  <2>3. pc[0] = "bootap" => next'[0] = next[0]
    BY CpuFacts DEF BootInv, BootTypes, __am_stop_the_world
  <2>4. QED
    BY <2>1, <2>2, <2>3 DEF BootInv, BootTypes, __am_stop_the_world
<1>2. Alone'
  BY CpuFacts DEF BootInv, BootTypes, Alone, Starting, Through, jmp_code, OnTheWay,
                  Behind, Halting, NULL, Goto, __am_stop_the_world, OtherThan
<1>3. Starting'
  BY CpuFacts DEF BootInv, BootTypes, Alone, Starting, Through, jmp_code, OnTheWay,
                  Behind, Halting, NULL, Goto, __am_stop_the_world, OtherThan
<1>4. Through'
  BY CpuFacts DEF BootInv, BootTypes, Alone, Through, SetUpSoFar, SetUp, jmp_code,
                  OnTheWay, Behind, Halting, LinesSet, Lines, NULL, Goto,
                  __am_stop_the_world, OtherThan
<1>5. OneAtATime'
  BY CpuFacts DEF BootInv, BootTypes, Alone, Starting, Through, OneAtATime,
                  jmp_code, OnTheWay, Behind, Halting, NULL, Goto,
                  __am_stop_the_world, OtherThan
<1>6. SetUpSoFar'
  BY CpuFacts DEF BootInv, BootTypes, Alone, Through, OneAtATime, SetUpSoFar, SetUp,
                  jmp_code, OnTheWay, Behind, Halting, LinesSet, Lines, NULL, Goto,
                  __am_stop_the_world, OtherThan
<1>7. LoadedByOne'
  BY CpuFacts DEF BootInv, BootTypes, Alone, Starting, Through, OneAtATime,
                  LoadedByOne, jmp_code, OnTheWay, Behind, Halting, NULL, Goto,
                  __am_stop_the_world, OtherThan
<1>8. StoppedSoFar'
  <2>1. ipi' = ipi \cup ({next[c]} \ {c}) /\ pc' = pc /\ power' = power
    BY DEF __am_stop_the_world, OtherThan
  <2>2. next'[c] = next[c] + 1 /\ \A d \in Cpu \ {c} : next'[d] = next[d]
    BY DEF BootInv, BootTypes, __am_stop_the_world
  <2>3. \A d \in Cpu : d < next[c] + 1 => d < next[c] \/ d = next[c]
    <3>1. next[c] \in Nat
      BY DEF BootInv, BootTypes
    <3>2. QED
      BY <3>1, CpuFacts
  <2>4. ASSUME NEW a \in Cpu, NEW d \in Cpu, pc'[a] = "stop the world", d < next'[a], d # a
        PROVE  d \in ipi' \/ pc'[d] = "stopped"
    <3>1. CASE a = c /\ d = next[c]
      BY <2>1, <2>4, <3>1
    <3>2. CASE a = c /\ d # next[c]
      BY <2>1, <2>2, <2>3, <2>4, <3>2 DEF BootInv, StoppedSoFar
    <3>3. CASE a # c
      BY <2>1, <2>2, <2>4, <3>3 DEF BootInv, StoppedSoFar
    <3>4. QED
      BY <3>1, <3>2, <3>3
  <2>5. QED
    BY <2>1, <2>4 DEF BootInv, StoppedSoFar
<1>9. QED
  BY <1>1, <1>2, <1>3, <1>4, <1>5, <1>6, <1>7, <1>8 DEF BootInv

\* The machine is switched off after the last turn (trm.c).
LEMMA PowerOffKeeps ==
  ASSUME BootInv, NEW c \in Cpu, PowerOff(c)
  PROVE  BootInv'
<1>1. /\ pc'[c] = ("hlt")
      /\ \A d \in Cpu \ {c} : pc'[d] = pc[d]
  BY CpuFacts DEF BootInv, BootTypes, PowerOff, Goto
<1>2. BootTypes'
  BY <1>1, CpuFacts DEF BootInv, BootTypes, OnTheWay, Behind, Halting, Lines, NULL,
                        Goto, PowerOff
<1>3. Alone'
  BY <1>1, CpuFacts DEF BootInv, BootTypes, Alone, Starting, Through, jmp_code,
                        OnTheWay, Behind, Halting, NULL, Goto, PowerOff
<1>4. Starting'
  BY <1>1, CpuFacts DEF BootInv, BootTypes, Alone, Starting, Through, jmp_code,
                        OnTheWay, Behind, Halting, NULL, Goto, PowerOff
<1>5. Through'
  BY <1>1, CpuFacts DEF BootInv, BootTypes, Alone, Through, SetUpSoFar, SetUp, jmp_code,
                        OnTheWay, Behind, Halting, LinesSet, Lines, NULL, Goto,
                        PowerOff
<1>6. OneAtATime'
  BY <1>1, CpuFacts DEF BootInv, BootTypes, Alone, Starting, Through, OneAtATime,
                        jmp_code, OnTheWay, Behind, Halting, NULL, Goto, PowerOff
<1>7. SetUpSoFar'
  BY <1>1, CpuFacts DEF BootInv, BootTypes, Alone, Through, OneAtATime, SetUpSoFar, SetUp,
                        jmp_code, OnTheWay, Behind, Halting, LinesSet, Lines, NULL,
                        Goto, PowerOff
<1>8. LoadedByOne'
  BY <1>1, CpuFacts DEF BootInv, BootTypes, Alone, Starting, Through, OneAtATime,
                        LoadedByOne, jmp_code, OnTheWay, Behind, Halting, NULL,
                        Goto, PowerOff
<1>9. StoppedSoFar'
  <2>1. pc[c] = "stop the world" /\ next[c] = Ncpu /\ next' = next /\ ipi' = ipi
    BY DEF PowerOff
  <2>2. \A d \in Cpu \ ipi : pc'[d] \in {"hlt", "stopped"}
    BY <1>1, <2>1, CpuFacts DEF BootInv, StoppedSoFar
  <2>3. ASSUME NEW a \in Cpu, NEW d \in Cpu, pc'[a] = "stop the world", d < next'[a], d # a
        PROVE  d \in ipi' \/ pc'[d] = "stopped"
    <3>1. a # c /\ pc[a] = "stop the world" /\ d < next[a]
      BY <1>1, <2>1, <2>3
    <3>2. d \in ipi \/ pc[d] = "stopped"
      BY <2>3, <3>1 DEF BootInv, StoppedSoFar
    <3>3. QED
      BY <1>1, <2>1, <3>2
  <2>4. QED
    BY <2>1, <2>2, <2>3 DEF StoppedSoFar
<1>10. QED
  BY <1>2, <1>3, <1>4, <1>5, <1>6, <1>7, <1>8, <1>9 DEF BootInv

\* mpe_init opens the boot record while all other processors are off (mpe.c).
LEMMA MpeInitKeeps ==
  ASSUME BootInv, mpe_init
  PROVE  BootInv'
<1>1. /\ pc'[0] = (IF Ncpu > 1 THEN "bootap" ELSE "entry")
      /\ \A d \in Cpu \ {0} : pc'[d] = pc[d]
  BY CpuFacts DEF BootInv, BootTypes, mpe_init, Goto
<1>2. BootTypes'
  BY <1>1, CpuFacts DEF BootInv, BootTypes, OnTheWay, Behind, Halting, Lines, NULL,
                        Goto, mpe_init
<1>3. Alone'
  BY <1>1, CpuFacts DEF BootInv, BootTypes, Alone, Starting, Through, jmp_code,
                        OnTheWay, Behind, Halting, NULL, Goto, mpe_init
<1>4. Starting'
  <2>1. jmp_code = NULL
    BY DEF BootInv, Through, Halting, mpe_init
  <2>2. ipi = {} /\ ~ap_ready /\ power /\ \A c \in Cpu \ {0} : pc[c] = "off"
    BY <2>1 DEF BootInv, Alone
  <2>3. next'[0] = 1 /\ ipi' = ipi /\ ap_ready' = ap_ready /\ power' = power
    BY CpuFacts DEF BootInv, BootTypes, mpe_init
  <2>4. pc'[0] \in {"bootap", "entry"} /\ \A c \in Cpu \ {0} : pc'[c] = "off"
    BY <1>1, <2>2
  <2>5. \A c \in Cpu : c >= 1 => pc'[c] = "off"
    BY <2>4, CpuFacts
  <2>6. ipi' = {} /\ ~ap_ready' /\ power' /\ next'[0] # 0 /\ \A c \in Cpu : c >= next'[0] => pc'[c] = "off"
    BY <2>2, <2>3, <2>5
  <2>7. QED
    BY <2>4, <2>6 DEF Starting
<1>5. Through'
  <2>1. pc[0] = "main" /\ ioapic' = ioapic
    BY DEF mpe_init
  <2>2. LinesSet
    BY <2>1, CpuFacts DEF BootInv, SetUpSoFar, SetUp
  <2>3. \A c \in Cpu \ {0} : pc'[c] = "off"
    <3>1. jmp_code = NULL
      BY <2>1 DEF BootInv, Through, Halting
    <3>2. QED
      BY <1>1, <3>1 DEF BootInv, Alone
  <2>4. QED
    BY <1>1, <2>1, <2>2, <2>3 DEF Through, LinesSet
<1>6. OneAtATime'
  <2>1. jmp_code = NULL
    BY DEF BootInv, Through, Halting, mpe_init
  <2>2. \A c \in Cpu : pc'[c] \notin OnTheWay
    BY <1>1, <2>1 DEF BootInv, Alone, OnTheWay
  <2>3. QED
    BY <2>2 DEF OneAtATime
<1>7. SetUpSoFar'
  <2>1. pc[0] = "main" /\ UNCHANGED <<gdt_data, gdtr, ioapic>>
    BY DEF mpe_init
  <2>2. gdtr[0] = 0
    BY <2>1, CpuFacts DEF BootInv, SetUpSoFar, SetUp, Behind
  <2>3. SetUp(0)'
    BY <1>1, <2>1, <2>2 DEF SetUp
  <2>4. \A c \in Cpu \ {0} : SetUp(c)'
    BY <1>1, <2>1 DEF BootInv, SetUpSoFar, SetUp, LinesSet
  <2>5. QED
    BY <2>3, <2>4 DEF SetUpSoFar
<1>8. LoadedByOne'
  BY <1>1, CpuFacts DEF BootInv, BootTypes, Alone, Starting, Through, OneAtATime,
                        LoadedByOne, jmp_code, OnTheWay, Behind, Halting, NULL,
                        Goto, mpe_init
<1>9. StoppedSoFar'
  <2>1. pc[0] \notin {"hlt", "stopped"} /\ pc'[0] # "stop the world"
    BY <1>1 DEF mpe_init
  <2>2. /\ \A d \in Cpu \ {0} : pc'[d] = pc[d] /\ next'[d] = next[d]
        /\ ipi \subseteq ipi' /\ power' = power
    BY <1>1 DEF mpe_init, BootInv, BootTypes
  <2>3. QED
    BY <2>1, <2>2, CpuFacts, StoppedKept
<1>10. QED
  BY <1>2, <1>3, <1>4, <1>5, <1>6, <1>7, <1>8, <1>9 DEF BootInv

\* The processor that is started next was not started before (mpe.c).
LEMMA BootapKeeps ==
  ASSUME BootInv, bootap
  PROVE  BootInv'
<1>1. /\ pc'[0] = ("await")
      /\ \A d \in Cpu \ {0} : pc'[d] = pc[d]
  BY CpuFacts DEF BootInv, BootTypes, bootap, Goto
<1>2. BootTypes'
  <2>1. pc' \in [Cpu -> OnTheWay \cup Behind \cup Halting \cup {"off"}]
    BY CpuFacts DEF BootInv, BootTypes, bootap, Goto, Behind
  <2>2. ipi' \subseteq Cpu
    BY CpuFacts DEF BootInv, BootTypes, bootap
  <2>3. boot_record' \in [jmp_code : {NULL, "jmp loader", "jmp ."}, is_ap : BOOLEAN]
    BY DEF BootInv, BootTypes, bootap
  <2>4. UNCHANGED <<next, ap_ready, power, gdtr, ioapic>> /\ pc'[0] # "bootap"
    BY <1>1 DEF bootap
  <2>5. QED
    BY <2>1, <2>2, <2>3, <2>4 DEF BootInv, BootTypes
<1>3. Alone'
  BY <1>1, CpuFacts DEF BootInv, BootTypes, Alone, Starting, Through, jmp_code,
                        OnTheWay, Behind, Halting, NULL, Goto, bootap
<1>4. Starting'
  <2> SUFFICES ASSUME jmp_code = "jmp loader"
               PROVE  Starting'
    BY CpuFacts DEF Starting, bootap, jmp_code, BootInv, BootTypes
  <2>1. /\ ipi = {} /\ ~ap_ready /\ power /\ next[0] # 0 /\ next[0] \in Cpu
        /\ \A c \in Cpu \ {0} : pc[c] \in {"off", "entry"}
        /\ \A c \in Cpu : c >= next[0] => pc[c] = "off"
    BY CpuFacts DEF BootInv, BootTypes, Starting, bootap
  <2>2. /\ ipi' = {next[0]} /\ boot_record'.is_ap
        /\ UNCHANGED <<next, ap_ready, power>>
    BY <2>1 DEF BootInv, BootTypes, bootap
  <2>3. pc'[0] = "await" /\ \A c \in Cpu \ {0} : pc'[c] = pc[c]
    BY <1>1
  <2>4. pc'[next[0]] = "off" /\ \A c \in Cpu : c > next[0] => pc'[c] = "off"
    <3>1. next[0] \in Nat /\ next[0] >= next[0]
      BY <2>1, CpuFacts, Numbered
    <3>2. \A c \in Cpu : c > next[0] => c >= next[0] /\ c # 0
      BY <3>1, Numbered
    <3>3. QED
      BY <2>1, <2>3, <3>1, <3>2
  <2>5. QED
    BY <2>1, <2>2, <2>3, <2>4 DEF Starting
<1>5. Through'
  BY <1>1, CpuFacts DEF BootInv, BootTypes, Alone, Through, SetUpSoFar, SetUp, jmp_code,
                        OnTheWay, Behind, Halting, LinesSet, Lines, NULL, Goto,
                        bootap
<1>6. OneAtATime'
  BY <1>1, CpuFacts DEF BootInv, BootTypes, Alone, Starting, Through, OneAtATime,
                        jmp_code, OnTheWay, Behind, Halting, NULL, Goto, bootap
<1>7. SetUpSoFar'
  BY <1>1, CpuFacts DEF BootInv, BootTypes, Alone, Through, OneAtATime, SetUpSoFar, SetUp,
                        jmp_code, OnTheWay, Behind, Halting, LinesSet, Lines, NULL,
                        Goto, bootap
<1>8. LoadedByOne'
  BY <1>1, CpuFacts DEF BootInv, BootTypes, Alone, Starting, Through, OneAtATime,
                        LoadedByOne, jmp_code, OnTheWay, Behind, Halting, NULL,
                        Goto, bootap
<1>9. StoppedSoFar'
  <2>1. pc[0] \notin {"hlt", "stopped"} /\ pc'[0] # "stop the world"
    BY <1>1 DEF bootap
  <2>2. /\ \A d \in Cpu \ {0} : pc'[d] = pc[d] /\ next'[d] = next[d]
        /\ ipi \subseteq ipi' /\ power' = power
    BY <1>1 DEF bootap, BootInv, BootTypes
  <2>3. QED
    BY <2>1, <2>2, CpuFacts, StoppedKept
<1>10. QED
  BY <1>2, <1>3, <1>4, <1>5, <1>6, <1>7, <1>8, <1>9 DEF BootInv

\* The bootstrap processor goes on when the one it started is in its entry (mpe.c).
LEMMA AwaitKeeps ==
  ASSUME BootInv, await
  PROVE  BootInv'
<1>1. /\ pc'[0] = (IF next[0] + 1 < Ncpu THEN "bootap" ELSE "entry")
      /\ \A d \in Cpu \ {0} : pc'[d] = pc[d]
  BY CpuFacts DEF BootInv, BootTypes, await, Started, Goto
<1>2. BootTypes'
  <2>1. next' \in [Cpu -> Nat] /\ next'[0] = next[0] + 1
    <3>1. next[0] + 1 \in Nat
      BY CpuFacts, Numbered DEF BootInv, BootTypes
    <3>2. QED
      BY <3>1, CpuFacts DEF BootInv, BootTypes, await
  <2>2. pc'[0] = "bootap" => next'[0] < Ncpu
    BY <1>1, <2>1
  <2>3. QED
    BY <2>1, <2>2, CpuFacts DEF BootInv, BootTypes, await, Goto, Behind
<1>3. Alone'
  BY <1>1, CpuFacts DEF BootInv, BootTypes, Alone, Starting, Through, jmp_code,
                        OnTheWay, Behind, Halting, NULL, Goto, await, Started
<1>4. Starting'
  <2> SUFFICES ASSUME jmp_code = "jmp loader"
               PROVE  Starting'
    BY DEF Starting, await, jmp_code
  <2>1. pc[0] = "await" /\ ap_ready /\ next[0] # 0
    BY DEF BootInv, Starting, await, Started
  <2>2. /\ next[0] \in Nat /\ next'[0] = next[0] + 1 /\ ~ap_ready'
        /\ UNCHANGED <<boot_record, ipi, power>>
    BY CpuFacts DEF BootInv, BootTypes, await
  <2>3. next[0] \notin ipi /\ pc[next[0]] = "entry"
    BY <2>1 DEF BootInv, Starting
  <2>4. /\ \A c \in Cpu \ {0, next[0]} : pc[c] \in {"off", "entry"} /\ c \notin ipi
        /\ \A c \in Cpu : c > next[0] => pc[c] = "off"
        /\ 0 \notin ipi /\ power
    BY <2>1 DEF BootInv, Starting
  <2>5. ipi = {}
    <3>1. ipi \subseteq Cpu
      BY DEF BootInv, BootTypes
    <3>2. \A c \in Cpu : c \notin ipi
      BY <2>3, <2>4
    <3>3. QED
      BY <3>1, <3>2
  <2>6. \A c \in Cpu \ {0} : pc'[c] \in {"off", "entry"}
    BY <1>1, <2>3, <2>4
  <2>7. \A c \in Cpu : c >= next[0] + 1 => c > next[0] /\ c # 0
    BY <2>2, Numbered
  <2>8. \A c \in Cpu : c >= next[0] + 1 => pc'[c] = "off"
    BY <1>1, <2>4, <2>7
  <2>9. pc'[0] \in {"bootap", "entry"} /\ next[0] + 1 # 0
    BY <1>1, <2>2, Numbered
  <2>10. QED
    BY <2>2, <2>4, <2>5, <2>6, <2>8, <2>9 DEF Starting
<1>5. Through'
  BY <1>1, CpuFacts DEF BootInv, BootTypes, Alone, Through, SetUpSoFar, SetUp, jmp_code,
                        OnTheWay, Behind, Halting, LinesSet, Lines, NULL, Goto,
                        await, Started
<1>6. OneAtATime'
  <2>1. pc'[0] \notin OnTheWay
    BY <1>1 DEF OnTheWay
  <2>2. QED
    BY <1>1, <2>1 DEF BootInv, OneAtATime, await
<1>7. SetUpSoFar'
  BY <1>1, CpuFacts DEF BootInv, BootTypes, Alone, Through, OneAtATime, SetUpSoFar, SetUp,
                        jmp_code, OnTheWay, Behind, Halting, LinesSet, Lines, NULL,
                        Goto, await, Started
<1>8. LoadedByOne'
  BY <1>1, CpuFacts DEF BootInv, BootTypes, Alone, Starting, Through, OneAtATime,
                        LoadedByOne, jmp_code, OnTheWay, Behind, Halting, NULL,
                        Goto, await, Started
<1>9. StoppedSoFar'
  <2>1. pc[0] \notin {"hlt", "stopped"} /\ pc'[0] # "stop the world"
    BY <1>1 DEF await
  <2>2. /\ \A d \in Cpu \ {0} : pc'[d] = pc[d] /\ next'[d] = next[d]
        /\ ipi \subseteq ipi' /\ power' = power
    BY <1>1 DEF await, BootInv, BootTypes
  <2>3. QED
    BY <2>1, <2>2, CpuFacts, StoppedKept
<1>10. QED
  BY <1>2, <1>3, <1>4, <1>5, <1>6, <1>7, <1>8, <1>9 DEF BootInv

\* A halting processor turns the boot record onto itself first (trm.c).
LEMMA HaltKeeps ==
  ASSUME BootInv, NEW c \in Cpu, halt(c)
  PROVE  BootInv'
<1>1. /\ pc'[c] = ("stop the world")
      /\ \A d \in Cpu \ {c} : pc'[d] = pc[d]
  BY CpuFacts DEF BootInv, BootTypes, halt, Goto
<1>2. BootTypes'
  BY <1>1, CpuFacts DEF BootInv, BootTypes, OnTheWay, Behind, Halting, Lines, NULL,
                        Goto, halt
<1>3. Alone'
  BY <1>1, CpuFacts DEF BootInv, BootTypes, Alone, Starting, Through, jmp_code,
                        OnTheWay, Behind, Halting, NULL, Goto, halt
<1>4. Starting'
  BY <1>1, CpuFacts DEF BootInv, BootTypes, Alone, Starting, Through, jmp_code,
                        OnTheWay, Behind, Halting, NULL, Goto, halt
<1>5. Through'
  BY <1>1, CpuFacts DEF BootInv, BootTypes, Alone, Through, SetUpSoFar, SetUp, jmp_code,
                        OnTheWay, Behind, Halting, LinesSet, Lines, NULL, Goto, halt
<1>6. OneAtATime'
  BY <1>1, CpuFacts DEF BootInv, BootTypes, Alone, Starting, Through, OneAtATime,
                        jmp_code, OnTheWay, Behind, Halting, NULL, Goto, halt
<1>7. SetUpSoFar'
  BY <1>1, CpuFacts DEF BootInv, BootTypes, Alone, Through, OneAtATime, SetUpSoFar, SetUp,
                        jmp_code, OnTheWay, Behind, Halting, LinesSet, Lines, NULL,
                        Goto, halt
<1>8. LoadedByOne'
  BY <1>1, CpuFacts DEF BootInv, BootTypes, Alone, Starting, Through, OneAtATime,
                        LoadedByOne, jmp_code, OnTheWay, Behind, Halting, NULL,
                        Goto, halt
<1>9. StoppedSoFar'
  <2>1. next'[c] = 0 /\ \A d \in Cpu \ {c} : next'[d] = next[d]
    BY DEF BootInv, BootTypes, halt
  <2>2. \A d \in Cpu : ~(d < 0)
    BY CpuFacts
  <2>3. ipi' = ipi /\ power' = power /\ pc[c] \in {"main", "entry"}
    BY DEF halt
  <2>4. ASSUME NEW a \in Cpu, NEW d \in Cpu, pc'[a] = "stop the world", d < next'[a], d # a
        PROVE  d \in ipi' \/ pc'[d] = "stopped"
    BY <1>1, <2>1, <2>2, <2>3, <2>4 DEF BootInv, StoppedSoFar
  <2>5. QED
    BY <1>1, <2>3, <2>4 DEF BootInv, StoppedSoFar
<1>10. QED
  BY <1>2, <1>3, <1>4, <1>5, <1>6, <1>7, <1>8, <1>9 DEF BootInv

\* Every step of every processor keeps the invariant of boot and halt.
LEMMA BootKeeps ==
  ASSUME BootInv, [BootNext]_bootVars
  PROVE  BootInv'
<1>1. CASE UNCHANGED bootVars
  BY <1>1 DEF bootVars, BootInv, BootTypes, Alone, Starting, Through, OneAtATime,
              SetUpSoFar, SetUp, LoadedByOne,
              StoppedSoFar, jmp_code, LinesSet
<1>2. ASSUME NEW c \in Cpu, BootStep(c)
      PROVE  BootInv'
  <2>1. ASSUME Wake(c) \/ load_kernel(c) \/ _start_c(c) \/ set_gdt(c) \/ lgdt(c)
        PROVE  BootInv'
    BY <2>1, WakeKeeps, LoadKernelKeeps, StartKeeps, SetGdtKeeps, LgdtKeeps
  <2>2. ASSUME NEW line \in Lines, ioapic_select(c, line) \/ ioapic_write(c, line)
        PROVE  BootInv'
    BY <2>2, SelectKeeps, WriteKeeps
  <2>3. ASSUME SayReady(c) \/ __am_stop_the_world(c) \/ PowerOff(c)
        PROVE  BootInv'
    BY <2>3, SayReadyKeeps, StopTheWorldKeeps, PowerOffKeeps
  <2>4. ASSUME mpe_init \/ bootap \/ await
        PROVE  BootInv'
    BY <2>4, MpeInitKeeps, BootapKeeps, AwaitKeeps
  <2>5. QED
    BY <1>2, <2>1, <2>2, <2>3, <2>4 DEF BootStep
<1>3. ASSUME NEW c \in Cpu, halt(c)
      PROVE  BootInv'
  BY <1>3, HaltKeeps
<1>4. QED
  BY <1>1, <1>2, <1>3 DEF BootNext

\* What is kept contains what is promised of boot and halt (trm.c, ioe.c, boot/main.c).
LEMMA InvIsSafe == BootInv => BootSafe
<1> SUFFICES ASSUME BootInv
             PROVE  BootSafe
  OBVIOUS
<1>1. ASSUME NEW c \in Cpu, pc[c] \in Behind
      PROVE  gdtr[c] = c /\ LinesSet
  <2>1. gdtr[c] = c
    BY <1>1 DEF BootInv, SetUpSoFar, SetUp
  <2>2. CASE jmp_code = NULL
    BY <1>1, <2>1, <2>2, Places DEF BootInv, Alone, SetUpSoFar, SetUp, Behind
  <2>3. CASE jmp_code # NULL
    BY <2>1, <2>3 DEF BootInv, Through
  <2>4. QED
    BY <2>1, <2>2, <2>3
<1>2. ProcessorsSetUp
  BY <1>1 DEF ProcessorsSetUp, Behind, LinesSet
<1>3. LoadedOnce
  BY DEF BootInv, LoadedByOne, LoadedOnce
<1>4. HaltStopsTheWorld
  BY DEF BootInv, StoppedSoFar, HaltStopsTheWorld
<1>5. QED
  BY <1>2, <1>3, <1>4 DEF BootSafe

(* However many processors there are and however many halt: whoever runs the *)
(* program has its own descriptor table and both interrupt lines, the       *)
(* program is read from the disk once, and nobody runs on when the machine  *)
(* is switched off (x86.h:293, ioe.c:451, boot/main.c:71, trm.c:43).         *)
THEOREM BootIsSafe == BootSpec => []BootSafe
<1>1. BootInv /\ [BootNext]_bootVars => BootInv'
  BY BootKeeps
<1>2. QED
  BY <1>1, BootStarts, InvIsSafe, PTL DEF BootSpec
-----------------------------------------------------------------------------
(* Traps and contexts (Traps).                                               *)

Contexts == Threads \cup {Main}
TrapFrames == [mode : {"user", "kernel", "entry"}, fi : BOOLEAN, vec : Nat]

TrapTypes ==
  /\ cpu.thread \in Contexts /\ cpu.fi \in BOOLEAN
  /\ cpu = [thread |-> cpu.thread, mode |-> cpu.mode, fi |-> cpu.fi,
            cr3 |-> cpu.cr3, rsp0 |-> cpu.rsp0]
  /\ stack \in [Contexts -> Seq(TrapFrames)]
  /\ DOMAIN ctx = Contexts
  /\ ring \in Seq(Threads)
  /\ irq \in [pending : BOOLEAN, service : BOOLEAN]

\* The mode of a context that is not in a trap.
Home(t) == IF t \in Uthreads THEN "user" ELSE "kernel"

\* The frames on a context's stack: that of the trap it took at home, over it
\* that of an interrupt of that trap's entry, and nothing else.
Shape(t) ==
  \/ stack[t] = <<>>
  \/ Len(stack[t]) = 1 /\ stack[t][1].mode = Home(t)
  \/ Len(stack[t]) = 2 /\ stack[t][1].mode = "entry" /\ stack[t][2].mode = Home(t)

\* What runs is where its stack says. A second frame in the entry is that of
\* an interrupt in service, and the handler runs with interrupts off.
Running ==
  LET frames == Len(stack[cpu.thread])
  IN  \/ cpu.mode = Home(cpu.thread) /\ frames = 0 /\ ~irq.service
      \/ /\ cpu.mode = "entry" /\ frames \in {1, 2}
         /\ frames = 2 => irq.service
         /\ irq.service => Vector = TimerIrq
      \/ cpu.mode = "handler" /\ frames \in {1, 2} /\ ~cpu.fi /\ ~irq.service

\* The context of a thread that waits for its turn.
Saved(t) ==
  /\ stack[t] # <<>>
  /\ t \in Uthreads => ctx[t].cr3 = SpaceOf[t] /\ ctx[t].rsp0 = t

\* A user thread's space and kernel stack are the processor's while it runs
\* and its context's while it waits.
InItsSpace ==
  /\ cpu.thread \in Uthreads => cpu.cr3 = SpaceOf[cpu.thread] /\ cpu.rsp0 = cpu.thread
  /\ \A t \in ToSet(ring) : t # cpu.thread \/ cpu.mode = "handler" => Saved(t)

TrapInv == TrapTypes /\ (\A t \in Contexts : Shape(t)) /\ Running /\ InItsSpace
-----------------------------------------------------------------------------
\* Nonempty sets of numbers have a least element, so that SelectInSeq returns
\* a place of the sequence or zero.
LEMMA Least ==
  ASSUME NEW S \in SUBSET Nat, S # {}
  PROVE  Min(S) \in S
<1>1. PICK x \in S : \A y \in S : <<y, x>> \notin OpToRel(<, Nat)
  BY NatLessThanWellFounded, WFMin
<1>2. ASSUME NEW y \in S  PROVE x \leq y
  <2>1. x \in Nat /\ y \in Nat
    OBVIOUS
  <2>2. y < x => <<y, x>> \in OpToRel(<, Nat)
    BY <2>1 DEF OpToRel
  <2>3. ~ (y < x)
    BY <1>1, <2>2, Zenon
  <2>4. QED  BY <2>1, <2>3
<1>3. QED  BY <1>2 DEF Min

\* The scheduler of yield-os takes the next thread from the ring, and at most
\* drops one from it.
LEMMA TurnIsOfTheRing ==
  ASSUME ring \in Seq(Threads)
  PROVE  /\ Turn.ring \in Seq(Threads) /\ ToSet(Turn.ring) \subseteq ToSet(ring)
         /\ Turn.next # None => Turn.next \in ToSet(ring)
<1> DEFINE I == {i \in 1 .. Len(ring) : ring[i] = cpu.thread}
           rest == IF I # {} THEN Min(I) ELSE 0
           drops == rest # 0 /\ EventOf(Vector) = "EVENT_ERROR"
           left == IF drops THEN RemoveAt(ring, rest) ELSE ring
           from == IF drops THEN rest ELSE rest + 1
           at == IF from > Len(left) THEN 1 ELSE from
<1>1. Len(ring) \in Nat
  BY LenProperties
<1>2. rest \in 0 .. Len(ring)
  <2>1. I \in SUBSET Nat
    BY <1>1
  <2>2. CASE I # {}
    <3>1. Min(I) \in I
      BY <2>1, <2>2, Least
    <3>2. QED  BY <2>2, <3>1
  <2>3. QED  BY <1>1, <2>2
<1>3. left \in Seq(Threads) /\ ToSet(left) \subseteq ToSet(ring)
  <2>1. CASE drops
    <3> DEFINE before == SubSeq(ring, 1, rest - 1)
               after == SubSeq(ring, rest + 1, Len(ring))
    <3>1. left = before \o after
      BY <2>1 DEF RemoveAt
    <3>2. rest \in 1 .. Len(ring)
      BY <1>1, <1>2, <2>1
    <3> HIDE DEF rest, drops, left
    <3>3. /\ before \in Seq(Threads) /\ Len(before) = rest - 1
          /\ \A i \in 1 .. rest - 1 : before[i] = ring[i]
      BY <1>1, <3>2, SMT
    <3>4. /\ after \in Seq(Threads) /\ Len(after) = Len(ring) - rest
          /\ \A i \in 1 .. Len(ring) - rest : after[i] = ring[rest + i]
      BY <1>1, <3>2, SMT
    <3> HIDE DEF before, after
    <3>5. /\ left \in Seq(Threads) /\ Len(left) = Len(ring) - 1
          /\ \A i \in 1 .. Len(left) :
               left[i] = IF i < rest THEN ring[i] ELSE ring[i + 1]
      <4>1. /\ left \in Seq(Threads) /\ Len(left) = Len(before) + Len(after)
            /\ \A i \in 1 .. Len(before) + Len(after) :
                 left[i] = IF i <= Len(before) THEN before[i] ELSE after[i - Len(before)]
        BY <3>1, <3>3, <3>4, ConcatProperties, Zenon
      <4>2. ASSUME NEW i \in 1 .. Len(left), i \geq rest
            PROVE  left[i] = ring[i + 1]
        <5>1. i - (rest - 1) \in 1 .. Len(ring) - rest /\ ~ (i <= rest - 1)
          BY <1>1, <3>2, <3>3, <3>4, <4>1, <4>2
        <5>2. left[i] = after[i - (rest - 1)]
          BY <1>1, <3>2, <3>3, <3>4, <4>1, <4>2, <5>1
        <5>3. after[i - (rest - 1)] = ring[rest + (i - (rest - 1))]
          BY <3>4, <5>1
        <5>4. rest + (i - (rest - 1)) = i + 1
          BY <1>1, <3>2
        <5>5. QED  BY <5>2, <5>3, <5>4
      <4>3. ASSUME NEW i \in 1 .. Len(left), i < rest
            PROVE  left[i] = ring[i]
        BY <1>1, <3>2, <3>3, <3>4, <4>1, <4>3
      <4>4. QED  BY <1>1, <3>2, <3>3, <3>4, <4>1, <4>2, <4>3
    <3>6. \A i \in 1 .. Len(left) : \E j \in 1 .. Len(ring) : left[i] = ring[j]
      BY <1>1, <3>2, <3>5, SMT
    <3>7. DOMAIN left = 1 .. Len(left) /\ DOMAIN ring = 1 .. Len(ring)
      BY <3>5, LenProperties
    <3>8. ToSet(left) \subseteq ToSet(ring)
      BY <3>6, <3>7 DEF ToSet
    <3>9. QED  BY <3>5, <3>8
  <2>2. CASE ~drops
    BY <2>2
  <2>3. QED  BY <2>1, <2>2
<1>4. Turn.ring = left /\ Turn.next = IF left = <<>> THEN None ELSE left[at]
  BY DEF Turn, SelectInSeq
<1>5. left # <<>> => left[at] \in ToSet(left)
  <2>1. from \in Nat \ {0}
    BY <1>1, <1>2
  <2> HIDE DEF left, from
  <2>2. Len(left) \in Nat /\ DOMAIN left = 1 .. Len(left)
    BY <1>3, LenProperties
  <2>3. left # <<>> => Len(left) # 0
    BY <1>3, <2>2, EmptySeq
  <2>4. left # <<>> => at \in 1 .. Len(left)
    BY <2>1, <2>2, <2>3, SMT
  <2>5. QED  BY <2>2, <2>4 DEF ToSet
<1>6. QED  BY <1>3, <1>4, <1>5
-----------------------------------------------------------------------------
\* A frame pushed on a stack is its first, and the others move behind it.
LEMMA Pushed ==
  ASSUME NEW s \in Seq(TrapFrames), NEW f \in TrapFrames
  PROVE  /\ <<f>> \o s \in Seq(TrapFrames) /\ Len(<<f>> \o s) = Len(s) + 1
         /\ (<<f>> \o s)[1] = f /\ (Len(s) = 1 => (<<f>> \o s)[2] = s[1])
<1>1. <<f>> \in Seq(TrapFrames) /\ Len(<<f>>) = 1 /\ <<f>>[1] = f
  OBVIOUS
<1>2. Len(s) \in Nat
  BY LenProperties
<1>3. /\ <<f>> \o s \in Seq(TrapFrames) /\ Len(<<f>> \o s) = 1 + Len(s)
      /\ \A i \in 1 .. 1 + Len(s) : (<<f>> \o s)[i] = IF i <= 1 THEN <<f>>[i] ELSE s[i - 1]
  BY <1>1, ConcatProperties, Zenon
<1>4. QED  BY <1>1, <1>2, <1>3

\* What the invariant says of the context that runs.
LEMMA ThreadFacts ==
  ASSUME TrapInv
  PROVE  /\ cpu.thread \in Contexts /\ stack[cpu.thread] \in Seq(TrapFrames)
         /\ Len(stack[cpu.thread]) \in 0 .. 2
         /\ stack[cpu.thread] = <<>> <=> Len(stack[cpu.thread]) = 0
         /\ cpu.mode \in {"user", "kernel", "entry", "handler"}
         /\ cpu.mode \in {"user", "kernel"} => /\ cpu.mode = Home(cpu.thread)
                                               /\ Len(stack[cpu.thread]) = 0
         /\ Home(cpu.thread) \in {"user", "kernel"}
         /\ cpu.mode = "user" => cpu.thread \in Uthreads
<1>1. cpu.thread \in Contexts /\ stack[cpu.thread] \in Seq(TrapFrames)
  BY DEF TrapInv, TrapTypes
<1>2. Len(stack[cpu.thread]) \in Nat
  BY <1>1, LenProperties
<1>3. stack[cpu.thread] = <<>> <=> Len(stack[cpu.thread]) = 0
  BY <1>1, <1>2, EmptySeq
<1>4. Len(stack[cpu.thread]) \in 0 .. 2
  BY <1>1, <1>2, <1>3 DEF TrapInv, Shape
<1>5. Home(cpu.thread) \in {"user", "kernel"}
  BY DEF Home
<1>6. cpu.mode \in {Home(cpu.thread), "entry", "handler"}
  BY DEF TrapInv, Running
<1>7. cpu.mode \notin {"entry", "handler"} =>
        cpu.mode = Home(cpu.thread) /\ Len(stack[cpu.thread]) = 0
  BY DEF TrapInv, Running
<1>8. cpu.mode = "user" => cpu.thread \in Uthreads
  BY <1>6 DEF Home
<1>9. QED  BY <1>1, <1>3, <1>4, <1>5, <1>6, <1>7, <1>8

\* A trap enters on the stack of the context that runs, from user mode too,
\* and in the entry of another trap only an interrupt does.
LEMMA Entering ==
  ASSUME TrapInv, NEW v \in Nat, Enter(v), cpu.mode # "handler",
         irq' \in [pending : BOOLEAN, service : BOOLEAN],
         irq'.service => v = TimerIrq,
         cpu.mode = "entry" => ~irq.service /\ irq'.service
  PROVE  TrapInv'
<1> DEFINE t == cpu.thread
           f == Frame(cpu.mode, cpu.fi, v)
<1>1. /\ t \in Contexts /\ stack[t] \in Seq(TrapFrames) /\ Len(stack[t]) \in 0 .. 2
      /\ stack[t] = <<>> <=> Len(stack[t]) = 0
      /\ cpu.mode \in {"user", "kernel", "entry"}
      /\ cpu.mode # "entry" => cpu.mode = Home(t) /\ Len(stack[t]) = 0
      /\ Home(t) \in {"user", "kernel"}
  BY ThreadFacts
<1>2. cpu.mode = "user" => cpu.rsp0 = t
  BY ThreadFacts DEF TrapInv, InItsSpace
<1>3. /\ stack' = [stack EXCEPT ![t] = <<f>> \o @]
      /\ cpu' = [cpu EXCEPT !.mode = "entry", !.thread = t]
      /\ ctx' = ctx /\ ring' = ring
  BY <1>2 DEF Enter
<1>4. f \in TrapFrames /\ f.mode = cpu.mode /\ f.vec = v
  BY <1>1 DEF Frame, TrapFrames, TrapInv, TrapTypes
<1>5. /\ cpu'.thread = t /\ cpu'.mode = "entry" /\ cpu'.fi = cpu.fi
      /\ cpu'.cr3 = cpu.cr3 /\ cpu'.rsp0 = cpu.rsp0
      /\ cpu' = [thread |-> t, mode |-> "entry", fi |-> cpu.fi,
                 cr3 |-> cpu.cr3, rsp0 |-> cpu.rsp0]
  BY <1>3 DEF TrapInv, TrapTypes
<1>6. /\ stack'[t] = <<f>> \o stack[t]
      /\ \A c \in Contexts : c # t => stack'[c] = stack[c]
  BY <1>1, <1>3 DEF TrapInv, TrapTypes
<1>7. /\ stack'[t] \in Seq(TrapFrames) /\ Len(stack'[t]) = Len(stack[t]) + 1
      /\ stack'[t][1] = f /\ (Len(stack[t]) = 1 => stack'[t][2] = stack[t][1])
  BY <1>1, <1>4, <1>6, Pushed
<1>8. cpu.mode = "entry" => Len(stack[t]) = 1
  BY <1>1 DEF TrapInv, Running
<1>9. Len(stack'[t]) \in {1, 2} /\ (Len(stack'[t]) = 2 => irq'.service)
  <2>1. CASE cpu.mode = "entry"
    <3>1. irq'.service
      BY <2>1
    <3>2. Len(stack[t]) = 1 /\ Len(stack'[t]) = Len(stack[t]) + 1
      BY <1>7, <1>8, <2>1, Zenon
    <3>3. QED  BY <3>1, <3>2
  <2>2. CASE cpu.mode # "entry"
    BY <1>1, <1>7, <2>2
  <2>3. QED  BY <2>1, <2>2
<1> HIDE DEF f
<1>10. TrapTypes'
  <2>1. stack' \in [Contexts -> Seq(TrapFrames)]
    BY <1>3, <1>6, <1>7 DEF TrapInv, TrapTypes
  <2>2. QED  BY <1>1, <1>3, <1>5, <2>1 DEF TrapInv, TrapTypes
<1>11. ASSUME NEW c \in Contexts  PROVE Shape(c)'
  <2>1. CASE c # t
    BY <1>6, <2>1 DEF TrapInv, Shape
  <2>2. CASE c = t /\ Len(stack[t]) = 0
    BY <1>1, <1>4, <1>7, <1>8, <2>2 DEF Shape
  <2>3. CASE c = t /\ Len(stack[t]) = 1
    <3>1. stack[t][1].mode = Home(t) /\ cpu.mode = "entry"
      BY <1>1, <2>3 DEF TrapInv, Shape
    <3>2. QED  BY <1>4, <1>7, <2>3, <3>1 DEF Shape
  <2>4. QED  BY <1>1, <1>8, <2>1, <2>2, <2>3
<1>12. Running'
  BY <1>4, <1>5, <1>7, <1>9 DEF Running, Vector
<1>13. InItsSpace'
  <2>1. ASSUME NEW c \in ToSet(ring), c # t  PROVE Saved(c)'
    <3>1. c \in Contexts /\ Saved(c)
      BY <2>1 DEF TrapInv, InItsSpace, TrapTypes, ToSet, Contexts
    <3>2. QED  BY <1>3, <1>6, <2>1, <3>1 DEF Saved
  <2>2. QED  BY <1>3, <1>5, <2>1 DEF TrapInv, InItsSpace
<1>14. QED  BY <1>10, <1>11, <1>12, <1>13 DEF TrapInv

\* The handler of a trap runs with interrupts off, and has acknowledged the
\* one that brought it; the context it saves is that of the thread it is of.
LEMMA Handling ==
  ASSUME TrapInv, __am_irq_handle
  PROVE  TrapInv'
<1> DEFINE t == cpu.thread
<1>1. /\ t \in Contexts /\ stack[t] \in Seq(TrapFrames)
      /\ stack[t] = <<>> <=> Len(stack[t]) = 0
  BY ThreadFacts
<1>2. cpu.mode = "entry" /\ Len(stack[t]) \in {1, 2} /\ (irq.service => Vector = TimerIrq)
  BY ThreadFacts DEF TrapInv, Running, __am_irq_handle
<1>0. stack[t] # <<>>
  <2>1. Len(stack[t]) # 0
    BY <1>2
  <2>2. QED  BY <1>1, <2>1, Zenon
<1>3. /\ cpu' = [cpu EXCEPT !.mode = "handler", !.fi = FALSE]
      /\ ctx' = [ctx EXCEPT ![t] = [cr3 |-> cpu.cr3, rsp0 |-> cpu.rsp0]]
      /\ irq' = IF IsIrq(Vector) THEN [irq EXCEPT !.service = FALSE] ELSE irq
      /\ stack' = stack /\ ring' = ring
  BY DEF __am_irq_handle, FlagAfterCli
<1>4. cpu' = [thread |-> t, mode |-> "handler", fi |-> FALSE,
              cr3 |-> cpu.cr3, rsp0 |-> cpu.rsp0]
  BY <1>3 DEF TrapInv, TrapTypes
<1>5. /\ cpu'.thread = t /\ cpu'.mode = "handler" /\ cpu'.fi = FALSE
      /\ cpu'.cr3 = cpu.cr3 /\ cpu'.rsp0 = cpu.rsp0
  BY <1>4
<1>6. irq' \in [pending : BOOLEAN, service : BOOLEAN] /\ ~irq'.service
  <2>1. CASE irq.service
    <3>1. IsIrq(Vector)
      BY <1>2, <2>1 DEF IsIrq, TimerIrq, T_IRQ0
    <3>2. QED  BY <1>3, <3>1 DEF TrapInv, TrapTypes
  <2>2. CASE ~irq.service
    BY <1>3, <2>2 DEF TrapInv, TrapTypes
  <2>3. QED  BY <2>1, <2>2
<1>7. /\ DOMAIN ctx' = Contexts
      /\ ctx'[t] = [cr3 |-> cpu.cr3, rsp0 |-> cpu.rsp0]
      /\ \A c \in Contexts : c # t => ctx'[c] = ctx[c]
  BY <1>1, <1>3 DEF TrapInv, TrapTypes
<1>8. TrapTypes'
  BY <1>1, <1>3, <1>4, <1>6, <1>7 DEF TrapInv, TrapTypes
<1>9. \A c \in Contexts : Shape(c)'
  BY <1>3 DEF TrapInv, Shape
<1>10. Running'
  BY <1>2, <1>3, <1>5, <1>6 DEF Running
<1>11. InItsSpace'
  <2>1. t \in Uthreads => cpu.cr3 = SpaceOf[t] /\ cpu.rsp0 = t
    BY DEF TrapInv, InItsSpace
  <2>2. ASSUME NEW c \in ToSet(ring)  PROVE Saved(c)'
    <3>1. CASE c = t
      <4>1. stack'[c] # <<>>
        BY <1>0, <1>3, <3>1
      <4>2. c \in Uthreads => ctx'[c].cr3 = SpaceOf[c] /\ ctx'[c].rsp0 = c
        BY <1>7, <2>1, <3>1
      <4>3. QED  BY <4>1, <4>2 DEF Saved
    <3>2. CASE c # t
      <4>1. c \in Contexts /\ Saved(c)
        BY <2>2, <3>2 DEF TrapInv, InItsSpace, TrapTypes, ToSet, Contexts
      <4>2. QED  BY <1>3, <1>7, <3>2, <4>1 DEF Saved
    <3>3. QED  BY <3>1, <3>2
  <2>3. QED  BY <1>3, <1>5, <2>1, <2>2 DEF InItsSpace
<1>12. QED  BY <1>8, <1>9, <1>10, <1>11 DEF TrapInv

\* A context that starts has one frame, at home, and a user thread's names
\* its space and its kernel stack.
LEMMA Making ==
  ASSUME TrapInv, NEW t \in Threads, NEW space, NEW rsp0,
         Booting,
         stack' = [stack EXCEPT ![t] = <<Frame(Home(t), TRUE, EX_YIELD)>>],
         ctx' = [ctx EXCEPT ![t] = [cr3 |-> space, rsp0 |-> rsp0]],
         t \in Uthreads => space = SpaceOf[t] /\ rsp0 = t,
         ring' = Append(ring, t), cpu' = cpu, irq' = irq
  PROVE  TrapInv'
<1> DEFINE f == Frame(Home(t), TRUE, EX_YIELD)
<1>1. t \in Contexts /\ t # cpu.thread /\ cpu.mode = "kernel"
  BY TrapsAssumption DEF Contexts, Booting
<1>2. f \in TrapFrames /\ f.mode = Home(t)
  BY DEF Frame, TrapFrames, Home, EX_YIELD
<1>3. /\ stack'[t] = <<f>>
      /\ \A c \in Contexts : c # t => stack'[c] = stack[c]
      /\ ctx'[t] = [cr3 |-> space, rsp0 |-> rsp0] /\ DOMAIN ctx' = Contexts
      /\ \A c \in Contexts : c # t => ctx'[c] = ctx[c]
  BY <1>1 DEF TrapInv, TrapTypes
<1> HIDE DEF f
<1>4. /\ stack'[t] \in Seq(TrapFrames) /\ Len(stack'[t]) = 1 /\ stack'[t][1] = f
      /\ stack'[t] # <<>>
  <2>1. stack'[t] \in Seq(TrapFrames) /\ Len(stack'[t]) = 1 /\ stack'[t][1] = f
    <3>1. <<f>> \in Seq(TrapFrames) /\ Len(<<f>>) = 1 /\ <<f>>[1] = f
      BY <1>2
    <3>2. QED  BY <1>3, <3>1, Zenon
  <2>2. stack'[t] # <<>>
    <3>1. Len(<<>>) = 0
      BY EmptySeq
    <3>2. Len(stack'[t]) # 0
      BY <2>1
    <3>3. QED  BY <3>1, <3>2, Zenon
  <2>3. QED  BY <2>1, <2>2
<1>5. /\ ring' \in Seq(Threads)
      /\ \A c \in ToSet(ring') : c = t \/ c \in ToSet(ring)
  <2>1. ring \in Seq(Threads)
    BY DEF TrapInv, TrapTypes
  <2>2. /\ ring' \in Seq(Threads) /\ Len(ring') = Len(ring) + 1
        /\ \A i \in 1 .. Len(ring) : ring'[i] = ring[i]
        /\ ring'[Len(ring) + 1] = t
    BY <2>1, AppendProperties
  <2>3. Len(ring) \in Nat /\ DOMAIN ring = 1 .. Len(ring) /\ DOMAIN ring' = 1 .. Len(ring')
    BY <2>1, <2>2, LenProperties
  <2>4. ASSUME NEW i \in 1 .. Len(ring')
        PROVE  ring'[i] = t \/ \E j \in 1 .. Len(ring) : ring'[i] = ring[j]
    BY <2>2, <2>3
  <2>5. QED  BY <2>2, <2>3, <2>4 DEF ToSet
<1>6. TrapTypes'
  <2>1. stack' \in [Contexts -> Seq(TrapFrames)]
    BY <1>3, <1>4 DEF TrapInv, TrapTypes
  <2>2. QED  BY <1>3, <1>5, <2>1 DEF TrapInv, TrapTypes
<1>7. ASSUME NEW c \in Contexts  PROVE Shape(c)'
  <2>1. CASE c = t
    BY <1>2, <1>4, <2>1 DEF Shape
  <2>2. CASE c # t
    BY <1>3, <2>2 DEF TrapInv, Shape
  <2>3. QED  BY <2>1, <2>2
<1>8. Running'
  <2>1. stack'[cpu.thread] = stack[cpu.thread]
    BY <1>1, <1>3 DEF TrapInv, TrapTypes
  <2>2. QED  BY <2>1 DEF TrapInv, Running, Vector
<1>9. InItsSpace'
  <2>1. Saved(t)'
    BY <1>3, <1>4 DEF Saved
  <2>2. ASSUME NEW c \in ToSet(ring), c # t, c # cpu.thread  PROVE Saved(c)'
    <3>1. c \in Contexts /\ Saved(c)
      BY <2>2 DEF TrapInv, InItsSpace, TrapTypes, ToSet, Contexts
    <3>2. QED  BY <1>3, <2>2, <3>1 DEF Saved
  <2>3. QED  BY <1>1, <1>5, <2>1, <2>2 DEF TrapInv, InItsSpace
<1>10. QED  BY <1>6, <1>7, <1>8, <1>9 DEF TrapInv

\* Marking the event of a trap as served changes no mode and no length.
LEMMA ServedKeeps ==
  ASSUME TrapTypes, Len(stack[cpu.thread]) \in {1, 2}
  PROVE  /\ Served \in [Contexts -> Seq(TrapFrames)]
         /\ \A c \in Contexts :
              /\ Len(Served[c]) = Len(stack[c])
              /\ \A i \in 1 .. Len(stack[c]) : Served[c][i].mode = stack[c][i].mode
<1> DEFINE t == cpu.thread
           s == stack[t]
           f == [s[1] EXCEPT !.vec = EX_YIELD]
<1>1. t \in Contexts /\ stack \in [Contexts -> Seq(TrapFrames)] /\ s \in Seq(TrapFrames)
  BY DEF TrapTypes
<1>2. Served = [stack EXCEPT ![t] = [s EXCEPT ![1] = f]]
  BY <1>1 DEF Served
<1>3. 1 \in 1 .. Len(s)
  <2>1. \A k \in {1, 2} : 1 \in 1 .. k
    OBVIOUS
  <2>2. QED  BY <2>1, Zenon
<1>4. s[1] \in TrapFrames
  BY <1>1, <1>3, ElementOfSeq
<1>5. f \in TrapFrames /\ f.mode = s[1].mode
  BY <1>4 DEF TrapFrames, EX_YIELD
<1> HIDE DEF s, f
<1>6. /\ [s EXCEPT ![1] = f] \in Seq(TrapFrames)
      /\ Len([s EXCEPT ![1] = f]) = Len(s)
      /\ \A j \in 1 .. Len(s) : [s EXCEPT ![1] = f][j] = IF j = 1 THEN f ELSE s[j]
  BY <1>1, <1>3, <1>5, ExceptSeq
<1>7. Served \in [Contexts -> Seq(TrapFrames)]
  BY <1>1, <1>2, <1>6
<1>8. ASSUME NEW c \in Contexts
      PROVE  /\ Len(Served[c]) = Len(stack[c])
             /\ \A i \in 1 .. Len(stack[c]) : Served[c][i].mode = stack[c][i].mode
  <2>1. CASE c # t
    <3>1. Served[c] = stack[c]
      BY <1>1, <1>2, <2>1
    <3>2. QED  BY <3>1
  <2>2. CASE c = t
    <3>1. Served[c] = [s EXCEPT ![1] = f] /\ stack[c] = s
      BY <1>1, <1>2, <2>2 DEF s
    <3> HIDE DEF t
    <3>2. \A j \in 1 .. Len(s) : Served[c][j].mode = s[j].mode
      BY <1>5, <1>6, <3>1
    <3>3. QED  BY <1>6, <3>1, <3>2
  <2>3. QED  BY <2>1, <2>2
<1>9. QED  BY <1>7, <1>8

\* What the return from a trap takes off the stack of a thread that waited:
\* its frame at home, or that of an interrupted entry, back to its trap.
LEMMA Popped ==
  ASSUME TrapTypes, NEW n \in Contexts, Shape(n), stack[n] # <<>>,
         NEW s \in Seq(TrapFrames), Len(s) = Len(stack[n]),
         \A i \in 1 .. Len(stack[n]) : s[i].mode = stack[n][i].mode
  PROVE  /\ stack[n][1] \in TrapFrames /\ Tail(s) \in Seq(TrapFrames)
         /\ \/ stack[n][1].mode = Home(n) /\ Len(Tail(s)) = 0
            \/ /\ stack[n][1].mode = "entry"
               /\ Len(Tail(s)) = 1 /\ Tail(s)[1].mode = Home(n)
<1>1. stack[n] \in Seq(TrapFrames)
  BY DEF TrapTypes
<1>2. Len(stack[n]) \in {1, 2}
  BY DEF Shape
<1>3. s # <<>>
  <2>1. Len(<<>>) = 0
    BY EmptySeq
  <2>2. Len(s) # 0
    BY <1>2
  <2>3. QED  BY <2>1, <2>2, Zenon
<1>4. /\ Tail(s) \in Seq(TrapFrames) /\ Len(Tail(s)) = Len(s) - 1
      /\ \A i \in 1 .. Len(Tail(s)) : Tail(s)[i] = s[i + 1]
  BY <1>3, HeadTailProperties
<1>5. stack[n][1] \in TrapFrames
  <2>1. 1 \in 1 .. Len(stack[n])
    BY <1>2
  <2>2. QED  BY <1>1, <2>1, ElementOfSeq
<1>6. CASE Len(stack[n]) = 1
  <2>1. stack[n][1].mode = Home(n)
    BY <1>6 DEF Shape
  <2>2. Len(Tail(s)) = 0
    BY <1>4, <1>6
  <2>3. QED  BY <1>4, <1>5, <2>1, <2>2
<1>7. CASE Len(stack[n]) = 2
  <2>1. stack[n][1].mode = "entry" /\ stack[n][2].mode = Home(n)
    BY <1>7 DEF Shape
  <2>2. Len(s) = 2
    BY <1>7
  <2>3. Len(Tail(s)) = 1
    BY <1>4, <2>2
  <2>4. Tail(s)[1] = s[2]
    BY <1>4, <2>3
  <2>5. s[2].mode = stack[n][2].mode
    BY <1>7
  <2>6. QED  BY <1>4, <1>5, <2>1, <2>3, <2>4, <2>5
<1>8. QED  BY <1>2, <1>6, <1>7

\* The return from a trap, to whichever thread of the ring has its turn.
LEMMA Returning ==
  ASSUME TrapInv, __am_iret
  PROVE  TrapInv'
<1> DEFINE t == cpu.thread
           n == Turn.next
<1>1. /\ t \in Contexts /\ Len(stack[t]) \in {1, 2} /\ cpu.mode = "handler"
      /\ ~cpu.fi /\ ~irq.service /\ TrapTypes
  BY ThreadFacts DEF TrapInv, Running, __am_iret
<1>2. /\ ring' = Turn.ring /\ irq' = irq
      /\ ring' \in Seq(Threads) /\ ToSet(ring') \subseteq ToSet(ring)
      /\ n # None => n \in ToSet(ring)
  BY <1>1, TurnIsOfTheRing DEF __am_iret, TrapTypes
<1>3. ToSet(ring) \subseteq Threads
  BY <1>1 DEF TrapTypes, ToSet
<1>4. \A c \in ToSet(ring) : c \in Contexts /\ Saved(c)
  BY <1>1, <1>3 DEF TrapInv, InItsSpace, Contexts
<1>5. CASE n = None
  <2>1. cpu' = cpu /\ stack' = stack /\ ctx' = ctx
    BY <1>5 DEF __am_iret
  <2>2. TrapTypes'
    BY <1>1, <1>2, <2>1 DEF TrapTypes
  <2>3. \A c \in Contexts : Shape(c)'
    BY <2>1 DEF TrapInv, Shape
  <2>4. Running'
    BY <1>2, <2>1 DEF TrapInv, Running, Vector
  <2>5. InItsSpace'
    <3>1. \A c \in ToSet(ring') : Saved(c)'
      BY <1>2, <1>4, <2>1 DEF Saved
    <3>2. QED  BY <2>1, <3>1 DEF TrapInv, InItsSpace
  <2>6. QED  BY <2>2, <2>3, <2>4, <2>5 DEF TrapInv
<1>6. CASE n # None
  <2>1. n \in Contexts /\ Saved(n) /\ n \in Threads
    BY <1>2, <1>3, <1>4, <1>6
  <2>2. /\ cpu' = Resumed(n)
        /\ stack' = [Served EXCEPT ![n] = Tail(@)]
        /\ ctx' = [ctx EXCEPT ![n] = None]
    BY <1>6 DEF __am_iret
  <2>3. /\ Served \in [Contexts -> Seq(TrapFrames)]
        /\ \A c \in Contexts :
             /\ Len(Served[c]) = Len(stack[c])
             /\ \A i \in 1 .. Len(stack[c]) : Served[c][i].mode = stack[c][i].mode
    BY <1>1, ServedKeeps
  <2> HIDE DEF n, t
  <2>4. /\ stack'[n] = Tail(Served[n])
        /\ \A c \in Contexts : c # n => stack'[c] = Served[c]
        /\ DOMAIN ctx' = Contexts
        /\ \A c \in Contexts : c # n => ctx'[c] = ctx[c]
    BY <1>1, <2>1, <2>2, <2>3 DEF TrapTypes
  <2>5. /\ stack[n][1] \in TrapFrames /\ stack'[n] \in Seq(TrapFrames)
        /\ \/ stack[n][1].mode = Home(n) /\ Len(stack'[n]) = 0
           \/ /\ stack[n][1].mode = "entry"
              /\ Len(stack'[n]) = 1 /\ stack'[n][1].mode = Home(n)
    <3>1. Served[n] \in Seq(TrapFrames) /\ stack[n] # <<>> /\ Shape(n)
      BY <2>1, <2>3 DEF Saved, TrapInv
    <3>2. /\ Len(Served[n]) = Len(stack[n])
          /\ \A i \in 1 .. Len(stack[n]) : Served[n][i].mode = stack[n][i].mode
      BY <2>1, <2>3
    <3>3. /\ stack[n][1] \in TrapFrames /\ Tail(Served[n]) \in Seq(TrapFrames)
          /\ \/ stack[n][1].mode = Home(n) /\ Len(Tail(Served[n])) = 0
             \/ /\ stack[n][1].mode = "entry"
                /\ Len(Tail(Served[n])) = 1 /\ Tail(Served[n])[1].mode = Home(n)
      BY <1>1, <2>1, <3>1, <3>2, Popped
    <3>4. QED  BY <2>4, <3>3, Zenon
  <2>6. /\ cpu'.thread = n /\ cpu'.mode = stack[n][1].mode /\ cpu'.fi = stack[n][1].fi
        /\ n \in Uthreads => cpu'.cr3 = SpaceOf[n] /\ cpu'.rsp0 = n
        /\ cpu' = [thread |-> cpu'.thread, mode |-> cpu'.mode, fi |-> cpu'.fi,
                   cr3 |-> cpu'.cr3, rsp0 |-> cpu'.rsp0]
    <3>1. /\ cpu'.thread = n /\ cpu'.mode = stack[n][1].mode /\ cpu'.fi = stack[n][1].fi
          /\ cpu' = [thread |-> cpu'.thread, mode |-> cpu'.mode, fi |-> cpu'.fi,
                     cr3 |-> cpu'.cr3, rsp0 |-> cpu'.rsp0]
      BY <2>2 DEF Resumed
    <3>2. ASSUME n \in Uthreads  PROVE cpu'.cr3 = SpaceOf[n] /\ cpu'.rsp0 = n
      <4>1. ctx[n].cr3 = SpaceOf[n] /\ ctx[n].rsp0 = n
        BY <2>1, <3>2 DEF Saved
      <4>2. ~Borrows(ctx[n])
        BY <3>2, <4>1, TrapsAssumption DEF Borrows
      <4>3. cpu'.cr3 = ctx[n].cr3 /\ cpu'.rsp0 = ctx[n].rsp0
        BY <2>2, <4>2 DEF Resumed
      <4>4. QED  BY <4>1, <4>3
    <3>3. QED  BY <3>1, <3>2
  <2>7. TrapTypes'
    <3>1. stack' \in [Contexts -> Seq(TrapFrames)]
      BY <2>2, <2>3, <2>4, <2>5
    <3>2. cpu'.thread \in Contexts /\ cpu'.fi \in BOOLEAN
      BY <2>1, <2>5, <2>6 DEF TrapFrames
    <3>3. irq' \in [pending : BOOLEAN, service : BOOLEAN]
      BY <1>1, <1>2 DEF TrapTypes
    <3>4. QED  BY <1>2, <2>4, <2>6, <3>1, <3>2, <3>3 DEF TrapTypes
  <2>8. ASSUME NEW c \in Contexts  PROVE Shape(c)'
    <3>1. CASE c # n
      <4>1. stack'[c] = Served[c] /\ Shape(c)
        BY <2>4, <3>1 DEF TrapInv
      <4>2. /\ Len(stack'[c]) = Len(stack[c])
            /\ \A i \in 1 .. Len(stack[c]) : stack'[c][i].mode = stack[c][i].mode
        BY <2>3, <4>1
      <4>3. stack[c] = <<>> => stack'[c] = <<>>
        <5>1. Len(<<>>) = 0 /\ (stack'[c] # <<>> => Len(stack'[c]) # 0)
          BY <2>3, <4>1, EmptySeq
        <5>2. QED  BY <4>2, <5>1, Zenon
      <4>4. QED  BY <4>1, <4>2, <4>3 DEF Shape
    <3>2. CASE c = n
      <4>1. Len(stack'[n]) = 0 => stack'[n] = <<>>
        BY <2>5, EmptySeq
      <4>2. QED  BY <2>5, <3>2, <4>1 DEF Shape
    <3>3. QED  BY <3>1, <3>2
  <2>9. Running'
    <3>1. ~irq'.service
      BY <1>1, <1>2
    <3>2. CASE stack[n][1].mode = Home(n) /\ Len(stack'[n]) = 0
      BY <2>6, <3>1, <3>2 DEF Running
    <3>3. CASE stack[n][1].mode = "entry" /\ Len(stack'[n]) = 1
      <4>1. cpu'.mode = "entry" /\ Len(stack'[cpu'.thread]) = 1
        BY <2>6, <3>3
      <4>2. QED  BY <3>1, <4>1 DEF Running
    <3>4. QED  BY <2>5, <3>2, <3>3
  <2>10. InItsSpace'
    <3>1. cpu'.mode # "handler"
      BY <2>5, <2>6 DEF TrapFrames
    <3>2. ASSUME NEW c \in ToSet(ring'), c # n  PROVE Saved(c)'
      <4>1. c \in Contexts /\ Saved(c)
        BY <1>2, <1>4
      <4>2. stack'[c] = Served[c] /\ ctx'[c] = ctx[c]
        BY <2>4, <3>2, <4>1
      <4>3. Len(stack'[c]) = Len(stack[c]) /\ (stack[c] # <<>> => Len(stack[c]) # 0)
        BY <1>1, <2>3, <4>1, <4>2, EmptySeq DEF TrapTypes
      <4>4. stack'[c] # <<>>
        <5>1. Len(<<>>) = 0
          BY EmptySeq
        <5>2. QED  BY <4>1, <4>3, <5>1, Zenon DEF Saved
      <4>5. QED  BY <4>1, <4>2, <4>4 DEF Saved
    <3>3. QED  BY <2>6, <3>1, <3>2 DEF InItsSpace
  <2>11. QED  BY <2>7, <2>8, <2>9, <2>10 DEF TrapInv
<1>7. QED  BY <1>5, <1>6

\* The instructions that trap, from user mode or the kernel, and the timer.
LEMMA Trapping ==
  ASSUME TrapInv,
         \/ \E v \in {TimerIrq, EX_SYSCALL, EX_YIELD} : interrupt(v)
         \/ PageFault \/ TimerInterrupt
  PROVE  TrapInv'
<1> USE DEF EX_SYSCALL, EX_YIELD, EX_GP, EX_PF, TimerIrq, T_IRQ0
<1>1. irq \in [pending : BOOLEAN, service : BOOLEAN]
  BY DEF TrapInv, TrapTypes
<1>2. CASE cpu.mode \in {"user", "kernel"} /\ irq' = irq /\ \E v \in Nat : Enter(v)
  <2>1. ~irq.service
    <3>1. cpu.mode \notin {"entry", "handler"}
      BY <1>2
    <3>2. QED  BY <3>1 DEF TrapInv, Running
  <2>2. cpu.mode \notin {"entry", "handler"}
    BY <1>2
  <2>3. PICK v \in Nat : Enter(v)
    BY <1>2
  <2>4. QED  BY <1>1, <1>2, <2>1, <2>2, <2>3, Entering
<1>3. ASSUME NEW v \in {TimerIrq, EX_SYSCALL, EX_YIELD}, interrupt(v)
      PROVE  TrapInv'
  <2> DEFINE w == IF cpu.mode = "user" /\ ~UserGate(v) THEN EX_GP ELSE v
  <2>1. w \in Nat /\ Enter(w)
    BY <1>3 DEF interrupt
  <2>2. QED  BY <1>2, <1>3, <2>1 DEF interrupt
<1>4. ASSUME PageFault  PROVE TrapInv'
  BY <1>2, <1>4 DEF PageFault
<1>5. ASSUME TimerInterrupt  PROVE TrapInv'
  <2>1. /\ cpu.fi /\ ~irq.service /\ Enter(TimerIrq)
        /\ irq' \in [pending : BOOLEAN, service : BOOLEAN] /\ irq'.service
    BY <1>5 DEF TimerInterrupt
  <2>2. cpu.mode # "handler"
    <3>1. cpu.mode = "handler" => ~cpu.fi
      BY ThreadFacts DEF TrapInv, Running
    <3>2. QED  BY <2>1, <3>1
  <2>3. QED  BY <2>1, <2>2, Entering
<1>6. QED  BY <1>3, <1>4, <1>5

\* Steps that leave every stack and context alone.
LEMMA Resting ==
  ASSUME TrapInv,
         (\E on \in BOOLEAN : iset(on)) \/ TimerFires \/ UNCHANGED trapVars
  PROVE  TrapInv'
<1>1. stack' = stack /\ ctx' = ctx /\ ring' = ring
  BY DEF iset, TimerFires, trapVars
<1>2. /\ cpu'.thread = cpu.thread /\ cpu'.mode = cpu.mode /\ cpu'.fi \in BOOLEAN
      /\ cpu'.cr3 = cpu.cr3 /\ cpu'.rsp0 = cpu.rsp0
      /\ cpu.mode = "handler" => cpu'.fi = cpu.fi
      /\ cpu' = [thread |-> cpu'.thread, mode |-> cpu'.mode, fi |-> cpu'.fi,
                 cr3 |-> cpu'.cr3, rsp0 |-> cpu'.rsp0]
  <2>1. CASE \E on \in BOOLEAN : iset(on)
    BY <2>1 DEF iset, TrapInv, TrapTypes
  <2>2. CASE cpu' = cpu
    BY <2>2 DEF TrapInv, TrapTypes
  <2>3. QED  BY <2>1, <2>2 DEF TimerFires, trapVars
<1>3. irq'.service = irq.service /\ irq' \in [pending : BOOLEAN, service : BOOLEAN]
  BY DEF iset, TimerFires, trapVars, TrapInv, TrapTypes
<1>4. TrapTypes'
  BY <1>1, <1>2, <1>3 DEF TrapInv, TrapTypes
<1>5. \A c \in Contexts : Shape(c)'
  BY <1>1 DEF TrapInv, Shape
<1>6. Running'
  BY <1>1, <1>2, <1>3 DEF TrapInv, Running, Vector
<1>7. InItsSpace'
  BY <1>1, <1>2 DEF TrapInv, InItsSpace, Saved
<1>8. QED  BY <1>4, <1>5, <1>6, <1>7 DEF TrapInv

\* No context has trapped yet.
LEMMA TrapsStart ==
  ASSUME TrapsInit
  PROVE  TrapInv
<1>1. /\ cpu = [thread |-> Main, mode |-> "kernel", fi |-> FALSE, cr3 |-> Kpt, rsp0 |-> None]
      /\ stack = [t \in Contexts |-> <<>>] /\ ctx = [t \in Contexts |-> None]
      /\ ring = <<>> /\ irq = [pending |-> FALSE, service |-> FALSE]
  BY DEF TrapsInit, Contexts
<1>2. Main \in Contexts /\ Main \notin Uthreads /\ Home(Main) = "kernel"
  BY TrapsAssumption DEF Contexts, Threads, Home
<1>3. Len(<<>>) = 0 /\ <<>> \in Seq(TrapFrames) /\ <<>> \in Seq(Threads) /\ ToSet(<<>>) = {}
  BY EmptySeq DEF ToSet
<1>4. TrapTypes
  BY <1>1, <1>2, <1>3 DEF TrapTypes
<1>5. (\A c \in Contexts : Shape(c)) /\ Running /\ InItsSpace
  BY <1>1, <1>2, <1>3 DEF Shape, Running, InItsSpace
<1>6. QED  BY <1>4, <1>5 DEF TrapInv

\* Every step of the processor, the timer and the client keeps the invariant.
LEMMA TrapsStep ==
  ASSUME TrapInv, [TrapsNext]_trapVars
  PROVE  TrapInv'
<1>1. ASSUME NEW t \in Kthreads, kcontext(t)  PROVE TrapInv'
  <2>1. t \in Threads /\ t \notin Uthreads /\ Home(t) = "kernel"
    BY TrapsAssumption DEF Threads, Home
  <2>2. QED  BY <1>1, <2>1, Making DEF kcontext
<1>2. ASSUME NEW t \in Uthreads, ucontext(t)  PROVE TrapInv'
  <2>1. t \in Threads /\ Home(t) = "user"
    BY DEF Threads, Home
  <2>2. QED  BY <1>2, <2>1, Making DEF ucontext
<1>3. QED  BY <1>1, <1>2, Trapping, Resting, Handling, Returning DEF TrapsNext

\* What the invariant means for the properties.
LEMMA TrapsSound ==
  ASSUME TrapInv
  PROVE  UserRunsInItsSpace /\ NestingBounded
<1>1. UserRunsInItsSpace
  BY ThreadFacts DEF UserRunsInItsSpace, TrapInv, InItsSpace
<1>2. NestingBounded
  <2>1. ASSUME NEW t \in DOMAIN stack  PROVE Len(stack[t]) <= 2
    <3>1. t \in Contexts /\ Shape(t)
      BY DEF TrapInv, TrapTypes
    <3>2. stack[t] = <<>> => Len(stack[t]) = 0
      BY EmptySeq
    <3>3. Len(stack[t]) = 0 \/ Len(stack[t]) = 1 \/ Len(stack[t]) = 2
      BY <3>1, <3>2 DEF Shape
    <3>4. \A k \in {0, 1, 2} : k <= 2
      OBVIOUS
    <3>5. QED  BY <3>3, <3>4, Zenon
  <2>2. irq.service => cpu.mode = "entry" /\ Vector = TimerIrq
    BY DEF TrapInv, Running
  <2>3. QED  BY <2>1, <2>2 DEF NestingBounded
<1>3. QED  BY <1>1, <1>2

\* User code runs in the space it was made for, over its own kernel stack,
\* whatever the threads of the kernel that borrow them did before (cte.c:95).
THEOREM SpacesAreKept == TrapsSpec => []UserRunsInItsSpace
<1>1. TrapsInit => TrapInv
  BY TrapsStart
<1>2. TrapInv /\ [TrapsNext]_trapVars => TrapInv'
  BY TrapsStep
<1>3. TrapInv => UserRunsInItsSpace
  BY TrapsSound
<1>4. QED  BY <1>1, <1>2, <1>3, PTL DEF TrapsSpec

\* At most two frames nest, and an interrupt is in service only in the entry
\* of the trap it brought (cte.c:48, cte.c:113, trap64.S).
THEOREM NestingIsBounded == TrapsSpec => []NestingBounded
<1>1. TrapsInit => TrapInv
  BY TrapsStart
<1>2. TrapInv /\ [TrapsNext]_trapVars => TrapInv'
  BY TrapsStep
<1>3. TrapInv => NestingBounded
  BY TrapsSound
<1>4. QED  BY <1>1, <1>2, <1>3, PTL DEF TrapsSpec

-----------------------------------------------------------------------------
(* The program in memory (Loader).                                           *)

\* A number is quotient and remainder, in one way.
LEMMA Division ==
  ASSUME NEW a \in Int, NEW b \in Nat \ {0}
  PROVE  a \div b \in Int /\ a % b \in 0 .. b - 1 /\ a % b = a - (a \div b) * b
<1>1. a \div b \in Int
  BY SMT
<1>2. a % b \in 0 .. b - 1
  BY SMT
<1>3. a % b = a - (a \div b) * b
  BY SMT
<1>4. QED
  BY <1>1, <1>2, <1>3

LEMMA DivisionUnique ==
  ASSUME NEW a \in Int, NEW b \in Nat \ {0}, NEW q \in Int, NEW r \in 0 .. b - 1,
         a = q * b + r
  PROVE  a \div b = q
<1> DEFINE p == a \div b
           s == a % b
<1>1. p \in Int /\ s \in 0 .. b - 1 /\ s = a - p * b
  BY Division
<1> HIDE DEF p, s
<1>2. (p - q) * b = r - s
  BY <1>1
<1>3. p >= q + 1 => (p - q) * b >= b
  BY <1>1
<1>4. q >= p + 1 => (p - q) * b <= 0 - b
  BY <1>1
<1>5. p = q
  BY <1>1, <1>2, <1>3, <1>4
<1>6. QED
  BY <1>5 DEF p

\* The constants as numbers.
LEMMA Sizes ==
  /\ SECTSIZE \in Nat \ {0} /\ ARGSIZE \in Nat /\ MAINARG_ADDR \in Nat /\ HeaderAddr \in Nat
  /\ HeaderSize \in Nat /\ MemoryBytes \in Nat
  /\ ARGSIZE % SECTSIZE = 0 /\ MAINARG_ADDR % SECTSIZE = 0 /\ HeaderAddr % SECTSIZE = 0
  /\ MAINARG_ADDR + ARGSIZE <= HeaderAddr /\ HeaderAddr + HeaderSize <= MemoryBytes
  BY LoaderAssumption

\* Between the first byte of a sector and the last all bytes have its number.
LEMMA SameSector ==
  ASSUME NEW a \in Nat, NEW x \in Nat, NEW c, c = a - (a % SECTSIZE), c <= x, x <= a
  PROVE  x \div SECTSIZE = a \div SECTSIZE
<1> DEFINE q == a \div SECTSIZE
           r == a % SECTSIZE
           z == q * SECTSIZE
<1>1. SECTSIZE \in Nat \ {0}
  BY Sizes
<1>2. q \in Int /\ r \in 0 .. SECTSIZE - 1 /\ r = a - z
  <2>1. a \in Int
    OBVIOUS
  <2>2. QED  BY <1>1, <2>1, Division, Zenon
<1>3. c = a - r
  OBVIOUS
<1> HIDE DEF q, r
<1>4. z \in Int
  BY <1>1, <1>2
<1> HIDE DEF z
<1>5. x - z \in 0 .. SECTSIZE - 1 /\ x = z + (x - z)
  <2>1. c \in Int /\ c = z
    BY <1>1, <1>2, <1>3, <1>4
  <2>2. QED  BY <1>1, <1>2, <1>4, <2>1
<1>6. x \div SECTSIZE = q
  BY <1>1, <1>2, <1>5, DivisionUnique DEF z
<1>7. QED  BY <1>6 DEF q

\* Copying writes within the sectors of a segment,
LEMMA CopiedSectors ==
  ASSUME NEW buf \in Nat, NEW n \in Nat, NEW m \in Nat \ {0}, n <= m,
         NEW a \in SectorsThrough(buf - (buf % SECTSIZE), buf + n)
  PROVE  \E x \in buf .. buf + m - 1 : x \div SECTSIZE = a \div SECTSIZE
<1> DEFINE c == a - (a % SECTSIZE)
           d == buf - (buf % SECTSIZE)
<1>1. a \in Nat /\ a >= d /\ c < buf + n
  BY Sizes DEF SectorsThrough
<1>2. SECTSIZE \in Nat \ {0}
  BY Sizes
<1>3. a % SECTSIZE \in 0 .. SECTSIZE - 1 /\ buf % SECTSIZE \in 0 .. SECTSIZE - 1
  <2>1. a \in Int /\ buf \in Int
    BY <1>1
  <2>2. QED  BY <1>2, <2>1, Division, Zenon
<1>4. c \in Int /\ c <= a /\ d \in Int /\ d <= buf
  BY <1>1, <1>2, <1>3
<1> HIDE DEF c, d
<1>5. CASE a < buf
  <2>1. a \div SECTSIZE = buf \div SECTSIZE
    BY <1>1, <1>4, <1>5, SameSector DEF d
  <2>2. buf \in buf .. buf + m - 1
    OBVIOUS
  <2>3. QED  BY <2>1, <2>2
<1>6. CASE a \in buf .. buf + m - 1
  BY <1>6
<1>7. CASE a >= buf + m
  <2> DEFINE x == IF c >= buf THEN c ELSE buf
  <2>1. x \in buf .. buf + m - 1 /\ x \in Nat /\ c <= x /\ x <= a
    BY <1>1, <1>4, <1>7
  <2>2. x \div SECTSIZE = a \div SECTSIZE
    BY <1>1, <1>4, <2>1, SameSector DEF c
  <2>3. QED  BY <2>1, <2>2
<1>8. QED  BY <1>1, <1>5, <1>6, <1>7

\* and nothing for a segment of no bytes that begins with a sector.
LEMMA NothingCopied ==
  ASSUME NEW buf \in Nat, buf % SECTSIZE = 0
  PROVE  SectorsThrough(buf - (buf % SECTSIZE), buf + 0) = {}
<1> SUFFICES ASSUME NEW a \in Nat, NEW c, c = a - (a % SECTSIZE), a >= buf, c < buf  PROVE FALSE
  BY Sizes DEF SectorsThrough
<1> DEFINE p == buf \div SECTSIZE
           q == a \div SECTSIZE
           r == a % SECTSIZE
           y == p * SECTSIZE
           z == q * SECTSIZE
<1>1. SECTSIZE \in Nat \ {0}
  BY Sizes
<1>2. p \in Int /\ buf = y
  BY <1>1, Division
<1>3. q \in Int /\ r \in 0 .. SECTSIZE - 1 /\ r = a - z
  <2>1. a \in Int
    OBVIOUS
  <2>2. QED  BY <1>1, <2>1, Division, Zenon
<1>4. c = a - r
  OBVIOUS
<1> HIDE DEF p, q, r
<1>5. /\ y \in Int /\ z \in Int /\ (p <= q => y <= z)
      /\ (p >= q + 1 => y >= z + SECTSIZE)
  BY <1>1, <1>2, <1>3
<1> HIDE DEF y, z
<1>6. c = z
  BY <1>1, <1>3, <1>4, <1>5
<1>7. QED  BY <1>1, <1>2, <1>3, <1>5, <1>6

\* A byte outside the sectors of a segment keeps its content when the segment
\* is loaded.
LEMMA OthersKept ==
  ASSUME NEW s \in Segments, NEW a \in DOMAIN memory, a \div SECTSIZE \notin Sectors(s)
  PROVE  load_program(s)[a] = memory[a]
<1>1. /\ s.filesz \in Nat /\ s.memsz \in Nat /\ s.paddr \in Nat /\ s.filesz <= s.memsz
      /\ s.memsz = 0 => s.paddr % SECTSIZE = 0
  BY LoaderAssumption
<1>2. a \notin s.paddr .. s.paddr + s.memsz - 1
  BY DEF Sectors
<1>3. a \notin s.paddr + s.filesz .. s.paddr + s.memsz - 1
  BY <1>1, <1>2
<1>4. a \notin SectorsThrough(s.paddr - (s.paddr % SECTSIZE), s.paddr + s.filesz)
  <2>1. CASE s.memsz = 0
    <3>1. s.filesz = 0
      BY <1>1, <2>1
    <3>2. QED  BY <1>1, <2>1, <3>1, NothingCopied
  <2>2. CASE s.memsz # 0
    <3>1. s.memsz \in Nat \ {0}
      BY <1>1, <2>2
    <3>2. ASSUME a \in SectorsThrough(s.paddr - (s.paddr % SECTSIZE), s.paddr + s.filesz)
          PROVE  FALSE
      <4> DEFINE buf == s.paddr
                 n == s.filesz
                 m == s.memsz
      <4>1. buf \in Nat /\ n \in Nat /\ m \in Nat \ {0} /\ n <= m
        BY <1>1, <3>1
      <4>2. a \in SectorsThrough(buf - (buf % SECTSIZE), buf + n)
        BY <3>2
      <4> HIDE DEF buf, n, m
      <4>3. \E x \in buf .. buf + m - 1 : x \div SECTSIZE = a \div SECTSIZE
        <5>1. \A j \in Nat \ {0} : n <= j =>
                \A b \in SectorsThrough(buf - (buf % SECTSIZE), buf + n) :
                  \E x \in buf .. buf + j - 1 : x \div SECTSIZE = b \div SECTSIZE
          <6>1. buf \in Nat /\ n \in Nat
            BY <4>1
          <6>2. QED  BY <6>1, CopiedSectors, Zenon
        <5>2. m \in Nat \ {0} /\ n <= m
          BY <4>1
        <5>3. QED  BY <4>2, <5>1, <5>2, Zenon
      <4>4. QED  BY <4>3 DEF Sectors, buf, m
    <3>3. QED  BY <3>2
  <2>3. QED  BY <2>1, <2>2
<1>5. QED
  BY <1>3, <1>4 DEF load_program, copy_from_disk

\* The bytes of a segment come from their places in the file.
LEMMA BytesCopied ==
  ASSUME NEW paddr \in Nat, NEW filesz \in Nat, NEW offset \in Int, NEW i \in 0 .. filesz - 1,
         paddr % SECTSIZE = offset % SECTSIZE, paddr + i \in DOMAIN memory,
         DOMAIN memory = 0 .. MemoryBytes - 1
  PROVE  copy_from_disk(paddr, filesz, offset)[paddr + i] = Image(offset + i)
<1> DEFINE cur == paddr - (paddr % SECTSIZE)
           sect == offset \div SECTSIZE + ARGSIZE \div SECTSIZE + 1
           a == paddr + i
<1>1. SECTSIZE \in Nat \ {0} /\ ARGSIZE \in Nat /\ ARGSIZE % SECTSIZE = 0 /\ a \in Nat
  BY Sizes
<1>2. paddr % SECTSIZE \in 0 .. SECTSIZE - 1 /\ a % SECTSIZE \in 0 .. SECTSIZE - 1
  <2>1. paddr \in Int /\ a \in Int
    BY <1>1
  <2>2. QED  BY <1>1, <2>1, Division, Zenon
<1>3. a \in SectorsThrough(cur, paddr + filesz)
  <2>1. a >= cur
    BY <1>1, <1>2
  <2>2. a - (a % SECTSIZE) < paddr + filesz
    <3> DEFINE w == a % SECTSIZE
    <3>1. w \in 0 .. SECTSIZE - 1 /\ a < paddr + filesz
      BY <1>2
    <3> HIDE DEF w
    <3>2. a - w < paddr + filesz
      BY <1>1, <3>1
    <3>3. QED  BY <3>2 DEF w
  <2>3. QED  BY <2>1, <2>2 DEF SectorsThrough
<1>4. copy_from_disk(paddr, filesz, offset)[a] = sect * SECTSIZE + (a - cur)
  BY <1>3 DEF copy_from_disk
<1> DEFINE q == offset \div SECTSIZE
           k == ARGSIZE \div SECTSIZE
           r == offset % SECTSIZE
<1>5. q \in Int /\ r \in 0 .. SECTSIZE - 1 /\ r = offset - q * SECTSIZE
  <2>1. offset \in Int
    OBVIOUS
  <2>2. QED  BY <1>1, <2>1, Division
<1>6. k \in Int /\ ARGSIZE = k * SECTSIZE
  BY <1>1, Division
<1>7. a - cur = r + i
  BY <1>1, <1>2
<1> HIDE DEF q, k, r
<1>8. (q + k + 1) * SECTSIZE = q * SECTSIZE + k * SECTSIZE + SECTSIZE
  BY <1>1, <1>5, <1>6
<1>9. sect = q + k + 1
  BY DEF q, k
<1>10. sect * SECTSIZE + (a - cur) = SECTSIZE + ARGSIZE + (offset + i)
  <2> DEFINE y == q * SECTSIZE
             z == k * SECTSIZE
  <2>1. y \in Int /\ z \in Int
    BY <1>1, <1>5, <1>6
  <2>2. r = offset - y /\ ARGSIZE = z /\ sect * SECTSIZE = y + z + SECTSIZE
    BY <1>5, <1>6, <1>8, <1>9
  <2> HIDE DEF y, z
  <2> HIDE DEF sect, cur, a
  <2>3. QED  BY <1>1, <1>5, <1>7, <2>1, <2>2
<1>11. QED  BY <1>4, <1>10 DEF Image

\* The disk begins a whole number of sectors before the program's file.
LEMMA BeforeTheFile == (-ARGSIZE) % SECTSIZE = 0
<1> DEFINE q == (-ARGSIZE) \div SECTSIZE
           r == (-ARGSIZE) % SECTSIZE
           k == ARGSIZE \div SECTSIZE
           y == q * SECTSIZE
           z == k * SECTSIZE
<1>1. SECTSIZE \in Nat \ {0} /\ ARGSIZE \in Nat /\ ARGSIZE % SECTSIZE = 0
  BY Sizes
<1>2. q \in Int /\ r \in 0 .. SECTSIZE - 1 /\ r = (-ARGSIZE) - y
  <2>1. -ARGSIZE \in Int
    BY <1>1
  <2>2. QED  BY <1>1, <2>1, Division, Zenon
<1>3. k \in Int /\ ARGSIZE = z
  BY <1>1, Division
<1> HIDE DEF q, r, k
<1>4. q + k >= 0 => y + z >= 0
  BY <1>1, <1>2, <1>3
<1>5. q + k <= -1 => y + z <= 0 - SECTSIZE
  BY <1>1, <1>2, <1>3
<1>6. y \in Int /\ z \in Int
  BY <1>1, <1>2, <1>3
<1> HIDE DEF y, z
<1>7. r = 0
  BY <1>1, <1>2, <1>3, <1>4, <1>5, <1>6
<1>8. QED  BY <1>7 DEF r

-----------------------------------------------------------------------------
\* Nothing is loaded before the header, and what is loaded fits the memory.
LoaderTypes ==
  /\ step \in {"argument", "header", "segments"}
  /\ loaded \in Seq(Segments)
  /\ step # "segments" => loaded = <<>>
  /\ DOMAIN memory = 0 .. MemoryBytes - 1
LoadedFits == \A n \in DOMAIN loaded : loaded[n].paddr + loaded[n].memsz <= MemoryBytes
ArgumentInPlace ==
  step # "argument" =>
    \A i \in 0 .. ARGSIZE - 1 : memory[MAINARG_ADDR + i] = Image(i - ARGSIZE)
HeaderInPlace ==
  step = "segments" => \A i \in 0 .. HeaderSize - 1 : memory[HeaderAddr + i] = Image(i)
InPlace(s) ==
  /\ \A i \in 0 .. s.filesz - 1 : memory[s.paddr + i] = Image(s.offset + i)
  /\ \A i \in s.filesz .. s.memsz - 1 : memory[s.paddr + i] = 0
LoadedInPlace == \A n \in DOMAIN loaded : InPlace(loaded[n])
LoaderInv ==
  LoaderTypes /\ LoadedFits /\ ArgumentInPlace /\ HeaderInPlace /\ LoadedInPlace

\* The numbers of a segment.
LEMMA SegmentFacts ==
  ASSUME NEW s \in Segments
  PROVE  /\ s.filesz \in Nat /\ s.memsz \in Nat /\ s.paddr \in Nat /\ s.offset \in Nat
         /\ s.filesz <= s.memsz
  BY LoaderAssumption

\* Before the first step nothing has been loaded.
LEMMA LoaderStarts == LoaderInit => LoaderInv
<1> SUFFICES ASSUME LoaderInit  PROVE LoaderInv
  OBVIOUS
<1>1. step = "argument" /\ loaded = <<>> /\ DOMAIN memory = 0 .. MemoryBytes - 1
  BY DEF LoaderInit
<1>2. LoaderTypes
  BY <1>1 DEF LoaderTypes
<1>3. LoadedFits /\ LoadedInPlace
  BY <1>1 DEF LoadedFits, LoadedInPlace
<1>4. ArgumentInPlace /\ HeaderInPlace
  BY <1>1 DEF ArgumentInPlace, HeaderInPlace
<1>5. QED  BY <1>2, <1>3, <1>4 DEF LoaderInv

\* The argument lies in front of the program's file on the disk.
LEMMA ArgumentLoaded == LoaderInv /\ load_argument => LoaderInv'
<1> SUFFICES ASSUME LoaderInv, load_argument  PROVE LoaderInv'
  OBVIOUS
<1>1. /\ step = "argument" /\ step' = "header" /\ loaded' = loaded
      /\ memory' = copy_from_disk(MAINARG_ADDR, ARGSIZE, -ARGSIZE)
  BY DEF load_argument
<1>2. loaded = <<>> /\ loaded' = <<>> /\ DOMAIN memory = 0 .. MemoryBytes - 1
  BY <1>1 DEF LoaderInv, LoaderTypes
<1>3. LoaderTypes'
  BY <1>1, <1>2 DEF LoaderTypes, copy_from_disk
<1>4. LoadedFits' /\ LoadedInPlace'
  BY <1>2 DEF LoadedFits, LoadedInPlace
<1>5. ArgumentInPlace'
  <2> SUFFICES ASSUME NEW i \in 0 .. ARGSIZE - 1
               PROVE  memory'[MAINARG_ADDR + i] = Image(i - ARGSIZE)
    BY DEF ArgumentInPlace, Image
  <2>1. MAINARG_ADDR \in Nat /\ ARGSIZE \in Nat /\ -ARGSIZE \in Int /\ SECTSIZE \in Nat
    BY Sizes
  <2>2. MAINARG_ADDR + i \in DOMAIN memory
    BY <1>2, Sizes
  <2>3. MAINARG_ADDR % SECTSIZE = (-ARGSIZE) % SECTSIZE
    BY Sizes, BeforeTheFile
  <2>4. copy_from_disk(MAINARG_ADDR, ARGSIZE, -ARGSIZE)[MAINARG_ADDR + i] = Image(-ARGSIZE + i)
    BY <1>2, <2>1, <2>2, <2>3, BytesCopied
  <2>5. Image(-ARGSIZE + i) = Image(i - ARGSIZE)
    BY <2>1 DEF Image
  <2>6. QED  BY <1>1, <2>4, <2>5
<1>6. HeaderInPlace'
  BY <1>1 DEF HeaderInPlace
<1>7. QED  BY <1>3, <1>4, <1>5, <1>6 DEF LoaderInv

\* The header comes after the argument and does not reach back to it.
LEMMA HeaderLoaded == LoaderInv /\ load_header => LoaderInv'
<1> SUFFICES ASSUME LoaderInv, load_header  PROVE LoaderInv'
  OBVIOUS
<1>1. /\ step = "header" /\ step' = "segments" /\ loaded' = loaded
      /\ memory' = copy_from_disk(HeaderAddr, HeaderSize, 0)
  BY DEF load_header
<1>2. loaded = <<>> /\ loaded' = <<>> /\ DOMAIN memory = 0 .. MemoryBytes - 1
  BY <1>1 DEF LoaderInv, LoaderTypes
<1>3. LoaderTypes'
  BY <1>1, <1>2 DEF LoaderTypes, copy_from_disk
<1>4. LoadedFits' /\ LoadedInPlace'
  BY <1>2 DEF LoadedFits, LoadedInPlace
<1>5. ArgumentInPlace'
  <2> SUFFICES ASSUME NEW i \in 0 .. ARGSIZE - 1
               PROVE  memory'[MAINARG_ADDR + i] = Image(i - ARGSIZE)
    BY DEF ArgumentInPlace, Image
  <2>1. MAINARG_ADDR + i \in DOMAIN memory
    BY <1>2, Sizes
  <2>2. HeaderAddr - (HeaderAddr % SECTSIZE) = HeaderAddr /\ MAINARG_ADDR + i < HeaderAddr
    BY Sizes
  <2>3. MAINARG_ADDR + i \notin
          SectorsThrough(HeaderAddr - (HeaderAddr % SECTSIZE), HeaderAddr + HeaderSize)
    BY <2>2, Sizes DEF SectorsThrough
  <2>4. memory'[MAINARG_ADDR + i] = memory[MAINARG_ADDR + i]
    BY <1>1, <2>1, <2>3 DEF copy_from_disk
  <2>5. memory[MAINARG_ADDR + i] = Image(i - ARGSIZE)
    BY <1>1 DEF LoaderInv, ArgumentInPlace
  <2>6. QED  BY <2>4, <2>5
<1>6. HeaderInPlace'
  <2> SUFFICES ASSUME NEW i \in 0 .. HeaderSize - 1
               PROVE  memory'[HeaderAddr + i] = Image(i)
    BY DEF HeaderInPlace, Image
  <2>1. HeaderAddr \in Nat /\ HeaderSize \in Nat /\ 0 \in Int
    BY Sizes
  <2>2. HeaderAddr + i \in DOMAIN memory
    BY <1>2, Sizes
  <2>3. HeaderAddr % SECTSIZE = 0 % SECTSIZE
    BY Sizes
  <2>4. copy_from_disk(HeaderAddr, HeaderSize, 0)[HeaderAddr + i] = Image(0 + i)
    BY <1>2, <2>1, <2>2, <2>3, BytesCopied
  <2>5. 0 + i = i
    OBVIOUS
  <2>6. QED  BY <1>1, <2>4, <2>5
<1>7. QED  BY <1>3, <1>4, <1>5, <1>6 DEF LoaderInv

\* Loading a segment keeps every byte of another sector,
LEMMA SegmentKeeps ==
  ASSUME LoaderInv, NEW s \in Segments, load_elf(s),
         NEW t \in {loaded[n] : n \in DOMAIN loaded} \cup
                   {[paddr |-> MAINARG_ADDR, memsz |-> ARGSIZE],
                    [paddr |-> HeaderAddr, memsz |-> HeaderSize]},
         t.paddr \in Nat, t.memsz \in Nat, t.paddr + t.memsz <= MemoryBytes,
         NEW i \in 0 .. t.memsz - 1
  PROVE  memory'[t.paddr + i] = memory[t.paddr + i]
<1>1. Sectors(s) \cap Sectors(t) = {} /\ memory' = load_program(s)
  BY DEF load_elf, AsLinked
<1>2. t.paddr + i \in t.paddr .. t.paddr + t.memsz - 1
  OBVIOUS
<1>3. (t.paddr + i) \div SECTSIZE \in Sectors(t)
  BY <1>2 DEF Sectors
<1>4. (t.paddr + i) \div SECTSIZE \notin Sectors(s)
  BY <1>1, <1>3
<1>5. t.paddr + i \in DOMAIN memory
  BY <1>2, Sizes DEF LoaderInv, LoaderTypes
<1>6. QED  BY <1>1, <1>4, <1>5, OthersKept

\* and puts its own bytes into place.
LEMMA SegmentPlaced ==
  ASSUME LoaderInv, NEW s \in Segments, load_elf(s)
  PROVE  InPlace(s)'
<1>1. /\ s.filesz \in Nat /\ s.memsz \in Nat /\ s.paddr \in Nat /\ s.offset \in Nat
      /\ s.filesz <= s.memsz
  BY SegmentFacts
<1>2. /\ memory' = load_program(s) /\ s.paddr % SECTSIZE = s.offset % SECTSIZE
      /\ s.paddr + s.memsz <= MemoryBytes
  BY DEF load_elf, AsLinked
<1>3. DOMAIN memory = 0 .. MemoryBytes - 1 /\ MemoryBytes \in Nat
  BY Sizes DEF LoaderInv, LoaderTypes
<1>4. ASSUME NEW i \in 0 .. s.filesz - 1
      PROVE  memory'[s.paddr + i] = Image(s.offset + i)
  <2> DEFINE paddr == s.paddr
             filesz == s.filesz
             memsz == s.memsz
             offset == s.offset
  <2>1. s.paddr + i \in DOMAIN memory /\ s.paddr + i \notin s.paddr + s.filesz .. s.paddr + s.memsz - 1
    <3>1. /\ paddr \in Nat /\ filesz \in Nat /\ memsz \in Nat /\ filesz <= memsz
          /\ paddr + memsz <= MemoryBytes /\ i \in 0 .. filesz - 1
      BY <1>1, <1>2
    <3> HIDE DEF paddr, filesz, memsz
    <3>2. paddr + i \in DOMAIN memory /\ paddr + i \notin paddr + filesz .. paddr + memsz - 1
      BY <1>3, <3>1
    <3>3. QED  BY <3>2 DEF paddr, filesz, memsz
  <2>2. memory'[s.paddr + i] = copy_from_disk(s.paddr, s.filesz, s.offset)[s.paddr + i]
    BY <1>2, <2>1 DEF load_program
  <2>3. s.offset \in Int
    BY <1>1
  <2>4. copy_from_disk(s.paddr, s.filesz, s.offset)[s.paddr + i] = Image(s.offset + i)
    <3>1. /\ paddr \in Nat /\ filesz \in Nat /\ offset \in Int /\ i \in 0 .. filesz - 1
          /\ paddr % SECTSIZE = offset % SECTSIZE /\ paddr + i \in DOMAIN memory
      BY <1>1, <1>2, <2>1
    <3> HIDE DEF paddr, filesz, offset
    <3>2. copy_from_disk(paddr, filesz, offset)[paddr + i] = Image(offset + i)
      BY <1>3, <3>1, BytesCopied
    <3>3. QED  BY <3>2 DEF paddr, filesz, offset
  <2>5. QED  BY <2>2, <2>4
<1>5. ASSUME NEW i \in s.filesz .. s.memsz - 1
      PROVE  memory'[s.paddr + i] = 0
  <2>1. s.paddr + i \in DOMAIN memory /\ s.paddr + i \in s.paddr + s.filesz .. s.paddr + s.memsz - 1
    BY <1>1, <1>2, <1>3
  <2>2. QED  BY <1>2, <2>1 DEF load_program
<1>6. QED  BY <1>4, <1>5 DEF InPlace, Image

\* So all stays in place when a segment is loaded.
LEMMA SegmentLoaded == ASSUME NEW s \in Segments  PROVE LoaderInv /\ load_elf(s) => LoaderInv'
<1> SUFFICES ASSUME LoaderInv, load_elf(s)  PROVE LoaderInv'
  OBVIOUS
<1>1. /\ step = "segments" /\ step' = "segments" /\ loaded' = Append(loaded, s)
      /\ memory' = load_program(s) /\ s.paddr + s.memsz <= MemoryBytes
  BY DEF load_elf, AsLinked
<1>2. loaded \in Seq(Segments) /\ DOMAIN memory = 0 .. MemoryBytes - 1
  BY DEF LoaderInv, LoaderTypes
<1>3. /\ loaded' \in Seq(Segments)
      /\ \A n \in DOMAIN loaded' :
           \/ n \in DOMAIN loaded /\ loaded'[n] = loaded[n] /\ loaded[n] \in Segments
           \/ loaded'[n] = s
  BY <1>1, <1>2
<1>4. LoaderTypes'
  BY <1>1, <1>2, <1>3 DEF LoaderTypes, load_program
<1>5. LoadedFits'
  <2> SUFFICES ASSUME NEW n \in DOMAIN loaded'
               PROVE  loaded'[n].paddr + loaded'[n].memsz <= MemoryBytes
    BY DEF LoadedFits
  <2>1. QED  BY <1>1, <1>3 DEF LoaderInv, LoadedFits
<1>6. ArgumentInPlace'
  <2> DEFINE t == [paddr |-> MAINARG_ADDR, memsz |-> ARGSIZE]
  <2> SUFFICES ASSUME NEW i \in 0 .. ARGSIZE - 1
               PROVE  memory'[MAINARG_ADDR + i] = Image(i - ARGSIZE)
    BY DEF ArgumentInPlace, Image
  <2>1. t.paddr = MAINARG_ADDR /\ t.memsz = ARGSIZE
    OBVIOUS
  <2>2. t.paddr \in Nat /\ t.memsz \in Nat /\ t.paddr + t.memsz <= MemoryBytes
    BY <2>1, Sizes
  <2>3. memory'[t.paddr + i] = memory[t.paddr + i]
    BY <2>1, <2>2, SegmentKeeps
  <2>4. memory[MAINARG_ADDR + i] = Image(i - ARGSIZE)
    BY <1>1 DEF LoaderInv, ArgumentInPlace
  <2>5. QED  BY <2>1, <2>3, <2>4
<1>7. HeaderInPlace'
  <2> DEFINE t == [paddr |-> HeaderAddr, memsz |-> HeaderSize]
  <2> SUFFICES ASSUME NEW i \in 0 .. HeaderSize - 1
               PROVE  memory'[HeaderAddr + i] = Image(i)
    BY DEF HeaderInPlace, Image
  <2>1. t.paddr = HeaderAddr /\ t.memsz = HeaderSize
    OBVIOUS
  <2>2. t.paddr \in Nat /\ t.memsz \in Nat /\ t.paddr + t.memsz <= MemoryBytes
    BY <2>1, Sizes
  <2>3. memory'[t.paddr + i] = memory[t.paddr + i]
    BY <2>1, <2>2, SegmentKeeps
  <2>4. memory[HeaderAddr + i] = Image(i)
    BY <1>1 DEF LoaderInv, HeaderInPlace
  <2>5. QED  BY <2>1, <2>3, <2>4
<1>8. LoadedInPlace'
  <2> SUFFICES ASSUME NEW n \in DOMAIN loaded'  PROVE InPlace(loaded[n])'
    BY DEF LoadedInPlace
  <2>1. CASE loaded'[n] = s
    BY <2>1, SegmentPlaced DEF InPlace, Image
  <2>2. CASE n \in DOMAIN loaded /\ loaded'[n] = loaded[n] /\ loaded[n] \in Segments
    <3> DEFINE t == loaded[n]
    <3>1. /\ t.filesz \in Nat /\ t.memsz \in Nat /\ t.paddr \in Nat /\ t.filesz <= t.memsz
          /\ t.paddr + t.memsz <= MemoryBytes
      BY <2>2, SegmentFacts DEF LoaderInv, LoadedFits
    <3>2. InPlace(t)
      BY <2>2 DEF LoaderInv, LoadedInPlace
    <3>3. ASSUME NEW i \in 0 .. t.memsz - 1  PROVE memory'[t.paddr + i] = memory[t.paddr + i]
      BY <2>2, <3>1, SegmentKeeps
    <3>4. loaded'[n] = t
      BY <2>2
    <3> HIDE DEF t
    <3>5. ASSUME NEW i \in 0 .. t.filesz - 1  PROVE memory'[t.paddr + i] = Image(t.offset + i)
      <4>1. i \in 0 .. t.memsz - 1
        BY <3>1
      <4>2. QED  BY <3>2, <3>3, <4>1 DEF InPlace
    <3>6. ASSUME NEW i \in t.filesz .. t.memsz - 1  PROVE memory'[t.paddr + i] = 0
      <4>1. i \in 0 .. t.memsz - 1
        BY <3>1
      <4>2. QED  BY <3>2, <3>3, <4>1 DEF InPlace
    <3>7. QED  BY <3>4, <3>5, <3>6 DEF InPlace, Image
  <2>3. QED  BY <1>3, <2>1, <2>2
<1>9. QED  BY <1>4, <1>5, <1>6, <1>7, <1>8 DEF LoaderInv

\* Whatever is loaded stays in place.
LEMMA LoaderKeeps == LoaderInv /\ [LoaderNext]_loaderVars => LoaderInv'
<1> SUFFICES ASSUME LoaderInv, [LoaderNext]_loaderVars  PROVE LoaderInv'
  OBVIOUS
<1>1. CASE load_argument
  BY <1>1, ArgumentLoaded
<1>2. CASE load_header
  BY <1>2, HeaderLoaded
<1>3. ASSUME NEW s \in Segments, load_elf(s)  PROVE LoaderInv'
  BY <1>3, SegmentLoaded
<1>4. CASE UNCHANGED loaderVars
  BY <1>4 DEF loaderVars, LoaderInv, LoaderTypes, LoadedFits, ArgumentInPlace, HeaderInPlace,
              LoadedInPlace, InPlace, Image
<1>5. QED  BY <1>1, <1>2, <1>3, <1>4 DEF LoaderNext

\* The loader puts the argument, the header and every segment of the program
\* into place and leaves them there, though it writes whole sectors (main.c:26).
THEOREM ProgramIsInPlace == LoaderSpec => []SegmentsInPlace
<1>1. LoaderInv => SegmentsInPlace
  BY DEF LoaderInv, ArgumentInPlace, HeaderInPlace, LoadedInPlace, InPlace, SegmentsInPlace
<1>2. QED  BY <1>1, LoaderStarts, LoaderKeeps, PTL DEF LoaderSpec

-----------------------------------------------------------------------------
(* Page tables (PageTables): what recursions over the levels compute.        *)

\* What holds of 1, and of a number if of the one before, holds up to N.
LEMMA StepByStep ==
  ASSUME NEW N \in Nat, NEW P, 1 \in P, \A n \in 2 .. N : n - 1 \in P => n \in P
  PROVE  \A n \in 1 .. N : n \in P
<1> DEFINE Bad == {n \in Nat : n \in 1 .. N /\ n \notin P}
<1> SUFFICES ASSUME Bad # {}  PROVE FALSE
  OBVIOUS
<1>1. PICK n \in Bad : \A y \in Bad : <<y, n>> \notin OpToRel(<, Nat)
  BY NatLessThanWellFounded, WFMin
<1>0. n \in 1 .. N /\ n \notin P /\ n # 1
  BY <1>1
<1>2. n \in 2 .. N /\ n - 1 \in Nat /\ n - 1 < n /\ n - 1 \in 1 .. N
  BY <1>0
<1>3. <<n - 1, n>> \in OpToRel(<, Nat)
  BY <1>1, <1>2 DEF OpToRel
<1>4. n - 1 \in P
  BY <1>1, <1>2, <1>3
<1>5. QED  BY <1>1, <1>2, <1>4

\* A function whose first value and whose steps are given exists, with each
\* value in its set.
StepsInto(N, S, base, onward) ==
  base \in S[1] /\ \A n \in 2 .. N : \A x \in S[n - 1] : onward[n][x] \in S[n]
Steps(N, S, base, onward, f) ==
  /\ \E T : f \in [1 .. N -> T]
  /\ f[1] = base /\ \A n \in 2 .. N : f[n] = onward[n][f[n - 1]]
  /\ \A n \in 1 .. N : f[n] \in S[n]
LEMMA StepsExist ==
  ASSUME NEW N \in Nat \ {0}, NEW S, NEW base, NEW onward, StepsInto(N, S, base, onward)
  PROVE  \E f : Steps(N, S, base, onward, f)
<1> USE DEF StepsInto
<1> DEFINE Good(f, k) == /\ f = [n \in 1 .. k |-> IF n = 1 THEN base ELSE onward[n][f[n - 1]]]
                         /\ \A n \in 1 .. k : f[n] \in S[n]
           P == {k \in 1 .. N : \E f : Good(f, k)}
<1>1. 1 \in P
  <2> DEFINE f == [n \in 1 .. 1 |-> base]
  <2>1. f = [n \in 1 .. 1 |-> IF n = 1 THEN base ELSE onward[n][f[n - 1]]]
    OBVIOUS
  <2>2. Good(f, 1)
    BY <2>1
  <2>3. \E h : Good(h, 1)
    BY <2>2
  <2>4. QED  BY <2>3
<1>2. ASSUME NEW k \in 2 .. N, k - 1 \in P  PROVE k \in P
  <2>1. PICK f : Good(f, k - 1)
    BY <1>2
  <2> DEFINE g == [n \in 1 .. k |-> IF n = k THEN onward[k][f[k - 1]] ELSE f[n]]
  <2>2. k - 1 \in 1 .. k - 1 /\ f[k - 1] \in S[k - 1]
    BY <2>1
  <2>3. g[k] \in S[k]
    BY <2>2
  <2>4. \A n \in 1 .. k - 1 : g[n] = f[n] /\ n \in 1 .. k
    OBVIOUS
  <2>5. ASSUME NEW n \in 1 .. k
        PROVE  g[n] \in S[n] /\ g[n] = IF n = 1 THEN base ELSE onward[n][g[n - 1]]
    <3>1. CASE n = k
      BY <2>2, <2>3, <2>4, <3>1
    <3>2. CASE n # k
      <4>1. n \in 1 .. k - 1 /\ (n # 1 => n - 1 \in 1 .. k - 1)
        BY <3>2
      <4>2. f[n] \in S[n] /\ f[n] = IF n = 1 THEN base ELSE onward[n][f[n - 1]]
        BY <2>1, <4>1
      <4>3. g[n] = f[n] /\ (n # 1 => g[n - 1] = f[n - 1])
        BY <2>4, <4>1
      <4>4. QED  BY <4>2, <4>3
    <3>3. QED  BY <3>1, <3>2
  <2>6. g = [n \in 1 .. k |-> IF n = 1 THEN base ELSE onward[n][g[n - 1]]]
    <3> HIDE DEF g
    <3>1. g = [n \in 1 .. k |-> g[n]]
      BY DEF g
    <3>2. QED  BY <2>5, <3>1
  <2>7. Good(g, k)
    BY <2>5, <2>6
  <2>8. \E h : Good(h, k)
    <3> HIDE DEF g
    <3>1. QED  BY <2>7
  <2>9. QED  BY <2>8
<1> HIDE DEF P
<1>3. N \in 1 .. N
  OBVIOUS
<1>4. N \in P
  BY <1>1, <1>2, <1>3, StepByStep
<1>5. PICK f : Good(f, N)
  BY <1>4 DEF P
<1> DEFINE T == {f[n] : n \in 1 .. N}
<1>6. f \in [1 .. N -> T] /\ f[1] = base /\ \A n \in 2 .. N : f[n] = onward[n][f[n - 1]]
  <2>1. f = [n \in 1 .. N |-> IF n = 1 THEN base ELSE onward[n][f[n - 1]]]
    BY <1>5
  <2>2. QED  BY <2>1
<1>7. \A n \in 1 .. N : f[n] \in S[n]
  BY <1>5
<1> HIDE DEF T
<1>8. QED  BY <1>6, <1>7 DEF Steps
-----------------------------------------------------------------------------
\* What the frames are used for: each is a table of one space, or of the kernel,
\* at one level, on the way to the addresses that agree with va above it.
Owners == Spaces \cup {Kernel}
Levels == 1 .. PtLevels
Entry == [p : BOOLEAN, u : BOOLEAN, to : Nat]
Memory == [Frames -> [Index -> Entry]]
TablePlaces == [own : Owners, level : Levels, va : AllVas]
On(pos, f, o, k, va) ==
  /\ pos[f].own = o /\ pos[f].level = k
  /\ \A j \in Levels : j < k => pos[f].va[j] = va[j]

\* The addresses a table of o translates itself; a space borrows the others
\* from the kernel.
Own(o, va) == o # Kernel => va[1] \notin KernelIndex

TablesPlaced(taken, pos) ==
  /\ pos \in [Frames -> TablePlaces] /\ taken \subseteq Frames
  /\ \A f \in taken : pos[f].level > 1 => Own(pos[f].own, pos[f].va)
\* On the way to an address there is one table of a level.
One(taken, pos) ==
  \A f, g \in taken, o \in Owners, k \in Levels, va \in AllVas :
    On(pos, f, o, k, va) /\ On(pos, g, o, k, va) => f = g
\* An entry leads to the table of the next level, and a table hangs on an entry.
Down(m, taken, pos) ==
  \A f \in taken, o \in Owners, k \in Levels, va \in AllVas :
    On(pos, f, o, k, va) /\ Own(o, va) /\ m[f][va[k]].p =>
      /\ m[f][va[k]].u <=> o # Kernel
      /\ k < PtLevels => m[f][va[k]].to \in taken /\ On(pos, m[f][va[k]].to, o, k + 1, va)
Up(m, taken, pos) ==
  \A g \in taken, o \in Owners, k \in Levels, va \in AllVas :
    On(pos, g, o, k, va) /\ k > 1 =>
      \E f \in taken : On(pos, f, o, k - 1, va) /\ m[f][va[k - 1]].p /\ m[f][va[k - 1]].to = g
Forest(m, taken, pos) ==
  m \in Memory /\ TablesPlaced(taken, pos) /\ One(taken, pos) /\ Down(m, taken, pos) /\ Up(m, taken, pos)

LEMMA TableSizes ==
  /\ PtLevels \in Nat \ {0} /\ 1 \in Levels /\ PtLevels \in Levels /\ Kernel \in Owners
  /\ \A va \in AllVas, k \in Levels : va[k] \in Index
  /\ NoFrame \notin Frames
  BY PageTablesAssumption DEF Levels, AllVas, Owners, NoFrame

\* The processor's walk as the recurrence it is.
LEMMA ReachSteps ==
  ASSUME NEW m \in Memory, NEW root \in Nat, NEW va \in AllVas
  PROVE  \E at : /\ Reach(m, root, va) = at[PtLevels + 1]
                 /\ at[1] = [to |-> root, u |-> TRUE]
                 /\ \A k \in Levels : at[k + 1] = Translate(m, at[k], va[k])
<1> DEFINE N == PtLevels + 1
           Reached == [to : Nat, u : BOOLEAN]
           S == [n \in 1 .. N |-> Reached]
           base == [to |-> root, u |-> TRUE]
           Step(f) == [n \in 1 .. N |-> IF n = 1 THEN base ELSE Translate(m, f[n - 1], va[n - 1])]
           onward == [n \in 1 .. N |-> [x \in Reached |-> Translate(m, x, va[n - 1])]]
           at == CHOOSE f : f = Step(f)
<1>0. N \in Nat \ {0} /\ PtLevels \in Nat
  BY TableSizes
<1>1. base \in S[1]
  <2>1. 1 \in 1 .. N
    BY <1>0
  <2>2. QED  BY <2>1
<1>2. ASSUME NEW n \in 2 .. N, NEW x \in S[n - 1]
      PROVE  onward[n][x] \in S[n] /\ onward[n][x] = Translate(m, x, va[n - 1])
  <2>1. n - 1 \in Levels /\ n - 1 \in 1 .. N /\ n \in 1 .. N
    BY <1>0 DEF Levels
  <2>2. x \in Reached /\ va[n - 1] \in Index
    BY <2>1, TableSizes
  <2>3. x.to \in Frames => m[x.to][va[n - 1]] \in Entry
    BY <2>2 DEF Memory
  <2>4. Translate(m, x, va[n - 1]) \in Reached
    BY <2>2, <2>3 DEF Translate, Entry, NoFrame
  <2>5. QED  BY <2>1, <2>2, <2>4
<1> HIDE DEF N, base, onward, S
<1>3. PICK f : Steps(N, S, base, onward, f)
  <2>1. StepsInto(N, S, base, onward)
    BY <1>1, <1>2 DEF StepsInto
  <2>2. QED  BY <1>0, <2>1, StepsExist
<1>4. f = Step(f)
  <2>1. ASSUME NEW n \in 2 .. N  PROVE f[n] = Translate(m, f[n - 1], va[n - 1])
    <3>1. n - 1 \in 1 .. N
      BY <1>0
    <3>2. QED  BY <1>2, <1>3, <3>1 DEF Steps
  <2>2. \A n \in 1 .. N : n = 1 \/ n \in 2 .. N
    BY <1>0
  <2>3. \A n \in 1 .. N : f[n] = IF n = 1 THEN base ELSE Translate(m, f[n - 1], va[n - 1])
    BY <1>3, <2>1, <2>2 DEF Steps
  <2>4. f = [n \in 1 .. N |-> f[n]]
    BY <1>3 DEF Steps
  <2>5. QED  BY <2>3, <2>4
<1>5. at = Step(at)
  BY <1>4
<1>6. Reach(m, root, va) = at[PtLevels + 1]
  BY DEF Reach, N, base
<1> HIDE DEF at
<1> DEFINE b(n) == IF n = 1 THEN base ELSE Translate(m, at[n - 1], va[n - 1])
<1> HIDE DEF b
<1>10. \A n \in 1 .. N : at[n] = b(n)
  <2>1. at = [n \in 1 .. N |-> b(n)]
    BY <1>5 DEF b
  <2>2. QED  BY <2>1
<1>7. at[1] = [to |-> root, u |-> TRUE]
  <2>1. 1 \in 1 .. N
    BY <1>0
  <2>2. QED  BY <1>10, <2>1 DEF base, b
<1>8. ASSUME NEW k \in Levels  PROVE at[k + 1] = Translate(m, at[k], va[k])
  <2>1. k + 1 \in 1 .. N /\ k + 1 # 1 /\ k + 1 - 1 = k
    BY <1>0 DEF Levels, N
  <2>2. at[k + 1] = b(k + 1)
    BY <1>10, <2>1
  <2> DEFINE n == k + 1
  <2>3. n # 1 /\ n - 1 = k
    BY <1>0 DEF Levels
  <2> HIDE DEF n
  <2>4. b(n) = Translate(m, at[n - 1], va[n - 1])
    BY <2>3 DEF b
  <2>5. b(n) = Translate(m, at[k], va[k])
    BY <2>3, <2>4
  <2>6. QED  BY <2>2, <2>5 DEF n
<1>9. QED  BY <1>6, <1>7, <1>8

\* Where the walk to va stands at a level below a table of o: at that table
\* or one with the same entry, or nowhere when there is none.
Nowhere == [to |-> NoFrame, u |-> FALSE]
Leads(o, e) == IF e.p THEN [to |-> e.to, u |-> o # Kernel] ELSE Nowhere
Stands(m, taken, pos, o, va, k, x) ==
  /\ \A f \in taken : On(pos, f, o, k, va) =>
       /\ x.to \in Frames /\ m[x.to][va[k]] = m[f][va[k]]
       /\ x.u = (k = 1 \/ o # Kernel)
  /\ (\A f \in taken : ~On(pos, f, o, k, va)) => x = Nowhere
Sees(m, taken, pos, o, va, r) ==
  /\ \A f \in taken : On(pos, f, o, PtLevels, va) => r = Leads(o, m[f][va[PtLevels]])
  /\ (\A f \in taken : ~On(pos, f, o, PtLevels, va)) => r = Nowhere

LEMMA StandsBelow ==
  ASSUME NEW m, NEW taken, NEW pos, Forest(m, taken, pos), NEW o \in Owners,
         NEW va \in AllVas, Own(o, va), NEW k \in Levels, k < PtLevels,
         NEW x, Stands(m, taken, pos, o, va, k, x)
  PROVE  Stands(m, taken, pos, o, va, k + 1, Translate(m, x, va[k]))
<1> DEFINE y == Translate(m, x, va[k])
           n == k + 1
<1>0. n \in Levels /\ n > 1 /\ n - 1 = k /\ taken \subseteq Frames
  BY TableSizes DEF Levels, Forest, TablesPlaced
<1> HIDE DEF n
<1>1. ASSUME NEW g \in taken, On(pos, g, o, n, va)
      PROVE  y.to = g /\ y.u = (o # Kernel)
  <2>1. PICK f \in taken : On(pos, f, o, k, va) /\ m[f][va[k]].p /\ m[f][va[k]].to = g
    BY <1>0, <1>1 DEF Forest, Up
  <2>2. m[f][va[k]].u <=> o # Kernel
    BY <2>1 DEF Forest, Down
  <2>3. x.to \in Frames /\ m[x.to][va[k]] = m[f][va[k]] /\ x.u = (k = 1 \/ o # Kernel)
    BY <2>1 DEF Stands
  <2>4. m[f][va[k]] \in Entry
    BY <2>1, <1>0, TableSizes DEF Forest, Memory
  <2>5. y = [to |-> m[f][va[k]].to, u |-> x.u /\ m[f][va[k]].u]
    BY <2>1, <2>3 DEF Translate
  <2>6. QED  BY <2>1, <2>2, <2>3, <2>4, <2>5 DEF Entry
<1>2. ASSUME \A g \in taken : ~On(pos, g, o, n, va)  PROVE y = Nowhere
  <2>1. ASSUME NEW f \in taken, On(pos, f, o, k, va)  PROVE y = Nowhere
    <3>1. m[x.to][va[k]] = m[f][va[k]]
      BY <2>1 DEF Stands
    <3>2. ~m[f][va[k]].p
      BY <1>2, <2>1 DEF Forest, Down, n
    <3>3. QED  BY <3>1, <3>2 DEF Translate, Nowhere
  <2>2. ASSUME \A f \in taken : ~On(pos, f, o, k, va)  PROVE y = Nowhere
    <3>1. x = Nowhere
      BY <2>2 DEF Stands
    <3>2. x.to \notin Frames
      BY <3>1, TableSizes DEF Nowhere
    <3>3. QED  BY <3>2 DEF Translate, Nowhere
  <2>3. QED  BY <2>1, <2>2
<1> HIDE DEF y
<1>3. Stands(m, taken, pos, o, va, n, y)
  BY <1>0, <1>1, <1>2 DEF Stands
<1>4. QED  BY <1>3 DEF n, y

\* Where the walk from a root leads: to what the last-level entry of a table
\* of the owner says, if there is one.
LEMMA ReachIs ==
  ASSUME NEW m, NEW taken, NEW pos, Forest(m, taken, pos), NEW o \in Owners,
         NEW va \in AllVas, Own(o, va), NEW root \in Frames,
         NEW top \in taken, On(pos, top, o, 1, va), m[root][va[1]] = m[top][va[1]]
  PROVE  Sees(m, taken, pos, o, va, Reach(m, root, va))
<1>0. m \in Memory /\ root \in Nat /\ PtLevels \in Nat
  BY PageTablesAssumption DEF Forest
<1>1. PICK at : /\ Reach(m, root, va) = at[PtLevels + 1]
                /\ at[1] = [to |-> root, u |-> TRUE]
                /\ \A k \in Levels : at[k + 1] = Translate(m, at[k], va[k])
  BY <1>0, ReachSteps
<1> DEFINE P == {k \in Levels : Stands(m, taken, pos, o, va, k, at[k])}
<1>2. Stands(m, taken, pos, o, va, 1, at[1])
  <2>1. \A f \in taken : On(pos, f, o, 1, va) => f = top
    BY TableSizes DEF Forest, One
  <2>2. at[1].to = root /\ at[1].u = TRUE
    BY <1>1
  <2>3. QED  BY <2>1, <2>2 DEF Stands
<1>3. 1 \in P
  BY <1>2, TableSizes
<1>4. ASSUME NEW k \in 2 .. PtLevels, k - 1 \in P  PROVE k \in P
  <2> DEFINE j == k - 1
  <2>1. j \in Levels /\ j < PtLevels /\ k \in Levels /\ j + 1 = k
    BY <1>0 DEF Levels
  <2>2. Stands(m, taken, pos, o, va, j, at[j])
    BY <1>4
  <2> HIDE DEF j
  <2>3. Stands(m, taken, pos, o, va, j + 1, Translate(m, at[j], va[j]))
    BY <2>1, <2>2, StandsBelow
  <2>4. at[j + 1] = Translate(m, at[j], va[j])
    BY <1>1, <2>1
  <2>5. Stands(m, taken, pos, o, va, k, at[k])
    BY <2>1, <2>3, <2>4
  <2>6. QED  BY <2>1, <2>5
<1> HIDE DEF P
<1>5. \A k \in 1 .. PtLevels : k \in P
  BY <1>0, <1>3, <1>4, StepByStep
<1> DEFINE x == at[PtLevels]
           e == m[x.to][va[PtLevels]]
           r == Translate(m, x, va[PtLevels])
<1>6. Stands(m, taken, pos, o, va, PtLevels, x) /\ Reach(m, root, va) = r
  BY <1>1, <1>5, TableSizes DEF P, Levels
<1> HIDE DEF x
<1>7. ASSUME NEW f \in taken, On(pos, f, o, PtLevels, va)
      PROVE  r = Leads(o, m[f][va[PtLevels]])
  <2>1. x.to \in Frames /\ e = m[f][va[PtLevels]] /\ x.u = (PtLevels = 1 \/ o # Kernel)
    BY <1>6, <1>7 DEF Stands
  <2>2. e.p => (e.u <=> o # Kernel)
    BY <1>7, <2>1, TableSizes DEF Forest, Down
  <2>3. e \in Entry
    BY <1>0, <2>1, TableSizes DEF Memory
  <2>4. e.p => (x.u /\ e.u) = (o # Kernel)
    BY <2>1, <2>2, <2>3 DEF Entry
  <2>5. r = IF ~e.p THEN Nowhere ELSE [to |-> e.to, u |-> x.u /\ e.u]
    BY <2>1 DEF Translate, Nowhere
  <2>6. QED  BY <2>1, <2>4, <2>5 DEF Leads
<1>8. ASSUME \A f \in taken : ~On(pos, f, o, PtLevels, va)  PROVE r = Nowhere
  <2>1. x = Nowhere
    BY <1>6, <1>8 DEF Stands
  <2>2. x.to \notin Frames
    BY <2>1, TableSizes DEF Nowhere
  <2>3. QED  BY <2>2 DEF Translate, Nowhere
<1>9. QED  BY <1>6, <1>7, <1>8 DEF Sees

LEMMA SeesOneThing ==
  ASSUME NEW m, NEW taken, NEW pos, NEW o, NEW va, NEW r, NEW t,
         Sees(m, taken, pos, o, va, r), Sees(m, taken, pos, o, va, t)
  PROVE  r = t
<1>1. CASE \E f \in taken : On(pos, f, o, PtLevels, va)
  BY <1>1 DEF Sees
<1>2. CASE \A f \in taken : ~On(pos, f, o, PtLevels, va)
  BY <1>2 DEF Sees
<1>3. QED  BY <1>1, <1>2
-----------------------------------------------------------------------------
\* The tables below a root, as the recurrence they are.
NextBelow(m, tables, followed) == {e.to : e \in EntriesOf(m, tables) \cap followed}
BelowSteps(m, root, followed, below) ==
  /\ \A f : f \in TablesBelow(m, root, followed) <=> \E k \in Levels : f \in below[k]
  /\ below[1] = {root}
  /\ \A k \in 2 .. PtLevels : below[k] = NextBelow(m, below[k - 1], followed)
LEMMA TablesBelowSteps ==
  ASSUME NEW m, NEW root \in Nat, NEW followed, followed \subseteq Entry
  PROVE  \E below : BelowSteps(m, root, followed, below)
<1> DEFINE N == PtLevels
           S == [n \in 1 .. N |-> SUBSET Nat]
           base == {root}
           Next(x) == {e.to : e \in EntriesOf(m, x) \cap followed}
           Step(f) == [n \in 1 .. N |-> IF n = 1 THEN base ELSE Next(f[n - 1])]
           onward == [n \in 1 .. N |-> [x \in SUBSET Nat |-> Next(x)]]
           below == CHOOSE f : f = Step(f)
<1>0. N \in Nat \ {0}
  BY TableSizes
<1>1. base \in S[1]
  <2>1. 1 \in 1 .. N
    BY <1>0
  <2>2. QED  BY <2>1
<1>2. ASSUME NEW n \in 2 .. N, NEW x \in S[n - 1]
      PROVE  onward[n][x] \in S[n] /\ onward[n][x] = Next(x)
  <2>1. n - 1 \in 1 .. N /\ n \in 1 .. N
    BY <1>0
  <2>2. x \in SUBSET Nat
    BY <2>1
  <2>3. Next(x) \in SUBSET Nat
    BY DEF Entry
  <2>4. QED  BY <2>1, <2>2, <2>3
<1> HIDE DEF base, onward, S, Next
<1>3. PICK f : Steps(N, S, base, onward, f)
  <2>1. StepsInto(N, S, base, onward)
    BY <1>1, <1>2 DEF StepsInto
  <2>2. QED  BY <1>0, <2>1, StepsExist
<1>4. f = Step(f)
  <2>1. ASSUME NEW n \in 2 .. N  PROVE f[n] = Next(f[n - 1])
    <3>1. n - 1 \in 1 .. N
      BY <1>0
    <3>2. QED  BY <1>2, <1>3, <3>1 DEF Steps
  <2>2. \A n \in 1 .. N : n = 1 \/ n \in 2 .. N
    BY <1>0
  <2>3. \A n \in 1 .. N : f[n] = IF n = 1 THEN base ELSE Next(f[n - 1])
    BY <1>3, <2>1, <2>2 DEF Steps
  <2>4. f = [n \in 1 .. N |-> f[n]]
    BY <1>3 DEF Steps
  <2>5. QED  BY <2>3, <2>4
<1>5. below = Step(below)
  BY <1>4
<1>6. \A g : g \in TablesBelow(m, root, followed) <=> \E k \in Levels : g \in below[k]
  BY DEF TablesBelow, base, Next, Levels
<1> HIDE DEF below
<1> DEFINE b(n) == IF n = 1 THEN base ELSE Next(below[n - 1])
<1> HIDE DEF b
<1>7. \A n \in 1 .. N : below[n] = b(n)
  <2>1. below = [n \in 1 .. N |-> b(n)]
    BY <1>5 DEF b
  <2>2. QED  BY <2>1
<1>8. below[1] = {root}
  <2>1. 1 \in 1 .. N
    BY <1>0
  <2>2. QED  BY <1>7, <2>1 DEF base, b
<1>9. ASSUME NEW k \in 2 .. N  PROVE below[k] = NextBelow(m, below[k - 1], followed)
  <2>1. k \in 1 .. N /\ k # 1
    BY <1>0
  <2>2. QED  BY <1>7, <2>1 DEF b, Next, NextBelow
<1>10. BelowSteps(m, root, followed, below)
  BY <1>6, <1>8, <1>9 DEF BelowSteps, NextBelow
<1>11. QED  BY <1>10

\* The top-level tables have the same kernel entries, the kernel's.
Borrowed(m, taken, pos, top) ==
  /\ top \in taken /\ pos[top].own = Kernel /\ pos[top].level = 1
  /\ \A f \in taken, i \in KernelIndex : pos[f].level = 1 => m[f][i] = m[top][i]

\* Below a table are tables of its owner, and those of the kernel.
LEMMA TableBelow ==
  ASSUME NEW m, NEW taken, NEW pos, NEW top, Forest(m, taken, pos), Borrowed(m, taken, pos, top),
         NEW f \in taken, pos[f].level < PtLevels, NEW i \in Index, m[f][i].p
  PROVE  LET g == m[f][i].to
         IN  /\ g \in taken /\ pos[g].level = pos[f].level + 1
             /\ pos[g].own \in {pos[f].own, Kernel}
             /\ m[f][i].u <=> pos[g].own # Kernel
<1> DEFINE k == pos[f].level
           o == pos[f].own
           va == [pos[f].va EXCEPT ![k] = i]
<1>0. k \in Levels /\ o \in Owners /\ pos[f].va \in AllVas
  BY DEF Forest, TablesPlaced, TablePlaces
<1>1. va \in AllVas /\ va[k] = i /\ \A j \in Levels : j # k => va[j] = pos[f].va[j]
  BY <1>0 DEF AllVas, Levels
<1> HIDE DEF va
<1>2. CASE Own(o, va)
  <2>0. \A j \in Levels : j < k => j # k
    BY <1>0, TableSizes DEF Levels
  <2>1. On(pos, f, o, k, va)
    BY <1>1, <2>0 DEF On
  <2>2. /\ m[f][i].u <=> o # Kernel
        /\ m[f][i].to \in taken /\ On(pos, m[f][i].to, o, k + 1, va)
    BY <1>0, <1>1, <1>2, <2>1 DEF Forest, Down
  <2>3. QED  BY <2>2 DEF On
<1>3. CASE ~Own(o, va)
  <2>1. o # Kernel /\ va[1] \in KernelIndex
    BY <1>3 DEF Own
  <2>2. k = 1
    <3>1. SUFFICES ASSUME k # 1  PROVE FALSE
      OBVIOUS
    <3>2. k > 1 /\ va[1] = pos[f].va[1]
      BY <1>0, <1>1, <3>1, TableSizes DEF Levels
    <3>3. Own(o, pos[f].va)
      BY <3>2 DEF Forest, TablesPlaced
    <3>4. QED  BY <2>1, <3>2, <3>3 DEF Own
  <2>3. m[f][i] = m[top][i] /\ top \in taken
    BY <1>1, <2>1, <2>2 DEF Borrowed
  <2>4. On(pos, top, Kernel, 1, va) /\ Own(Kernel, va)
    BY TableSizes DEF Borrowed, On, Own, Levels
  <2>5. /\ m[top][i].u <=> Kernel # Kernel
        /\ m[top][i].to \in taken /\ On(pos, m[top][i].to, Kernel, 1 + 1, va)
    BY <1>1, <2>2, <2>3, <2>4, TableSizes DEF Forest, Down
  <2>6. QED  BY <2>2, <2>3, <2>5 DEF On
<1>4. QED  BY <1>2, <1>3

\* So the tables below the top-level table of an owner are its own, all of
\* them, and perhaps some of the kernel's.
Followed(o, followed, allowed) ==
  /\ followed \subseteq [p : {TRUE}, u : BOOLEAN, to : Nat]
  /\ \A e \in Entry : e.p /\ (e.u <=> o # Kernel) => e \in followed
  /\ o \in allowed /\ \A e \in followed : ~e.u => Kernel \in allowed
TreeOf(taken, pos, o, allowed, tables) ==
  /\ \A f \in taken : pos[f].own = o => f \in tables
  /\ \A f \in tables : f \in taken /\ pos[f].own \in allowed \cap {o, Kernel}
LEMMA TablesAre ==
  ASSUME NEW m, NEW taken, NEW pos, NEW top, Forest(m, taken, pos), Borrowed(m, taken, pos, top),
         NEW root \in taken, pos[root].level = 1, NEW followed, NEW allowed,
         Followed(pos[root].own, followed, allowed)
  PROVE  TreeOf(taken, pos, pos[root].own, allowed, TablesBelow(m, root, followed))
<1> DEFINE o == pos[root].own
           own(k) == {f \in taken : pos[f].own = o /\ pos[f].level = k}
           may(k) == {f \in taken : pos[f].own \in allowed \cap {o, Kernel} /\ pos[f].level = k}
<1>0. /\ taken \subseteq Frames /\ root \in Nat /\ o \in Owners /\ PtLevels \in Nat
      /\ followed \subseteq Entry
      /\ \A f \in taken : pos[f].own \in Owners /\ pos[f].level \in Levels /\ pos[f].va \in AllVas
  <2>1. followed \subseteq Entry
    BY DEF Followed, Entry
  <2>2. QED  BY <2>1, PageTablesAssumption DEF Forest, TablesPlaced, TablePlaces
<1>1. PICK below : BelowSteps(m, root, followed, below)
  BY <1>0, TablesBelowSteps
<1> DEFINE P == {k \in Levels : own(k) \subseteq below[k] /\ below[k] \subseteq may(k)}
<1>2. 1 \in P
  <2>1. \A f \in taken : pos[f].own = o /\ pos[f].level = 1 => f = root
    <3>1. SUFFICES ASSUME NEW f \in taken, pos[f].own = o, pos[f].level = 1  PROVE f = root
      OBVIOUS
    <3> DEFINE va == pos[f].va
    <3>2. va \in AllVas
      BY <1>0
    <3> HIDE DEF va
    <3>3. On(pos, f, o, 1, va) /\ On(pos, root, o, 1, va)
      BY <3>1 DEF On, Levels
    <3>4. QED  BY <1>0, <3>2, <3>3, TableSizes DEF Forest, One
  <2>2. own(1) \subseteq {root} /\ {root} \subseteq may(1)
    BY <2>1 DEF Followed
  <2>3. root \in own(1)
    OBVIOUS
  <2>4. own(1) = {root}
    BY <2>2, <2>3
  <2>5. QED  BY <1>1, <2>2, <2>4, TableSizes DEF BelowSteps
<1>3. ASSUME NEW k \in 2 .. PtLevels, k - 1 \in P  PROVE k \in P
  <2> DEFINE j == k - 1
  <2>0. j \in Levels /\ j < PtLevels /\ k \in Levels /\ j + 1 = k /\ k > 1
    BY <1>0 DEF Levels
  <2>1. own(j) \subseteq below[j] /\ below[j] \subseteq may(j)
    BY <1>3
  <2>2. below[k] = {e.to : e \in EntriesOf(m, below[j]) \cap followed}
    BY <1>1 DEF NextBelow, BelowSteps
  <2> HIDE DEF j
  <2>3. ASSUME NEW g \in own(k)  PROVE g \in below[k]
    <3> DEFINE va == pos[g].va
    <3>0. va \in AllVas /\ g \in taken
      BY <1>0
    <3> HIDE DEF va
    <3>1. On(pos, g, o, k, va)
      BY DEF On, va
    <3>2. PICK f \in taken : On(pos, f, o, j, va) /\ m[f][va[j]].p /\ m[f][va[j]].to = g
      <4>1. \E f \in taken : On(pos, f, o, k - 1, va) /\ m[f][va[k - 1]].p /\ m[f][va[k - 1]].to = g
        BY <1>0, <2>0, <3>0, <3>1 DEF Forest, Up
      <4>2. QED  BY <4>1 DEF j
    <3>3. f \in below[j]
      BY <2>1, <3>2 DEF On
    <3>4. Own(o, va)
      BY <2>0, <3>0 DEF Forest, TablesPlaced, va
    <3>5. m[f][va[j]].u <=> o # Kernel
      BY <1>0, <2>0, <3>0, <3>2, <3>4 DEF Forest, Down
    <3>6. m[f][va[j]] \in Entry /\ va[j] \in Index
      BY <1>0, <2>0, <3>0, TableSizes DEF Forest, Memory
    <3>7. m[f][va[j]] \in followed
      BY <3>2, <3>5, <3>6 DEF Followed
    <3>8. m[f][va[j]] \in EntriesOf(m, below[j])
      BY <3>3, <3>6 DEF EntriesOf
    <3>9. QED  BY <2>2, <3>2, <3>7, <3>8
  <2>4. ASSUME NEW g \in below[k]  PROVE g \in may(k)
    <3>1. PICK e \in EntriesOf(m, below[j]) \cap followed : g = e.to
      BY <2>2
    <3>2. PICK f \in below[j], i \in Index : e = m[f][i]
      BY DEF EntriesOf
    <3>3. f \in taken /\ pos[f].own \in {o, Kernel} /\ pos[f].level = j
      BY <2>1
    <3>4. e.p
      BY DEF Followed
    <3>5. /\ g \in taken /\ pos[g].level = pos[f].level + 1
          /\ pos[g].own \in {pos[f].own, Kernel}
          /\ m[f][i].u <=> pos[g].own # Kernel
      BY <2>0, <3>1, <3>2, <3>3, <3>4, TableBelow
    <3>6. pos[g].own \in {o, Kernel} /\ pos[g].level = k
      BY <2>0, <3>3, <3>5
    <3>7. pos[g].own \in allowed
      <4>1. CASE e.u
        BY <3>2, <3>5, <3>6, <4>1 DEF Followed
      <4>2. CASE ~e.u
        BY <3>2, <3>5, <4>2 DEF Followed
      <4>3. QED  BY <4>1, <4>2
    <3>8. QED  BY <3>5, <3>6, <3>7
  <2>5. QED  BY <2>0, <2>3, <2>4
<1> HIDE DEF P
<1>4. \A k \in 1 .. PtLevels : k \in P
  BY <1>0, <1>2, <1>3, StepByStep
<1>5. ASSUME NEW f \in taken, pos[f].own = o  PROVE f \in TablesBelow(m, root, followed)
  <2> DEFINE k == pos[f].level
  <2>1. k \in Levels /\ f \in own(k)
    BY <1>0, <1>5
  <2> HIDE DEF k
  <2>2. f \in below[k]
    BY <1>4, <2>1 DEF P, Levels
  <2>3. QED  BY <1>1, <2>1, <2>2 DEF BelowSteps
<1>6. ASSUME NEW f \in TablesBelow(m, root, followed)
      PROVE  f \in taken /\ pos[f].own \in allowed \cap {o, Kernel}
  <2>1. PICK k \in Levels : f \in below[k]
    BY <1>1 DEF BelowSteps
  <2>2. f \in may(k)
    BY <1>4, <2>1 DEF P, Levels
  <2>3. QED  BY <2>2
<1>7. QED  BY <1>5, <1>6 DEF TreeOf
-----------------------------------------------------------------------------
\* What a walk may do to the tables on its way to an address of o: fill in
\* entries that are not present with new tables of o, the last of them empty.
Fillable(m, pos, o, f, i) ==
  /\ pos[f].own = o /\ pos[f].level < PtLevels /\ ~m[f][i].p
  /\ o = Kernel \/ pos[f].level > 1 \/ i \notin KernelIndex
Grown(m, taken, pos, m2, taken2, pos2, o) ==
  /\ Forest(m2, taken2, pos2) /\ taken \subseteq taken2
  /\ \A f \in taken : pos2[f] = pos[f]
  /\ \A f \in taken2 \ taken : /\ pos2[f].own = o /\ pos2[f].level > 1
                               /\ pos2[f].level = PtLevels => \A i \in Index : ~m2[f][i].p
  /\ \A f \in taken, i \in Index : m2[f][i] = m[f][i] \/ Fillable(m, pos, o, f, i)

LEMMA GrownTwice ==
  ASSUME NEW m, NEW taken, NEW pos, NEW m2, NEW taken2, NEW pos2, NEW m3, NEW taken3, NEW pos3, NEW o,
         Grown(m, taken, pos, m2, taken2, pos2, o), Grown(m2, taken2, pos2, m3, taken3, pos3, o)
  PROVE  Grown(m, taken, pos, m3, taken3, pos3, o)
<1>1. Forest(m3, taken3, pos3) /\ taken \subseteq taken3 /\ \A f \in taken : pos3[f] = pos[f]
  BY DEF Grown
<1>2. ASSUME NEW f \in taken3 \ taken
      PROVE  /\ pos3[f].own = o /\ pos3[f].level > 1
             /\ pos3[f].level = PtLevels => \A i \in Index : ~m3[f][i].p
  <2>1. CASE f \in taken2
    <3>1. pos3[f] = pos2[f] /\ pos2[f].own = o /\ pos2[f].level > 1
      BY <2>1 DEF Grown
    <3>2. ASSUME pos3[f].level = PtLevels, NEW i \in Index  PROVE ~m3[f][i].p
      <4>1. ~m2[f][i].p
        BY <2>1, <3>1, <3>2 DEF Grown
      <4>2. ~(pos2[f].level < PtLevels)
        BY <3>1, <3>2, PageTablesAssumption
      <4>3. m3[f][i] = m2[f][i]
        BY <2>1, <4>2 DEF Grown, Fillable
      <4>4. QED  BY <4>1, <4>3
    <3>3. QED  BY <3>1, <3>2
  <2>2. CASE f \notin taken2
    BY <2>2 DEF Grown
  <2>3. QED  BY <2>1, <2>2
<1>3. ASSUME NEW f \in taken, NEW i \in Index
      PROVE  m3[f][i] = m[f][i] \/ Fillable(m, pos, o, f, i)
  <2>1. f \in taken2 /\ pos2[f] = pos[f]
    BY DEF Grown
  <2>2. CASE m2[f][i] = m[f][i]
    BY <2>1, <2>2 DEF Grown, Fillable
  <2>3. CASE m2[f][i] # m[f][i]
    BY <2>3 DEF Grown
  <2>4. QED  BY <2>2, <2>3
<1>4. QED  BY <1>1, <1>2, <1>3 DEF Grown

\* A new table for the missing level below pt.
Linked(m, m2, pt, i, f, e) ==
  /\ m2 \in Memory /\ m2[pt][i] = e
  /\ \A j \in Index : m2[f][j] = NotPresent
  /\ \A g \in Frames, j \in Index : g # f /\ (g # pt \/ j # i) => m2[g][j] = m[g][j]
LEMMA LinkedGrows ==
  ASSUME NEW m, NEW taken, NEW pos, Forest(m, taken, pos), NEW o \in Owners,
         NEW va \in AllVas, Own(o, va), NEW k \in Levels, k < PtLevels,
         NEW pt \in taken, On(pos, pt, o, k, va), ~m[pt][va[k]].p,
         NEW f \in Frames \ taken, NEW m2, Linked(m, m2, pt, va[k], f, Present(f, o # Kernel)),
         NEW pos2, pos2 = [pos EXCEPT ![f] = [own |-> o, level |-> k + 1, va |-> va]]
  PROVE  Grown(m, taken, pos, m2, taken \cup {f}, pos2, o) /\ On(pos2, f, o, k + 1, va)
<1> DEFINE n == k + 1
           taken2 == taken \cup {f}
           user == o # Kernel
<1>0. /\ n \in Levels /\ n > 1 /\ n - 1 = k /\ n # k
      /\ taken \subseteq Frames /\ pos \in [Frames -> TablePlaces] /\ f # pt
      /\ \A j \in Levels : j < n <=> j < k \/ j = k
  BY TableSizes DEF Levels, Forest, TablesPlaced
<1>1. pos2 = [pos EXCEPT ![f] = [own |-> o, level |-> n, va |-> va]]
  OBVIOUS
<1> HIDE DEF n
<1>2. pos2 \in [Frames -> TablePlaces]
  BY <1>0, <1>1 DEF TablePlaces
<1>3. pos2[f].own = o /\ pos2[f].level = n /\ pos2[f].va = va
  BY <1>0, <1>1
<1>4. \A g \in taken : pos2[g] = pos[g] /\ g # f
  BY <1>0, <1>1
<1>5. \A g \in taken, j \in Levels, o2 \in Owners, va2 \in AllVas : On(pos2, g, o2, j, va2) <=> On(pos, g, o2, j, va2)
  BY <1>4 DEF On
<1>6. \A j \in Levels, o2 \in Owners, va2 \in AllVas :
        On(pos2, f, o2, j, va2) => o2 = o /\ j = n /\ (\A l \in Levels : l < n => va2[l] = va[l])
                                     /\ On(pos, pt, o, k, va2) /\ va2[k] = va[k]
  BY <1>0, <1>3 DEF On
<1>7. m2 \in Memory /\ m2[pt][va[k]] = [p |-> TRUE, u |-> user, to |-> f]
  BY DEF Linked, Present
<1> HIDE DEF user
<1>70. m2[pt][va[k]].p /\ m2[pt][va[k]].u = user /\ m2[pt][va[k]].to = f
  BY <1>7
<1>71. \A j \in Index : m2[f][j] = NotPresent
  BY DEF Linked
<1>72. \A g \in taken, j \in Index : g # pt \/ j # va[k] => m2[g][j] = m[g][j]
  BY <1>0, <1>4 DEF Linked
<1>8. TablesPlaced(taken2, pos2)
  <2>1. \A g \in taken2 : pos2[g].level > 1 => Own(pos2[g].own, pos2[g].va)
    BY <1>3, <1>4 DEF Forest, TablesPlaced
  <2>2. QED  BY <1>0, <1>2, <2>1 DEF TablesPlaced
<1>9. One(taken2, pos2)
  <2>1. ASSUME NEW g \in taken, NEW o2 \in Owners, NEW j \in Levels, NEW va2 \in AllVas,
               On(pos2, f, o2, j, va2), On(pos2, g, o2, j, va2)
        PROVE  FALSE
    <3>1. o2 = o /\ j = n /\ On(pos, pt, o, k, va2) /\ va2[k] = va[k] /\ On(pos, g, o, n, va2)
      BY <1>5, <1>6, <2>1
    <3>2. PICK h \in taken : On(pos, h, o, n - 1, va2) /\ m[h][va2[n - 1]].p
      BY <1>0, <3>1 DEF Forest, Up
    <3>3. On(pos, h, o, k, va2) /\ m[h][va2[k]].p
      BY <1>0, <3>2
    <3>4. h = pt
      BY <3>1, <3>3 DEF Forest, One
    <3>5. QED  BY <3>1, <3>3, <3>4
  <2>2. SUFFICES ASSUME NEW g \in taken2, NEW h \in taken2, NEW o2 \in Owners, NEW j \in Levels,
                        NEW va2 \in AllVas, On(pos2, g, o2, j, va2), On(pos2, h, o2, j, va2)
                 PROVE  g = h
    BY DEF One
  <2>3. CASE g = f \/ h = f
    BY <2>1, <2>2, <2>3
  <2>4. CASE g \in taken /\ h \in taken
    BY <1>5, <2>2, <2>4 DEF Forest, One
  <2>5. QED  BY <2>3, <2>4
<1>10. Down(m2, taken2, pos2)
  <2>1. SUFFICES ASSUME NEW g \in taken2, NEW o2 \in Owners, NEW j \in Levels, NEW va2 \in AllVas,
                        On(pos2, g, o2, j, va2), Own(o2, va2), m2[g][va2[j]].p
                 PROVE  /\ m2[g][va2[j]].u <=> o2 # Kernel
                        /\ j < PtLevels => m2[g][va2[j]].to \in taken2 /\ On(pos2, m2[g][va2[j]].to, o2, j + 1, va2)
    <3> HIDE DEF taken2, user
    <3>1. QED  BY Zenon DEF Down
  <2>2. va2[j] \in Index
    BY TableSizes
  <2>3. g # f
    BY <1>71, <2>1, <2>2 DEF NotPresent
  <2>4. g \in taken /\ On(pos, g, o2, j, va2)
    BY <1>5, <2>1, <2>3
  <2>5. CASE g = pt /\ va2[j] = va[k]
    <3>1. o2 = o /\ j = k
      BY <2>4, <2>5 DEF On
    <3>2. \A l \in Levels : l < n => va2[l] = va[l]
      BY <1>0, <2>4, <2>5, <3>1 DEF On
    <3>3. On(pos2, f, o2, n, va2)
      BY <1>3, <3>1, <3>2 DEF On
    <3>4. On(pos2, f, o2, j + 1, va2)
      BY <3>1, <3>3 DEF n
    <3>5. QED  BY <1>70, <2>5, <3>1, <3>4 DEF user
  <2>6. CASE ~(g = pt /\ va2[j] = va[k])
    <3>1. m2[g][va2[j]] = m[g][va2[j]]
      BY <1>72, <2>2, <2>4, <2>6
    <3>2. /\ m[g][va2[j]].u <=> o2 # Kernel
          /\ j < PtLevels => m[g][va2[j]].to \in taken /\ On(pos, m[g][va2[j]].to, o2, j + 1, va2)
      BY <2>1, <2>4, <3>1 DEF Forest, Down
    <3>3. j < PtLevels => j + 1 \in Levels
      BY TableSizes DEF Levels
    <3>4. QED  BY <1>5, <3>1, <3>2, <3>3
  <2>7. QED  BY <2>5, <2>6
<1>11. Up(m2, taken2, pos2)
  <2> DEFINE Hangs(g, o2, j, va2) ==
               \E h \in taken2 : On(pos2, h, o2, j - 1, va2) /\ m2[h][va2[j - 1]].p /\ m2[h][va2[j - 1]].to = g
  <2>0. (\A g \in taken2, o2 \in Owners, j \in Levels, va2 \in AllVas :
           On(pos2, g, o2, j, va2) /\ j > 1 => Hangs(g, o2, j, va2)) => Up(m2, taken2, pos2)
    BY Zenon DEF Up
  <2>1. SUFFICES ASSUME NEW g \in taken2, NEW o2 \in Owners, NEW j \in Levels, NEW va2 \in AllVas,
                        On(pos2, g, o2, j, va2), j > 1
                 PROVE  Hangs(g, o2, j, va2)
    <3> HIDE DEF Hangs
    <3>1. QED  BY <2>0
  <2>2. CASE g = f
    <3>1. o2 = o /\ j = n /\ On(pos, pt, o, k, va2) /\ va2[k] = va[k]
      BY <1>6, <2>1, <2>2
    <3>2. On(pos2, pt, o2, k, va2) /\ m2[pt][va2[k]].p /\ m2[pt][va2[k]].to = g
      BY <1>5, <1>70, <2>2, <3>1
    <3>3. QED  BY <1>0, <3>1, <3>2
  <2>3. CASE g # f
    <3>1. g \in taken /\ On(pos, g, o2, j, va2)
      BY <1>5, <2>1, <2>3
    <3>2. PICK h \in taken : On(pos, h, o2, j - 1, va2) /\ m[h][va2[j - 1]].p /\ m[h][va2[j - 1]].to = g
      BY <2>1, <3>1 DEF Forest, Up
    <3> DEFINE l == j - 1
    <3>3. l \in Levels
      BY <2>1, TableSizes DEF Levels
    <3>4. On(pos, h, o2, l, va2) /\ m[h][va2[l]].p /\ m[h][va2[l]].to = g
      BY <3>2
    <3> HIDE DEF l
    <3>5. ~(h = pt /\ va2[l] = va[k])
      BY <3>4
    <3>6. m2[h][va2[l]] = m[h][va2[l]]
      BY <1>72, <3>3, <3>5, TableSizes
    <3>7. On(pos2, h, o2, l, va2) /\ m2[h][va2[l]].p /\ m2[h][va2[l]].to = g
      BY <1>5, <3>3, <3>4, <3>6
    <3>8. QED  BY <3>7 DEF l
  <2>4. QED  BY <2>2, <2>3
<1>12. Forest(m2, taken2, pos2)
  BY <1>7, <1>8, <1>9, <1>10, <1>11 DEF Forest
<1>13. \A j \in Index : ~m2[f][j].p
  BY <1>71 DEF NotPresent
<1>14. ASSUME NEW g \in taken, NEW j \in Index, m2[g][j] # m[g][j]
       PROVE  Fillable(m, pos, o, g, j)
  <2>1. g = pt /\ j = va[k]
    BY <1>72, <1>14
  <2>2. pos[g].own = o /\ pos[g].level = k
    BY <2>1 DEF On
  <2>3. o = Kernel \/ k > 1 \/ j \notin KernelIndex
    <3>1. k > 1 \/ k = 1
      BY <1>0 DEF n, Levels
    <3>2. QED  BY <2>1, <3>1 DEF Own
  <2>4. QED  BY <2>1, <2>2, <2>3 DEF Fillable
<1>15. Grown(m, taken, pos, m2, taken2, pos2, o)
  BY <1>0, <1>3, <1>4, <1>12, <1>13, <1>14 DEF Grown
<1>16. On(pos2, f, o, n, va)
  BY <1>3 DEF On
<1>17. QED  BY <1>15, <1>16 DEF n

\* A walk that only fills in levels changes no address.
LEMMA GrownSees ==
  ASSUME NEW m, NEW taken, NEW pos, NEW m2, NEW taken2, NEW pos2, NEW o,
         Grown(m, taken, pos, m2, taken2, pos2, o), NEW o2 \in Owners, NEW va \in AllVas, NEW r, Sees(m, taken, pos, o2, va, r)
  PROVE  Sees(m2, taken2, pos2, o2, va, r)
<1>0. va[PtLevels] \in Index /\ PtLevels \in Levels /\ ~(PtLevels < PtLevels)
  BY TableSizes
<1>1. \A f \in taken : f \in taken2 /\ (On(pos2, f, o2, PtLevels, va) <=> On(pos, f, o2, PtLevels, va))
  BY DEF Grown, On
<1>2. ASSUME NEW f \in taken2, On(pos2, f, o2, PtLevels, va)
      PROVE  r = Leads(o2, m2[f][va[PtLevels]])
  <2>1. CASE f \in taken
    <3>1. m2[f][va[PtLevels]] = m[f][va[PtLevels]]
      BY <1>0, <1>1, <1>2, <2>1 DEF Grown, Fillable, On
    <3>2. QED  BY <1>1, <1>2, <2>1, <3>1 DEF Sees
  <2>2. CASE f \notin taken
    <3>1. ~m2[f][va[PtLevels]].p
      BY <1>0, <1>2, <2>2 DEF Grown, On
    <3>2. \A g \in taken : ~On(pos, g, o2, PtLevels, va)
      <4>1. \A g \in taken2 : On(pos2, g, o2, PtLevels, va) => g = f
        BY <1>0, <1>2 DEF Grown, Forest, One
      <4>2. QED  BY <1>1, <2>2, <4>1
    <3>3. QED  BY <3>1, <3>2 DEF Sees, Leads
  <2>3. QED  BY <2>1, <2>2
<1>3. (\A f \in taken2 : ~On(pos2, f, o2, PtLevels, va)) => r = Nowhere
  BY <1>1 DEF Sees
<1>4. QED  BY <1>2, <1>3 DEF Sees

\* Writing a last-level entry changes the address it is for, and no other.
Write(m, pt, i, e) == [m EXCEPT ![pt][i] = e]
LEMMA WriteSees ==
  ASSUME NEW m, NEW taken, NEW pos, Forest(m, taken, pos), NEW o \in Owners,
         NEW va \in AllVas, Own(o, va), NEW pt \in taken, On(pos, pt, o, PtLevels, va),
         NEW e \in Entry, e.p => (e.u <=> o # Kernel),
         NEW m2, m2 = Write(m, pt, va[PtLevels], e)
  PROVE  /\ Forest(m2, taken, pos)
         /\ Sees(m2, taken, pos, o, va, Leads(o, e))
         /\ \A o2 \in Owners, va2 \in AllVas : \A r :
              Sees(m, taken, pos, o2, va2, r) /\ (o2 # o \/ va2 # va) => Sees(m2, taken, pos, o2, va2, r)
         /\ \A f \in taken, i \in Index : m2[f][i] = m[f][i] \/ (f = pt /\ i = va[PtLevels])
<1> DEFINE l == va[PtLevels]
<1>0. l \in Index /\ PtLevels \in Levels /\ m \in Memory /\ taken \subseteq Frames /\ pt \in Frames
  BY TableSizes DEF Forest, TablesPlaced
<1>1. m2 \in Memory /\ m2[pt][l] = e
  BY <1>0 DEF Memory, Write
<1>2. \A f \in Frames, i \in Index : f # pt \/ i # l => m2[f][i] = m[f][i]
  BY <1>0 DEF Memory, Write
<1> HIDE DEF l
<1>3. Down(m2, taken, pos)
  <2>1. SUFFICES ASSUME NEW g \in taken, NEW o2 \in Owners, NEW j \in Levels, NEW va2 \in AllVas,
                        On(pos, g, o2, j, va2), Own(o2, va2), m2[g][va2[j]].p
                 PROVE  /\ m2[g][va2[j]].u <=> o2 # Kernel
                        /\ j < PtLevels => m2[g][va2[j]].to \in taken /\ On(pos, m2[g][va2[j]].to, o2, j + 1, va2)
    BY DEF Down
  <2>2. CASE g = pt /\ va2[j] = l
    <3>1. o2 = o /\ j = PtLevels
      BY <2>1, <2>2 DEF On
    <3>2. QED  BY <1>1, <2>1, <2>2, <3>1, TableSizes
  <2>3. CASE ~(g = pt /\ va2[j] = l)
    <3>1. m2[g][va2[j]] = m[g][va2[j]]
      BY <1>0, <1>2, <2>3, TableSizes
    <3>2. QED  BY <2>1, <3>1 DEF Forest, Down
  <2>4. QED  BY <2>2, <2>3
<1>4. Up(m2, taken, pos)
  <2> DEFINE Hangs(g, o2, j, va2) ==
               \E h \in taken : On(pos, h, o2, j - 1, va2) /\ m2[h][va2[j - 1]].p /\ m2[h][va2[j - 1]].to = g
  <2>0. (\A g \in taken, o2 \in Owners, j \in Levels, va2 \in AllVas :
           On(pos, g, o2, j, va2) /\ j > 1 => Hangs(g, o2, j, va2)) => Up(m2, taken, pos)
    BY Zenon DEF Up
  <2>1. SUFFICES ASSUME NEW g \in taken, NEW o2 \in Owners, NEW j \in Levels, NEW va2 \in AllVas,
                        On(pos, g, o2, j, va2), j > 1
                 PROVE  Hangs(g, o2, j, va2)
    <3> HIDE DEF Hangs
    <3>1. QED  BY <2>0
  <2>2. PICK h \in taken : On(pos, h, o2, j - 1, va2) /\ m[h][va2[j - 1]].p /\ m[h][va2[j - 1]].to = g
    BY <2>1 DEF Forest, Up
  <2> DEFINE k == j - 1
  <2>3. k \in Levels /\ k # PtLevels
    BY <2>1, TableSizes DEF Levels
  <2>4. On(pos, h, o2, k, va2) /\ m[h][va2[k]].p /\ m[h][va2[k]].to = g
    BY <2>2
  <2> HIDE DEF k
  <2>5. h # pt
    BY <2>3, <2>4 DEF On
  <2>6. m2[h][va2[k]] = m[h][va2[k]]
    BY <1>0, <1>2, <2>3, <2>5, TableSizes
  <2>7. On(pos, h, o2, k, va2) /\ m2[h][va2[k]].p /\ m2[h][va2[k]].to = g
    BY <2>4, <2>6
  <2>8. QED  BY <2>7 DEF k
<1>5. Forest(m2, taken, pos)
  BY <1>1, <1>3, <1>4 DEF Forest
<1>6. Sees(m2, taken, pos, o, va, Leads(o, e))
  <2>1. \A f \in taken : On(pos, f, o, PtLevels, va) => f = pt
    BY <1>0 DEF Forest, One
  <2>2. QED  BY <1>1, <2>1 DEF Sees, l
<1>7. ASSUME NEW o2 \in Owners, NEW va2 \in AllVas, NEW r,
             Sees(m, taken, pos, o2, va2, r), o2 # o \/ va2 # va
      PROVE  Sees(m2, taken, pos, o2, va2, r)
  <2>1. ASSUME NEW f \in taken, On(pos, f, o2, PtLevels, va2)
        PROVE  m2[f][va2[PtLevels]] = m[f][va2[PtLevels]]
    <3>1. CASE f = pt /\ va2[PtLevels] = l
      <4>1. o2 = o
        BY <2>1, <3>1 DEF On
      <4>2. \A j \in Levels : j < PtLevels => va2[j] = va[j]
        BY <2>1, <3>1 DEF On
      <4>3. \A j \in Levels : va2[j] = va[j]
        BY <3>1, <4>2, TableSizes DEF l, Levels
      <4>40. va2 = [j \in Levels |-> va2[j]] /\ va = [j \in Levels |-> va[j]]
        BY DEF AllVas, Levels
      <4>4. va2 = va
        BY <4>3, <4>40
      <4>5. QED  BY <1>7, <4>1, <4>4
    <3>2. CASE ~(f = pt /\ va2[PtLevels] = l)
      BY <1>0, <1>2, <3>2, TableSizes
    <3>3. QED  BY <3>1, <3>2
  <2>2. QED  BY <1>7, <2>1 DEF Sees
<1>8. \A f \in taken, i \in Index : m2[f][i] = m[f][i] \/ (f = pt /\ i = l)
  BY <1>0, <1>2
<1>9. QED  BY <1>5, <1>6, <1>7, <1>8 DEF l
-----------------------------------------------------------------------------
\* The allocator: the lowest free frame, with its entries cleared.
Heaps == [mem : Memory, used : SUBSET Frames, failed : BOOLEAN]
Allocates(h, h2, f) ==
  /\ h2 \in Heaps /\ ~h2.failed /\ f \in Frames \ h.used /\ f = Min(Frames \ h.used)
  /\ h2.mem = [h.mem EXCEPT ![f] = ZeroPage] /\ h2.used = h.used \cup {f}
  /\ LastAlloc(h, h2) = f
LEMMA AllocatesOrFails ==
  ASSUME NEW h \in Heaps, ~h.failed
  PROVE  LET h2 == pgallocz(h)
         IN  (h2 \in Heaps /\ h2.failed /\ Frames \subseteq h.used) \/ \E f : Allocates(h, h2, f)
<1> DEFINE h2 == pgallocz(h)
           f == Min(Frames \ h.used)
<1>1. CASE Frames \subseteq h.used
  BY <1>1 DEF pgallocz, Heaps
<1>2. CASE ~(Frames \subseteq h.used)
  <2> DEFINE S == Frames \ h.used
  <2>1. S \subseteq Nat /\ S # {}
    BY <1>2, PageTablesAssumption
  <2>2. PICK x \in S : \A y \in S : <<y, x>> \notin OpToRel(<, Nat)
    BY <2>1, NatLessThanWellFounded, WFMin
  <2>3. \A y \in S : x <= y
    <3> HIDE DEF S
    <3>1. SUFFICES ASSUME NEW y \in S  PROVE x <= y
      OBVIOUS
    <3>2. x \in Nat /\ y \in Nat
      BY <2>1
    <3>3. ~(y < x)
      BY <2>2, <3>2 DEF OpToRel
    <3>4. QED  BY <3>2, <3>3
  <2> HIDE DEF S
  <2>4. f \in S
    BY <2>3 DEF Min, S
  <2>40. f \in Frames /\ f \notin h.used
    BY <2>4 DEF S
  <2> HIDE DEF f
  <2>5. h2 = [h EXCEPT !.mem[f] = ZeroPage, !.used = @ \cup {f}]
    BY <1>2 DEF pgallocz, f
  <2>6. ZeroPage \in [Index -> Entry]
    <3>1. NotPresent \in Entry
      BY DEF NotPresent, Entry, NoFrame
    <3>2. QED  BY <3>1 DEF ZeroPage
  <2> HIDE DEF h2
  <2>7. h2.mem = [h.mem EXCEPT ![f] = ZeroPage] /\ h2.used = h.used \cup {f} /\ h2.failed = FALSE
    BY <2>5 DEF Heaps
  <2>70. h2 = [mem |-> h2.mem, used |-> h2.used, failed |-> h2.failed]
    BY <2>5 DEF Heaps
  <2>71. h2.mem \in Memory
    BY <2>40, <2>6, <2>7 DEF Memory, Heaps
  <2>72. h2.used \in SUBSET Frames
    BY <2>40, <2>7 DEF Heaps
  <2>8. h2 \in Heaps
    BY <2>7, <2>70, <2>71, <2>72 DEF Heaps
  <2>9. LastAlloc(h, h2) = f
    BY <2>40, <2>7 DEF LastAlloc
  <2>10. Allocates(h, h2, f)
    BY <2>40, <2>7, <2>8, <2>9 DEF Allocates, f
  <2>11. QED  BY <2>10 DEF h2
<1>3. QED  BY <1>1, <1>2

\* Where a walk stands at a level: at the table of that level, in tables that
\* have only grown, unless a frame was missing.
Walks(root) == [h : Heaps, pt : Nat \cup {root}]
WalkAt(h, pos, o, va, k, w) ==
  w.h.failed \/ \E pos2 : /\ ~h.failed /\ Grown(h.mem, h.used, pos, w.h.mem, w.h.used, pos2, o)
                          /\ w.pt \in w.h.used /\ On(pos2, w.pt, o, k, va)
LEMMA DescendGoesDown ==
  ASSUME NEW h \in Heaps, NEW pos, NEW o \in Owners, NEW va \in AllVas, Own(o, va),
         NEW k \in Levels, k < PtLevels, NEW root, NEW w \in Walks(root), WalkAt(h, pos, o, va, k, w)
  PROVE  LET w2 == Descend(w, va[k], o # Kernel)
         IN  w2 \in Walks(root) /\ WalkAt(h, pos, o, va, k + 1, w2)
<1> DEFINE i == va[k]
           user == o # Kernel
           entry == w.h.mem[w.pt][i]
           h2 == pgallocz(w.h)
           w2 == Descend(w, i, user)
           n == k + 1
<1>0. i \in Index /\ w.h \in Heaps /\ user \in BOOLEAN
  BY TableSizes DEF Walks
<1> HIDE DEF n, user, i
<1>1. CASE w.h.failed
  BY <1>1 DEF Descend, WalkAt
<1>2. CASE ~w.h.failed
  <2>1. PICK pos2 : /\ ~h.failed /\ Grown(h.mem, h.used, pos, w.h.mem, w.h.used, pos2, o)
                    /\ w.pt \in w.h.used /\ On(pos2, w.pt, o, k, va)
    BY <1>2 DEF WalkAt
  <2>2. Forest(w.h.mem, w.h.used, pos2) /\ w.h.used \subseteq Frames /\ h.used \subseteq Frames /\ w.h.mem \in Memory
    BY <1>0, <2>1 DEF Grown, Heaps
  <2>20. w.pt \in Frames
    BY <2>1, <2>2
  <2>3. CASE entry.p
    <3>1. w2 = [w EXCEPT !.pt = entry.to]
      BY <1>2, <2>3 DEF Descend
    <3>2. entry.to \in w.h.used /\ On(pos2, entry.to, o, n, va)
      BY <2>1, <2>2, <2>3 DEF Forest, Down, n, i
    <3>3. w2.h = w.h /\ w2.pt = entry.to /\ w2 \in Walks(root)
      BY <2>2, <3>1, <3>2, PageTablesAssumption DEF Walks
    <3> HIDE DEF w2, entry
    <3>4. WalkAt(h, pos, o, va, n, w2)
      BY <2>1, <3>2, <3>3 DEF WalkAt
    <3>5. QED  BY <3>3, <3>4 DEF w2, n, i, user
  <2>4. CASE ~entry.p /\ h2.failed /\ h2 \in Heaps
    <3>1. w2 = [w EXCEPT !.h = h2]
      BY <1>2, <2>4 DEF Descend
    <3> HIDE DEF w2, h2
    <3>2. w2.h = h2 /\ w2 \in Walks(root)
      BY <2>4, <3>1 DEF Walks
    <3>3. WalkAt(h, pos, o, va, n, w2)
      BY <2>4, <3>2 DEF WalkAt
    <3>4. QED  BY <3>2, <3>3 DEF w2, n, i, user
  <2>5. ASSUME ~entry.p, NEW f, Allocates(w.h, h2, f)
        PROVE  w2 \in Walks(root) /\ WalkAt(h, pos, o, va, n, w2)
    <3> DEFINE e == Present(f, user)
               h3 == [h2 EXCEPT !.mem[w.pt][i] = e]
               m == w.h.mem
               pos3 == [pos2 EXCEPT ![f] = [own |-> o, level |-> k + 1, va |-> va]]
    <3>0. ~h2.failed /\ LastAlloc(w.h, h2) = f /\ h2 \in Heaps
      BY <2>5 DEF Allocates
    <3>1. w2 = [h |-> h3, pt |-> f]
      BY <1>2, <2>5, <3>0 DEF Descend, TableEntry
    <3>2. f \in Frames /\ f \notin w.h.used /\ h2.mem = [m EXCEPT ![f] = ZeroPage] /\ h2.used = w.h.used \cup {f}
      BY <2>5 DEF Allocates
    <3>3. e \in Entry
      BY <1>0, <3>2, PageTablesAssumption DEF Present, Entry
    <3> HIDE DEF h2, w2, pos3, e
    <3>4. h3.mem = [h2.mem EXCEPT ![w.pt][i] = e] /\ h3.used = w.h.used \cup {f} /\ h3 \in Heaps
      <4>1. h3.mem = [h2.mem EXCEPT ![w.pt][i] = e] /\ h3.used = h2.used /\ h3.failed = h2.failed
        BY <3>0 DEF Heaps
      <4>2. h3 = [mem |-> h3.mem, used |-> h3.used, failed |-> h3.failed]
        BY <3>0 DEF Heaps
      <4>3. h2.mem \in Memory /\ h2.used \subseteq Frames /\ h2.failed \in BOOLEAN
        BY <3>0 DEF Heaps
      <4> HIDE DEF h3
      <4>4. h3.mem \in Memory
        BY <1>0, <2>20, <3>3, <4>1, <4>3 DEF Memory
      <4>5. QED  BY <3>2, <4>1, <4>2, <4>3, <4>4 DEF Heaps
    <3> HIDE DEF h3
    <3>5. Linked(m, h3.mem, w.pt, i, f, e)
      <4>1. w.pt # f /\ h2.mem \in Memory /\ h3.mem \in Memory
        BY <2>1, <3>0, <3>2, <3>4 DEF Heaps
      <4>2. h3.mem[w.pt][i] = e
        BY <1>0, <2>20, <3>4, <4>1 DEF Memory
      <4>3. \A j \in Index : h3.mem[f][j] = NotPresent
        BY <2>2, <3>2, <3>4, <4>1 DEF Memory, ZeroPage
      <4>4. \A g \in Frames, j \in Index : g # f /\ (g # w.pt \/ j # i) => h3.mem[g][j] = m[g][j]
        BY <1>0, <2>2, <2>20, <3>2, <3>4, <4>1 DEF Memory
      <4>5. QED  BY <4>1, <4>2, <4>3, <4>4 DEF Linked
    <3>6. ~m[w.pt][va[k]].p /\ Linked(m, h3.mem, w.pt, va[k], f, Present(f, o # Kernel))
      BY <2>5, <3>5 DEF i, e, user
    <3> HIDE DEF m
    <3>7. Grown(m, w.h.used, pos2, h3.mem, w.h.used \cup {f}, pos3, o) /\ On(pos3, f, o, k + 1, va)
      <4>1. Forest(m, w.h.used, pos2) /\ f \in Frames \ w.h.used
        BY <2>2, <3>2 DEF m
      <4>2. QED  BY <2>1, <3>6, <4>1, LinkedGrows DEF pos3
    <3>8. Grown(h.mem, h.used, pos, h3.mem, h3.used, pos3, o)
      <4>1. Grown(m, w.h.used, pos2, h3.mem, h3.used, pos3, o)
        BY <3>4, <3>7
      <4>2. QED  BY <2>1, <2>2, <4>1, GrownTwice DEF m
    <3>9. w2.h = h3 /\ w2.pt = f /\ w2 \in Walks(root) /\ f \in h3.used
      BY <3>1, <3>2, <3>4, PageTablesAssumption DEF Walks
    <3>10. WalkAt(h, pos, o, va, n, w2)
      BY <2>1, <3>7, <3>8, <3>9 DEF WalkAt, n
    <3>11. QED  BY <3>9, <3>10
  <2>6. (h2 \in Heaps /\ h2.failed /\ Frames \subseteq w.h.used) \/ \E f : Allocates(w.h, h2, f)
    BY <1>0, <1>2, AllocatesOrFails
  <2> HIDE DEF h2, w2, entry
  <2>7. w2 \in Walks(root) /\ WalkAt(h, pos, o, va, n, w2)
    BY <2>3, <2>4, <2>5, <2>6 DEF w2, n, i, user
  <2>8. QED  BY <2>7 DEF w2, n, i, user
<1>3. QED  BY <1>1, <1>2

\* Tables a walk can start from, if the heap has not failed before.
Ready(h, pos, root, o) ==
  ~h.failed => /\ Forest(h.mem, h.used, pos) /\ root \in h.used
               /\ pos[root].own = o /\ pos[root].level = 1

\* So a walk ends at the last level, unless a frame was missing.
LEMMA WalkEnds ==
  ASSUME NEW h \in Heaps, NEW pos, NEW o \in Owners, NEW va \in AllVas, Own(o, va),
         NEW root, Ready(h, pos, root, o)
  PROVE  LET w == ptwalk(h, root, va, o # Kernel)
         IN  w \in Walks(root) /\ WalkAt(h, pos, o, va, PtLevels, w)
<1> DEFINE N == PtLevels
           user == o # Kernel
           S == [n \in 1 .. N |-> {w \in Walks(root) : WalkAt(h, pos, o, va, n, w)}]
           base == [h |-> h, pt |-> root]
           Step(f) == [n \in 1 .. N |-> IF n = 1 THEN base ELSE Descend(f[n - 1], indexof(va, n - 1), user)]
           onward == [n \in 1 .. N |-> [x \in Walks(root) |-> Descend(x, va[n - 1], user)]]
           walk == CHOOSE f : f = Step(f)
           P == {n \in Levels : walk[n] \in Walks(root) /\ WalkAt(h, pos, o, va, n, walk[n])}
<1>0. N \in Nat \ {0}
  BY TableSizes
<1>1. base \in Walks(root) /\ WalkAt(h, pos, o, va, 1, base)
  <2>1. base \in Walks(root) /\ base.h = h /\ base.pt = root
    BY DEF Walks
  <2>2. ~h.failed => Grown(h.mem, h.used, pos, h.mem, h.used, pos, o)
    BY DEF Grown, Ready
  <2>3. ~h.failed => root \in h.used /\ On(pos, root, o, 1, va)
    BY DEF Ready, On, Levels
  <2>4. QED  BY <2>1, <2>2, <2>3 DEF WalkAt
<1>10. base \in S[1]
  <2>1. 1 \in 1 .. N
    BY <1>0
  <2>2. QED  BY <1>1, <2>1
<1>2. ASSUME NEW n \in 2 .. N, NEW x \in Walks(root), WalkAt(h, pos, o, va, n - 1, x)
      PROVE  Descend(x, va[n - 1], user) \in Walks(root) /\ WalkAt(h, pos, o, va, n, Descend(x, va[n - 1], user))
  <2> DEFINE k == n - 1
  <2>1. k \in Levels /\ k < PtLevels /\ n = k + 1
    BY <1>0 DEF Levels
  <2>2. WalkAt(h, pos, o, va, k, x)
    BY <1>2
  <2> HIDE DEF k
  <2>3. Descend(x, va[k], user) \in Walks(root) /\ WalkAt(h, pos, o, va, k + 1, Descend(x, va[k], user))
    BY <2>1, <2>2, DescendGoesDown
  <2>4. Descend(x, va[k], user) \in Walks(root) /\ WalkAt(h, pos, o, va, n, Descend(x, va[k], user))
    BY <2>1, <2>3
  <2>5. QED  BY <2>4 DEF k
<1>3. ASSUME NEW n \in 2 .. N, NEW x \in S[n - 1]
      PROVE  onward[n][x] \in S[n] /\ onward[n][x] = Descend(x, va[n - 1], user)
  <2>1. n - 1 \in 1 .. N /\ n \in 1 .. N
    BY <1>0
  <2>2. x \in Walks(root) /\ WalkAt(h, pos, o, va, n - 1, x)
    BY <2>1
  <2>3. onward[n][x] = Descend(x, va[n - 1], user)
    BY <2>1, <2>2
  <2>4. S[n] = {w \in Walks(root) : WalkAt(h, pos, o, va, n, w)}
    BY <2>1
  <2> HIDE DEF S, onward
  <2>5. QED  BY <1>2, <2>2, <2>3, <2>4
<1> HIDE DEF base, onward, S, user
<1>4. PICK f : Steps(N, S, base, onward, f)
  <2>1. StepsInto(N, S, base, onward)
    BY <1>10, <1>3 DEF StepsInto
  <2>2. QED  BY <1>0, <2>1, StepsExist
<1>5. f = Step(f)
  <2>1. ASSUME NEW n \in 2 .. N  PROVE f[n] = Descend(f[n - 1], indexof(va, n - 1), user)
    <3>1. n - 1 \in 1 .. N
      BY <1>0
    <3>2. f[n] = Descend(f[n - 1], va[n - 1], user)
      BY <1>3, <1>4, <3>1 DEF Steps
    <3>3. QED  BY <3>2 DEF indexof
  <2>2. \A n \in 1 .. N : n = 1 \/ n \in 2 .. N
    BY <1>0
  <2>3. \A n \in 1 .. N : f[n] = IF n = 1 THEN base ELSE Descend(f[n - 1], indexof(va, n - 1), user)
    BY <1>4, <2>1, <2>2 DEF Steps
  <2>4. f = [n \in 1 .. N |-> f[n]]
    BY <1>4 DEF Steps
  <2>5. QED  BY <2>3, <2>4
<1>6. walk = Step(walk)
  BY <1>5
<1>7. ptwalk(h, root, va, user) = walk[PtLevels]
  BY DEF ptwalk, base
<1> HIDE DEF walk
<1> DEFINE b(n) == IF n = 1 THEN base ELSE Descend(walk[n - 1], indexof(va, n - 1), user)
<1> HIDE DEF b
<1>8. \A n \in 1 .. N : walk[n] = b(n)
  <2>1. walk = [n \in 1 .. N |-> b(n)]
    BY <1>6 DEF b
  <2>2. QED  BY <2>1
<1>9. 1 \in P
  <2>1. 1 \in 1 .. N
    BY <1>0
  <2>2. walk[1] = base
    BY <1>8, <2>1 DEF b
  <2>3. QED  BY <1>1, <2>2, TableSizes
<1>11. ASSUME NEW n \in 2 .. PtLevels, n - 1 \in P  PROVE n \in P
  <2>1. n \in 1 .. N /\ n # 1 /\ n \in Levels
    BY <1>0 DEF Levels
  <2>2. walk[n] = Descend(walk[n - 1], va[n - 1], user)
    BY <1>8, <2>1 DEF b, indexof
  <2>3. walk[n - 1] \in Walks(root) /\ WalkAt(h, pos, o, va, n - 1, walk[n - 1])
    BY <1>11
  <2>4. QED  BY <1>2, <2>1, <2>2, <2>3
<1> HIDE DEF P
<1>12. PtLevels \in P
  <2>1. \A n \in 1 .. PtLevels : n \in P
    BY <1>0, <1>9, <1>11, StepByStep
  <2>2. QED  BY <2>1, <1>0
<1>13. QED  BY <1>7, <1>12 DEF P, user

\* And Install writes the entry of the address, and changes no other address.
Installed(m, taken, pos, m2, taken2, pos2, o, va, e) ==
  /\ Forest(m2, taken2, pos2) /\ taken \subseteq taken2
  /\ \A f \in taken : pos2[f] = pos[f]
  /\ \A f \in taken2 \ taken : pos2[f].own = o /\ pos2[f].level > 1
  /\ o # Kernel => \A f \in taken, i \in KernelIndex : pos[f].level = 1 => m2[f][i] = m[f][i]
  /\ Sees(m2, taken2, pos2, o, va, Leads(o, e))
  /\ \A o2 \in Owners, va2 \in AllVas : \A r :
       Sees(m, taken, pos, o2, va2, r) /\ (o2 # o \/ va2 # va) => Sees(m2, taken2, pos2, o2, va2, r)
LEMMA InstallInstalls ==
  ASSUME NEW h \in Heaps, NEW pos, NEW o \in Owners, NEW va \in AllVas, Own(o, va),
         NEW root, Ready(h, pos, root, o),
         NEW e \in Entry, e.p => (e.u <=> o # Kernel)
  PROVE  LET h2 == Install(h, root, va, o # Kernel, e)
         IN  h2 \in Heaps /\ (h2.failed \/ (~h.failed /\ \E pos2 : Installed(h.mem, h.used, pos, h2.mem, h2.used, pos2, o, va, e)))
<1> DEFINE w == ptwalk(h, root, va, o # Kernel)
           h2 == Install(h, root, va, o # Kernel, e)
           l == va[PtLevels]
           m == w.h.mem
           taken == w.h.used
           m2 == Write(m, w.pt, l, e)
<1>1. w \in Walks(root) /\ WalkAt(h, pos, o, va, PtLevels, w)
  BY WalkEnds
<1>2. h2 = IF w.h.failed THEN w.h ELSE [w.h EXCEPT !.mem[w.pt][l] = e]
  BY DEF Install, indexof
<1> HIDE DEF w, h2
<1>3. CASE w.h.failed
  <2>1. h2 \in Heaps /\ h2.failed
    BY <1>1, <1>2, <1>3 DEF Walks
  <2>2. QED  BY <2>1 DEF h2
<1>4. CASE ~w.h.failed
  <2>1. PICK pos2 : /\ ~h.failed /\ Grown(h.mem, h.used, pos, m, taken, pos2, o)
                    /\ w.pt \in taken /\ On(pos2, w.pt, o, PtLevels, va)
    BY <1>1, <1>4 DEF WalkAt
  <2>2. h2 = [w.h EXCEPT !.mem[w.pt][l] = e] /\ w.h \in Heaps
    BY <1>1, <1>2, <1>4 DEF Walks
  <2>3. h2.mem = m2 /\ h2.used = taken /\ h2.failed = w.h.failed
    BY <2>2 DEF Heaps, Write
  <2>4. h2 = [mem |-> h2.mem, used |-> h2.used, failed |-> h2.failed]
    BY <2>2 DEF Heaps
  <2>5. taken \subseteq Frames /\ h.used \subseteq Frames /\ w.h.failed \in BOOLEAN /\ Forest(m, taken, pos2)
    BY <2>1, <2>2 DEF Heaps, Grown
  <2> HIDE DEF m, taken, m2
  <2>6. /\ Forest(m2, taken, pos2)
        /\ Sees(m2, taken, pos2, o, va, Leads(o, e))
        /\ \A o2 \in Owners, va2 \in AllVas : \A r :
             Sees(m, taken, pos2, o2, va2, r) /\ (o2 # o \/ va2 # va) => Sees(m2, taken, pos2, o2, va2, r)
        /\ \A f \in taken, i \in Index : m2[f][i] = m[f][i] \/ (f = w.pt /\ i = l)
    BY <2>1, <2>5, WriteSees DEF m2
  <2>7. h2 \in Heaps
    <3>1. m2 \in Memory
      BY <2>6 DEF Forest
    <3>2. QED  BY <2>3, <2>4, <2>5, <3>1 DEF Heaps
  <2>8. ASSUME o # Kernel, NEW f \in h.used, NEW i \in KernelIndex, pos[f].level = 1
        PROVE  m2[f][i] = h.mem[f][i]
    <3>0. i \in Index /\ f \in taken /\ pos2[f] = pos[f]
      BY <2>1, PageTablesAssumption DEF Index, Grown
    <3>1. m[f][i] = h.mem[f][i]
      BY <2>1, <2>8, <3>0 DEF Grown, Fillable
    <3>2. ~(f = w.pt /\ i = l)
      <4>1. SUFFICES ASSUME f = w.pt, i = l  PROVE FALSE
        OBVIOUS
      <4>2. PtLevels = 1
        BY <2>1, <2>8, <3>0, <4>1 DEF On
      <4>3. QED  BY <2>8, <4>1, <4>2 DEF Own
    <3>3. QED  BY <2>6, <3>0, <3>1, <3>2
  <2>9. ASSUME NEW o2 \in Owners, NEW va2 \in AllVas, NEW r,
               Sees(h.mem, h.used, pos, o2, va2, r), o2 # o \/ va2 # va
        PROVE  Sees(m2, taken, pos2, o2, va2, r)
    <3>1. Sees(m, taken, pos2, o2, va2, r)
      BY <2>1, <2>9, GrownSees
    <3>2. QED  BY <2>6, <2>9, <3>1
  <2>10. Installed(h.mem, h.used, pos, m2, taken, pos2, o, va, e)
    <3>1. /\ h.used \subseteq taken /\ \A f \in h.used : pos2[f] = pos[f]
          /\ \A f \in taken \ h.used : pos2[f].own = o /\ pos2[f].level > 1
      BY <2>1 DEF Grown
    <3>2. QED  BY <2>6, <2>8, <2>9, <3>1 DEF Installed
  <2>11. Installed(h.mem, h.used, pos, h2.mem, h2.used, pos2, o, va, e)
    BY <2>3, <2>10
  <2>12. QED  BY <2>1, <2>7, <2>11 DEF h2
<1>5. QED  BY <1>3, <1>4
-----------------------------------------------------------------------------
\* The kernel's pages are finitely many, and listed.
LEMMA PageNumberIsANumber ==
  ASSUME NEW va \in AllVas
  PROVE  PageNumber(va) \in Nat
<1> DEFINE N == PtLevels
           S == [n \in 1 .. N |-> Nat]
           base == va[1]
           Step(f) == [n \in 1 .. N |-> IF n = 1 THEN va[1] ELSE f[n - 1] * Entries + va[n]]
           onward == [n \in 1 .. N |-> [x \in Nat |-> x * Entries + va[n]]]
           number == CHOOSE f : f = Step(f)
           P == {n \in Levels : number[n] \in Nat}
<1>0. N \in Nat \ {0} /\ Entries \in Nat /\ \A n \in 1 .. N : va[n] \in Nat
  BY TableSizes, PageTablesAssumption DEF Index, Levels
<1>1. base \in S[1]
  <2>1. 1 \in 1 .. N
    BY <1>0
  <2>2. QED  BY <1>0, <2>1
<1>20. ASSUME NEW n \in 2 .. N, NEW x \in Nat  PROVE x * Entries + va[n] \in Nat
  <2>1. n \in 1 .. N
    BY <1>0
  <2>2. va[n] \in Nat /\ x * Entries \in Nat
    BY <1>0, <2>1
  <2>3. QED  BY <2>2
<1>2. ASSUME NEW n \in 2 .. N, NEW x \in S[n - 1]
      PROVE  onward[n][x] \in S[n] /\ onward[n][x] = x * Entries + va[n]
  <2>1. n - 1 \in 1 .. N /\ n \in 1 .. N
    BY <1>0
  <2>2. x \in Nat
    BY <2>1
  <2>3. QED  BY <1>20, <2>1, <2>2
<1> HIDE DEF S, onward, base
<1>3. PICK f : Steps(N, S, base, onward, f)
  <2>1. StepsInto(N, S, base, onward)
    BY <1>1, <1>2 DEF StepsInto
  <2>2. QED  BY <1>0, <2>1, StepsExist
<1>4. f = Step(f)
  <2>1. ASSUME NEW n \in 2 .. N  PROVE f[n] = f[n - 1] * Entries + va[n]
    <3>1. n - 1 \in 1 .. N
      BY <1>0
    <3>2. QED  BY <1>2, <1>3, <3>1 DEF Steps
  <2>2. \A n \in 1 .. N : n = 1 \/ n \in 2 .. N
    BY <1>0
  <2>3. \A n \in 1 .. N : f[n] = IF n = 1 THEN va[1] ELSE f[n - 1] * Entries + va[n]
    BY <1>3, <2>1, <2>2 DEF Steps, base
  <2>4. f = [n \in 1 .. N |-> f[n]]
    BY <1>3 DEF Steps
  <2>5. QED  BY <2>3, <2>4
<1>5. number = Step(number)
  BY <1>4
<1>6. PageNumber(va) = number[PtLevels]
  BY DEF PageNumber
<1> HIDE DEF number
<1> DEFINE b(n) == IF n = 1 THEN va[1] ELSE number[n - 1] * Entries + va[n]
<1> HIDE DEF b
<1>7. \A n \in 1 .. N : number[n] = b(n)
  <2>1. number = [n \in 1 .. N |-> b(n)]
    BY <1>5 DEF b
  <2>2. QED  BY <2>1
<1>8. 1 \in P
  <2>1. 1 \in 1 .. N
    BY <1>0
  <2>2. number[1] = va[1]
    BY <1>7, <2>1 DEF b
  <2>3. QED  BY <1>0, <2>1, <2>2, TableSizes
<1>9. ASSUME NEW n \in 2 .. PtLevels, n - 1 \in P  PROVE n \in P
  <2>1. n \in 1 .. N /\ n # 1 /\ n \in Levels
    BY <1>0 DEF Levels
  <2>2. number[n] = number[n - 1] * Entries + va[n]
    BY <1>7, <2>1 DEF b
  <2>3. number[n - 1] \in Nat
    BY <1>9
  <2>4. QED  BY <1>20, <2>1, <2>2, <2>3
<1> HIDE DEF P
<1>10. PtLevels \in P
  <2>1. \A n \in 1 .. PtLevels : n \in P
    BY <1>0, <1>8, <1>9, StepByStep
  <2>2. QED  BY <2>1, <1>0
<1>11. QED  BY <1>6, <1>10 DEF P

LEMMA KernelVasAreFinite == IsFiniteSet(KernelVas)
<1> DEFINE T == SUBSET (Levels \X Index)
           F == [va \in AllVas |-> {<<j, va[j]>> : j \in Levels}]
<1>1. IsFiniteSet(Levels) /\ IsFiniteSet(Index)
  <2>1. 1 \in Int /\ PtLevels \in Int /\ 0 \in Int /\ Entries - 1 \in Int
    BY PageTablesAssumption
  <2>2. QED  BY <2>1, FS_Interval DEF Levels, Index
<1>2. IsFiniteSet(T)
  BY <1>1, FS_Product, FS_SUBSET
<1>3. F \in [AllVas -> T]
  <2>1. ASSUME NEW va \in AllVas  PROVE {<<j, va[j]>> : j \in Levels} \in T
    BY TableSizes
  <2>2. QED  BY <2>1
<1>4. ASSUME NEW va \in AllVas, NEW va2 \in AllVas, F[va] = F[va2]  PROVE va = va2
  <2>1. {<<j, va[j]>> : j \in Levels} = {<<j, va2[j]>> : j \in Levels}
    BY <1>4
  <2>2. ASSUME NEW j \in Levels  PROVE va[j] = va2[j]
    <3>1. <<j, va[j]>> \in {<<i, va2[i]>> : i \in Levels}
      BY <2>1
    <3>2. QED  BY <3>1
  <2>3. va2 = [j \in Levels |-> va2[j]] /\ va = [j \in Levels |-> va[j]]
    BY DEF AllVas, Levels
  <2>4. QED  BY <2>2, <2>3
<1>5. F \in Injection(AllVas, T)
  <2> HIDE DEF F, T
  <2>1. DOMAIN F = AllVas
    BY <1>3
  <2>2. QED  BY <1>3, <1>4, <2>1 DEF Injection, IsInjective
<1>6. IsFiniteSet(AllVas)
  BY <1>2, <1>5, FS_Injection
<1>7. KernelVas \in SUBSET AllVas
  BY DEF KernelVas
<1>8. QED  BY <1>6, <1>7, FS_Subset

LEMMA SetToSeqListsAll ==
  ASSUME NEW S, IsFiniteSet(S)
  PROVE  LET q == SetToSeq(S)
         IN  Len(q) \in Nat /\ q \in [1 .. Len(q) -> S] /\ \A x \in S : \E i \in 1 .. Len(q) : q[i] = x
<1> DEFINE n == Cardinality(S)
           q == SetToSeq(S)
<1>1. n \in Nat /\ ExistsBijection(1 .. n, S)
  BY FS_CardinalityType
<1> HIDE DEF n
<1>2. \E f \in [1 .. n -> S] : IsInjective(f)
  BY <1>1 DEF ExistsBijection, Bijection, Injection
<1>3. q \in [1 .. n -> S] /\ IsInjective(q)
  BY <1>2 DEF SetToSeq, n
<1>4. Len(q) = n
  BY <1>1, <1>3
<1>5. Cardinality(1 .. n) = n
  <2>1. 1 \in Int /\ n \in Int
    BY <1>1
  <2>2. Cardinality(1 .. n) = IF 1 > n THEN 0 ELSE n - 1 + 1
    BY <2>1, FS_Interval
  <2>3. QED  BY <1>1, <2>2
<1>6. q \in Injection(1 .. n, S)
  BY <1>3 DEF Injection
<1>7. q \in Surjection(1 .. n, S)
  BY <1>5, <1>6, FS_Injection DEF n
<1>8. QED  BY <1>1, <1>3, <1>4, <1>7 DEF Surjection

\* The tables of the kernel while vme_init builds them: only the kernel's, the
\* first n pages of the list in place.
Identity(va) == [to |-> PageNumber(va), u |-> FALSE]
Building(h, root, vas, n) ==
  \E pos : /\ Ready(h, pos, root, Kernel)
           /\ ~h.failed => /\ \A f \in h.used : pos[f].own = Kernel
                           /\ \A j \in 1 .. n : Sees(h.mem, h.used, pos, Kernel, vas[j], Identity(vas[j]))
LEMMA BuildingOn ==
  ASSUME NEW h \in Heaps, NEW root, NEW N \in Nat, NEW vas \in [1 .. N -> KernelVas],
         NEW n \in 1 .. N, Building(h, root, vas, n - 1)
  PROVE  LET h2 == Install(h, root, vas[n], FALSE, Present(PageNumber(vas[n]), FALSE))
         IN  h2 \in Heaps /\ Building(h2, root, vas, n)
<1> DEFINE va == vas[n]
           e == Present(PageNumber(va), FALSE)
           h2 == Install(h, root, va, FALSE, e)
<1>1. PICK pos : /\ Ready(h, pos, root, Kernel)
                 /\ ~h.failed => /\ \A f \in h.used : pos[f].own = Kernel
                                 /\ \A j \in 1 .. n - 1 : Sees(h.mem, h.used, pos, Kernel, vas[j], Identity(vas[j]))
  BY DEF Building
<1>0. /\ va \in AllVas /\ Kernel \in Owners /\ Own(Kernel, va) /\ (Kernel # Kernel) = FALSE
      /\ \A j \in 1 .. N : vas[j] \in AllVas
  BY TableSizes DEF KernelVas, Own
<1> HIDE DEF va
<1>2. PageNumber(va) \in Nat
  BY <1>0, PageNumberIsANumber
<1>3. e \in Entry /\ ~e.u /\ Leads(Kernel, e) = Identity(va)
  BY <1>2 DEF Present, Entry, Leads, Identity
<1> HIDE DEF e, h2
<1>4. h2 \in Heaps /\ (h2.failed \/ (~h.failed /\ \E pos2 : Installed(h.mem, h.used, pos, h2.mem, h2.used, pos2, Kernel, va, e)))
  <2>1. e.p => (e.u <=> Kernel # Kernel)
    BY <1>3
  <2>2. LET x == Install(h, root, va, Kernel # Kernel, e)
        IN  x \in Heaps /\ (x.failed \/ (~h.failed /\ \E pos2 : Installed(h.mem, h.used, pos, x.mem, x.used, pos2, Kernel, va, e)))
    BY <1>0, <1>1, <1>3, <2>1, InstallInstalls
  <2>3. QED  BY <1>0, <2>2 DEF h2
<1>5. CASE h2.failed
  BY <1>4, <1>5 DEF Building, Ready, h2, va, e
<1>6. CASE ~h2.failed
  <2>0. ~h.failed
    BY <1>4, <1>6
  <2>1. PICK pos2 : Installed(h.mem, h.used, pos, h2.mem, h2.used, pos2, Kernel, va, e)
    BY <1>4, <1>6
  <2>2. Ready(h2, pos2, root, Kernel)
    BY <1>1, <2>0, <2>1 DEF Ready, Installed
  <2>3. \A f \in h2.used : pos2[f].own = Kernel
    BY <1>1, <2>0, <2>1 DEF Installed
  <2>4. ASSUME NEW j \in 1 .. n  PROVE Sees(h2.mem, h2.used, pos2, Kernel, vas[j], Identity(vas[j]))
    <3>1. CASE vas[j] = va
      BY <1>3, <2>1, <3>1 DEF Installed
    <3>2. CASE vas[j] # va
      <4>1. j \in 1 .. n - 1 /\ j \in 1 .. N
        BY <3>2 DEF va
      <4>2. Sees(h.mem, h.used, pos, Kernel, vas[j], Identity(vas[j]))
        BY <1>1, <2>0, <4>1
      <4>3. QED  BY <1>0, <2>1, <3>2, <4>1, <4>2 DEF Installed
    <3>3. QED  BY <3>1, <3>2
  <2>5. Building(h2, root, vas, n)
    BY <2>2, <2>3, <2>4 DEF Building
  <2>6. QED  BY <1>4, <2>5 DEF h2, va, e
<1>7. QED  BY <1>5, <1>6

\* The first frame, cleared, is the kernel's top-level table.
LEMMA BuildingStarts ==
  ASSUME NEW vas
  PROVE  LET h == pgallocz(FramesAtPowerOn)
             root == LastAlloc(FramesAtPowerOn, h)
         IN  h \in Heaps /\ Building(h, root, vas, 0) /\ (Frames = {} \/ root = Min(Frames))
<1> DEFINE z == FramesAtPowerOn
           h == pgallocz(z)
           root == LastAlloc(z, h)
<1>1. z \in Heaps /\ z.failed = FALSE /\ z.used = {}
  <2>1. Present(CHOOSE p \in Pages : TRUE, TRUE) \in Entry
    BY PageTablesAssumption DEF Present, Entry
  <2>2. QED  BY <2>1 DEF FramesAtPowerOn, Heaps, Memory
<1> HIDE DEF z
<1>2. (h \in Heaps /\ h.failed /\ Frames \subseteq z.used) \/ \E f : Allocates(z, h, f)
  BY <1>1, AllocatesOrFails
<1> HIDE DEF h
<1>3. CASE h \in Heaps /\ h.failed /\ Frames \subseteq z.used
  <2>1. Building(h, root, vas, 0)
    BY <1>3 DEF Building, Ready
  <2>2. Frames = {}
    BY <1>1, <1>3
  <2>3. QED  BY <1>3, <2>1, <2>2 DEF h, z
<1>4. ASSUME NEW f, Allocates(z, h, f)
      PROVE  h \in Heaps /\ Building(h, root, vas, 0) /\ root = Min(Frames)
  <2> DEFINE place == [own |-> Kernel, level |-> 1, va |-> [j \in Levels |-> 0]]
             pos == [g \in Frames |-> place]
             taken == h.used
             m == h.mem
  <2>1. f \in Frames /\ taken = {f} /\ h \in Heaps /\ h.mem = [z.mem EXCEPT ![f] = ZeroPage] /\ root = f /\ f = Min(Frames)
    <3>1. Frames \ z.used = Frames
      BY <1>1
    <3>2. QED  BY <1>1, <1>4, <3>1 DEF Allocates
  <2>2. m \in Memory /\ \A i \in Index : ~m[f][i].p
    <3>1. z.mem \in Memory
      BY <1>1 DEF Heaps
    <3>2. m[f] = ZeroPage
      BY <2>1, <3>1 DEF Memory
    <3>3. \A i \in Index : ~ZeroPage[i].p
      BY DEF ZeroPage, NotPresent
    <3>4. m \in Memory
      BY <2>1 DEF Heaps
    <3>5. QED  BY <3>2, <3>3, <3>4
  <2>3. place \in TablePlaces
    <3>1. [j \in Levels |-> 0] \in AllVas
      BY PageTablesAssumption DEF AllVas, Levels, Index
    <3>2. QED  BY <3>1, TableSizes DEF TablePlaces
  <2> HIDE DEF m, taken
  <2>4. pos \in [Frames -> TablePlaces] /\ pos[f].own = Kernel /\ pos[f].level = 1
    BY <2>1, <2>3
  <2> HIDE DEF pos, place
  <2>5. TablesPlaced(taken, pos)
    BY <2>1, <2>4 DEF TablesPlaced
  <2>6. One(taken, pos)
    BY <2>1 DEF One
  <2>7. Down(m, taken, pos)
    BY <2>1, <2>2, TableSizes DEF Down
  <2>8. Up(m, taken, pos)
    <3>1. \A k \in Levels, o \in Owners, va \in AllVas : ~(On(pos, f, o, k, va) /\ k > 1)
      BY <2>4 DEF On
    <3> DEFINE Hangs(g, o, j, va) ==
                 \E e \in taken : On(pos, e, o, j - 1, va) /\ m[e][va[j - 1]].p /\ m[e][va[j - 1]].to = g
    <3>2. (\A g \in taken, o \in Owners, j \in Levels, va \in AllVas :
             On(pos, g, o, j, va) /\ j > 1 => Hangs(g, o, j, va)) => Up(m, taken, pos)
      BY Zenon DEF Up
    <3> HIDE DEF Hangs
    <3>3. QED  BY <2>1, <3>1, <3>2
  <2>9. Forest(m, taken, pos)
    BY <2>2, <2>5, <2>6, <2>7, <2>8 DEF Forest
  <2>10. Ready(h, pos, root, Kernel)
    BY <2>1, <2>4, <2>9 DEF Ready, m, taken
  <2>11. Building(h, root, vas, 0)
    <3>1. \A g \in h.used : pos[g].own = Kernel
      BY <2>1, <2>4 DEF taken
    <3>2. \A j \in 1 .. 0 : Sees(h.mem, h.used, pos, Kernel, vas[j], Identity(vas[j]))
      OBVIOUS
    <3>3. QED  BY <2>10, <3>1, <3>2 DEF Building
  <2>12. QED  BY <2>1, <2>11
<1>5. QED  BY <1>2, <1>3, <1>4 DEF h, z

\* vme_init leaves a forest of the kernel's tables that maps its pages.
KernelForest(m, taken, pos, root) ==
  /\ Forest(m, taken, pos) /\ root \in taken /\ pos[root].own = Kernel /\ pos[root].level = 1
  /\ \A f \in taken : pos[f].own = Kernel
  /\ \A va \in KernelVas : Sees(m, taken, pos, Kernel, va, Identity(va))
LEMMA KernelTablesBuilt ==
  /\ KernelTables \in Heaps
  /\ ~KernelTables.failed => \E pos : KernelForest(KernelTables.mem, KernelTables.used, pos, Min(Frames))
<1> DEFINE h == pgallocz(FramesAtPowerOn)
           root == LastAlloc(FramesAtPowerOn, h)
           vas == SetToSeq(KernelVas)
           K == Len(vas)
           N == K + 1
           S == [n \in 1 .. N |-> {x \in Heaps : Building(x, root, vas, n - 1)}]
           Write1(x, n) == Install(x, root, vas[n - 1], FALSE, Present(PageNumber(vas[n - 1]), FALSE))
           Step(f) == [n \in 1 .. N |-> IF n = 1 THEN h ELSE Write1(f[n - 1], n)]
           onward == [n \in 1 .. N |-> [x \in Heaps |-> Write1(x, n)]]
           built == CHOOSE f : f = Step(f)
           P == {n \in 1 .. N : built[n] \in Heaps /\ Building(built[n], root, vas, n - 1)}
<1>0. K \in Nat /\ N \in Nat \ {0} /\ vas \in [1 .. K -> KernelVas] /\ \A va \in KernelVas : \E i \in 1 .. K : vas[i] = va
  BY KernelVasAreFinite, SetToSeqListsAll
<1>1. h \in Heaps /\ Building(h, root, vas, 1 - 1) /\ (Frames = {} \/ root = Min(Frames))
  BY BuildingStarts
<1>7. KernelTables = built[N]
  BY DEF KernelTables
<1> HIDE DEF root, h, vas, K
<1>10. h \in S[1]
  <2>1. 1 \in 1 .. N
    BY <1>0
  <2>2. QED  BY <1>1, <2>1
<1>2. ASSUME NEW n \in 2 .. N, NEW x \in Heaps, Building(x, root, vas, n - 2)
      PROVE  Write1(x, n) \in Heaps /\ Building(Write1(x, n), root, vas, n - 1)
  <2> DEFINE k == n - 1
  <2>1. k \in 1 .. K /\ k - 1 = n - 2
    BY <1>0
  <2>2. Building(x, root, vas, k - 1)
    BY <1>2, <2>1
  <2> HIDE DEF k
  <2>3. LET h2 == Install(x, root, vas[k], FALSE, Present(PageNumber(vas[k]), FALSE))
        IN  h2 \in Heaps /\ Building(h2, root, vas, k)
    BY <1>0, <2>1, <2>2, BuildingOn
  <2>4. QED  BY <2>3 DEF k
<1>3. ASSUME NEW n \in 2 .. N, NEW x \in S[n - 1]
      PROVE  onward[n][x] \in S[n] /\ onward[n][x] = Write1(x, n)
  <2>1. n - 1 \in 1 .. N /\ n \in 1 .. N /\ n - 1 - 1 = n - 2
    BY <1>0
  <2>2. x \in Heaps /\ Building(x, root, vas, n - 2)
    BY <2>1
  <2>4. S[n] = {y \in Heaps : Building(y, root, vas, n - 1)}
    BY <2>1
  <2> HIDE DEF S
  <2>3. onward[n][x] = Write1(x, n)
    BY <2>1, <2>2
  <2> HIDE DEF onward, Write1
  <2>5. QED  BY <1>2, <2>2, <2>3, <2>4
<1> HIDE DEF S, onward, Write1
<1>4. PICK f : Steps(N, S, h, onward, f)
  <2>1. StepsInto(N, S, h, onward)
    BY <1>10, <1>3 DEF StepsInto
  <2>2. QED  BY <1>0, <2>1, StepsExist
<1>5. f = Step(f)
  <2>1. ASSUME NEW n \in 2 .. N  PROVE f[n] = Write1(f[n - 1], n)
    <3>1. n - 1 \in 1 .. N
      BY <1>0
    <3>2. QED  BY <1>3, <1>4, <3>1 DEF Steps
  <2>2. \A n \in 1 .. N : n = 1 \/ n \in 2 .. N
    BY <1>0
  <2>3. \A n \in 1 .. N : f[n] = IF n = 1 THEN h ELSE Write1(f[n - 1], n)
    BY <1>4, <2>1, <2>2 DEF Steps
  <2>4. f = [n \in 1 .. N |-> f[n]]
    BY <1>4 DEF Steps
  <2>5. QED  BY <2>3, <2>4
<1>6. built = Step(built)
  BY <1>5
<1> HIDE DEF built
<1> DEFINE b(n) == IF n = 1 THEN h ELSE Write1(built[n - 1], n)
<1> HIDE DEF b
<1>8. \A n \in 1 .. N : built[n] = b(n)
  <2>1. built = [n \in 1 .. N |-> b(n)]
    BY <1>6 DEF b
  <2>2. QED  BY <2>1
<1>9. 1 \in P
  <2>1. 1 \in 1 .. N
    BY <1>0
  <2>2. built[1] = h
    BY <1>8, <2>1 DEF b
  <2>3. QED  BY <1>1, <2>1, <2>2
<1>11. ASSUME NEW n \in 2 .. N, n - 1 \in P  PROVE n \in P
  <2>1. n \in 1 .. N /\ n # 1 /\ n - 1 - 1 = n - 2
    BY <1>0
  <2>2. built[n] = Write1(built[n - 1], n)
    BY <1>8, <2>1 DEF b
  <2>3. built[n - 1] \in Heaps /\ Building(built[n - 1], root, vas, n - 2)
    BY <1>11, <2>1
  <2>4. Write1(built[n - 1], n) \in Heaps /\ Building(Write1(built[n - 1], n), root, vas, n - 1)
    BY <1>2, <2>3
  <2>5. QED  BY <2>1, <2>2, <2>4
<1> HIDE DEF P
<1>12. N \in P
  <2>1. N \in Nat /\ \A n \in 1 .. N : n \in P
    BY <1>0, <1>9, <1>11, StepByStep
  <2>2. QED  BY <2>1, <1>0
<1> DEFINE w == built[N]
<1>13. w \in Heaps /\ Building(w, root, vas, K)
  <2>1. N - 1 = K
    BY <1>0
  <2>2. QED  BY <1>12, <2>1 DEF P
<1> HIDE DEF w, N
<1>14. ASSUME ~w.failed  PROVE \E pos : KernelForest(w.mem, w.used, pos, Min(Frames))
  <2>1. PICK pos : /\ Ready(w, pos, root, Kernel) /\ \A g \in w.used : pos[g].own = Kernel
                   /\ \A j \in 1 .. K : Sees(w.mem, w.used, pos, Kernel, vas[j], Identity(vas[j]))
    BY <1>13, <1>14 DEF Building
  <2>2. root \in w.used /\ w.used \subseteq Frames
    BY <1>13, <1>14, <2>1 DEF Ready, Heaps
  <2>3. root = Min(Frames)
    BY <1>1, <2>2
  <2>4. \A va \in KernelVas : Sees(w.mem, w.used, pos, Kernel, va, Identity(va))
    BY <1>0, <2>1
  <2>5. KernelForest(w.mem, w.used, pos, root)
    BY <1>14, <2>1, <2>4 DEF KernelForest, Ready
  <2>6. QED  BY <2>3, <2>5
<1>15. QED  BY <1>7, <1>13, <1>14 DEF w
-----------------------------------------------------------------------------
\* The tables of the kernel and of the spaces: a forest whose trees hang below
\* their roots, with the kernel mapped to itself.
Sound(m, taken, pos, top, spaces, roots) ==
  /\ Forest(m, taken, pos) /\ Borrowed(m, taken, pos, top)
  /\ \A s \in spaces : roots[s] \in taken /\ pos[roots[s]].own = s /\ pos[roots[s]].level = 1
  /\ \A f \in taken : pos[f].own \in spaces \cup {Kernel}
  /\ \A va \in KernelVas : Sees(m, taken, pos, Kernel, va, Identity(va))
TablesInv ==
  /\ PageTablesTypeOK
  /\ \E pos : Sound(mem, used, pos, kpt, live, as_ptr)
  /\ cr3 = kpt \/ \E s \in live : cr3 = as_ptr[s]

\* What the processor sees in sound tables.
LEMMA SoundSees ==
  ASSUME NEW m, NEW taken, NEW pos, NEW top, NEW spaces \in SUBSET Spaces, NEW roots,
         Sound(m, taken, pos, top, spaces, roots)
  PROVE  /\ \A s \in spaces, va \in Vas : Sees(m, taken, pos, s, va, Reach(m, roots[s], va))
         /\ \A va \in Vas : ~Reach(m, top, va).u
         /\ \A va \in KernelVas : /\ Reach(m, top, va) = Identity(va)
                                  /\ \A s \in spaces : Reach(m, roots[s], va) = Identity(va)
<1>0. /\ Forest(m, taken, pos) /\ taken \subseteq Frames /\ top \in taken
      /\ pos[top].own = Kernel /\ pos[top].level = 1 /\ Kernel \in Owners /\ spaces \subseteq Owners
      /\ Vas \subseteq AllVas /\ KernelVas \subseteq AllVas
  BY DEF Sound, Borrowed, Forest, TablesPlaced, Owners, Vas, KernelVas
<1>1. ASSUME NEW s \in spaces, NEW va \in Vas  PROVE Sees(m, taken, pos, s, va, Reach(m, roots[s], va))
  <2>1. On(pos, roots[s], s, 1, va) /\ roots[s] \in taken
    BY DEF Sound, On, Levels
  <2>2. Own(s, va)
    BY DEF Own, Vas, KernelVas
  <2>3. QED  BY <1>0, <2>1, <2>2, ReachIs
<1>2. ASSUME NEW va \in AllVas  PROVE Sees(m, taken, pos, Kernel, va, Reach(m, top, va))
  <2>1. On(pos, top, Kernel, 1, va) /\ Own(Kernel, va)
    BY <1>0 DEF On, Own, Levels
  <2>2. QED  BY <1>0, <2>1, ReachIs
<1>3. ASSUME NEW va \in Vas  PROVE ~Reach(m, top, va).u
  <2> DEFINE r == Reach(m, top, va)
  <2>1. Sees(m, taken, pos, Kernel, va, r)
    BY <1>0, <1>2
  <2> HIDE DEF r
  <2>2. r = Nowhere \/ \E f \in taken : r = Leads(Kernel, m[f][va[PtLevels]])
    BY <2>1 DEF Sees
  <2>3. \A e : ~Leads(Kernel, e).u
    <3>1. SUFFICES ASSUME NEW e  PROVE ~Leads(Kernel, e).u
      OBVIOUS
    <3>2. CASE e.p
      BY <3>2 DEF Leads
    <3>3. CASE ~e.p
      BY <3>3 DEF Leads, Nowhere
    <3>4. QED  BY <3>2, <3>3
  <2>4. ~r.u
    BY <2>2, <2>3 DEF Nowhere
  <2>5. QED  BY <2>4 DEF r
<1>4. ASSUME NEW va \in KernelVas  PROVE Reach(m, top, va) = Identity(va)
  <2>1. Sees(m, taken, pos, Kernel, va, Reach(m, top, va))
    BY <1>0, <1>2
  <2>2. Sees(m, taken, pos, Kernel, va, Identity(va))
    BY DEF Sound
  <2>3. QED  BY <2>1, <2>2, SeesOneThing
<1>5. ASSUME NEW va \in KernelVas, NEW s \in spaces  PROVE Reach(m, roots[s], va) = Identity(va)
  <2>1. On(pos, top, Kernel, 1, va) /\ Own(Kernel, va)
    BY <1>0 DEF On, Own, Levels
  <2>2. roots[s] \in taken /\ pos[roots[s]].level = 1 /\ va[1] \in KernelIndex
    BY DEF Sound, KernelVas
  <2>3. m[roots[s]][va[1]] = m[top][va[1]]
    BY <2>2 DEF Sound, Borrowed
  <2>4. Sees(m, taken, pos, Kernel, va, Reach(m, roots[s], va))
    BY <1>0, <2>1, <2>2, <2>3, ReachIs
  <2>5. Sees(m, taken, pos, Kernel, va, Identity(va))
    BY DEF Sound
  <2>6. QED  BY <2>4, <2>5, SeesOneThing
<1>6. QED  BY <1>1, <1>3, <1>4, <1>5

\* The tables below the roots: the owner's own, and the kernel's.
SoundTrees(m, taken, pos, top, spaces, roots) ==
  /\ TreeOf(taken, pos, Kernel, {Kernel}, Tables(m, top))
  /\ \A s \in spaces : /\ TreeOf(taken, pos, s, {s, Kernel}, Tables(m, roots[s]))
                       /\ TreeOf(taken, pos, s, {s}, teardown(m, roots[s]))
LEMMA SoundTables ==
  ASSUME NEW m, NEW taken, NEW pos, NEW top, NEW spaces \in SUBSET Spaces, NEW roots,
         Sound(m, taken, pos, top, spaces, roots)
  PROVE  SoundTrees(m, taken, pos, top, spaces, roots)
<1> DEFINE all == [p : {TRUE}, u : BOOLEAN, to : Nat]
           user == [p : {TRUE}, u : {TRUE}, to : Nat]
<1>0. /\ Forest(m, taken, pos) /\ Borrowed(m, taken, pos, top)
      /\ top \in taken /\ pos[top].own = Kernel /\ pos[top].level = 1
  BY DEF Sound, Borrowed
<1>1. Followed(Kernel, all, {Kernel}) /\ \A s \in spaces : Followed(s, all, {s, Kernel})
  BY DEF Followed, Entry
<1>2. \A s \in spaces : Followed(s, user, {s})
  <2>1. \A s \in spaces : s # Kernel
    BY PageTablesAssumption
  <2>2. QED  BY <2>1 DEF Followed, Entry
<1>3. \A root : Tables(m, root) = TablesBelow(m, root, all) /\ teardown(m, root) = TablesBelow(m, root, user)
  BY DEF Tables, teardown
<1> HIDE DEF all, user
<1>4. TreeOf(taken, pos, Kernel, {Kernel}, Tables(m, top))
  <2>1. TreeOf(taken, pos, pos[top].own, {Kernel}, TablesBelow(m, top, all))
    BY <1>0, <1>1, TablesAre
  <2>2. QED  BY <1>0, <1>3, <2>1
<1>5. ASSUME NEW s \in spaces
      PROVE  /\ TreeOf(taken, pos, s, {s, Kernel}, Tables(m, roots[s]))
             /\ TreeOf(taken, pos, s, {s}, teardown(m, roots[s]))
  <2> DEFINE root == roots[s]
  <2>1. root \in taken /\ pos[root].own = s /\ pos[root].level = 1
    BY DEF Sound
  <2> HIDE DEF root
  <2>2. TreeOf(taken, pos, pos[root].own, {s, Kernel}, TablesBelow(m, root, all))
    BY <1>0, <1>1, <2>1, TablesAre
  <2>3. TreeOf(taken, pos, pos[root].own, {s}, TablesBelow(m, root, user))
    BY <1>0, <1>2, <2>1, TablesAre
  <2>4. QED  BY <1>3, <2>1, <2>2, <2>3 DEF root
<1>6. QED  BY <1>4, <1>5 DEF SoundTrees

\* So the invariant implies the soundness the runs check.
LEMMA InvIsSound ==
  ASSUME TablesInv  PROVE TablesSound
<1>1. PICK pos : Sound(mem, used, pos, kpt, live, as_ptr)
  BY DEF TablesInv
<1>2. live \in SUBSET Spaces /\ PageTablesTypeOK /\ used \subseteq Frames
  BY DEF TablesInv, PageTablesTypeOK
<1>3. /\ \A f : f \in Tables(mem, kpt) <=> f \in used /\ pos[f].own = Kernel
      /\ \A s \in live : \A f : f \in used /\ pos[f].own = s => f \in Tables(mem, as_ptr[s])
      /\ \A s \in live : \A f \in Tables(mem, as_ptr[s]) : f \in used /\ pos[f].own \in {s, Kernel}
  <2>1. SoundTrees(mem, used, pos, kpt, live, as_ptr)
    BY <1>1, <1>2, SoundTables
  <2>2. QED  BY <2>1 DEF SoundTrees, TreeOf
<1>4. FramesExactlyReachable
  <2>1. ASSUME NEW f \in used  PROVE \E root \in Roots : f \in Tables(mem, root)
    <3>1. pos[f].own \in live \cup {Kernel}
      BY <1>1 DEF Sound
    <3>2. CASE pos[f].own = Kernel
      BY <1>3, <3>2 DEF Roots
    <3>3. CASE pos[f].own \in live
      BY <1>3, <3>3 DEF Roots
    <3>4. QED  BY <3>1, <3>2, <3>3
  <2>2. ASSUME NEW root \in Roots, NEW f \in Tables(mem, root)  PROVE f \in used
    BY <1>3 DEF Roots
  <2>3. \A f : f \in used <=> f \in UNION {Tables(mem, root) : root \in Roots}
    BY <2>1, <2>2
  <2>4. QED  BY <2>3 DEF FramesExactlyReachable
<1>5. TablesPrivate
  BY <1>3 DEF TablesPrivate
<1>6. KernelMappedEverywhere
  <2>1. \A va \in KernelVas : /\ Reach(mem, kpt, va) = Identity(va)
                              /\ \A s \in live : Reach(mem, as_ptr[s], va) = Identity(va)
    BY <1>1, <1>2, SoundSees
  <2>2. \A root \in Roots \cup {cr3} : root = kpt \/ \E s \in live : root = as_ptr[s]
    BY DEF Roots, TablesInv
  <2>3. QED  BY <2>1, <2>2 DEF KernelMappedEverywhere, Identity
<1>7. QED  BY <1>2, <1>4, <1>5, <1>6 DEF TablesSound
-----------------------------------------------------------------------------
\* protect: one more tree, whose root has the kernel's entries and no other.
Rooted(m, taken, top, m2, f) ==
  /\ m2 \in Memory /\ f \in Frames \ taken
  /\ \A i \in Index : m2[f][i] = IF i \in KernelIndex THEN m[top][i] ELSE NotPresent
  /\ \A g \in Frames, i \in Index : g # f => m2[g][i] = m[g][i]
KeepsPages(m, roots, m2, roots2, spaces) ==
  \A t \in spaces, va \in Vas : Reach(m2, roots2[t], va) = Reach(m, roots[t], va)
WithRoot(roots, s, f) == [roots EXCEPT ![s] = f]
LeadsNowhere(m, root) == \A va \in Vas : Reach(m, root, va) = Nowhere
LEMMA ProtectSound ==
  ASSUME NEW m, NEW taken, NEW pos, NEW top, NEW spaces \in SUBSET Spaces, NEW roots,
         Sound(m, taken, pos, top, spaces, roots), roots \in [Spaces -> Frames \cup {NoFrame}],
         NEW s \in Spaces \ spaces, NEW m2, NEW f, Rooted(m, taken, top, m2, f),
         NEW roots2, roots2 = WithRoot(roots, s, f)
  PROVE  /\ \E pos2 : Sound(m2, taken \cup {f}, pos2, top, spaces \cup {s}, roots2)
         /\ KeepsPages(m, roots, m2, roots2, spaces) /\ LeadsNowhere(m2, roots2[s])
<1> DEFINE place == [own |-> s, level |-> 1, va |-> [j \in Levels |-> 0]]
           pos2 == [pos EXCEPT ![f] = place]
           taken2 == taken \cup {f}
<1>0. /\ Forest(m, taken, pos) /\ taken \subseteq Frames /\ pos \in [Frames -> TablePlaces]
      /\ f \in Frames /\ f \notin taken /\ m2 \in Memory /\ s # Kernel /\ s \in Owners
      /\ \A g \in taken : pos[g].own # s
  BY PageTablesAssumption DEF Sound, Forest, TablesPlaced, Rooted, Owners
<1>1. \A g \in taken, i \in Index : m2[g][i] = m[g][i]
  BY <1>0 DEF Rooted
<1>2. place \in TablePlaces
  <2>1. [j \in Levels |-> 0] \in AllVas
    BY PageTablesAssumption DEF AllVas, Levels, Index
  <2>2. QED  BY <1>0, <2>1, TableSizes DEF TablePlaces
<1>3. /\ pos2 \in [Frames -> TablePlaces] /\ pos2[f].own = s /\ pos2[f].level = 1
      /\ \A g \in taken : pos2[g] = pos[g]
  BY <1>0, <1>2
<1> HIDE DEF pos2, place, taken2
<1>4. \A g \in taken, o \in Owners, k \in Levels, va \in AllVas : On(pos2, g, o, k, va) <=> On(pos, g, o, k, va)
  BY <1>3 DEF On
<1>5. \A o \in Owners, k \in Levels, va \in AllVas : On(pos2, f, o, k, va) => o = s /\ k = 1
  BY <1>3 DEF On
<1>6. \A o \in Owners, k \in Levels, va \in AllVas, g \in taken : On(pos, g, o, k, va) => o # s
  BY <1>0 DEF On
<1>7. \A i \in Index : i \notin KernelIndex => ~m2[f][i].p
  BY DEF Rooted, NotPresent
<1>8. \A g : g \in taken2 <=> g \in taken \/ g = f
  BY DEF taken2
<1>9. TablesPlaced(taken2, pos2)
  <2>1. \A g \in taken2 : pos2[g].level > 1 => Own(pos2[g].own, pos2[g].va)
    BY <1>0, <1>3, <1>8 DEF Forest, TablesPlaced
  <2>2. QED  BY <1>0, <1>3, <1>8, <2>1 DEF TablesPlaced
<1>10. One(taken2, pos2)
  <2>1. SUFFICES ASSUME NEW g \in taken2, NEW h \in taken2, NEW o \in Owners, NEW j \in Levels,
                        NEW va \in AllVas, On(pos2, g, o, j, va), On(pos2, h, o, j, va)
                 PROVE  g = h
    BY DEF One
  <2>2. CASE g \in taken /\ h \in taken
    BY <1>0, <1>4, <2>1, <2>2 DEF Forest, One
  <2>3. CASE g = f \/ h = f
    BY <1>4, <1>5, <1>6, <1>8, <2>1, <2>3
  <2>4. QED  BY <1>8, <2>2, <2>3
<1>11. Down(m2, taken2, pos2)
  <2>1. SUFFICES ASSUME NEW g \in taken2, NEW o \in Owners, NEW j \in Levels, NEW va \in AllVas,
                        On(pos2, g, o, j, va), Own(o, va), m2[g][va[j]].p
                 PROVE  /\ m2[g][va[j]].u <=> o # Kernel
                        /\ j < PtLevels => m2[g][va[j]].to \in taken2 /\ On(pos2, m2[g][va[j]].to, o, j + 1, va)
    BY DEF Down
  <2>2. va[j] \in Index
    BY TableSizes
  <2>3. g # f
    <3>1. SUFFICES ASSUME g = f  PROVE FALSE
      OBVIOUS
    <3>2. o = s /\ j = 1
      BY <1>5, <2>1, <3>1
    <3>3. va[j] \notin KernelIndex
      BY <1>0, <2>1, <3>2 DEF Own
    <3>4. QED  BY <1>7, <2>1, <2>2, <3>1, <3>3
  <2>4. g \in taken /\ On(pos, g, o, j, va) /\ m2[g][va[j]] = m[g][va[j]]
    BY <1>1, <1>4, <1>8, <2>1, <2>2, <2>3
  <2>5. /\ m[g][va[j]].u <=> o # Kernel
        /\ j < PtLevels => m[g][va[j]].to \in taken /\ On(pos, m[g][va[j]].to, o, j + 1, va)
    BY <1>0, <2>1, <2>4 DEF Forest, Down
  <2>6. j < PtLevels => j + 1 \in Levels
    BY TableSizes DEF Levels
  <2>7. QED  BY <1>4, <1>8, <2>4, <2>5, <2>6
<1>12. Up(m2, taken2, pos2)
  <2> DEFINE Hangs(g, o, j, va) ==
               \E h \in taken2 : On(pos2, h, o, j - 1, va) /\ m2[h][va[j - 1]].p /\ m2[h][va[j - 1]].to = g
  <2>0. (\A g \in taken2, o \in Owners, j \in Levels, va \in AllVas :
           On(pos2, g, o, j, va) /\ j > 1 => Hangs(g, o, j, va)) => Up(m2, taken2, pos2)
    BY Zenon DEF Up
  <2>1. SUFFICES ASSUME NEW g \in taken2, NEW o \in Owners, NEW j \in Levels, NEW va \in AllVas,
                        On(pos2, g, o, j, va), j > 1
                 PROVE  Hangs(g, o, j, va)
    <3> HIDE DEF Hangs
    <3>1. QED  BY <2>0
  <2>2. g \in taken /\ On(pos, g, o, j, va)
    <3>1. g # f
      BY <1>5, <2>1
    <3>2. QED  BY <1>4, <1>8, <2>1, <3>1
  <2>3. PICK h \in taken : On(pos, h, o, j - 1, va) /\ m[h][va[j - 1]].p /\ m[h][va[j - 1]].to = g
    BY <1>0, <2>1, <2>2 DEF Forest, Up
  <2> DEFINE k == j - 1
  <2>4. k \in Levels
    BY <2>1, TableSizes DEF Levels
  <2>5. On(pos, h, o, k, va) /\ m[h][va[k]].p /\ m[h][va[k]].to = g
    BY <2>3
  <2> HIDE DEF k
  <2>6. On(pos2, h, o, k, va) /\ m2[h][va[k]].p /\ m2[h][va[k]].to = g /\ h \in taken2
    BY <1>1, <1>4, <1>8, <2>4, <2>5, TableSizes
  <2>7. QED  BY <2>6 DEF k
<1>13. Forest(m2, taken2, pos2)
  BY <1>0, <1>9, <1>10, <1>11, <1>12 DEF Forest
<1>14. ASSUME NEW o \in Owners, o # s, NEW va \in AllVas, NEW r, Sees(m, taken, pos, o, va, r)
       PROVE  Sees(m2, taken2, pos2, o, va, r)
  <2>1. \A g \in taken2 : On(pos2, g, o, PtLevels, va) =>
          g \in taken /\ On(pos, g, o, PtLevels, va) /\ m2[g][va[PtLevels]] = m[g][va[PtLevels]]
    BY <1>1, <1>4, <1>5, <1>8, <1>14, TableSizes
  <2>2. \A g \in taken : On(pos, g, o, PtLevels, va) => g \in taken2 /\ On(pos2, g, o, PtLevels, va)
    BY <1>4, <1>8, TableSizes
  <2>3. QED  BY <1>14, <2>1, <2>2 DEF Sees
<1>15. Sound(m2, taken2, pos2, top, spaces \cup {s}, roots2)
  <2>1. Borrowed(m2, taken2, pos2, top)
    <3>1. top \in taken /\ pos2[top].own = Kernel /\ pos2[top].level = 1
      BY <1>3 DEF Sound, Borrowed
    <3>2. ASSUME NEW g \in taken2, NEW i \in KernelIndex, pos2[g].level = 1  PROVE m2[g][i] = m2[top][i]
      <4>1. i \in Index
        BY PageTablesAssumption DEF Index
      <4>2. m2[top][i] = m[top][i]
        BY <1>1, <3>1, <4>1
      <4>3. CASE g = f
        BY <4>1, <4>2, <4>3 DEF Rooted
      <4>4. CASE g # f
        <5>1. g \in taken /\ pos[g].level = 1
          BY <1>3, <1>8, <3>2, <4>4
        <5>2. QED  BY <1>1, <4>1, <4>2, <5>1 DEF Sound, Borrowed
      <4>5. QED  BY <4>3, <4>4
    <3>3. QED  BY <1>8, <3>1, <3>2 DEF Borrowed
  <2>2. \A t \in spaces \cup {s} : roots2[t] \in taken2 /\ pos2[roots2[t]].own = t /\ pos2[roots2[t]].level = 1
    <3>1. roots2[s] = f /\ \A t \in spaces : roots2[t] = roots[t]
      BY DEF WithRoot
    <3>2. \A t \in spaces : roots[t] \in taken /\ pos[roots[t]].own = t /\ pos[roots[t]].level = 1
      BY DEF Sound
    <3>3. QED  BY <1>3, <1>8, <3>1, <3>2
  <2>3. \A g \in taken2 : pos2[g].own \in (spaces \cup {s}) \cup {Kernel}
    BY <1>3, <1>8 DEF Sound
  <2>4. \A va \in KernelVas : Sees(m2, taken2, pos2, Kernel, va, Identity(va))
    <3>1. KernelVas \subseteq AllVas /\ Kernel \in Owners
      BY DEF KernelVas, Owners
    <3>2. QED  BY <1>0, <1>14, <3>1 DEF Sound
  <2>5. QED  BY <1>13, <2>1, <2>2, <2>3, <2>4 DEF Sound
<1>16. spaces \cup {s} \in SUBSET Spaces /\ Vas \subseteq AllVas /\ spaces \subseteq Owners /\ s \notin spaces
  BY DEF Vas, Owners
<1>17. \A t \in spaces \cup {s}, va \in Vas : Sees(m2, taken2, pos2, t, va, Reach(m2, roots2[t], va))
  BY <1>15, <1>16, SoundSees
<1>18. \A t \in spaces, va \in Vas : Reach(m2, roots2[t], va) = Reach(m, roots[t], va)
  <2>1. SUFFICES ASSUME NEW t \in spaces, NEW va \in Vas
                 PROVE  Reach(m2, roots2[t], va) = Reach(m, roots[t], va)
    OBVIOUS
  <2> DEFINE r == Reach(m, roots[t], va)
             r2 == Reach(m2, roots2[t], va)
  <2>2. Sees(m, taken, pos, t, va, r) /\ Sees(m2, taken2, pos2, t, va, r2)
    BY <1>17, SoundSees
  <2> HIDE DEF r, r2
  <2>3. Sees(m2, taken2, pos2, t, va, r)
    BY <1>14, <1>16, <2>2
  <2>4. r = r2
    BY <2>2, <2>3, SeesOneThing
  <2>5. QED  BY <2>4 DEF r, r2
<1>19. \A va \in Vas : Reach(m2, roots2[s], va) = Nowhere
  <2>1. SUFFICES ASSUME NEW va \in Vas  PROVE Reach(m2, roots2[s], va) = Nowhere
    OBVIOUS
  <2> DEFINE r2 == Reach(m2, roots2[s], va)
  <2>2. Sees(m2, taken2, pos2, s, va, r2)
    BY <1>17
  <2> HIDE DEF r2
  <2>3. va[1] \in Index /\ va[1] \notin KernelIndex /\ va \in AllVas
    BY TableSizes DEF Vas, KernelVas
  <2>4. \A g \in taken2 : On(pos2, g, s, PtLevels, va) => ~m2[g][va[PtLevels]].p
    <3>1. \A g \in taken2 : On(pos2, g, s, PtLevels, va) => g = f /\ PtLevels = 1
      BY <1>0, <1>4, <1>5, <1>6, <1>8, <2>3, TableSizes
    <3>2. ~m2[f][va[1]].p
      BY <1>7, <2>3
    <3>3. QED  BY <3>1, <3>2
  <2>5. r2 = Nowhere
    BY <2>2, <2>4 DEF Sees, Leads
  <2>6. QED  BY <2>5 DEF r2
<1>20. QED  BY <1>15, <1>18, <1>19 DEF taken2, KeepsPages, LeadsNowhere

\* unprotect: a tree less.
LEMMA UnprotectSound ==
  ASSUME NEW m, NEW taken, NEW pos, NEW top, NEW spaces \in SUBSET Spaces, NEW roots,
         Sound(m, taken, pos, top, spaces, roots), NEW s \in spaces
  PROVE  Sound(m, taken \ teardown(m, roots[s]), pos, top, spaces \ {s}, roots)
<1> DEFINE taken2 == taken \ teardown(m, roots[s])
<1>0. /\ Forest(m, taken, pos) /\ taken \subseteq Frames /\ s # Kernel
      /\ \A g \in taken : pos[g].own \in spaces \cup {Kernel}
  <2>1. Forest(m, taken, pos) /\ \A g \in taken : pos[g].own \in spaces \cup {Kernel}
    BY Zenon DEF Sound
  <2>2. taken \subseteq Frames
    BY <2>1, Zenon DEF Forest, TablesPlaced
  <2>3. s # Kernel
    BY PageTablesAssumption
  <2>4. QED  BY <2>1, <2>2, <2>3
<1>1. \A g : g \in taken2 <=> g \in taken /\ pos[g].own # s
  <2>1. SoundTrees(m, taken, pos, top, spaces, roots)
    BY SoundTables
  <2>2. TreeOf(taken, pos, s, {s}, teardown(m, roots[s]))
    BY <2>1 DEF SoundTrees
  <2>3. QED  BY <2>2 DEF TreeOf
<1> HIDE DEF taken2
<1>2. \A g, h \in taken, o \in Owners, j, k \in Levels, va \in AllVas :
        On(pos, g, o, j, va) /\ On(pos, h, o, k, va) => (g \in taken2 <=> h \in taken2)
  BY <1>1 DEF On
<1>3. TablesPlaced(taken2, pos) /\ One(taken2, pos)
  BY <1>0, <1>1 DEF Forest, TablesPlaced, One
<1>4. Down(m, taken2, pos)
  <2>1. SUFFICES ASSUME NEW g \in taken2, NEW o \in Owners, NEW j \in Levels, NEW va \in AllVas,
                        On(pos, g, o, j, va), Own(o, va), m[g][va[j]].p
                 PROVE  /\ m[g][va[j]].u <=> o # Kernel
                        /\ j < PtLevels => m[g][va[j]].to \in taken2 /\ On(pos, m[g][va[j]].to, o, j + 1, va)
    BY DEF Down
  <2>2. g \in taken
    BY <1>1
  <2>3. /\ m[g][va[j]].u <=> o # Kernel
        /\ j < PtLevels => m[g][va[j]].to \in taken /\ On(pos, m[g][va[j]].to, o, j + 1, va)
    BY <1>0, <2>1, <2>2 DEF Forest, Down
  <2>4. j < PtLevels => j + 1 \in Levels
    BY TableSizes DEF Levels
  <2>5. QED  BY <1>2, <2>1, <2>2, <2>3, <2>4
<1>5. Up(m, taken2, pos)
  <2> DEFINE Hangs(g, o, j, va) ==
               \E h \in taken2 : On(pos, h, o, j - 1, va) /\ m[h][va[j - 1]].p /\ m[h][va[j - 1]].to = g
  <2>0. (\A g \in taken2, o \in Owners, j \in Levels, va \in AllVas :
           On(pos, g, o, j, va) /\ j > 1 => Hangs(g, o, j, va)) => Up(m, taken2, pos)
    BY Zenon DEF Up
  <2>1. SUFFICES ASSUME NEW g \in taken2, NEW o \in Owners, NEW j \in Levels, NEW va \in AllVas,
                        On(pos, g, o, j, va), j > 1
                 PROVE  Hangs(g, o, j, va)
    <3> HIDE DEF Hangs
    <3>1. QED  BY <2>0
  <2>2. g \in taken
    BY <1>1
  <2>3. PICK h \in taken : On(pos, h, o, j - 1, va) /\ m[h][va[j - 1]].p /\ m[h][va[j - 1]].to = g
    BY <1>0, <2>1, <2>2 DEF Forest, Up
  <2> DEFINE k == j - 1
  <2>4. k \in Levels
    BY <2>1, TableSizes DEF Levels
  <2>5. On(pos, h, o, k, va)
    BY <2>3
  <2> HIDE DEF k
  <2>6. h \in taken2
    BY <1>2, <2>1, <2>2, <2>4, <2>5
  <2>7. QED  BY <2>3, <2>6
<1>6. Forest(m, taken2, pos)
  BY <1>0, <1>3, <1>4, <1>5 DEF Forest
<1>7. Borrowed(m, taken2, pos, top)
  BY <1>0, <1>1 DEF Sound, Borrowed
<1>8. ASSUME NEW va \in KernelVas  PROVE Sees(m, taken2, pos, Kernel, va, Identity(va))
  <2>1. \A g \in taken : On(pos, g, Kernel, PtLevels, va) => g \in taken2
    BY <1>0, <1>1 DEF On
  <2>2. \A g \in taken2 : g \in taken
    BY <1>1
  <2>3. QED  BY <2>1, <2>2 DEF Sound, Sees
<1>9. \A t \in spaces \ {s} : roots[t] \in taken2 /\ pos[roots[t]].own = t /\ pos[roots[t]].level = 1
  BY <1>1 DEF Sound
<1>10. \A g \in taken2 : pos[g].own \in (spaces \ {s}) \cup {Kernel}
  BY <1>0, <1>1
<1>11. Sound(m, taken2, pos, top, spaces \ {s}, roots)
  BY <1>6, <1>7, <1>8, <1>9, <1>10 DEF Sound
<1>12. QED  BY <1>11 DEF taken2

\* map: the entry of one page of one space.
KeepsOtherPages(m, m2, roots, spaces, s, va) ==
  \A t \in spaces, va2 \in Vas : t # s \/ va2 # va => Reach(m2, roots[t], va2) = Reach(m, roots[t], va2)
LEMMA MapSound ==
  ASSUME NEW m, NEW taken, NEW pos, NEW top, NEW spaces \in SUBSET Spaces, NEW roots,
         Sound(m, taken, pos, top, spaces, roots),
         NEW s \in spaces, NEW va \in Vas, NEW e, NEW m2, NEW taken2, NEW pos2,
         Installed(m, taken, pos, m2, taken2, pos2, s, va, e)
  PROVE  /\ Sound(m2, taken2, pos2, top, spaces, roots)
         /\ Reach(m2, roots[s], va) = Leads(s, e)
         /\ KeepsOtherPages(m, m2, roots, spaces, s, va)
<1>0. /\ s # Kernel /\ s \in Owners /\ spaces \subseteq Owners /\ Kernel \in Owners
      /\ Vas \subseteq AllVas /\ KernelVas \subseteq AllVas /\ taken \subseteq Frames
      /\ KernelIndex \subseteq Index
  BY PageTablesAssumption DEF Owners, Vas, KernelVas, Sound, Forest, TablesPlaced, Index
<1>1. Borrowed(m2, taken2, pos2, top)
  <2>1. top \in taken2 /\ pos2[top].own = Kernel /\ pos2[top].level = 1 /\ top \in taken /\ pos[top].level = 1
    BY DEF Sound, Borrowed, Installed
  <2>2. ASSUME NEW g \in taken2, NEW i \in KernelIndex, pos2[g].level = 1  PROVE m2[g][i] = m2[top][i]
    <3>1. g \in taken /\ pos[g].level = 1
      BY <2>2 DEF Installed
    <3>2. m2[g][i] = m[g][i] /\ m2[top][i] = m[top][i]
      BY <1>0, <2>1, <3>1 DEF Installed
    <3>3. QED  BY <3>1, <3>2 DEF Sound, Borrowed
  <2>3. QED  BY <2>1, <2>2 DEF Borrowed
<1>2. \A o \in Owners, va2 \in AllVas : \A r :
        Sees(m, taken, pos, o, va2, r) /\ (o # s \/ va2 # va) => Sees(m2, taken2, pos2, o, va2, r)
  BY DEF Installed
<1>3. Sound(m2, taken2, pos2, top, spaces, roots)
  <2>1. \A va2 \in KernelVas : Sees(m2, taken2, pos2, Kernel, va2, Identity(va2))
    BY <1>0, <1>2 DEF Sound
  <2>2. \A t \in spaces : roots[t] \in taken2 /\ pos2[roots[t]].own = t /\ pos2[roots[t]].level = 1
    BY DEF Sound, Installed
  <2>3. \A g \in taken2 : pos2[g].own \in spaces \cup {Kernel}
    BY DEF Sound, Installed
  <2>4. QED  BY <1>1, <2>1, <2>2, <2>3 DEF Sound, Installed
<1>4. \A t \in spaces, va2 \in Vas : /\ Sees(m, taken, pos, t, va2, Reach(m, roots[t], va2))
                                     /\ Sees(m2, taken2, pos2, t, va2, Reach(m2, roots[t], va2))
  BY <1>3, SoundSees
<1>5. Reach(m2, roots[s], va) = Leads(s, e)
  <2>1. Sees(m2, taken2, pos2, s, va, Leads(s, e))
    BY DEF Installed
  <2>2. QED  BY <1>4, <2>1, SeesOneThing
<1>6. ASSUME NEW t \in spaces, NEW va2 \in Vas, t # s \/ va2 # va
      PROVE  Reach(m2, roots[t], va2) = Reach(m, roots[t], va2)
  <2> DEFINE r == Reach(m, roots[t], va2)
             r2 == Reach(m2, roots[t], va2)
  <2>1. Sees(m, taken, pos, t, va2, r) /\ Sees(m2, taken2, pos2, t, va2, r2)
    BY <1>4
  <2> HIDE DEF r, r2
  <2>2. Sees(m2, taken2, pos2, t, va2, r)
    BY <1>0, <1>2, <1>6, <2>1
  <2>3. r = r2
    BY <2>1, <2>2, SeesOneThing
  <2>4. QED  BY <2>3 DEF r, r2
<1>7. QED  BY <1>3, <1>5, <1>6 DEF KeepsOtherPages
-----------------------------------------------------------------------------
\* The functions of the spaces, as the promise of am.h has them.
NothingMapped == [va \in Vas |-> NoPage]
MapsOf(m, spaces, roots) ==
  [s \in Spaces |-> IF s \in spaces THEN UserView(m, roots[s]) ELSE [va \in Vas |-> NoPage]]
LoadedOf(c, top, spaces, roots) == IF c = top THEN Kernel ELSE CHOOSE s \in spaces : roots[s] = c
Loadable(c, top, spaces, roots) == c = top \/ \E s \in spaces : c = roots[s]

LoadedIs(top, spaces, roots) ==
  /\ LoadedOf(top, top, spaces, roots) = Kernel
  /\ \A s \in spaces : LoadedOf(roots[s], top, spaces, roots) = s
LEMMA LoadedIsTheirs ==
  ASSUME NEW m, NEW taken, NEW pos, NEW top, NEW spaces \in SUBSET Spaces, NEW roots,
         Sound(m, taken, pos, top, spaces, roots)
  PROVE  LoadedIs(top, spaces, roots)
<1>1. ASSUME NEW s \in spaces  PROVE LoadedOf(roots[s], top, spaces, roots) = s
  <2>1. pos[roots[s]].own = s /\ s # Kernel /\ pos[top].own = Kernel
    BY PageTablesAssumption DEF Sound, Borrowed
  <2>2. \A t \in spaces : pos[roots[t]].own = t
    BY DEF Sound
  <2>3. roots[s] # top
    BY <2>1
  <2>4. \A t \in spaces : roots[t] = roots[s] => t = s
    BY <2>1, <2>2
  <2>5. QED  BY <2>3, <2>4 DEF LoadedOf
<1>2. QED  BY <1>1 DEF LoadedIs, LoadedOf

LEMMA LoadedSees ==
  ASSUME NEW m, NEW taken, NEW pos, NEW top, NEW spaces \in SUBSET Spaces, NEW roots,
         Sound(m, taken, pos, top, spaces, roots),
         NEW c, Loadable(c, top, spaces, roots)
  PROVE  UserView(m, c) = IF LoadedOf(c, top, spaces, roots) = Kernel THEN NothingMapped
                          ELSE MapsOf(m, spaces, roots)[LoadedOf(c, top, spaces, roots)]
<1>1. \A s \in spaces : LoadedOf(roots[s], top, spaces, roots) = s
  BY LoadedIsTheirs DEF LoadedIs
<1>2. LoadedOf(top, top, spaces, roots) = Kernel
  BY DEF LoadedOf
<1>3. CASE c = top
  <2>1. \A va \in Vas : ~Reach(m, top, va).u
    BY SoundSees
  <2>2. UserView(m, top) = NothingMapped
    BY <2>1 DEF UserView, NothingMapped
  <2>3. QED  BY <1>1, <1>2, <1>3, <2>2
<1>4. CASE \E s \in spaces : c = roots[s]
  <2>1. PICK s \in spaces : c = roots[s]
    BY <1>4
  <2>2. LoadedOf(c, top, spaces, roots) = s /\ s # Kernel
    BY <1>1, <2>1, PageTablesAssumption
  <2>3. MapsOf(m, spaces, roots)[s] = UserView(m, c)
    BY <2>1 DEF MapsOf
  <2>4. QED  BY <1>1, <1>2, <2>2, <2>3
<1>5. QED  BY <1>3, <1>4 DEF Loadable

WithNothing(maps, s) == [maps EXCEPT ![s] = NothingMapped]
LEMMA MapsAfterProtect ==
  ASSUME NEW m, NEW spaces \in SUBSET Spaces, NEW roots, NEW m2, NEW roots2, NEW s \in Spaces \ spaces,
         KeepsPages(m, roots, m2, roots2, spaces), LeadsNowhere(m2, roots2[s])
  PROVE  MapsOf(m2, spaces \cup {s}, roots2) = WithNothing(MapsOf(m, spaces, roots), s)
<1>1. ASSUME NEW t \in spaces  PROVE UserView(m2, roots2[t]) = UserView(m, roots[t])
  BY DEF UserView, KeepsPages
<1>2. UserView(m2, roots2[s]) = [va \in Vas |-> NoPage]
  BY DEF UserView, Nowhere, LeadsNowhere
<1>3. QED  BY <1>1, <1>2 DEF MapsOf, WithNothing, NothingMapped

LEMMA MapsAfterUnprotect ==
  ASSUME NEW m, NEW spaces \in SUBSET Spaces, NEW roots, NEW s \in spaces
  PROVE  MapsOf(m, spaces \ {s}, roots) = WithNothing(MapsOf(m, spaces, roots), s)
  BY DEF MapsOf, WithNothing, NothingMapped

WithPage(maps, s, va, pa) == [maps EXCEPT ![s][va] = pa]
LEMMA MapsAfterMap ==
  ASSUME NEW m, NEW spaces \in SUBSET Spaces, NEW roots, NEW m2, NEW s \in spaces, NEW va \in Vas, NEW pa,
         KeepsOtherPages(m, m2, roots, spaces, s, va),
         pa = IF Reach(m2, roots[s], va).u THEN Reach(m2, roots[s], va).to ELSE NoPage
  PROVE  MapsOf(m2, spaces, roots) = WithPage(MapsOf(m, spaces, roots), s, va, pa)
<1>1. ASSUME NEW t \in spaces, t # s  PROVE UserView(m2, roots[t]) = UserView(m, roots[t])
  BY <1>1 DEF UserView, KeepsOtherPages
<1>2. UserView(m2, roots[s]) = [UserView(m, roots[s]) EXCEPT ![va] = pa]
  <2> DEFINE v == UserView(m, roots[s])
             v2 == UserView(m2, roots[s])
  <2>1. v = [x \in Vas |-> v[x]] /\ v2 = [x \in Vas |-> v2[x]]
    BY DEF UserView
  <2>2. v2[va] = pa
    BY DEF UserView
  <2>3. \A x \in Vas : x # va => v2[x] = v[x]
    BY DEF UserView, KeepsOtherPages
  <2> HIDE DEF v, v2
  <2>4. v2 = [v EXCEPT ![va] = pa]
    BY <2>1, <2>2, <2>3
  <2>5. QED  BY <2>4 DEF v, v2
<1>3. QED  BY <1>1, <1>2 DEF MapsOf, WithPage
-----------------------------------------------------------------------------
\* vme_init builds sound tables, and no space has any yet.
LEMMA TablesStart == PageTablesInit => TablesInv
<1> SUFFICES ASSUME PageTablesInit  PROVE TablesInv
  OBVIOUS
<1> DEFINE k == KernelTables
<1>1. k \in Heaps /\ ~k.failed /\ mem = k.mem /\ used = k.used /\ kpt = Min(Frames) /\ cr3 = kpt
  BY KernelTablesBuilt DEF PageTablesInit, vme_init
<1>2. PICK pos : KernelForest(k.mem, k.used, pos, Min(Frames))
  BY <1>1, KernelTablesBuilt
<1> HIDE DEF k
<1>3. KernelForest(mem, used, pos, kpt)
  BY <1>1, <1>2
<1>4. live = {} /\ as_ptr = [s \in Spaces |-> NoFrame] /\ panic = FALSE
  BY DEF PageTablesInit
<1>5. mem \in Memory /\ used \subseteq Frames /\ kpt \in Frames
  BY <1>1, <1>3 DEF Heaps, KernelForest
<1>6. PageTablesTypeOK
  <2>1. mem \in [Frames -> [Index -> [p : BOOLEAN, u : BOOLEAN, to : Nat]]]
    BY <1>5 DEF Memory, Entry
  <2>2. QED  BY <1>1, <1>4, <1>5, <2>1 DEF PageTablesTypeOK
<1>7. Borrowed(mem, used, pos, kpt)
  <2>1. ASSUME NEW f \in used, pos[f].level = 1  PROVE f = kpt
    <3> DEFINE va == pos[f].va
    <3>1. va \in AllVas
      BY <1>3, <1>5 DEF KernelForest, Forest, TablesPlaced, TablePlaces
    <3> HIDE DEF va
    <3>2. On(pos, f, Kernel, 1, va) /\ On(pos, kpt, Kernel, 1, va)
      BY <1>3, <2>1 DEF KernelForest, On, Levels
    <3>3. QED  BY <1>3, <3>1, <3>2, TableSizes DEF KernelForest, Forest, One
  <2>2. QED  BY <1>3, <2>1 DEF Borrowed, KernelForest
<1>8. Sound(mem, used, pos, kpt, live, as_ptr)
  BY <1>3, <1>4, <1>7 DEF Sound, KernelForest
<1>9. QED  BY <1>1, <1>6, <1>8 DEF TablesInv

\* A panic leaves the tables as they are.
Panicked == panic' = TRUE /\ UNCHANGED <<mem, used, kpt, as_ptr, live, cr3>>
LEMMA PanicKeeps ==
  ASSUME TablesInv, Panicked  PROVE TablesInv'
<1>1. mem' = mem /\ used' = used /\ kpt' = kpt /\ as_ptr' = as_ptr /\ live' = live /\ cr3' = cr3 /\ panic' \in BOOLEAN
  BY DEF Panicked
<1>2. PageTablesTypeOK'
  BY <1>1 DEF TablesInv, PageTablesTypeOK
<1>3. (\E pos : Sound(mem, used, pos, kpt, live, as_ptr))'
  BY <1>1 DEF TablesInv
<1>4. (cr3 = kpt \/ \E s \in live : cr3 = as_ptr[s])'
  BY <1>1 DEF TablesInv
<1>5. QED  BY <1>2, <1>3, <1>4 DEF TablesInv

\* The parts of the invariant, as the actions need them.
LEMMA InvParts ==
  ASSUME TablesInv
  PROVE  /\ live \in SUBSET Spaces /\ used \subseteq Frames /\ mem \in Memory /\ panic \in BOOLEAN
         /\ as_ptr \in [Spaces -> Frames \cup {NoFrame}] /\ kpt \in Frames /\ kpt \in used
         /\ cr3 \in Frames \cup {NoFrame}
         /\ Heap \in Heaps /\ Heap.mem = mem /\ Heap.used = used /\ Heap.failed = FALSE
         /\ Loadable(cr3, kpt, live, as_ptr)
<1>1. mem \in Memory /\ used \subseteq Frames
  BY DEF TablesInv, PageTablesTypeOK, Memory, Entry
<1>2. Heap \in Heaps /\ Heap.mem = mem /\ Heap.used = used /\ Heap.failed = FALSE
  BY <1>1 DEF Heap, Heaps
<1>3. kpt \in used
  BY DEF TablesInv, Sound, Borrowed
<1>4. Loadable(cr3, kpt, live, as_ptr)
  BY DEF TablesInv, Loadable
<1>5. QED  BY <1>1, <1>2, <1>3, <1>4 DEF TablesInv, PageTablesTypeOK

LEMMA ProtectKeeps ==
  ASSUME TablesInv, NEW s \in Spaces, protect(s)
  PROVE  TablesInv' /\ (Panicked \/ Promise!Protect(s))
<1> DEFINE h == pgallocz(Heap)
           upt == LastAlloc(Heap, h)
           h3 == [h EXCEPT !.mem[upt] = [i \in Index |-> IF i \in KernelIndex THEN h.mem[kpt][i] ELSE @[i]]]
<1>0. /\ live \in SUBSET Spaces /\ used \subseteq Frames /\ mem \in Memory
      /\ as_ptr \in [Spaces -> Frames \cup {NoFrame}] /\ kpt \in Frames /\ kpt \in used
      /\ cr3 \in Frames \cup {NoFrame}
      /\ Heap \in Heaps /\ Heap.mem = mem /\ Heap.used = used /\ Heap.failed = FALSE
      /\ Loadable(cr3, kpt, live, as_ptr)
  BY InvParts
<1>1. /\ s \notin live
      /\ Allocating(IF h.failed THEN h ELSE h3)
      /\ as_ptr' = IF h.failed THEN as_ptr ELSE [as_ptr EXCEPT ![s] = upt]
      /\ live' = IF h.failed THEN live ELSE live \cup {s}
      /\ kpt' = kpt /\ cr3' = cr3
  BY DEF protect
<1>2. (h \in Heaps /\ h.failed /\ Frames \subseteq Heap.used) \/ \E f : Allocates(Heap, h, f)
  BY <1>0, AllocatesOrFails
<1> HIDE DEF h, h3
<1>3. CASE h.failed
  <2>1. Panicked
    BY <1>1, <1>3 DEF Allocating, Panicked
  <2>2. QED  BY <2>1, PanicKeeps
<1>4. ASSUME NEW f, Allocates(Heap, h, f)
      PROVE  TablesInv' /\ Promise!Protect(s)
  <2>1. /\ h \in Heaps /\ h.failed = FALSE /\ upt = f /\ f \in Frames /\ f \notin used
        /\ h.mem = [mem EXCEPT ![f] = ZeroPage] /\ h.used = used \cup {f}
    BY <1>0, <1>4 DEF Allocates, Heaps
  <2> DEFINE top(i) == IF i \in KernelIndex THEN h.mem[kpt][i] ELSE h.mem[f][i]
             table == [i \in Index |-> top(i)]
  <2>2. h3.mem = [h.mem EXCEPT ![f] = table] /\ h3.used = used \cup {f} /\ h3.failed = FALSE
    <3>0. f \in DOMAIN h.mem
      BY <2>1 DEF Heaps, Memory
    <3>1. h3 = [h EXCEPT !.mem[f] = table]
      BY <2>1, <3>0 DEF h3, Heaps
    <3> HIDE DEF table
    <3>2. QED  BY <2>1, <3>1 DEF Heaps
  <2> HIDE DEF table
  <2>3. mem' = h3.mem /\ used' = used \cup {f} /\ panic' = FALSE
    BY <1>1, <2>1, <2>2 DEF Allocating
  <2>4. h.mem \in Memory /\ \A g \in Frames : g # f => h.mem[g] = mem[g]
    BY <1>0, <2>1 DEF Heaps, Memory
  <2>40. h.mem[f] = ZeroPage /\ f # kpt
    BY <1>0, <2>1 DEF Memory
  <2>5. ASSUME NEW i \in Index
        PROVE  table[i] = (IF i \in KernelIndex THEN mem[kpt][i] ELSE NotPresent) /\ table[i] \in Entry
    <3>1. table[i] = IF i \in KernelIndex THEN mem[kpt][i] ELSE NotPresent
      <4>1. table[i] = top(i) /\ ZeroPage[i] = NotPresent
        BY DEF table, ZeroPage
      <4>2. QED  BY <1>0, <2>4, <2>40, <4>1
    <3>2. NotPresent \in Entry
      BY DEF NotPresent, Entry, NoFrame
    <3>3. mem[kpt][i] \in Entry
      BY <1>0 DEF Memory
    <3>4. QED  BY <3>1, <3>2, <3>3
  <2>6. table \in [Index -> Entry]
    BY <2>5 DEF table
  <2>7. Rooted(mem, used, kpt, mem', f)
    <3>1. mem' = [h.mem EXCEPT ![f] = table]
      BY <2>2, <2>3
    <3>2. mem' \in Memory /\ mem'[f] = table /\ \A g \in Frames : g # f => mem'[g] = mem[g]
      BY <2>1, <2>4, <2>6, <3>1 DEF Memory
    <3>3. QED  BY <2>1, <2>5, <3>2 DEF Rooted
  <2>8. as_ptr' = [as_ptr EXCEPT ![s] = f] /\ live' = live \cup {s}
    BY <1>1, <2>1
  <2>9. PICK pos : Sound(mem, used, pos, kpt, live, as_ptr)
    BY DEF TablesInv
  <2>10. /\ \E pos2 : Sound(mem', used \cup {f}, pos2, kpt, live \cup {s}, as_ptr')
         /\ KeepsPages(mem, as_ptr, mem', as_ptr', live) /\ LeadsNowhere(mem', as_ptr'[s])
    <3>1. s \in Spaces \ live
      BY <1>1
    <3>2. as_ptr' = WithRoot(as_ptr, s, f)
      BY <2>8 DEF WithRoot
    <3>3. QED  BY <1>0, <2>7, <2>9, <3>1, <3>2, ProtectSound
  <2>11. (\E pos2 : Sound(mem, used, pos2, kpt, live, as_ptr))'
    BY <1>1, <2>3, <2>8, <2>10
  <2>12. PageTablesTypeOK'
    <3>1. mem' \in [Frames -> [Index -> [p : BOOLEAN, u : BOOLEAN, to : Nat]]]
      BY <2>7 DEF Rooted, Memory, Entry
    <3>2. as_ptr' \in [Spaces -> Frames \cup {NoFrame}]
      BY <1>0, <2>1, <2>8
    <3>3. QED  BY <1>0, <1>1, <2>1, <2>3, <2>8, <3>1, <3>2 DEF PageTablesTypeOK
  <2>13. Loadable(cr3, kpt, live, as_ptr)'
    <3>1. \A t \in live : as_ptr'[t] = as_ptr[t]
      BY <1>0, <1>1, <2>8
    <3>2. QED  BY <1>0, <1>1, <2>8, <3>1 DEF Loadable
  <2>14. TablesInv'
    BY <2>11, <2>12, <2>13 DEF TablesInv, Loadable
  <2>15. MapsOf(mem', live \cup {s}, as_ptr') = WithNothing(MapsOf(mem, live, as_ptr), s)
    <3>1. s \in Spaces \ live
      BY <1>1
    <3>2. QED  BY <1>0, <2>10, <3>1, MapsAfterProtect
  <2>16. LoadedOf(cr3', kpt', live', as_ptr') = LoadedOf(cr3, kpt, live, as_ptr)
    <3>1. /\ LoadedOf(kpt, kpt, live, as_ptr) = Kernel
          /\ \A t \in live : LoadedOf(as_ptr[t], kpt, live, as_ptr) = t
      BY <1>0, <2>9, LoadedIsTheirs DEF LoadedIs
    <3>2. PICK pos2 : Sound(mem', used', pos2, kpt', live', as_ptr')
      BY <2>11
    <3>3. Loadable(cr3', kpt', live', as_ptr') /\ live' \in SUBSET Spaces
      BY <1>0, <2>8, <2>13
    <3>4. /\ LoadedOf(kpt', kpt', live', as_ptr') = Kernel
          /\ \A t \in live' : LoadedOf(as_ptr'[t], kpt', live', as_ptr') = t
      BY <3>2, <3>3, LoadedIsTheirs DEF LoadedIs
    <3>5. \A t \in live : as_ptr'[t] = as_ptr[t]
      BY <1>0, <1>1, <2>8
    <3>6. CASE cr3 = kpt
      BY <1>1, <3>1, <3>4, <3>6
    <3>7. ASSUME NEW t \in live, cr3 = as_ptr[t]
          PROVE  LoadedOf(cr3', kpt', live', as_ptr') = LoadedOf(cr3, kpt, live, as_ptr)
      <4>1. cr3' = as_ptr'[t] /\ t \in live'
        BY <1>1, <2>8, <3>5, <3>7
      <4>2. QED  BY <3>1, <3>4, <3>7, <4>1
    <3>8. QED  BY <1>0, <3>6, <3>7 DEF Loadable
  <2>17. Promise!Protect(s)
    BY <1>1, <2>8, <2>15, <2>16 DEF Promise!Protect, Promise!Nothing, MapsOf, LoadedOf, WithNothing, NothingMapped
  <2>18. QED  BY <2>14, <2>17
<1>5. QED  BY <1>2, <1>3, <1>4

LEMMA UnprotectKeeps ==
  ASSUME TablesInv, NEW s \in Spaces, unprotect(s)
  PROVE  TablesInv' /\ Promise!Unprotect(s)
<1>0. /\ live \in SUBSET Spaces /\ used \subseteq Frames /\ mem \in Memory /\ panic \in BOOLEAN
      /\ Loadable(cr3, kpt, live, as_ptr)
  BY InvParts
<1>1. /\ s \in live /\ cr3 # as_ptr[s] /\ used' = used \ teardown(mem, as_ptr[s])
      /\ live' = live \ {s} /\ mem' = mem /\ kpt' = kpt /\ as_ptr' = as_ptr /\ cr3' = cr3 /\ panic' = panic
  BY DEF unprotect
<1>2. PICK pos : Sound(mem, used, pos, kpt, live, as_ptr)
  BY DEF TablesInv
<1>3. Sound(mem', used', pos, kpt', live', as_ptr')
  BY <1>0, <1>1, <1>2, UnprotectSound
<1>4. PageTablesTypeOK'
  BY <1>0, <1>1 DEF TablesInv, PageTablesTypeOK
<1>5. Loadable(cr3', kpt', live', as_ptr')
  BY <1>0, <1>1 DEF Loadable
<1>6. TablesInv'
  <2>1. (\E pos2 : Sound(mem, used, pos2, kpt, live, as_ptr))'
    BY <1>3
  <2>2. QED  BY <1>4, <1>5, <2>1 DEF TablesInv, Loadable
<1>7. LoadedOf(cr3', kpt', live', as_ptr') = LoadedOf(cr3, kpt, live, as_ptr)
      /\ LoadedOf(cr3, kpt, live, as_ptr) # s
  <2>1. /\ LoadedOf(kpt, kpt, live, as_ptr) = Kernel
        /\ \A t \in live : LoadedOf(as_ptr[t], kpt, live, as_ptr) = t
    BY <1>0, <1>2, LoadedIsTheirs DEF LoadedIs
  <2>2. live' \in SUBSET Spaces
    BY <1>0, <1>1
  <2>3. /\ LoadedOf(kpt', kpt', live', as_ptr') = Kernel
        /\ \A t \in live' : LoadedOf(as_ptr'[t], kpt', live', as_ptr') = t
    BY <1>3, <1>5, <2>2, LoadedIsTheirs DEF LoadedIs
  <2>4. CASE cr3 = kpt
    BY <1>0, <1>1, <2>1, <2>3, <2>4, PageTablesAssumption
  <2>5. ASSUME NEW t \in live, cr3 = as_ptr[t]
        PROVE  /\ LoadedOf(cr3', kpt', live', as_ptr') = LoadedOf(cr3, kpt, live, as_ptr)
               /\ LoadedOf(cr3, kpt, live, as_ptr) # s
    <3>1. t # s /\ cr3' = as_ptr'[t] /\ t \in live'
      BY <1>1, <2>5
    <3>2. QED  BY <2>1, <2>3, <2>5, <3>1
  <2>6. QED  BY <1>0, <2>4, <2>5 DEF Loadable
<1>8. MapsOf(mem, live \ {s}, as_ptr) = WithNothing(MapsOf(mem, live, as_ptr), s)
  BY <1>0, <1>1, MapsAfterUnprotect
<1>9. Promise!Unprotect(s)
  BY <1>1, <1>7, <1>8 DEF Promise!Unprotect, Promise!Nothing, MapsOf, LoadedOf, WithNothing, NothingMapped
<1>10. QED  BY <1>6, <1>9

\* What map writes, for whichever protection.
LEMMA InstallKeeps ==
  ASSUME TablesInv, NEW s \in live, NEW va \in Vas, NEW e \in Entry, e.p => e.u,
         Allocating(Install(Heap, as_ptr[s], va, TRUE, e)), UNCHANGED <<kpt, as_ptr, live, cr3>>,
         NEW pa, pa = IF e.p THEN e.to ELSE NoPage
  PROVE  TablesInv' /\ (Panicked \/ Promise!Map(s, va, pa))
<1> DEFINE h2 == Install(Heap, as_ptr[s], va, TRUE, e)
<1>0. /\ live \in SUBSET Spaces /\ used \subseteq Frames /\ mem \in Memory /\ s # Kernel /\ s \in Owners
      /\ Heap \in Heaps /\ Heap.mem = mem /\ Heap.used = used /\ Heap.failed = FALSE
      /\ kpt' = kpt /\ as_ptr' = as_ptr /\ live' = live /\ cr3' = cr3
      /\ va \in AllVas /\ Own(s, va) /\ (s # Kernel) = TRUE
  BY InvParts, PageTablesAssumption DEF Owners, Vas, KernelVas, Own
<1>1. PICK pos : Sound(mem, used, pos, kpt, live, as_ptr)
  BY DEF TablesInv
<1>2. Ready(Heap, pos, as_ptr[s], s)
  BY <1>0, <1>1 DEF Ready, Sound
<1>3. h2 \in Heaps /\ (h2.failed \/ (~Heap.failed /\ \E pos2 : Installed(Heap.mem, Heap.used, pos, h2.mem, h2.used, pos2, s, va, e)))
  <2>1. e.p => (e.u <=> s # Kernel)
    BY <1>0
  <2>2. LET x == Install(Heap, as_ptr[s], va, s # Kernel, e)
        IN  x \in Heaps /\ (x.failed \/ (~Heap.failed /\ \E pos2 : Installed(Heap.mem, Heap.used, pos, x.mem, x.used, pos2, s, va, e)))
    BY <1>0, <1>2, <2>1, InstallInstalls
  <2>3. QED  BY <1>0, <2>2
<1>4. Allocating(h2)
  OBVIOUS
<1> HIDE DEF h2
<1>5. CASE h2.failed
  <2>1. Panicked
    BY <1>0, <1>4, <1>5 DEF Allocating, Panicked
  <2>2. QED  BY <2>1, PanicKeeps
<1>6. CASE ~h2.failed
  <2>1. mem' = h2.mem /\ used' = h2.used /\ panic' = FALSE
    BY <1>4, <1>6 DEF Allocating
  <2>2. PICK pos2 : Installed(mem, used, pos, mem', used', pos2, s, va, e)
    BY <1>0, <1>3, <1>6, <2>1
  <2>3. /\ Sound(mem', used', pos2, kpt, live, as_ptr)
        /\ Reach(mem', as_ptr[s], va) = Leads(s, e)
        /\ KeepsOtherPages(mem, mem', as_ptr, live, s, va)
    BY <1>0, <1>1, <2>2, MapSound
  <2>4. Sound(mem', used', pos2, kpt', live', as_ptr')
    BY <1>0, <2>3
  <2>5. PageTablesTypeOK'
    <3>1. mem' \in [Frames -> [Index -> [p : BOOLEAN, u : BOOLEAN, to : Nat]]] /\ used' \subseteq Frames
      BY <1>3, <2>1 DEF Heaps, Memory, Entry
    <3>2. QED  BY <1>0, <2>1, <3>1 DEF PageTablesTypeOK, TablesInv
  <2>6. TablesInv'
    <3>1. (\E x : Sound(mem, used, x, kpt, live, as_ptr))'
      BY <2>4
    <3>2. (cr3 = kpt \/ \E t \in live : cr3 = as_ptr[t])'
      BY <1>0 DEF TablesInv
    <3>3. QED  BY <2>5, <3>1, <3>2 DEF TablesInv
  <2>7. pa = IF Reach(mem', as_ptr[s], va).u THEN Reach(mem', as_ptr[s], va).to ELSE NoPage
    <3>1. e.p => Leads(s, e) = [to |-> e.to, u |-> TRUE]
      BY <1>0 DEF Leads
    <3>2. ~e.p => Leads(s, e).u = FALSE
      BY DEF Leads, Nowhere
    <3>3. QED  BY <2>3, <3>1, <3>2
  <2>8. MapsOf(mem', live, as_ptr) = WithPage(MapsOf(mem, live, as_ptr), s, va, pa)
    BY <1>0, <2>3, <2>7, MapsAfterMap
  <2>9. Promise!Map(s, va, pa)
    BY <1>0, <2>8 DEF Promise!Map, MapsOf, WithPage
  <2>10. QED  BY <2>6, <2>9
<1>7. QED  BY <1>5, <1>6

LEMMA MapPageKeeps ==
  ASSUME TablesInv, NEW s \in Spaces, NEW va \in Vas, NEW pa \in Pages, MapPage(s, va, pa)
  PROVE  TablesInv' /\ (Panicked \/ Promise!Map(s, va, pa))
<1>1. Present(pa, TRUE) \in Entry /\ Present(pa, TRUE).p /\ Present(pa, TRUE).u /\ Present(pa, TRUE).to = pa
  BY PageTablesAssumption DEF Present, Entry
<1>2. s \in live /\ UNCHANGED <<kpt, as_ptr, live, cr3>>
  BY DEF MapPage
<1>3. \/ panic' = TRUE /\ UNCHANGED <<mem, used>>
      \/ Allocating(Install(Heap, as_ptr[s], va, TRUE, Present(pa, TRUE)))
  BY DEF MapPage
<1>4. CASE panic' = TRUE /\ UNCHANGED <<mem, used>>
  <2>1. Panicked
    BY <1>2, <1>4 DEF Panicked
  <2>2. QED  BY <2>1, PanicKeeps
<1>5. CASE Allocating(Install(Heap, as_ptr[s], va, TRUE, Present(pa, TRUE)))
  BY <1>1, <1>2, <1>5, InstallKeeps
<1>6. QED  BY <1>3, <1>4, <1>5

LEMMA UnmapPageKeeps ==
  ASSUME TablesInv, NEW s \in Spaces, NEW va \in Vas, UnmapPage(s, va)
  PROVE  TablesInv' /\ (Panicked \/ Promise!Map(s, va, NoPage))
<1>1. NotPresent \in Entry /\ ~NotPresent.p
  BY DEF NotPresent, Entry, NoFrame
<1>2. s \in live /\ UNCHANGED <<kpt, as_ptr, live, cr3>>
  BY DEF UnmapPage
<1>3. \/ panic' = TRUE /\ UNCHANGED <<mem, used>>
      \/ Allocating(Install(Heap, as_ptr[s], va, TRUE, NotPresent))
  BY DEF UnmapPage
<1>4. CASE panic' = TRUE /\ UNCHANGED <<mem, used>>
  <2>1. Panicked
    BY <1>2, <1>4 DEF Panicked
  <2>2. QED  BY <2>1, PanicKeeps
<1>5. CASE Allocating(Install(Heap, as_ptr[s], va, TRUE, NotPresent))
  BY <1>1, <1>2, <1>5, InstallKeeps
<1>6. QED  BY <1>3, <1>4, <1>5

LEMMA MapOutsideKeeps ==
  ASSUME TablesInv, NEW s \in Spaces, MapOutside(s)
  PROVE  TablesInv' /\ Panicked
<1>1. Panicked
  BY DEF MapOutside, Panicked
<1>2. QED  BY <1>1, PanicKeeps

LEMMA SwitchKeeps ==
  ASSUME TablesInv, NEW o \in live \cup {Kernel}, set_cr3(IF o = Kernel THEN kpt ELSE as_ptr[o])
  PROVE  TablesInv' /\ Promise!Switch(o)
<1> DEFINE root == IF o = Kernel THEN kpt ELSE as_ptr[o]
<1>0. /\ live \in SUBSET Spaces /\ Kernel \notin live /\ panic \in BOOLEAN /\ kpt \in Frames
      /\ as_ptr \in [Spaces -> Frames \cup {NoFrame}] /\ Loadable(root, kpt, live, as_ptr)
  <2>1. Loadable(root, kpt, live, as_ptr)
    BY DEF Loadable
  <2>2. QED  BY <2>1, InvParts, PageTablesAssumption
<1>1. cr3' = root /\ mem' = mem /\ used' = used /\ kpt' = kpt /\ as_ptr' = as_ptr /\ live' = live /\ panic' = panic
  BY DEF set_cr3
<1>2. PICK pos : Sound(mem, used, pos, kpt, live, as_ptr)
  BY DEF TablesInv
<1>3. LoadedOf(root, kpt, live, as_ptr) = o
  BY <1>0, <1>2, LoadedIsTheirs DEF LoadedIs
<1>4. root \in Frames \cup {NoFrame}
  BY <1>0
<1> HIDE DEF root
<1>5. TablesInv'
  <2>1. PageTablesTypeOK'
    BY <1>0, <1>1, <1>4 DEF TablesInv, PageTablesTypeOK
  <2>2. (\E x : Sound(mem, used, x, kpt, live, as_ptr))'
    BY <1>1, <1>2
  <2>3. (cr3 = kpt \/ \E t \in live : cr3 = as_ptr[t])'
    BY <1>0, <1>1 DEF Loadable
  <2>4. QED  BY <2>1, <2>2, <2>3 DEF TablesInv
<1>6. Promise!Switch(o)
  BY <1>1, <1>3 DEF Promise!Switch, LoadedOf
<1>7. QED  BY <1>5, <1>6

LEMMA TablesKeep ==
  ASSUME TablesInv, PageTablesNext
  PROVE  TablesInv' /\ (Panicked \/ \/ \E s \in Spaces : Promise!Protect(s) \/ Promise!Unprotect(s)
                                    \/ \E s \in Spaces, va \in Vas, pa \in Pages \cup {NoPage} : Promise!Map(s, va, pa)
                                    \/ \E s \in Spaces \cup {Kernel} : Promise!Switch(s))
<1> DEFINE Goal == \/ \E s \in Spaces : Promise!Protect(s) \/ Promise!Unprotect(s)
                   \/ \E s \in Spaces, va \in Vas, pa \in Pages \cup {NoPage} : Promise!Map(s, va, pa)
                   \/ \E s \in Spaces \cup {Kernel} : Promise!Switch(s)
<1>1. ASSUME NEW s \in Spaces, protect(s)  PROVE TablesInv' /\ (Panicked \/ Goal)
  BY <1>1, ProtectKeeps
<1>2. ASSUME NEW s \in Spaces, unprotect(s)  PROVE TablesInv' /\ (Panicked \/ Goal)
  BY <1>2, UnprotectKeeps
<1>3. ASSUME NEW s \in Spaces, MapOutside(s)  PROVE TablesInv' /\ (Panicked \/ Goal)
  BY <1>3, MapOutsideKeeps
<1>4. ASSUME NEW s \in Spaces, NEW va \in Vas, NEW pa \in Pages, MapPage(s, va, pa)
      PROVE  TablesInv' /\ (Panicked \/ Goal)
  <2>1. TablesInv' /\ (Panicked \/ Promise!Map(s, va, pa))
    BY <1>4, MapPageKeeps
  <2>2. pa \in Pages \cup {NoPage}
    OBVIOUS
  <2>3. Promise!Map(s, va, pa) => Goal
    BY <2>2, Zenon
  <2>4. QED  BY <2>1, <2>3
<1>5. ASSUME NEW s \in Spaces, NEW va \in Vas, UnmapPage(s, va)
      PROVE  TablesInv' /\ (Panicked \/ Goal)
  <2>1. TablesInv' /\ (Panicked \/ Promise!Map(s, va, NoPage))
    BY <1>5, UnmapPageKeeps
  <2>2. NoPage \in Pages \cup {NoPage}
    OBVIOUS
  <2>3. Promise!Map(s, va, NoPage) => Goal
    BY <2>2, Zenon
  <2>4. QED  BY <2>1, <2>3
<1>6. ASSUME NEW s \in live, set_cr3(as_ptr[s])  PROVE TablesInv' /\ (Panicked \/ Goal)
  <2>1. s # Kernel /\ s \in Spaces
    BY InvParts, PageTablesAssumption
  <2>2. set_cr3(IF s = Kernel THEN kpt ELSE as_ptr[s]) /\ s \in live \cup {Kernel} /\ s \in Spaces \cup {Kernel}
    BY <1>6, <2>1
  <2>3. TablesInv' /\ Promise!Switch(s)
    BY <2>2, SwitchKeeps
  <2>4. Promise!Switch(s) => Goal
    BY <2>2, Zenon
  <2>5. QED  BY <2>3, <2>4
<1>7. ASSUME set_cr3(kpt)  PROVE TablesInv' /\ (Panicked \/ Goal)
  <2>1. Kernel \in live \cup {Kernel} /\ Kernel \in Spaces \cup {Kernel}
    OBVIOUS
  <2>2. set_cr3(IF Kernel = Kernel THEN kpt ELSE as_ptr[Kernel])
    BY <1>7
  <2>3. TablesInv' /\ Promise!Switch(Kernel)
    BY <2>1, <2>2, SwitchKeeps
  <2>4. Promise!Switch(Kernel) => Goal
    BY <2>1, Zenon
  <2>5. QED  BY <2>3, <2>4
<1> HIDE DEF Goal
<1>8. TablesInv' /\ (Panicked \/ Goal)
  BY <1>1, <1>2, <1>3, <1>4, <1>5, <1>6, <1>7 DEF PageTablesNext
<1>9. QED  BY <1>8 DEF Goal

LEMMA TablesStep == TablesInv /\ [PageTablesNext]_pageTableVars => TablesInv'
<1> SUFFICES ASSUME TablesInv, [PageTablesNext]_pageTableVars  PROVE TablesInv'
  OBVIOUS
<1>1. CASE PageTablesNext
  BY <1>1, TablesKeep
<1>2. CASE UNCHANGED pageTableVars
  <2>1. mem' = mem /\ used' = used /\ kpt' = kpt /\ as_ptr' = as_ptr /\ live' = live /\ cr3' = cr3 /\ panic' = panic
    BY <1>2 DEF pageTableVars
  <2>2. PageTablesTypeOK'
    BY <2>1 DEF TablesInv, PageTablesTypeOK
  <2>3. (\E pos : Sound(mem, used, pos, kpt, live, as_ptr))'
    BY <2>1 DEF TablesInv
  <2>4. (cr3 = kpt \/ \E s \in live : cr3 = as_ptr[s])'
    BY <2>1 DEF TablesInv
  <2>5. QED  BY <2>2, <2>3, <2>4 DEF TablesInv
<1>3. QED  BY <1>1, <1>2

\* In every order of protect, map, unprotect and switches no frame is lost or
\* shared, and the kernel is mapped to itself everywhere (vme.c:77-157), for any
\* number of levels, entries, frames and spaces.
THEOREM TablesAreSound == PageTablesSpec => []TablesSound
<1>1. PageTablesInit => TablesInv
  BY TablesStart
<1>2. TablesInv /\ [PageTablesNext]_pageTableVars => TablesInv'
  BY TablesStep
<1>3. TablesInv => TablesSound
  BY InvIsSound
<1>4. QED  BY <1>1, <1>2, <1>3, PTL DEF PageTablesSpec

LEMMA ProcessorSees ==
  ASSUME TablesInv'  PROVE Promise!SeesWhatIsLoaded
<1>1. PICK pos : Sound(mem', used', pos, kpt', live', as_ptr')
  BY DEF TablesInv
<1>2. live' \in SUBSET Spaces /\ Loadable(cr3', kpt', live', as_ptr')
  BY DEF TablesInv, PageTablesTypeOK, Loadable
<1>3. UserView(mem', cr3') = IF LoadedOf(cr3', kpt', live', as_ptr') = Kernel THEN NothingMapped
                             ELSE MapsOf(mem', live', as_ptr')[LoadedOf(cr3', kpt', live', as_ptr')]
  BY <1>1, <1>2, LoadedSees
<1>4. QED  BY <1>3, Zenon DEF Promise!SeesWhatIsLoaded, Promise!Nothing, NothingMapped, MapsOf, LoadedOf

LEMMA PromiseStarts ==
  ASSUME TablesInv, PageTablesInit  PROVE Promise!Init
<1>1. live = {} /\ cr3 = kpt
  BY DEF PageTablesInit, vme_init
<1>2. PICK pos : Sound(mem, used, pos, kpt, live, as_ptr)
  BY DEF TablesInv
<1>3. live \in SUBSET Spaces /\ Loadable(cr3, kpt, live, as_ptr)
  BY <1>1 DEF Loadable
<1>4. LoadedOf(cr3, kpt, live, as_ptr) = Kernel
  BY <1>1 DEF LoadedOf
<1>5. UserView(mem, cr3) = NothingMapped
  BY <1>2, <1>3, <1>4, LoadedSees
<1>6. MapsOf(mem, live, as_ptr) = [s \in Spaces |-> NothingMapped]
  BY <1>1 DEF MapsOf, NothingMapped
<1>7. QED  BY <1>1, <1>4, <1>5, <1>6, Zenon DEF Promise!Init, Promise!Nothing, NothingMapped, MapsOf, LoadedOf

\* The tables implement the address spaces of am.h, call by call (vme.c), for
\* any number of levels, entries, frames and spaces.
THEOREM PageTablesImplementAddressSpaces == PageTablesSpec => ImplementsAddressSpaces
<1>1. PageTablesInit => TablesInv
  BY TablesStart
<1>2. TablesInv /\ [PageTablesNext]_pageTableVars => TablesInv'
  BY TablesStep
<1>3. PageTablesInit => Promise!Init
  BY TablesStart, PromiseStarts
<1>4. ASSUME TablesInv, TablesInv', [PageTablesNext]_pageTableVars
      PROVE  [Promise!Next]_Promise!vars
  <2>1. CASE Panicked \/ UNCHANGED pageTableVars
    <3>1. mem' = mem /\ kpt' = kpt /\ as_ptr' = as_ptr /\ live' = live /\ cr3' = cr3
      BY <2>1 DEF Panicked, pageTableVars
    <3>2. UNCHANGED Promise!vars
      BY <3>1 DEF Promise!vars
    <3>3. QED  BY <3>2
  <2>2. CASE PageTablesNext /\ ~Panicked
    <3>1. \/ \E s \in Spaces : Promise!Protect(s) \/ Promise!Unprotect(s)
          \/ \E s \in Spaces, va \in Vas, pa \in Pages \cup {NoPage} : Promise!Map(s, va, pa)
          \/ \E s \in Spaces \cup {Kernel} : Promise!Switch(s)
      BY <1>4, <2>2, TablesKeep
    <3>2. Promise!SeesWhatIsLoaded
      BY <1>4, ProcessorSees
    <3>3. Promise!Next
      BY <3>1, <3>2, Zenon DEF Promise!Next
    <3>4. QED  BY <3>3
  <2>3. QED  BY <1>4, <2>1, <2>2
<1>5. ASSUME TablesInv  PROVE EachCallAsPromised
  <2>1. Panicked => panic'
    BY DEF Panicked
  <2>2. \A s \in Spaces : protect(s) => panic' \/ Promise!Protect(s)
    BY <1>5, <2>1, ProtectKeeps
  <2>3. \A s \in Spaces : unprotect(s) => Promise!Unprotect(s)
    BY <1>5, UnprotectKeeps
  <2>4. \A s \in Spaces, va \in Vas : \A pa \in Pages : MapPage(s, va, pa) => panic' \/ Promise!Map(s, va, pa)
    BY <1>5, <2>1, MapPageKeeps
  <2>5. \A s \in Spaces, va \in Vas : UnmapPage(s, va) => panic' \/ Promise!Map(s, va, NoPage)
    BY <1>5, <2>1, UnmapPageKeeps
  <2>6. ASSUME NEW s \in live, set_cr3(as_ptr[s])  PROVE Promise!Switch(s)
    <3>1. s # Kernel
      BY <1>5, InvParts, PageTablesAssumption
    <3>2. set_cr3(IF s = Kernel THEN kpt ELSE as_ptr[s]) /\ s \in live \cup {Kernel}
      BY <2>6, <3>1
    <3>3. QED  BY <1>5, <3>2, SwitchKeeps
  <2>7. QED  BY <2>2, <2>3, <2>4, <2>5, <2>6, Zenon DEF EachCallAsPromised
<1>6. QED
  BY <1>1, <1>2, <1>3, <1>4, <1>5, PTL DEF PageTablesSpec, ImplementsAddressSpaces, Promise!Spec

-----------------------------------------------------------------------------
(* The drivers of the clock, the disk and the keyboard (QemuDevices).        *)

\* And so the remainder is one.
LEMMA RemainderUnique ==
  ASSUME NEW a \in Int, NEW b \in Nat \ {0}, NEW q \in Int, NEW r \in 0 .. b - 1,
         a = q * b + r
  PROVE  a % b = r
<1>1. a \div b = q /\ a % b = a - (a \div b) * b
  BY Division, DivisionUnique
<1>2. a % b = a - q * b
  BY <1>1
<1>3. q * b \in Int
  OBVIOUS
<1>4. QED  BY <1>2, <1>3

\* What counts modulo m * d also counts modulo d.
LEMMA CountsOn ==
  ASSUME NEW d \in Nat \ {0}, NEW m \in Nat \ {0}, NEW md \in Nat, md = m * d,
         NEW n \in 0 .. md - 1, NEW x \in Nat, n % d = x % d
  PROVE  (n + 1) % md \in 0 .. md - 1 /\ ((n + 1) % md) % d = (x + 1) % d
<1> DEFINE p == n \div d
           q == x \div d
           r == n % d
<1>1. p \in Int /\ q \in Int /\ r \in 0 .. d - 1 /\ r = n - p * d /\ r = x - q * d
  BY Division
<1> HIDE DEF p, q, r
<1>2. p * d \in Int /\ q * d \in Int /\ n = p * d + r /\ x = q * d + r
  BY <1>1
<1>3. p < m
  <2>1. p >= m => p * d >= m * d
    BY <1>1
  <2>2. QED  BY <1>1, <1>2, <2>1
<1>4. (p + 1) * d = p * d + d /\ (q + 1) * d = q * d + d
  BY <1>1
<1>5. (p + 1) * d <= md
  BY <1>1, <1>3
<1>6. md \in Nat \ {0}
  BY <1>1, <1>2
<1>7. CASE n + 1 = md
  <2>1. r + 1 = d
    BY <1>1, <1>2, <1>4, <1>5, <1>7
  <2>2. n + 1 = 1 * md + 0
    BY <1>7
  <2>2x. x + 1 = (q + 1) * d + 0
    BY <1>1, <1>2, <1>4, <2>1
  <2>20. 0 = 0 * d + 0
    OBVIOUS
  <2>3. /\ n + 1 \in Int /\ x + 1 \in Int /\ q + 1 \in Int /\ 1 \in Int /\ 0 \in Int
        /\ 0 \in 0 .. md - 1 /\ 0 \in 0 .. d - 1
    BY <1>1, <1>6
  <2>4. (n + 1) % md = 0
    BY <1>6, <2>2, <2>3, RemainderUnique, Zenon
  <2>5. (x + 1) % d = 0
    BY <2>2x, <2>3, RemainderUnique, Zenon
  <2>6. 0 % d = 0
    BY <2>20, <2>3, RemainderUnique, Zenon
  <2>7. QED  BY <2>3, <2>4, <2>5, <2>6, Zenon
<1>8. CASE n + 1 < md
  <2>1. (n + 1) % md = n + 1
    <3>1. n + 1 \in 0 .. md - 1 /\ n + 1 = 0 * md + (n + 1)
      BY <1>6, <1>8
    <3>2. QED  BY <1>6, <3>1, RemainderUnique
  <2>2. CASE r + 1 < d
    <3>1. /\ r + 1 \in 0 .. d - 1 /\ n + 1 = p * d + (r + 1) /\ x + 1 = q * d + (r + 1)
          /\ n + 1 \in Int /\ x + 1 \in Int
      BY <1>1, <1>2, <2>2
    <3>2. (n + 1) % d = r + 1
      BY <1>1, <3>1, RemainderUnique, Zenon
    <3>3. (x + 1) % d = r + 1
      BY <1>1, <3>1, RemainderUnique, Zenon
    <3>4. QED  BY <1>8, <2>1, <3>2, <3>3
  <2>3. CASE r + 1 = d
    <3>1. /\ 0 \in 0 .. d - 1 /\ n + 1 = (p + 1) * d + 0 /\ x + 1 = (q + 1) * d + 0
          /\ n + 1 \in Int /\ x + 1 \in Int /\ p + 1 \in Int /\ q + 1 \in Int
      BY <1>1, <1>2, <1>4, <2>3
    <3>2. (n + 1) % d = 0 /\ (x + 1) % d = 0
      BY <3>1, RemainderUnique, Zenon
    <3>3. QED  BY <1>8, <2>1, <3>2
  <2>4. QED  BY <1>1, <2>2, <2>3
<1>9. QED  BY <1>7, <1>8

\* Fewer steps than there are numbers lead back only if there is none.
LEMMA NotAround ==
  ASSUME NEW d \in Nat \ {0}, NEW a \in 0 .. d - 1, NEW k \in 0 .. d - 1, (a + k) % d = a
  PROVE  k = 0
<1> DEFINE q == (a + k) \div d
<1>1. q \in Int /\ a = (a + k) - q * d
  BY Division
<1> HIDE DEF q
<1>2. q >= 1 => q * d >= d
  BY <1>1
<1>3. q <= -1 => q * d <= 0 - d
  BY <1>1
<1>4. q = 0 => q * d = 0
  BY <1>1
<1>5. q * d \in Int /\ q * d = k
  BY <1>1
<1>6. QED  BY <1>1, <1>2, <1>3, <1>4, <1>5

\* How many steps were made since t is known if the number did not fall.
LEMMA NotFallen ==
  ASSUME NEW d \in Nat \ {0}, NEW t \in 0 .. d - 1, NEW s \in 0 .. d, (t + s) % d > t
  PROVE  ((t + s) % d) - t = s
<1>1. CASE t + s < d
  <2>1. t + s \in 0 .. d - 1 /\ t + s = 0 * d + (t + s)
    BY <1>1
  <2>2. (t + s) % d = t + s
    BY <2>1, RemainderUnique
  <2>3. QED  BY <2>2
<1>2. CASE t + s >= d
  <2>1. (t + s) - d \in 0 .. d - 1 /\ t + s = 1 * d + ((t + s) - d)
    BY <1>2
  <2>2. (t + s) % d = (t + s) - d
    BY <2>1, RemainderUnique
  <2>3. QED  BY <2>2
<1>3. QED  BY <1>1, <1>2

\* Minutes and seconds make up the second of the hour.
MinuteAndSecond(s, m, sm, n) == ((n \div s) % m) * s + (n % s) = n % sm
LEMMA MinutesAndSeconds ==
  ASSUME NEW s \in Nat \ {0}, NEW m \in Nat \ {0}, NEW sm \in Nat \ {0}, sm = s * m, NEW n \in Nat
  PROVE  MinuteAndSecond(s, m, sm, n)
<1> DEFINE q == n \div s
           r == n % s
           p == q \div m
           i == q % m
<1>1. q \in Int /\ r \in 0 .. s - 1 /\ r = n - q * s
  <2>1. n \in Int
    OBVIOUS
  <2>2. QED  BY <2>1, Division
<1> HIDE DEF q, r
<1>2. p \in Int /\ i \in 0 .. m - 1 /\ i = q - p * m
  BY <1>1, Division
<1> HIDE DEF p, i
<1>3. i * s + r \in 0 .. sm - 1
  <2>1. i * s \in Nat /\ i * s <= (m - 1) * s
    BY <1>2
  <2>2. (m - 1) * s = sm - s
    OBVIOUS
  <2>3. QED  BY <1>1, <2>1, <2>2
<1>4. n = p * sm + (i * s + r)
  <2>1. q = p * m + i /\ p * m \in Int
    BY <1>1, <1>2
  <2>2. q * s = (p * m) * s + i * s
    BY <1>1, <1>2, <2>1
  <2>3. (p * m) * s = p * sm
    BY <1>2
  <2>4. q * s \in Int /\ i * s \in Int /\ p * sm \in Int /\ q * s = p * sm + i * s
    BY <1>1, <1>2, <2>2, <2>3
  <2>5. n = q * s + r
    BY <1>1, <2>4
  <2>6. QED  BY <1>1, <2>4, <2>5
<1>5. n % sm = i * s + r
  <2>1. n \in Int
    OBVIOUS
  <2>2. QED  BY <1>2, <1>3, <1>4, <2>1, RemainderUnique, Zenon
<1>6. QED  BY <1>5, Zenon DEF i, q, r, MinuteAndSecond

\* The clock: how far it has moved since its registers began to be read.
ClockCall == {"timer_rtc", "estimate_freq"}
Hour == SecondsOfMinute * MinutesOfHour
ClockTypes ==
  /\ io = [fn |-> io.fn, at |-> io.at, got |-> io.got, ticks |-> io.ticks,
           t0 |-> io.t0, t1 |-> io.t1, since |-> io.since]
  /\ io.got \in Seq(Nat) /\ io.ticks \in Nat /\ io.since \in 0 .. Hour
  /\ io.t1 \in (0 .. Hour - 1) \cup {Day}

\* The second has moved as often as the clock since the first register.
SecondSince(ticks) == clock % SecondsOfMinute = (io.got[1] + ticks) % SecondsOfMinute
AllShown == \A reg \in 1 .. Len(io.got) : io.got[reg] = Shown(reg)
DateRead ==
  /\ io.at \in {"read", "check", "done"}
  /\ IF io.at = "read" THEN Len(io.got) < 3 ELSE Len(io.got) = 3
  /\ io.ticks < SecondsOfMinute
  /\ io.at = "done" => AllShown
  /\ io.at # "done" /\ Len(io.got) > 0 =>
       /\ io.got[1] < SecondsOfMinute
       /\ \E k \in 0 .. io.ticks : SecondSince(k) /\ (k = 0 => AllShown)

\* The second changes once at most from t0 to t1, and then the clock stands.
ChangeSeen ==
  /\ io.at \in {"t0", "t1", "compare", "done"} /\ io.ticks \in 0 .. 1
  /\ io.at = "t1" => Len(io.got) < 2
  /\ io.at = "compare" => Len(io.got) = 2
  /\ io.at \in {"t1", "compare"} =>
       /\ io.ticks = 0 => clock % SecondsOfMinute = io.t0
       /\ Len(io.got) > 0 /\ io.got[1] # io.t0 => io.ticks = 1 /\ AllShown
  /\ io.at # "done" =>
       IF io.t1 = Day THEN io.since = 0 ELSE clock % Hour = (io.t1 + io.since) % Hour
  /\ io.at = "done" => SecondOfHour - io.t1 = io.since

ClockInv ==
  /\ clock \in 0 .. Day - 1
  /\ io.fn \in ClockCall => ClockTypes
  /\ io.fn = "timer_rtc" => DateRead
  /\ io.fn = "estimate_freq" => ChangeSeen

\* The disk. What it holds once it has written the block it is busy with.
BlockNumbers == 0 .. Blocks - 1
Datum == [version : Nat, block : Nat, k : Nat]
Block == [1 .. Words -> Datum]
Writing == ata.busy /\ ata.cmd = "write" /\ ata.data # <<>>
Settled(b) == IF Writing /\ b = ata.block THEN ata.data ELSE medium[b]
AtRest == Writing \/ ata = AtaIdle

DiskTypes ==
  /\ ata = [busy |-> ata.busy, cmd |-> ata.cmd, block |-> ata.block, data |-> ata.data]
  /\ ata.busy \in BOOLEAN /\ ata.cmd \in {"none", "read", "write"}
  /\ ata.busy => ata.cmd # "none"
  /\ ata.block \in BlockNumbers /\ ata.data \in Seq(Datum)
  /\ medium \in [BlockNumbers -> Block] /\ wanted \in [BlockNumbers -> Block]
  /\ Writing => ata.data \in Block
DiskCallTypes ==
  /\ io = [fn |-> io.fn, at |-> io.at, blkno |-> io.blkno, remain |-> io.remain,
           cmd |-> io.cmd, version |-> io.version, buf |-> io.buf]
  /\ io.at \in {"wait", "command", "wait for data", "data", "done"}
  /\ io.cmd \in {"read", "write"} /\ io.version \in Nat
  /\ io.blkno \in Nat /\ io.remain \in Nat /\ io.buf \in Seq(Datum)
InDiskCall == io.fn = "disk_blkio" /\ io.at # "done"
Left == io.blkno .. io.blkno + io.remain - 1

\* What has been told to the disk is on it, but for what is left to write.
BlocksSoFar ==
  /\ io.remain > 0 /\ Left \subseteq BlockNumbers
  /\ io.cmd = "write" => \A b \in Left : wanted[b] = BlockOf(io.version, b)
  /\ \A b \in BlockNumbers : (io.cmd = "write" /\ b \in Left) \/ Settled(b) = wanted[b]

\* The words of the block that have gone through the data register.
WordsWritten ==
  /\ ata.data = io.buf
  /\ \A k \in 1 .. Len(io.buf) : io.buf[k] = DiskWord(io.version, io.blkno, k)
WordsRead ==
  /\ Len(ata.data) = Words - Len(io.buf)
  /\ \A k \in 1 .. Len(io.buf) : io.buf[k] = medium[io.blkno][k]
  /\ \A k \in 1 .. Len(ata.data) : ata.data[k] = medium[io.blkno][Len(io.buf) + k]
WordsMoved ==
  /\ ata.busy = FALSE /\ Len(io.buf) < Words
  /\ io.cmd = "write" => WordsWritten
  /\ io.cmd = "read" => WordsRead

\* Where the call is, the disk is as it has to be there.
DiskInCall ==
  /\ BlocksSoFar
  /\ io.at # "data" => io.buf = <<>>
  /\ io.at = "wait" => AtRest
  /\ io.at = "command" => ata = AtaIdle
  /\ io.at \in {"wait for data", "data"} => ata.cmd = io.cmd /\ ata.block = io.blkno
  /\ io.at = "wait for data" =>
       ata.data = IF ata.busy \/ io.cmd = "write" THEN <<>> ELSE medium[io.blkno]
  /\ io.at = "data" => WordsMoved

DiskInv ==
  /\ DiskTypes
  /\ io.fn = "disk_blkio" => DiskCallTypes
  /\ IF InDiskCall THEN DiskInCall
     ELSE AtRest /\ \A b \in BlockNumbers : Settled(b) = wanted[b]

\* The keyboard: what was moved is what was got and what is still queued.
Movement == [keydown : BOOLEAN, keycode : Nat]
Decoded(code) == KeyEvent(code < KeyBit, keylut[code % KeyBit])
KeyInv ==
  io.fn = "input_keybrd" =>
    /\ io = [fn |-> io.fn, at |-> io.at, codes |-> io.codes, down |-> io.down,
             moves |-> io.moves, got |-> io.got]
    /\ io.at \in {"poll", "done"} /\ io.down \subseteq KeyCodes
    /\ io.codes \in Seq(Nat) /\ io.moves \in Seq(Movement) /\ io.got \in Seq(Movement)
    /\ \A n \in 1 .. Len(io.got) :
         io.got[n] = IF n <= Len(io.moves) THEN io.moves[n] ELSE KeyEvent(FALSE, AM_KEY_NONE)
    /\ io.at = "done" => Len(io.got) = Len(io.moves) + 1
    /\ io.at = "poll" =>
         /\ Len(io.moves) = Len(io.got) + Len(io.codes)
         /\ \A n \in 1 .. Len(io.codes) : Decoded(io.codes[n]) = io.moves[Len(io.got) + n]

Calls == ClockCall \cup {"none", "disk_blkio", "input_keybrd"}
DevicesInv ==
  /\ io.fn \in Calls /\ (io.fn = "none" => io = NoIo)
  /\ ClockInv /\ DiskInv /\ KeyInv

LEMMA DeviceSizes ==
  /\ SecondsOfMinute \in Nat \ {0} /\ SecondsOfMinute > 1 /\ MinutesOfHour \in Nat \ {0}
  /\ Blocks \in Nat \ {0} /\ Words \in Nat \ {0}
  /\ KeyBit \in Nat \ {0} /\ KeyBound \in Nat /\ KeyCodes \subseteq 1 .. KeyBit - 1
BY QemuDevicesAssumption

LEMMA ClockSizes ==
  /\ Hour \in Nat \ {0} /\ Hour = SecondsOfMinute * MinutesOfHour
  /\ Day \in Nat \ {0} /\ Day = 2 * Hour /\ Hour < Day
  /\ 2 * MinutesOfHour \in Nat \ {0} /\ Day = (2 * MinutesOfHour) * SecondsOfMinute
<1>1. SecondsOfMinute * MinutesOfHour \in Nat /\ SecondsOfMinute * MinutesOfHour > 0
  BY DeviceSizes
<1>2. 2 * MinutesOfHour * SecondsOfMinute = 2 * (SecondsOfMinute * MinutesOfHour)
  BY DeviceSizes
<1>3. Hour \in Nat \ {0} /\ Hour = SecondsOfMinute * MinutesOfHour
  BY <1>1 DEF Hour
<1>4. Day = 2 * Hour
  BY <1>2 DEF Day, Hour
<1>5. QED  BY <1>3, <1>4, DeviceSizes DEF Day

\* What the registers show.
LEMMA ShownFacts ==
  ASSUME clock \in 0 .. Day - 1
  PROVE  /\ \A reg \in Registers : Shown(reg) \in Nat
         /\ Shown(1) = clock % SecondsOfMinute /\ Shown(1) \in 0 .. SecondsOfMinute - 1
         /\ Shown(2) = (clock \div SecondsOfMinute) % MinutesOfHour
<1> DEFINE s == clock % SecondsOfMinute
           q == clock \div SecondsOfMinute
           m == q % MinutesOfHour
           h == clock \div Hour
<1>1. clock \in Nat
  BY ClockSizes
<1>2. s \in 0 .. SecondsOfMinute - 1 /\ q \in Int
  BY <1>1, DeviceSizes, Division
<1>3. m \in 0 .. MinutesOfHour - 1
  <2> HIDE DEF q
  <2>1. QED  BY <1>2, DeviceSizes, Division
<1>4. h \in Nat
  <2>1. h \in Int /\ clock % Hour \in 0 .. Hour - 1 /\ clock % Hour = clock - h * Hour
    <3>1. clock \in Int /\ Hour \in Nat \ {0}
      BY <1>1, ClockSizes
    <3>2. QED  BY <3>1, Division, Zenon
  <2> HIDE DEF h
  <2>2. h < 0 => h * Hour <= 0 - Hour
    BY <2>1, ClockSizes
  <2>3. h * Hour \in Int
    BY <2>1, ClockSizes
  <2>4. QED  BY <1>1, <2>1, <2>2, <2>3, ClockSizes
<1>5. Shown(1) = s /\ Shown(2) = m /\ Shown(3) = h
  BY DEF Shown, Hour
<1> HIDE DEF s, q, m, h
<1>6. \A reg \in Registers : reg = 1 \/ reg = 2 \/ reg = 3
  BY DEF Registers
<1>7. Shown(1) \in Nat /\ Shown(2) \in Nat /\ Shown(3) \in Nat
  BY <1>2, <1>3, <1>4, <1>5
<1>8. QED  BY <1>2, <1>5, <1>6, <1>7 DEF s, q, m

\* A remainder is its own remainder.
LEMMA RemainderStays ==
  ASSUME NEW d \in Nat \ {0}, NEW n \in Nat
  PROVE  n % d \in 0 .. d - 1 /\ n % d = ((n % d) + 0) % d
<1> DEFINE r == n % d
<1>1. r \in 0 .. d - 1
  <2>1. n \in Int
    OBVIOUS
  <2>2. QED  BY <2>1, Division
<1> HIDE DEF r
<1>2. r + 0 \in Int /\ r + 0 = 0 * d + r /\ 0 \in Int
  BY <1>1
<1>3. (r + 0) % d = r
  BY <1>1, <1>2, RemainderUnique, Zenon
<1>4. QED  BY <1>1, <1>3, Zenon DEF r

\* The call, its kind apart from what it has done.
CallKnown == io.fn \in Calls /\ (io.fn = "none" => io = NoIo)
OutsideDisk == DiskInv /\ io.fn # "disk_blkio" /\ UNCHANGED <<ata, medium, wanted>>

\* The disk does not notice the calls of the other drivers.
LEMMA DiskUnnoticed ==
  ASSUME DiskInv, ~InDiskCall, UNCHANGED <<ata, medium, wanted>>, io'.fn # "disk_blkio"
  PROVE  DiskInv'
<1>1. ~InDiskCall'
  BY DEF InDiskCall
<1>2. Writing' = Writing /\ AtRest' = AtRest /\ DiskTypes' = DiskTypes
  BY DEF Writing, AtRest, DiskTypes
<1>3. \A b \in BlockNumbers : Settled(b)' = wanted'[b]
  BY DEF DiskInv, Settled, Writing
<1>4. QED  BY <1>1, <1>2, <1>3 DEF DiskInv

LEMMA OtherKinds ==
  ASSUME CallKnown, DiskInv
  PROVE  /\ io.fn # "disk_blkio" => ~InDiskCall
         /\ io = NoIo => io.fn = "none" /\ ~InDiskCall
         /\ io.fn # "none" => io # NoIo
BY DEF InDiskCall, NoIo

\* A call of the clock begins.
LEMMA ClockCalled ==
  ASSUME DevicesInv, NEW fn \in ClockCall, CallClock(fn)
  PROVE  DevicesInv'
<1>1. /\ io = NoIo /\ UNCHANGED <<ata, medium, wanted>> /\ clock' \in 0 .. Day - 1
      /\ io' = [fn |-> fn, at |-> IF fn = "timer_rtc" THEN "read" ELSE "t0", got |-> <<>>,
                ticks |-> 0, t0 |-> 0, t1 |-> Day, since |-> 0]
  BY DEF CallClock
<1>2. CallKnown /\ DiskInv
  BY DEF DevicesInv, CallKnown
<1>3. /\ io'.fn = fn /\ io'.got = <<>> /\ io'.ticks = 0 /\ io'.t1 = Day /\ io'.since = 0
      /\ io'.at = IF fn = "timer_rtc" THEN "read" ELSE "t0"
  BY <1>1
<1>4. ClockInv'
  <2>1. ClockTypes'
    BY <1>1, <1>3, ClockSizes DEF ClockTypes
  <2>2. io'.fn = "timer_rtc" => DateRead'
    BY <1>3, DeviceSizes DEF DateRead
  <2>3. io'.fn = "estimate_freq" => ChangeSeen'
    BY <1>3 DEF ChangeSeen, ClockCall
  <2>4. QED  BY <1>1, <2>1, <2>2, <2>3 DEF ClockInv
<1>5. DiskInv'
  BY <1>1, <1>2, <1>3, OtherKinds, DiskUnnoticed DEF ClockCall
<1>6. KeyInv'
  BY <1>3 DEF KeyInv, ClockCall
<1>7. io'.fn \in Calls /\ io'.fn # "none"
  BY <1>3 DEF Calls, ClockCall
<1>8. QED  BY <1>4, <1>5, <1>6, <1>7 DEF DevicesInv

\* What a step of a call of the clock leaves alone.
ClockStep == io'.fn = io.fn /\ clock' \in 0 .. Day - 1 /\ UNCHANGED <<ata, medium, wanted>>
LEMMA ClockStepKeeps ==
  ASSUME DevicesInv, io.fn \in ClockCall, ClockStep, ClockInv'
  PROVE  DevicesInv'
<1>1. CallKnown /\ DiskInv
  BY DEF DevicesInv, CallKnown
<1>2. DiskInv'
  BY <1>1, OtherKinds, DiskUnnoticed DEF ClockCall, ClockStep
<1>3. KeyInv'
  BY DEF KeyInv, ClockCall, ClockStep
<1>4. io'.fn \in Calls /\ io'.fn # "none"
  BY DEF Calls, ClockCall, ClockStep
<1>5. QED  BY <1>2, <1>3, <1>4 DEF DevicesInv

\* A step of the clock is one more of those the call has to reckon with.
LEMMA Ticked ==
  ASSUME DevicesInv, Tick
  PROVE  DevicesInv'
<1>1. /\ io.fn \in ClockCall /\ io.at # "done" /\ io.ticks < TickBound /\ io.since < Hour
      /\ clock' = (clock + 1) % Day
      /\ io' = [io EXCEPT !.ticks = @ + 1, !.since = IF io.t1 = Day THEN 0 ELSE @ + 1]
      /\ UNCHANGED <<ata, medium, wanted>>
  BY DEF Tick, ClockCall, HourBound, Hour
<1>2. clock \in 0 .. Day - 1 /\ ClockTypes
  BY <1>1 DEF DevicesInv, ClockInv
<1>3. /\ io'.fn = io.fn /\ io'.at = io.at /\ io'.got = io.got /\ io'.ticks = io.ticks + 1
      /\ io'.t0 = io.t0 /\ io'.t1 = io.t1 /\ io'.since = IF io.t1 = Day THEN 0 ELSE io.since + 1
  BY <1>1, <1>2 DEF ClockTypes
<1>4. ClockTypes'
  <2>1. io' = [fn |-> io.fn, at |-> io.at, got |-> io.got, ticks |-> io.ticks + 1, t0 |-> io.t0,
               t1 |-> io.t1, since |-> IF io.t1 = Day THEN 0 ELSE io.since + 1]
    BY <1>1, <1>2 DEF ClockTypes
  <2>2. io'.ticks \in Nat /\ io'.since \in 0 .. Hour
    <3>1. io.ticks \in Nat /\ io.since \in 0 .. Hour /\ io.since < Hour
      BY <1>1, <1>2 DEF ClockTypes
    <3>2. QED  BY <1>3, <3>1, ClockSizes
  <2>3. QED  BY <1>2, <1>3, <2>1, <2>2 DEF ClockTypes
<1>5. clock' \in 0 .. Day - 1
  <2>1. clock + 1 \in Int /\ Day \in Nat \ {0}
    BY <1>2, ClockSizes
  <2>2. (clock + 1) % Day \in 0 .. Day - 1
    BY <2>1, Division, Zenon
  <2>3. QED  BY <1>1, <2>2
<1>6. ASSUME io.fn = "timer_rtc"  PROVE DateRead'
  <2>1. DateRead /\ io.ticks < SecondsOfMinute - 1
    BY <1>1, <1>6 DEF DevicesInv, ClockInv, TickBound
  <2>2. io'.ticks < SecondsOfMinute
    BY <1>2, <1>3, <2>1, DeviceSizes DEF ClockTypes
  <2>3. ASSUME Len(io.got) > 0
        PROVE  io.got[1] < SecondsOfMinute /\ \E k \in 0 .. io'.ticks : SecondSince(k)' /\ k # 0
    <3>1. io.got[1] < SecondsOfMinute
      BY <1>1, <2>1, <2>3 DEF DateRead
    <3>2. PICK k \in 0 .. io.ticks : SecondSince(k)
      BY <1>1, <2>1, <2>3 DEF DateRead
    <3>3. io.got[1] \in Nat /\ k \in Nat /\ io.ticks \in Nat
      BY <1>2, <2>3 DEF ClockTypes
    <3>4. io.got[1] + k \in Nat /\ clock % SecondsOfMinute = (io.got[1] + k) % SecondsOfMinute
      BY <3>2, <3>3 DEF SecondSince
    <3>5. clock' % SecondsOfMinute = ((io.got[1] + k) + 1) % SecondsOfMinute
      BY <1>1, <1>2, <3>4, CountsOn, ClockSizes, DeviceSizes
    <3>6. (io.got[1] + k) + 1 = io.got[1] + (k + 1) /\ k + 1 \in 0 .. io'.ticks /\ k + 1 # 0
      BY <1>3, <3>3
    <3>7. SecondSince(k + 1)'
      BY <1>3, <3>5, <3>6 DEF SecondSince
    <3>8. QED  BY <3>1, <3>6, <3>7
  <2>4. QED  BY <1>1, <1>3, <2>1, <2>2, <2>3 DEF DateRead
<1>7. ASSUME io.fn = "estimate_freq"  PROVE ChangeSeen'
  <2>1. ChangeSeen /\ io.ticks = 0 /\ io'.ticks = 1
    BY <1>1, <1>2, <1>3, <1>7 DEF DevicesInv, ClockInv, TickBound, ClockTypes, ChangeSeen
  <2>2. io.at \in {"t1", "compare"} => ~(Len(io.got) > 0 /\ io.got[1] # io.t0)
    BY <2>1 DEF ChangeSeen
  <2>3. io.t1 = Day => io'.since = 0
    BY <1>3
  <2>4. io.t1 # Day => clock' % Hour = (io.t1 + io'.since) % Hour
    <3> SUFFICES ASSUME io.t1 # Day  PROVE clock' % Hour = (io.t1 + io'.since) % Hour
      OBVIOUS
    <3>1. io.t1 \in Nat /\ io.since \in Nat
      BY <1>2, ClockSizes DEF ClockTypes
    <3>2. clock % Hour = (io.t1 + io.since) % Hour /\ io.t1 + io.since \in Nat
      BY <1>1, <2>1, <3>1 DEF ChangeSeen
    <3>3. clock' % Hour = ((io.t1 + io.since) + 1) % Hour
      BY <1>1, <1>2, <3>2, CountsOn, ClockSizes
    <3>4. (io.t1 + io.since) + 1 = io.t1 + io'.since
      BY <1>3, <3>1
    <3>5. QED  BY <3>3, <3>4
  <2>5. QED  BY <1>1, <1>3, <2>1, <2>2, <2>3, <2>4 DEF ChangeSeen
<1>8. QED  BY <1>1, <1>3, <1>4, <1>5, <1>6, <1>7, ClockStepKeeps DEF ClockInv, ClockStep

\* A step that only reads the clock and changes the locals of the call.
LEMMA NextRegister ==
  ASSUME io.got \in Seq(Nat), Len(io.got) < 3, clock \in 0 .. Day - 1, UNCHANGED clock,
         io'.got = read_rtc
  PROVE  /\ io'.got \in Seq(Nat) /\ Len(io'.got) = Len(io.got) + 1 /\ Len(io.got) \in Nat
         /\ Len(io.got) > 0 => io'.got[1] = io.got[1]
         /\ Len(io.got) = 0 => io'.got[1] = clock % SecondsOfMinute /\ AllShown'
         /\ AllShown => AllShown'
<1>1. Len(io.got) \in 0 .. 2 /\ Len(io.got) + 1 \in Registers
  <2> DEFINE n == Len(io.got)
  <2>1. n \in Nat /\ n < 3
    OBVIOUS
  <2> HIDE DEF n
  <2>2. n \in 0 .. 2 /\ n + 1 \in 1 .. 3
    BY <2>1
  <2>3. QED  BY <2>2 DEF n, Registers
<1>2. \A reg \in Registers : Shown(reg)' = Shown(reg)
  BY DEF Shown, Registers
<1> DEFINE n == Len(io.got)
           shown == Shown(n + 1)
<1>3. shown \in Nat /\ n \in Nat
  BY <1>1, ShownFacts
<1>4. io'.got = Append(io.got, shown)
  BY DEF read_rtc
<1>5. io'.got \in Seq(Nat) /\ Len(io'.got) = n + 1
  <2> HIDE DEF shown
  <2>1. QED  BY <1>3, <1>4
<1>6. \A i \in 1 .. n : io'.got[i] = io.got[i]
  <2> HIDE DEF shown
  <2>1. QED  BY <1>3, <1>4
<1>7. io'.got[n + 1] = Shown(n + 1)
  <2> HIDE DEF shown
  <2>1. io'.got[n + 1] = shown
    BY <1>3, <1>4
  <2>2. QED  BY <2>1 DEF shown
<1>8. AllShown => AllShown'
  <2> SUFFICES ASSUME AllShown, NEW reg \in 1 .. Len(io'.got)  PROVE io'.got[reg] = Shown(reg)'
    BY DEF AllShown
  <2>1. reg \in Registers /\ (reg = n + 1 \/ reg \in 1 .. n)
    BY <1>1, <1>5 DEF Registers
  <2>2. reg \in 1 .. n => io'.got[reg] = Shown(reg)
    BY <1>6 DEF AllShown
  <2>3. QED  BY <1>2, <1>7, <2>1, <2>2
<1>9. n = 0 => io'.got[1] = clock % SecondsOfMinute /\ AllShown
  BY <1>3, <1>7, ShownFacts DEF AllShown
<1>10. n > 0 => io'.got[1] = io.got[1]
  BY <1>3, <1>6
<1>11. QED  BY <1>3, <1>5, <1>8, <1>9, <1>10

LEMMA RegisterRead ==
  ASSUME DevicesInv, read_rtc_async
  PROVE  DevicesInv'
<1>1. /\ io.fn = "timer_rtc" /\ io.at = "read" /\ ClockOnly
      /\ io' = [io EXCEPT !.got = read_rtc, !.at = IF Len(read_rtc) = 3 THEN "check" ELSE "read"]
  BY DEF read_rtc_async, OnClock
<1>2. clock \in 0 .. Day - 1 /\ ClockTypes /\ DateRead
  BY <1>1 DEF DevicesInv, ClockInv, ClockCall
<1>3. io' = [fn |-> io.fn, at |-> IF Len(read_rtc) = 3 THEN "check" ELSE "read", got |-> read_rtc,
             ticks |-> io.ticks, t0 |-> io.t0, t1 |-> io.t1, since |-> io.since]
  BY <1>1, <1>2 DEF ClockTypes
<1>4. /\ io'.fn = io.fn /\ io'.at = IF Len(read_rtc) = 3 THEN "check" ELSE "read"
      /\ io'.got = read_rtc /\ io'.ticks = io.ticks
      /\ io'.t0 = io.t0 /\ io'.t1 = io.t1 /\ io'.since = io.since
  BY <1>3
<1>5. io.got \in Seq(Nat) /\ Len(io.got) < 3 /\ clock' = clock
  BY <1>1, <1>2 DEF ClockTypes, DateRead, ClockOnly
<1>6. /\ io'.got \in Seq(Nat) /\ Len(io'.got) = Len(io.got) + 1 /\ Len(io.got) \in Nat
      /\ Len(io.got) > 0 => io'.got[1] = io.got[1]
      /\ Len(io.got) = 0 => io'.got[1] = clock % SecondsOfMinute /\ AllShown'
      /\ AllShown => AllShown'
  BY <1>2, <1>4, <1>5, NextRegister
<1>7. ClockTypes'
  BY <1>2, <1>3, <1>4, <1>6 DEF ClockTypes
<1>8. io'.got[1] < SecondsOfMinute /\ \E k \in 0 .. io.ticks : SecondSince(k)' /\ (k = 0 => AllShown')
  <2>1. CASE Len(io.got) = 0
    <3>1. clock \in Nat /\ io.ticks \in Nat /\ 0 \in 0 .. io.ticks
      BY <1>2, ClockSizes DEF ClockTypes
    <3>2. io'.got[1] = clock % SecondsOfMinute /\ AllShown'
      BY <1>6, <2>1
    <3>3. clock % SecondsOfMinute \in 0 .. SecondsOfMinute - 1
          /\ clock % SecondsOfMinute = ((clock % SecondsOfMinute) + 0) % SecondsOfMinute
      BY <3>1, DeviceSizes, RemainderStays
    <3>4. SecondSince(0)'
      BY <1>5, <3>2, <3>3, Zenon DEF SecondSince
    <3>5. io'.got[1] < SecondsOfMinute
      BY <3>2, <3>3, DeviceSizes
    <3>6. QED  BY <3>1, <3>2, <3>4, <3>5
  <2>2. CASE Len(io.got) > 0
    <3>1. io.got[1] < SecondsOfMinute /\ \E k \in 0 .. io.ticks : SecondSince(k) /\ (k = 0 => AllShown)
      BY <1>1, <1>2, <2>2 DEF DateRead
    <3>2. io'.got[1] = io.got[1]
      BY <1>6, <2>2
    <3>3. \A k \in 0 .. io.ticks : SecondSince(k) => SecondSince(k)'
      BY <1>5, <3>2 DEF SecondSince
    <3>4. QED  BY <1>6, <3>1, <3>2, <3>3
  <2>3. QED  BY <1>6, <2>1, <2>2
<1>9. DateRead'
  BY <1>2, <1>4, <1>5, <1>6, <1>8 DEF DateRead
<1>10. QED  BY <1>1, <1>2, <1>4, <1>5, <1>7, <1>9, ClockStepKeeps
            DEF ClockInv, ClockStep, ClockOnly, ClockCall

\* The second read first is there again: since it was read it has not moved,
\* for it moves less than once around.
LEMMA DateChecked ==
  ASSUME DevicesInv, timer_rtc
  PROVE  DevicesInv'
<1>1. io.fn = "timer_rtc" /\ io.at = "check" /\ ClockOnly
  BY DEF timer_rtc, OnClock
<1>2. clock \in 0 .. Day - 1 /\ ClockTypes /\ DateRead
  BY <1>1 DEF DevicesInv, ClockInv, ClockCall
<1>3. clock' = clock /\ io.got \in Seq(Nat) /\ Len(io.got) = 3 /\ io.got[1] \in Nat
  BY <1>1, <1>2 DEF ClockOnly, ClockTypes, DateRead
<1>4. SameSecond => AllShown
  <2>1. PICK k \in 0 .. io.ticks : SecondSince(k) /\ (k = 0 => AllShown)
    BY <1>1, <1>2, <1>3 DEF DateRead
  <2>2. io.got[1] \in 0 .. SecondsOfMinute - 1 /\ k \in 0 .. SecondsOfMinute - 1
    <3>1. io.got[1] < SecondsOfMinute /\ io.ticks < SecondsOfMinute
      BY <1>1, <1>2, <1>3 DEF DateRead
    <3>2. io.ticks \in Nat
      BY <1>2 DEF ClockTypes
    <3>3. QED  BY <1>3, <2>1, <3>1, <3>2, DeviceSizes
  <2>3. SameSecond => (io.got[1] + k) % SecondsOfMinute = io.got[1]
    BY <1>2, <2>1, ShownFacts DEF SecondSince, SameSecond
  <2>4. QED  BY <2>1, <2>2, <2>3, NotAround, DeviceSizes
<1>5. CASE SameSecond
  <2>1. io' = [io EXCEPT !.at = "done"]
    BY <1>5 DEF timer_rtc, Finished
  <2>2. /\ io'.fn = io.fn /\ io'.at = "done" /\ io'.got = io.got /\ io'.ticks = io.ticks
        /\ io'.t1 = io.t1 /\ io'.since = io.since
    BY <1>2, <2>1 DEF ClockTypes
  <2>3. io' = [fn |-> io.fn, at |-> "done", got |-> io.got, ticks |-> io.ticks,
               t0 |-> io.t0, t1 |-> io.t1, since |-> io.since]
    BY <1>2, <2>1 DEF ClockTypes
  <2>4. ClockTypes'
    BY <1>2, <2>2, <2>3 DEF ClockTypes
  <2>5. AllShown'
    BY <1>3, <1>4, <1>5, <2>2 DEF AllShown, Shown
  <2>6. DateRead'
    BY <1>2, <1>3, <2>2, <2>5 DEF DateRead
  <2>7. QED  BY <1>1, <1>2, <1>3, <2>2, <2>4, <2>6, ClockStepKeeps
             DEF ClockInv, ClockStep, ClockOnly, ClockCall
<1>6. CASE ~SameSecond
  <2>1. io' = [io EXCEPT !.at = "read", !.got = <<>>, !.ticks = 0]
    BY <1>6 DEF timer_rtc
  <2>2. /\ io'.fn = io.fn /\ io'.at = "read" /\ io'.got = <<>> /\ io'.ticks = 0
        /\ io'.t1 = io.t1 /\ io'.since = io.since
    BY <1>2, <2>1 DEF ClockTypes
  <2>3. io' = [fn |-> io.fn, at |-> "read", got |-> <<>>, ticks |-> 0,
               t0 |-> io.t0, t1 |-> io.t1, since |-> io.since]
    BY <1>2, <2>1 DEF ClockTypes
  <2>4. ClockTypes'
    BY <1>2, <2>2, <2>3 DEF ClockTypes
  <2>5. DateRead'
    BY <2>2, DeviceSizes DEF DateRead
  <2>6. QED  BY <1>1, <1>2, <1>3, <2>2, <2>4, <2>5, ClockStepKeeps
             DEF ClockInv, ClockStep, ClockOnly, ClockCall
<1>7. QED  BY <1>5, <1>6

LEMMA SecondTaken ==
  ASSUME DevicesInv, wait_sec_t0
  PROVE  DevicesInv'
<1>1. /\ io.fn = "estimate_freq" /\ io.at = "t0" /\ ClockOnly
      /\ io' = [io EXCEPT !.t0 = Shown(1), !.at = "t1", !.got = <<>>, !.ticks = 0]
  BY DEF wait_sec_t0, OnClock
<1>2. clock \in 0 .. Day - 1 /\ ClockTypes /\ ChangeSeen
  BY <1>1 DEF DevicesInv, ClockInv, ClockCall
<1>3. io' = [fn |-> io.fn, at |-> "t1", got |-> <<>>, ticks |-> 0,
             t0 |-> Shown(1), t1 |-> io.t1, since |-> io.since]
  BY <1>1, <1>2 DEF ClockTypes
<1>4. /\ io'.fn = io.fn /\ io'.at = "t1" /\ io'.got = <<>> /\ io'.ticks = 0
      /\ io'.t0 = Shown(1) /\ io'.t1 = io.t1 /\ io'.since = io.since
  BY <1>3
<1>5. ClockTypes'
  BY <1>2, <1>3, <1>4 DEF ClockTypes
<1>6. clock' = clock /\ Shown(1) = clock % SecondsOfMinute
  BY <1>1, <1>2, ShownFacts DEF ClockOnly
<1>7. ChangeSeen'
  BY <1>1, <1>2, <1>4, <1>6 DEF ChangeSeen
<1>8. QED  BY <1>1, <1>2, <1>4, <1>5, <1>6, <1>7, ClockStepKeeps
           DEF ClockInv, ClockStep, ClockOnly, ClockCall

LEMMA SecondAndMinuteRead ==
  ASSUME DevicesInv, wait_sec_t1
  PROVE  DevicesInv'
<1>1. /\ io.fn = "estimate_freq" /\ io.at = "t1" /\ ClockOnly
      /\ io' = [io EXCEPT !.got = read_rtc, !.at = IF Len(read_rtc) = 2 THEN "compare" ELSE "t1"]
  BY DEF wait_sec_t1, OnClock
<1>2. clock \in 0 .. Day - 1 /\ ClockTypes /\ ChangeSeen
  BY <1>1 DEF DevicesInv, ClockInv, ClockCall
<1>3. io' = [fn |-> io.fn, at |-> IF Len(read_rtc) = 2 THEN "compare" ELSE "t1", got |-> read_rtc,
             ticks |-> io.ticks, t0 |-> io.t0, t1 |-> io.t1, since |-> io.since]
  BY <1>1, <1>2 DEF ClockTypes
<1>4. /\ io'.fn = io.fn /\ io'.at = IF Len(read_rtc) = 2 THEN "compare" ELSE "t1"
      /\ io'.got = read_rtc /\ io'.ticks = io.ticks
      /\ io'.t0 = io.t0 /\ io'.t1 = io.t1 /\ io'.since = io.since
  BY <1>3
<1>5. io.got \in Seq(Nat) /\ Len(io.got) < 2 /\ clock' = clock
  BY <1>1, <1>2 DEF ClockTypes, ChangeSeen, ClockOnly
<1>6. /\ io'.got \in Seq(Nat) /\ Len(io'.got) = Len(io.got) + 1 /\ Len(io.got) \in Nat
      /\ Len(io.got) > 0 => io'.got[1] = io.got[1]
      /\ Len(io.got) = 0 => io'.got[1] = clock % SecondsOfMinute /\ AllShown'
      /\ AllShown => AllShown'
  <2>1. Len(io.got) < 3
    BY <1>5
  <2>2. QED  BY <1>2, <1>4, <1>5, <2>1, NextRegister
<1>7. ClockTypes'
  BY <1>2, <1>3, <1>4, <1>6 DEF ClockTypes
<1>8. io'.got[1] # io.t0 => io.ticks = 1 /\ AllShown'
  <2>1. CASE Len(io.got) = 0
    <3>1. io.ticks = 0 => clock % SecondsOfMinute = io.t0
      BY <1>1, <1>2 DEF ChangeSeen
    <3>2. io.ticks = 0 \/ io.ticks = 1
      BY <1>2 DEF ChangeSeen
    <3>3. QED  BY <1>6, <2>1, <3>1, <3>2
  <2>2. CASE Len(io.got) > 0
    <3>1. io.got[1] # io.t0 => io.ticks = 1 /\ AllShown
      BY <1>1, <1>2, <2>2 DEF ChangeSeen
    <3>2. QED  BY <1>6, <2>2, <3>1
  <2>3. QED  BY <1>6, <2>1, <2>2
<1>9. ChangeSeen'
  <2>1. io'.at \in {"t1", "compare"} /\ (io'.at = "t1" => Len(io'.got) < 2)
        /\ (io'.at = "compare" => Len(io'.got) = 2)
    BY <1>4, <1>5, <1>6
  <2>2. io.ticks \in 0 .. 1 /\ (io.ticks = 0 => clock % SecondsOfMinute = io.t0)
    BY <1>1, <1>2 DEF ChangeSeen
  <2>3. IF io.t1 = Day THEN io.since = 0 ELSE clock % Hour = (io.t1 + io.since) % Hour
    BY <1>1, <1>2 DEF ChangeSeen
  <2>4. QED  BY <1>4, <1>5, <1>8, <2>1, <2>2, <2>3 DEF ChangeSeen
<1>10. QED  BY <1>1, <1>2, <1>4, <1>5, <1>7, <1>9, ClockStepKeeps
            DEF ClockInv, ClockStep, ClockOnly, ClockCall

\* The minute and second read, once they are shown, are the second of the hour.
LEMMA HourShown ==
  ASSUME clock \in 0 .. Day - 1, io.got \in Seq(Nat), Len(io.got) = 2, AllShown
  PROVE  SecondOfHour = clock % Hour /\ clock % Hour \in 0 .. Hour - 1
         /\ clock % Hour = ((clock % Hour) + 0) % Hour
<1>1. clock \in Nat
  BY ClockSizes
<1>2. io.got[1] = Shown(1) /\ io.got[2] = Shown(2)
  BY DEF AllShown
<1>3. /\ io.got[1] = clock % SecondsOfMinute
      /\ io.got[2] = (clock \div SecondsOfMinute) % MinutesOfHour
  BY <1>2, ShownFacts
<1>4. SecondOfHour =
        (((clock \div SecondsOfMinute) % MinutesOfHour) * SecondsOfMinute) + (clock % SecondsOfMinute)
  BY <1>3, Zenon DEF SecondOfHour
<1>5. SecondOfHour = clock % Hour
  <2>1. /\ SecondsOfMinute \in Nat \ {0} /\ MinutesOfHour \in Nat \ {0} /\ Hour \in Nat \ {0}
        /\ Hour = SecondsOfMinute * MinutesOfHour
    BY ClockSizes, DeviceSizes
  <2>2. MinuteAndSecond(SecondsOfMinute, MinutesOfHour, Hour, clock)
    BY <1>1, <2>1, MinutesAndSeconds, Zenon
  <2>3. QED  BY <1>4, <2>2, Zenon DEF MinuteAndSecond
<1>6. QED  BY <1>1, <1>5, RemainderStays, ClockSizes

LEMMA SecondsCounted ==
  ASSUME DevicesInv, estimate_freq
  PROVE  DevicesInv'
<1>1. io.fn = "estimate_freq" /\ io.at = "compare" /\ ClockOnly
  BY DEF estimate_freq, OnClock
<1>2. clock \in 0 .. Day - 1 /\ ClockTypes /\ ChangeSeen
  BY <1>1 DEF DevicesInv, ClockInv, ClockCall
<1>3. clock' = clock /\ io.got \in Seq(Nat) /\ Len(io.got) = 2 /\ io.ticks \in 0 .. 1
  BY <1>1, <1>2 DEF ClockTypes, ChangeSeen, ClockOnly
<1>4. io.got[1] # io.t0 => AllShown
  BY <1>1, <1>2, <1>3 DEF ChangeSeen
<1>5. IF io.t1 = Day THEN io.since = 0 ELSE clock % Hour = (io.t1 + io.since) % Hour
  BY <1>1, <1>2 DEF ChangeSeen
<1>6. ASSUME NEW t1 \in (0 .. Hour - 1) \cup {Day}, NEW since \in 0 .. Hour,
             io' = [fn |-> io.fn, at |-> "t0", got |-> io.got, ticks |-> io.ticks,
                    t0 |-> io.t0, t1 |-> t1, since |-> since],
             IF t1 = Day THEN since = 0 ELSE clock % Hour = (t1 + since) % Hour
      PROVE  DevicesInv'
  <2>1. /\ io'.fn = io.fn /\ io'.at = "t0" /\ io'.got = io.got /\ io'.ticks = io.ticks
        /\ io'.t0 = io.t0 /\ io'.t1 = t1 /\ io'.since = since
    BY <1>6
  <2>2. ClockTypes'
    BY <1>2, <1>6, <2>1 DEF ClockTypes
  <2>3. ChangeSeen'
    BY <1>3, <1>6, <2>1 DEF ChangeSeen
  <2>4. QED  BY <1>1, <1>2, <1>3, <2>1, <2>2, <2>3, ClockStepKeeps
             DEF ClockInv, ClockStep, ClockOnly, ClockCall
<1>7. CASE io.got[1] = io.t0
  <2>1. io' = [io EXCEPT !.at = "t0"]
    BY <1>7 DEF estimate_freq
  <2>2. io' = [fn |-> io.fn, at |-> "t0", got |-> io.got, ticks |-> io.ticks,
               t0 |-> io.t0, t1 |-> io.t1, since |-> io.since]
    BY <1>2, <2>1 DEF ClockTypes
  <2>3. io.t1 \in (0 .. Hour - 1) \cup {Day} /\ io.since \in 0 .. Hour
    BY <1>2 DEF ClockTypes
  <2>4. QED  BY <1>5, <1>6, <2>2, <2>3
<1>8. CASE io.got[1] # io.t0 /\ io.t1 = Day
  <2>1. io' = [io EXCEPT !.at = "t0", !.t1 = SecondOfHour, !.since = 0]
    BY <1>8 DEF estimate_freq
  <2>2. io' = [fn |-> io.fn, at |-> "t0", got |-> io.got, ticks |-> io.ticks,
               t0 |-> io.t0, t1 |-> SecondOfHour, since |-> 0]
    BY <1>2, <2>1 DEF ClockTypes
  <2>3. SecondOfHour \in 0 .. Hour - 1 /\ clock % Hour = (SecondOfHour + 0) % Hour
    BY <1>2, <1>3, <1>4, <1>8, HourShown
  <2>4. SecondOfHour # Day /\ 0 \in 0 .. Hour
    BY <2>3, ClockSizes
  <2>5. QED  BY <1>6, <2>2, <2>3, <2>4
<1>9. CASE io.got[1] # io.t0 /\ io.t1 # Day /\ PassedAnHour
  <2>1. io' = [io EXCEPT !.at = "t0", !.t1 = Day, !.since = 0]
    BY <1>9 DEF estimate_freq
  <2>2. io' = [fn |-> io.fn, at |-> "t0", got |-> io.got, ticks |-> io.ticks,
               t0 |-> io.t0, t1 |-> Day, since |-> 0]
    BY <1>2, <2>1 DEF ClockTypes
  <2>3. 0 \in 0 .. Hour
    BY ClockSizes
  <2>4. QED  BY <1>6, <2>2, <2>3
<1>10. CASE io.got[1] # io.t0 /\ io.t1 # Day /\ ~PassedAnHour
  <2>1. io' = [io EXCEPT !.at = "done"]
    BY <1>10 DEF estimate_freq, Finished
  <2>2. io' = [fn |-> io.fn, at |-> "done", got |-> io.got, ticks |-> io.ticks,
               t0 |-> io.t0, t1 |-> io.t1, since |-> io.since]
    BY <1>2, <2>1 DEF ClockTypes
  <2>3. /\ io'.fn = io.fn /\ io'.at = "done" /\ io'.got = io.got /\ io'.ticks = io.ticks
        /\ io'.t1 = io.t1 /\ io'.since = io.since
    BY <2>2
  <2>4. ClockTypes'
    BY <1>2, <2>2, <2>3 DEF ClockTypes
  <2>5. io.t1 \in 0 .. Hour - 1 /\ io.since \in 0 .. Hour
    BY <1>2, <1>10 DEF ClockTypes
  <2>6. SecondOfHour = clock % Hour /\ SecondOfHour \in 0 .. Hour - 1
    BY <1>2, <1>3, <1>4, <1>10, HourShown
  <2>7. (io.t1 + io.since) % Hour = SecondOfHour
    BY <1>5, <1>10, <2>6
  <2>8. (io.t1 + io.since) % Hour > io.t1
    BY <1>10, <2>5, <2>6, <2>7 DEF PassedAnHour
  <2>9. ((io.t1 + io.since) % Hour) - io.t1 = io.since
    BY <2>5, <2>8, NotFallen, ClockSizes
  <2>10. SecondOfHour' = SecondOfHour
    BY <2>3 DEF SecondOfHour
  <2>11. SecondOfHour' - io'.t1 = io'.since
    BY <2>3, <2>7, <2>9, <2>10
  <2>12. ChangeSeen'
    BY <1>3, <2>3, <2>11 DEF ChangeSeen
  <2>13. QED  BY <1>1, <1>2, <1>3, <2>3, <2>4, <2>12, ClockStepKeeps
              DEF ClockInv, ClockStep, ClockOnly, ClockCall
<1>11. QED  BY <1>7, <1>8, <1>9, <1>10

-----------------------------------------------------------------------------
(* The disk.                                                                 *)

LEMMA BlocksAreSequences ==
  /\ \A data \in Block : data \in Seq(Datum) /\ Len(data) = Words /\ data # <<>>
  /\ \A data \in Seq(Datum) : Len(data) = Words => data \in Block
<1>1. ASSUME NEW data \in Block
      PROVE  data \in Seq(Datum) /\ Len(data) = Words /\ data # <<>>
  <2>1. data \in Seq(Datum)
    BY DeviceSizes, SeqDef DEF Block
  <2>2. Len(data) = Words
    <3>1. DOMAIN data = 1 .. Len(data) /\ Len(data) \in Nat
      BY <2>1, LenProperties
    <3>2. DOMAIN data = 1 .. Words
      BY DEF Block
    <3>3. Words \in 1 .. Len(data)
      BY <3>1, <3>2, DeviceSizes
    <3>4. Len(data) \in 1 .. Words
      BY <3>1, <3>2, <3>3
    <3>5. QED
      <4> DEFINE n == Len(data)
      <4>1. n \in Nat /\ Words \in 1 .. n /\ n \in 1 .. Words
        BY <3>1, <3>3, <3>4
      <4> HIDE DEF n
      <4>2. n = Words
        BY <4>1, DeviceSizes
      <4>3. QED  BY <4>2 DEF n
  <2>3. QED  BY <2>1, <2>2, EmptySeq, DeviceSizes
<1>2. ASSUME NEW data \in Seq(Datum), Len(data) = Words  PROVE data \in Block
  BY <1>2, LenProperties DEF Block
<1>3. QED  BY <1>1, <1>2

LEMMA SameWords ==
  ASSUME NEW data \in Block, NEW block \in Block, \A k \in 1 .. Words : data[k] = block[k]
  PROVE  data = block
<1>1. data \in Seq(Datum) /\ Len(data) = Words /\ block \in Seq(Datum) /\ Len(block) = Words
  BY BlocksAreSequences
<1>2. \A k \in 1 .. Len(data) : data[k] = block[k]
  BY <1>1
<1>3. QED  BY <1>1, <1>2, SeqEqual

LEMMA WordsAreData ==
  ASSUME NEW version \in Nat, NEW b \in Nat
  PROVE  /\ BlockOf(version, b) \in Block
         /\ \A k \in 1 .. Words : /\ BlockOf(version, b)[k] = DiskWord(version, b, k)
                                  /\ DiskWord(version, b, k) \in Datum
<1>1. \A k \in 1 .. Words : DiskWord(version, b, k) \in Datum
  BY DeviceSizes DEF DiskWord, Datum
<1>2. QED  BY <1>1 DEF BlockOf, Block

\* Steps of the disk, and of the driver in a call of it, leave the rest alone.
LEMMA DiskStepKeeps ==
  ASSUME DevicesInv, io.fn = "disk_blkio", io'.fn = io.fn, UNCHANGED clock, DiskInv'
  PROVE  DevicesInv'
<1>1. ClockInv'
  BY DEF DevicesInv, ClockInv, ClockCall, Day
<1>2. KeyInv'
  BY DEF KeyInv
<1>3. io'.fn \in Calls /\ io'.fn # "none"
  BY DEF Calls
<1>4. QED  BY <1>1, <1>2, <1>3 DEF DevicesInv

\* The disk comes on by itself.
LEMMA DiskMoves ==
  ASSUME DevicesInv, AtaMoves
  PROVE  DevicesInv'
<1>1. ata.busy /\ UNCHANGED <<io, clock, wanted>>
  BY DEF AtaMoves
<1>2. DiskInv /\ DiskTypes
  BY DEF DevicesInv, DiskInv
<1>3. ata.busy = TRUE /\ ata # AtaIdle
  <2>1. ata.busy = TRUE
    BY <1>1, <1>2 DEF DiskTypes
  <2>2. QED  BY <2>1 DEF AtaIdle
<1>4. DiskTypes' /\ (\A b \in BlockNumbers : Settled(b)' = Settled(b)) /\ (AtRest => AtRest')
      /\ (InDiskCall /\ DiskInCall => DiskInCall')
  <2>1. ASSUME ata.cmd = "read"
        PROVE  /\ DiskTypes' /\ (\A b \in BlockNumbers : Settled(b)' = Settled(b)) /\ ~AtRest
               /\ (InDiskCall /\ DiskInCall => DiskInCall')
    <3>1. ata' = [ata EXCEPT !.busy = FALSE, !.data = medium[ata.block]] /\ medium' = medium
      BY <1>1, <2>1 DEF AtaMoves
    <3>2. /\ ata' = [busy |-> FALSE, cmd |-> ata.cmd, block |-> ata.block, data |-> medium[ata.block]]
          /\ ata'.busy = FALSE /\ ata'.cmd = "read" /\ ata'.block = ata.block
          /\ ata'.data = medium[ata.block]
      BY <1>2, <2>1, <3>1 DEF DiskTypes
    <3>3. ~Writing /\ ~Writing' /\ ~AtRest
      <4>1. ~Writing /\ ~Writing'
        BY <2>1, <3>2 DEF Writing
      <4>2. QED  BY <1>3, <4>1 DEF AtRest
    <3>4. medium[ata.block] \in Block
      BY <1>2 DEF DiskTypes
    <3>5. DiskTypes'
      BY <1>1, <1>2, <3>1, <3>2, <3>3, <3>4, BlocksAreSequences DEF DiskTypes
    <3>6. \A b \in BlockNumbers : Settled(b)' = Settled(b)
      BY <3>1, <3>3 DEF Settled
    <3>7. ASSUME InDiskCall, DiskInCall  PROVE DiskInCall'
      <4>1. io.at # "wait" /\ io.at # "command" /\ io.at # "data"
        BY <1>3, <3>3, <3>7 DEF DiskInCall, WordsMoved
      <4>2. io.at = "wait for data" => ata.cmd = io.cmd /\ ata.block = io.blkno
        BY <3>7 DEF DiskInCall
      <4>3. io' = io /\ wanted' = wanted /\ Left' = Left
        BY <1>1 DEF Left
      <4>4. BlocksSoFar'
        BY <3>6, <3>7, <4>3 DEF DiskInCall, BlocksSoFar
      <4>5. QED  BY <2>1, <3>1, <3>2, <3>7, <4>1, <4>2, <4>3, <4>4 DEF DiskInCall
    <3>8. QED  BY <3>3, <3>5, <3>6, <3>7
  <2>2. ASSUME ata.cmd = "write", ata.data = <<>>
        PROVE  /\ DiskTypes' /\ (\A b \in BlockNumbers : Settled(b)' = Settled(b)) /\ ~AtRest
               /\ (InDiskCall /\ DiskInCall => DiskInCall')
    <3>1. ata' = [ata EXCEPT !.busy = FALSE] /\ medium' = medium
      BY <1>1, <2>2 DEF AtaMoves
    <3>2. /\ ata' = [busy |-> FALSE, cmd |-> ata.cmd, block |-> ata.block, data |-> ata.data]
          /\ ata'.busy = FALSE /\ ata'.cmd = "write" /\ ata'.block = ata.block /\ ata'.data = <<>>
      BY <1>2, <2>2, <3>1 DEF DiskTypes
    <3>3. ~Writing /\ ~Writing' /\ ~AtRest
      <4>1. ~Writing /\ ~Writing'
        BY <2>2, <3>2 DEF Writing
      <4>2. QED  BY <1>3, <4>1 DEF AtRest
    <3>5. DiskTypes'
      BY <1>1, <1>2, <3>1, <3>2, <3>3 DEF DiskTypes
    <3>6. \A b \in BlockNumbers : Settled(b)' = Settled(b)
      BY <3>1, <3>3 DEF Settled
    <3>7. ASSUME InDiskCall, DiskInCall  PROVE DiskInCall'
      <4>1. io.at # "wait" /\ io.at # "command" /\ io.at # "data"
        BY <1>3, <3>3, <3>7 DEF DiskInCall, WordsMoved
      <4>2. io.at = "wait for data" => ata.cmd = io.cmd /\ ata.block = io.blkno
        BY <3>7 DEF DiskInCall
      <4>3. io' = io /\ wanted' = wanted /\ Left' = Left
        BY <1>1 DEF Left
      <4>4. BlocksSoFar'
        BY <3>6, <3>7, <4>3 DEF DiskInCall, BlocksSoFar
      <4>5. QED  BY <2>2, <3>1, <3>2, <3>7, <4>1, <4>2, <4>3, <4>4 DEF DiskInCall
    <3>8. QED  BY <3>3, <3>5, <3>6, <3>7
  <2>3. ASSUME ata.cmd = "write", ata.data # <<>>
        PROVE  /\ DiskTypes' /\ (\A b \in BlockNumbers : Settled(b)' = Settled(b)) /\ AtRest'
               /\ (InDiskCall /\ DiskInCall => DiskInCall')
    <3>1. ata' = AtaIdle /\ medium' = [medium EXCEPT ![ata.block] = ata.data]
      BY <1>1, <2>3 DEF AtaMoves
    <3>2. /\ ata'.busy = FALSE /\ ata'.cmd = "none" /\ ata'.block = 0 /\ ata'.data = <<>>
      BY <3>1 DEF AtaIdle
    <3>3. Writing /\ ~Writing' /\ AtRest' /\ ata.data \in Block /\ ata.block \in BlockNumbers
      BY <1>2, <1>3, <2>3, <3>1, <3>2 DEF Writing, AtRest, DiskTypes
    <3>5. DiskTypes'
      <4>1. medium' \in [BlockNumbers -> Block]
        BY <1>2, <3>1, <3>3 DEF DiskTypes
      <4>2. ata'.data \in Seq(Datum) /\ ata'.block \in BlockNumbers
        BY <3>2, EmptySeq, DeviceSizes DEF BlockNumbers
      <4>3. ata' = [busy |-> ata'.busy, cmd |-> ata'.cmd, block |-> ata'.block, data |-> ata'.data]
        BY <3>1 DEF AtaIdle
      <4>4. QED  BY <1>1, <1>2, <3>2, <3>3, <4>1, <4>2, <4>3 DEF DiskTypes
    <3>6. \A b \in BlockNumbers : Settled(b)' = Settled(b)
      <4>1. \A b \in BlockNumbers : medium'[b] = IF b = ata.block THEN ata.data ELSE medium[b]
        BY <1>2, <3>1 DEF DiskTypes
      <4>2. QED  BY <3>3, <4>1 DEF Settled
    <3>7. ASSUME InDiskCall, DiskInCall  PROVE DiskInCall'
      <4>1. io.at # "command" /\ io.at # "data"
        BY <1>3, <3>3, <3>7 DEF DiskInCall, WordsMoved
      <4>2. io.at # "wait for data"
        BY <1>3, <2>3, <3>7 DEF DiskInCall
      <4>3. io' = io /\ wanted' = wanted /\ Left' = Left
        BY <1>1 DEF Left
      <4>4. BlocksSoFar'
        BY <3>6, <3>7, <4>3 DEF DiskInCall, BlocksSoFar
      <4>5. QED  BY <3>3, <3>7, <4>1, <4>2, <4>3, <4>4 DEF DiskInCall
    <3>8. QED  BY <3>3, <3>5, <3>6, <3>7
  <2>4. (ata.cmd = "read") \/ (ata.cmd = "write" /\ ata.data = <<>>) \/ (ata.cmd = "write" /\ ata.data # <<>>)
    BY <1>1, <1>2 DEF DiskTypes
  <2>5. QED  BY <2>1, <2>2, <2>3, <2>4, Zenon
<1>5. DiskInv'
  <2>1. InDiskCall' = InDiskCall /\ DiskCallTypes' = DiskCallTypes /\ io'.fn = io.fn
    BY <1>1 DEF InDiskCall, DiskCallTypes
  <2>2. CASE InDiskCall
    BY <1>2, <1>4, <2>1, <2>2, Zenon DEF DiskInv
  <2>3. CASE ~InDiskCall
    <3>1. AtRest' /\ \A b \in BlockNumbers : Settled(b)' = wanted'[b]
      BY <1>1, <1>2, <1>4, <2>3 DEF DiskInv
    <3>2. QED  BY <1>2, <1>4, <2>1, <2>3, <3>1, Zenon DEF DiskInv
  <2>4. QED  BY <2>2, <2>3
<1>6. ClockInv' /\ KeyInv' /\ io'.fn \in Calls /\ (io'.fn = "none" => io' = NoIo)
  <2>1. io' = io /\ clock' = clock
    BY <1>1
  <2>2. ClockInv' = ClockInv
    BY <2>1 DEF ClockInv, ClockTypes, DateRead, ChangeSeen, AllShown, SecondSince, SecondOfHour, Shown
  <2>3. KeyInv' = KeyInv
    BY <2>1 DEF KeyInv
  <2>4. QED  BY <2>1, <2>2, <2>3 DEF DevicesInv
<1>7. QED  BY <1>5, <1>6 DEF DevicesInv

\* A call of the disk begins.
LEMMA DiskCalled ==
  ASSUME DevicesInv, NEW blkno \in Nat, NEW blkcnt \in Nat \ {0}, NEW cmd \in {"read", "write"},
         NEW version \in Nat, disk_blkio(blkno, blkcnt, cmd, version)
  PROVE  DevicesInv'
<1> DEFINE left == blkno .. blkno + blkcnt - 1
<1>1. /\ io = NoIo /\ blkno + blkcnt <= Blocks /\ UNCHANGED <<clock, ata, medium>>
      /\ io' = [fn |-> "disk_blkio", at |-> "wait", blkno |-> blkno, remain |-> blkcnt,
                cmd |-> cmd, version |-> version, buf |-> <<>>]
      /\ wanted' = [b \in DOMAIN wanted |-> IF cmd = "write" /\ b \in left
                                            THEN BlockOf(version, b) ELSE wanted[b]]
  BY DEF disk_blkio
<1>2. CallKnown /\ DiskInv /\ DiskTypes /\ io.fn = "none" /\ ~InDiskCall
  BY <1>1, OtherKinds DEF DevicesInv, CallKnown, DiskInv
<1>3. AtRest /\ \A b \in BlockNumbers : Settled(b) = wanted[b]
  BY <1>2 DEF DiskInv
<1>4. /\ io'.fn = "disk_blkio" /\ io'.at = "wait" /\ io'.blkno = blkno /\ io'.remain = blkcnt
      /\ io'.cmd = cmd /\ io'.version = version /\ io'.buf = <<>> /\ Left' = left
  BY <1>1 DEF Left
<1>5. \A b \in BlockNumbers : wanted'[b] = IF cmd = "write" /\ b \in left
                                           THEN BlockOf(version, b) ELSE wanted[b]
  BY <1>1, <1>2 DEF DiskTypes
<1>6. \A b \in BlockNumbers : b \in Nat
  BY DEF BlockNumbers
<1>7. wanted' \in [BlockNumbers -> Block]
  <2>1. \A b \in BlockNumbers : wanted[b] \in Block
    BY <1>2 DEF DiskTypes
  <2>2. \A b \in BlockNumbers : BlockOf(version, b) \in Block
    BY <1>6, WordsAreData
  <2>3. DOMAIN wanted = BlockNumbers
    BY <1>2 DEF DiskTypes
  <2>4. \A b \in BlockNumbers : (IF cmd = "write" /\ b \in left THEN BlockOf(version, b) ELSE wanted[b]) \in Block
    BY <2>1, <2>2
  <2>5. QED  BY <1>1, <2>3, <2>4
<1>8. /\ Writing' = Writing /\ AtRest' = AtRest /\ \A b \in BlockNumbers : Settled(b)' = Settled(b)
  BY <1>1 DEF Writing, AtRest, Settled
<1>9. DiskTypes'
  BY <1>1, <1>2, <1>7, <1>8 DEF DiskTypes
<1>10. DiskCallTypes'
  BY <1>1, <1>4, EmptySeq DEF DiskCallTypes
<1>11. left \subseteq BlockNumbers
  BY <1>1, DeviceSizes DEF BlockNumbers
<1>12. DiskInCall'
  <2>1. cmd = "write" => \A b \in left : wanted'[b] = BlockOf(version, b)
    BY <1>5, <1>11
  <2>2. \A b \in BlockNumbers : (cmd = "write" /\ b \in left) \/ Settled(b)' = wanted'[b]
    BY <1>3, <1>5, <1>8
  <2>3. QED  BY <1>3, <1>4, <1>8, <1>11, <2>1, <2>2 DEF DiskInCall, BlocksSoFar
<1>13. DiskInv'
  BY <1>4, <1>9, <1>10, <1>12 DEF DiskInv, InDiskCall
<1>14. ClockInv'
  BY <1>1, <1>4 DEF DevicesInv, ClockInv, ClockCall, Day
<1>15. KeyInv'
  BY <1>4 DEF KeyInv
<1>16. QED  BY <1>4, <1>13, <1>14, <1>15 DEF DevicesInv, Calls

\* What a step of the driver finds.
LEMMA InTheCall ==
  ASSUME DevicesInv, io.fn = "disk_blkio", io.at # "done"
  PROVE  DiskTypes /\ DiskCallTypes /\ DiskInCall
         /\ io.blkno \in BlockNumbers /\ io.blkno \in Left
<1>1. DiskTypes /\ DiskCallTypes /\ DiskInCall
  BY DEF DevicesInv, DiskInv, InDiskCall
<1>2. io.blkno \in Nat /\ io.remain \in Nat /\ io.remain > 0 /\ Left \subseteq BlockNumbers
  BY <1>1 DEF DiskCallTypes, DiskInCall, BlocksSoFar
<1>3. io.blkno \in Left
  BY <1>2 DEF Left
<1>4. QED  BY <1>1, <1>2, <1>3

LEMMA DiskAwaited ==
  ASSUME DevicesInv, wait_disk
  PROVE  DevicesInv'
<1>1. /\ io.fn = "disk_blkio" /\ (io.at = "wait" \/ io.at = "wait for data") /\ ~ata.busy
      /\ io.at = "wait" => io' = [io EXCEPT !.at = "command"]
      /\ io.at = "wait for data" => io' = [io EXCEPT !.at = "data"]
      /\ UNCHANGED <<clock, ata, medium, wanted>>
  BY DEF wait_disk, AtDisk, DiskReady
<1>2. DiskTypes /\ DiskCallTypes /\ DiskInCall /\ io.blkno \in BlockNumbers /\ io.blkno \in Left
  BY <1>1, InTheCall
<1>3. ata.busy = FALSE
  BY <1>1, <1>2 DEF DiskTypes
<1> DEFINE at == IF io.at = "wait" THEN "command" ELSE "data"
<1>4. io' = [fn |-> io.fn, at |-> at, blkno |-> io.blkno, remain |-> io.remain,
             cmd |-> io.cmd, version |-> io.version, buf |-> io.buf]
  BY <1>1, <1>2 DEF DiskCallTypes
<1>5. /\ io'.fn = "disk_blkio" /\ io'.at = at /\ io'.blkno = io.blkno /\ io'.remain = io.remain
      /\ io'.cmd = io.cmd /\ io'.version = io.version /\ io'.buf = io.buf /\ Left' = Left
  BY <1>1, <1>4 DEF Left
<1>6. /\ Writing' = Writing /\ AtRest' = AtRest /\ \A b \in BlockNumbers : Settled(b)' = Settled(b)
  BY <1>1 DEF Writing, AtRest, Settled
<1>7. DiskTypes'
  BY <1>1, <1>2, <1>6 DEF DiskTypes
<1>8. DiskCallTypes'
  BY <1>2, <1>4, <1>5 DEF DiskCallTypes
<1>9. io.buf = <<>> /\ Len(io.buf) = 0
  BY <1>1, <1>2 DEF DiskInCall
<1>10. DiskInCall'
  <2>1. BlocksSoFar'
    BY <1>1, <1>2, <1>5, <1>6 DEF DiskInCall, BlocksSoFar
  <2>2. CASE io.at = "wait"
    <3>1. ata = AtaIdle
      BY <1>2, <1>3, <2>2 DEF DiskInCall, AtRest, Writing
    <3>2. QED  BY <1>1, <1>5, <1>9, <2>1, <2>2, <3>1 DEF DiskInCall
  <2>3. CASE io.at = "wait for data"
    <3>1. ata.cmd = io.cmd /\ ata.block = io.blkno
          /\ ata.data = IF io.cmd = "write" THEN <<>> ELSE medium[io.blkno]
      BY <1>2, <1>3, <2>3 DEF DiskInCall
    <3>2. medium[io.blkno] \in Block
      BY <1>2 DEF DiskTypes
    <3>0. /\ ata' = ata /\ medium' = medium /\ io'.blkno = io.blkno /\ io'.cmd = io.cmd
          /\ Len(io'.buf) = 0 /\ Words - 0 = Words /\ 0 < Words
      <4>1. ata' = ata /\ medium' = medium /\ io'.blkno = io.blkno /\ io'.cmd = io.cmd
        BY <1>1, <1>5
      <4>2. Len(io'.buf) = 0
        BY <1>5, <1>9
      <4>3. Words - 0 = Words /\ 0 < Words
        BY DeviceSizes
      <4>4. QED  BY <4>1, <4>2, <4>3
    <3>3. io.cmd = "write" => WordsWritten'
      <4>1. \A k \in 1 .. Len(io.buf) : FALSE
        BY <1>9
      <4>2. QED  BY <1>1, <1>5, <1>9, <3>1, <4>1 DEF WordsWritten
    <3>4. io.cmd = "read" => WordsRead'
      <4> SUFFICES ASSUME io.cmd = "read"  PROVE WordsRead'
        OBVIOUS
      <4>1. Len(ata.data) = Words /\ \A k \in 1 .. Words : ata.data[k] = medium[io.blkno][k]
        BY <3>1, <3>2, BlocksAreSequences
      <4>2. \A k \in 1 .. Words : 0 + k = k /\ Words - 0 = Words
        BY DeviceSizes
      <4>3. \A k \in 1 .. Len(io.buf) : FALSE
        BY <1>9
      <4>4. \A k \in 1 .. Words : ata.data[k] = medium[io.blkno][0 + k]
        BY <4>1, <4>2
      <4>5. Len(ata'.data) = Words - Len(io'.buf)
        BY <3>0, <4>1
      <4>6. \A k \in 1 .. Len(io'.buf) : io'.buf[k] = medium'[io'.blkno][k]
        BY <1>5, <4>3
      <4>7. \A k \in 1 .. Len(ata'.data) : ata'.data[k] = medium'[io'.blkno][Len(io'.buf) + k]
        BY <3>0, <4>1, <4>4
      <4>8. QED  BY <4>5, <4>6, <4>7, Zenon DEF WordsRead
    <3>5. WordsMoved'
      BY <1>3, <3>0, <3>3, <3>4 DEF WordsMoved
    <3>6. QED  BY <1>1, <1>5, <2>1, <2>3, <3>1, <3>5 DEF DiskInCall
  <2>4. QED  BY <1>1, <2>2, <2>3
<1>11. DiskInv'
  BY <1>5, <1>7, <1>8, <1>10 DEF DiskInv, InDiskCall
<1>12. QED  BY <1>1, <1>5, <1>11, DiskStepKeeps

LEMMA Commanded ==
  ASSUME DevicesInv, Command
  PROVE  DevicesInv'
<1>1. /\ io.fn = "disk_blkio" /\ io.at = "command"
      /\ ata' = IF ata.busy THEN ata
                ELSE [busy |-> TRUE, cmd |-> io.cmd, block |-> io.blkno, data |-> <<>>]
      /\ io' = [io EXCEPT !.at = "wait for data"]
      /\ UNCHANGED <<clock, medium, wanted>>
  BY DEF Command, AtDisk
<1>2. DiskTypes /\ DiskCallTypes /\ DiskInCall /\ io.blkno \in BlockNumbers /\ io.blkno \in Left
  BY <1>1, InTheCall
<1>3. ata = AtaIdle /\ ata.busy = FALSE
  <2>1. ata = AtaIdle
    BY <1>1, <1>2 DEF DiskInCall
  <2>2. QED  BY <2>1 DEF AtaIdle
<1>4. io' = [fn |-> io.fn, at |-> "wait for data", blkno |-> io.blkno, remain |-> io.remain,
             cmd |-> io.cmd, version |-> io.version, buf |-> io.buf]
  BY <1>1, <1>2 DEF DiskCallTypes
<1>5. /\ io'.fn = "disk_blkio" /\ io'.at = "wait for data" /\ io'.blkno = io.blkno /\ io'.remain = io.remain
      /\ io'.cmd = io.cmd /\ io'.version = io.version /\ io'.buf = io.buf /\ Left' = Left
  BY <1>1, <1>4 DEF Left
<1>6. /\ ata' = [busy |-> TRUE, cmd |-> io.cmd, block |-> io.blkno, data |-> <<>>]
      /\ ata'.busy = TRUE /\ ata'.cmd = io.cmd /\ ata'.block = io.blkno /\ ata'.data = <<>>
  BY <1>1, <1>3
<1>7. ~Writing /\ ~Writing' /\ \A b \in BlockNumbers : Settled(b)' = Settled(b)
  BY <1>1, <1>3, <1>6 DEF Writing, Settled
<1>8. DiskTypes'
  BY <1>1, <1>2, <1>6, <1>7, EmptySeq DEF DiskTypes, DiskCallTypes
<1>9. DiskCallTypes'
  BY <1>2, <1>4, <1>5 DEF DiskCallTypes
<1>10. DiskInCall'
  <2>1. BlocksSoFar'
    BY <1>1, <1>2, <1>5, <1>7 DEF DiskInCall, BlocksSoFar
  <2>2. io.buf = <<>>
    BY <1>1, <1>2 DEF DiskInCall
  <2>3. QED  BY <1>5, <1>6, <2>1, <2>2 DEF DiskInCall
<1>11. DiskInv'
  BY <1>5, <1>8, <1>9, <1>10 DEF DiskInv, InDiskCall
<1>12. QED  BY <1>1, <1>5, <1>11, DiskStepKeeps

\* Where a call is behind a block that is through.
LEMMA NextBlockIs ==
  ASSUME DiskCallTypes, io' = NextBlock
  PROVE  LET at == IF io.remain = 1 THEN "done" ELSE "wait" IN
         /\ io' = [fn |-> io.fn, at |-> at, blkno |-> io.blkno + 1, remain |-> io.remain - 1,
                   cmd |-> io.cmd, version |-> io.version, buf |-> <<>>]
         /\ io'.fn = io.fn /\ io'.at = at /\ io'.blkno = io.blkno + 1 /\ io'.remain = io.remain - 1
         /\ io'.cmd = io.cmd /\ io'.version = io.version /\ io'.buf = <<>>
<1>1. io' = [fn |-> io.fn, at |-> IF io.remain = 1 THEN "done" ELSE "wait", blkno |-> io.blkno + 1,
             remain |-> io.remain - 1, cmd |-> io.cmd, version |-> io.version, buf |-> <<>>]
  BY DEF DiskCallTypes, NextBlock
<1>2. QED  BY <1>1

\* A block that is through, taken by the disk or read, is settled.
LEMMA BlockThrough ==
  ASSUME DevicesInv, io.fn = "disk_blkio", io.at # "done", io' = NextBlock,
         UNCHANGED <<medium, wanted>>, DiskTypes', AtRest',
         \A b \in BlockNumbers : Settled(b)' = IF b = io.blkno THEN wanted[b] ELSE Settled(b)
  PROVE  DiskInv'
<1>1. DiskTypes /\ DiskCallTypes /\ DiskInCall /\ io.blkno \in BlockNumbers /\ io.blkno \in Left
  BY InTheCall
<1> DEFINE at == IF io.remain = 1 THEN "done" ELSE "wait"
<1>2. /\ io' = [fn |-> io.fn, at |-> at, blkno |-> io.blkno + 1, remain |-> io.remain - 1,
                cmd |-> io.cmd, version |-> io.version, buf |-> <<>>]
      /\ io'.fn = io.fn /\ io'.at = at /\ io'.blkno = io.blkno + 1 /\ io'.remain = io.remain - 1
      /\ io'.cmd = io.cmd /\ io'.version = io.version /\ io'.buf = <<>>
  BY <1>1, NextBlockIs
<1>3. io.blkno \in Nat /\ io.remain \in Nat /\ io.remain > 0 /\ Left \subseteq BlockNumbers
  BY <1>1 DEF DiskCallTypes, DiskInCall, BlocksSoFar
<1>4. DiskCallTypes'
  <2>1. at \in {"wait", "command", "wait for data", "data", "done"}
    OBVIOUS
  <2>2. io.blkno + 1 \in Nat /\ io.remain - 1 \in Nat
    BY <1>3
  <2>3. io'.buf \in Seq(Datum)
    BY <1>2, EmptySeq
  <2>4. io.cmd \in {"read", "write"} /\ io.version \in Nat
    BY <1>1 DEF DiskCallTypes
  <2> HIDE DEF at
  <2>5. QED  BY <1>2, <2>1, <2>2, <2>3, <2>4 DEF DiskCallTypes
<1>5. Left' = Left \ {io.blkno}
  BY <1>2, <1>3 DEF Left
<1>6. \A b \in BlockNumbers : (io.cmd = "write" /\ b \in Left') \/ Settled(b)' = wanted'[b]
  <2> SUFFICES ASSUME NEW b \in BlockNumbers, ~(io.cmd = "write" /\ b \in Left')
               PROVE  Settled(b)' = wanted[b]
    OBVIOUS
  <2>1. CASE b = io.blkno
    BY <2>1
  <2>2. CASE b # io.blkno
    <3>1. Settled(b)' = Settled(b)
      BY <2>2
    <3>2. Settled(b) = wanted[b]
      BY <1>1, <1>5, <2>2 DEF DiskInCall, BlocksSoFar
    <3>3. QED  BY <3>1, <3>2
  <2>3. QED  BY <2>1, <2>2
<1>7. CASE io.remain = 1
  <2>1. io'.at = "done" /\ Left' = {}
    BY <1>2, <1>3, <1>7 DEF Left
  <2>2. \A b \in BlockNumbers : Settled(b)' = wanted'[b]
    BY <1>6, <2>1
  <2>3. QED  BY <1>4, <2>1, <2>2 DEF DiskInv, InDiskCall
<1>8. CASE io.remain # 1
  <2>1. io'.at = "wait" /\ io'.remain > 0
    BY <1>2, <1>3, <1>8
  <2>2. io'.cmd = "write" => \A b \in Left' : wanted'[b] = BlockOf(io'.version, b)
    BY <1>1, <1>2, <1>5 DEF DiskInCall, BlocksSoFar
  <2>3. BlocksSoFar'
    BY <1>2, <1>3, <1>5, <1>6, <2>1, <2>2 DEF BlocksSoFar
  <2>4. DiskInCall'
    BY <1>2, <2>1, <2>3 DEF DiskInCall
  <2>5. QED  BY <1>2, <1>4, <2>1, <2>4 DEF DiskInv, InDiskCall
<1>9. QED  BY <1>7, <1>8

LEMMA WordWritten ==
  ASSUME DevicesInv, WriteWord
  PROVE  DevicesInv'
<1> DEFINE n == Len(io.buf)
           word == DiskWord(io.version, io.blkno, n + 1)
           data == Append(ata.data, word)
<1>1. /\ io.fn = "disk_blkio" /\ io.at = "data" /\ io.cmd = "write"
      /\ ata' = IF ata.busy THEN ata ELSE [ata EXCEPT !.data = data, !.busy = Len(data) = Words]
      /\ io' = IF n + 1 = Words THEN NextBlock ELSE [io EXCEPT !.buf = Append(@, word)]
      /\ UNCHANGED <<clock, medium, wanted>>
  BY DEF WriteWord, AtDisk
<1>2. DiskTypes /\ DiskCallTypes /\ DiskInCall /\ io.blkno \in BlockNumbers /\ io.blkno \in Left
  BY <1>1, InTheCall
<1>3. /\ ata.busy = FALSE /\ ata.cmd = "write" /\ ata.block = io.blkno
      /\ WordsWritten /\ n < Words
  BY <1>1, <1>2 DEF DiskInCall, WordsMoved
<1>4. /\ ata.data = io.buf /\ io.buf \in Seq(Datum) /\ io.version \in Nat /\ io.blkno \in Nat
      /\ \A k \in 1 .. n : io.buf[k] = DiskWord(io.version, io.blkno, k)
  BY <1>2, <1>3 DEF WordsWritten, DiskCallTypes
<1>5. n \in Nat
  BY <1>4, LenProperties
<1>6. word \in Datum
  <2> HIDE DEF n
  <2>1. n + 1 \in 1 .. Words
    BY <1>3, <1>5, DeviceSizes
  <2>2. QED  BY <1>4, <2>1, WordsAreData
<1>7. /\ data \in Seq(Datum) /\ Len(data) = n + 1 /\ data # <<>>
      /\ data = Append(io.buf, word)
      /\ \A k \in 1 .. n + 1 : data[k] = DiskWord(io.version, io.blkno, k)
  <2> DEFINE w == word
  <2>1. w \in Datum
    BY <1>6
  <2>2. w = DiskWord(io.version, io.blkno, n + 1)
    OBVIOUS
  <2> HIDE DEF w
  <2>3. Append(io.buf, w) \in Seq(Datum) /\ Len(Append(io.buf, w)) = n + 1
    BY <1>4, <2>1
  <2>4. \A k \in 1 .. n : Append(io.buf, w)[k] = io.buf[k]
    BY <1>4, <2>1
  <2>5. Append(io.buf, w)[n + 1] = w
    BY <1>4, <2>1
  <2>6. \A k \in 1 .. n + 1 : k \in 1 .. n \/ k = n + 1
    BY <1>5
  <2>7. \A k \in 1 .. n + 1 : Append(io.buf, w)[k] = DiskWord(io.version, io.blkno, k)
    BY <1>4, <2>2, <2>4, <2>5, <2>6
  <2>8. Append(io.buf, w) # <<>>
    <3>1. Len(Append(io.buf, w)) # 0
      <4> HIDE DEF n
      <4>1. n + 1 # 0
        BY <1>5
      <4>2. QED  BY <2>3, <4>1
    <3>2. QED  BY <3>1, EmptySeq
  <2>9. data = Append(io.buf, w)
    BY <1>4 DEF w
  <2>10. QED  BY <2>3, <2>7, <2>8, <2>9 DEF w
<1> HIDE DEF data, word
<1>8. CASE n + 1 = Words
  <2>1. /\ ata' = [busy |-> TRUE, cmd |-> ata.cmd, block |-> ata.block, data |-> data]
        /\ ata'.busy = TRUE /\ ata'.cmd = "write" /\ ata'.block = io.blkno /\ ata'.data = data
    <3>1. ata' = [ata EXCEPT !.data = data, !.busy = TRUE]
      BY <1>1, <1>3, <1>7, <1>8
    <3>2. QED  BY <1>2, <1>3, <3>1 DEF DiskTypes
  <2>2. data \in Block /\ data = wanted[io.blkno]
    <3>1. data \in Block
      BY <1>7, <1>8, BlocksAreSequences
    <3>2. BlockOf(io.version, io.blkno) \in Block
          /\ \A k \in 1 .. Words : BlockOf(io.version, io.blkno)[k] = DiskWord(io.version, io.blkno, k)
      BY <1>4, WordsAreData
    <3>3. \A k \in 1 .. Words : data[k] = BlockOf(io.version, io.blkno)[k]
      BY <1>7, <1>8, <3>2
    <3>4. data = BlockOf(io.version, io.blkno)
      <4> DEFINE block == BlockOf(io.version, io.blkno)
      <4>1. block \in Block /\ \A k \in 1 .. Words : data[k] = block[k]
        BY <3>1, <3>2, <3>3
      <4> HIDE DEF block
      <4>2. data = block
        BY <3>1, <4>1, SameWords
      <4>3. QED  BY <4>2 DEF block
    <3>5. wanted[io.blkno] = BlockOf(io.version, io.blkno)
      BY <1>1, <1>2 DEF DiskInCall, BlocksSoFar
    <3>6. QED  BY <3>1, <3>4, <3>5
  <2>3. Writing' /\ AtRest' /\ ~Writing
    BY <1>3, <1>7, <2>1 DEF Writing, AtRest
  <2>4. DiskTypes'
    BY <1>1, <1>2, <1>7, <2>1, <2>2 DEF DiskTypes
  <2>5. \A b \in BlockNumbers : Settled(b)' = IF b = io.blkno THEN wanted[b] ELSE Settled(b)
    BY <1>1, <2>1, <2>2, <2>3 DEF Settled
  <2>6. io' = NextBlock
    BY <1>1, <1>8
  <2>7. DiskInv'
    BY <1>1, <2>3, <2>4, <2>5, <2>6, BlockThrough
  <2>8. io'.fn = io.fn
    BY <1>2, <2>6, NextBlockIs
  <2>9. QED  BY <1>1, <2>7, <2>8, DiskStepKeeps
<1>9. CASE n + 1 # Words
  <2>1. /\ ata' = [busy |-> FALSE, cmd |-> ata.cmd, block |-> ata.block, data |-> data]
        /\ ata'.busy = FALSE /\ ata'.cmd = "write" /\ ata'.block = io.blkno /\ ata'.data = data
    <3>1. ata' = [ata EXCEPT !.data = data, !.busy = FALSE]
      BY <1>1, <1>3, <1>7, <1>9
    <3>2. QED  BY <1>2, <1>3, <3>1 DEF DiskTypes
  <2>2. /\ io' = [fn |-> io.fn, at |-> io.at, blkno |-> io.blkno, remain |-> io.remain,
                  cmd |-> io.cmd, version |-> io.version, buf |-> data]
        /\ io'.fn = "disk_blkio" /\ io'.at = "data" /\ io'.blkno = io.blkno /\ io'.remain = io.remain
        /\ io'.cmd = "write" /\ io'.version = io.version /\ io'.buf = data /\ Left' = Left
    <3>1. io' = [io EXCEPT !.buf = data]
      BY <1>1, <1>2, <1>7, <1>9 DEF DiskCallTypes
    <3>2. QED  BY <1>1, <1>2, <3>1 DEF DiskCallTypes, Left
  <2>3. ~Writing' /\ ~Writing /\ \A b \in BlockNumbers : Settled(b)' = Settled(b)
    BY <1>1, <1>3, <2>1 DEF Writing, Settled
  <2>4. DiskTypes'
    BY <1>1, <1>2, <1>7, <2>1, <2>3 DEF DiskTypes
  <2>5. DiskCallTypes'
    BY <1>2, <1>7, <2>2 DEF DiskCallTypes
  <2>6. BlocksSoFar'
    BY <1>1, <1>2, <2>2, <2>3 DEF DiskInCall, BlocksSoFar
  <2>7. WordsWritten'
    BY <1>7, <2>1, <2>2 DEF WordsWritten
  <2>8. Len(io'.buf) < Words
    <3>1. Len(io'.buf) = n + 1
      BY <1>7, <2>2
    <3> HIDE DEF n
    <3>2. n + 1 < Words
      BY <1>3, <1>5, <1>9, DeviceSizes
    <3>3. QED  BY <3>1, <3>2
  <2>9. DiskInCall'
    BY <2>1, <2>2, <2>6, <2>7, <2>8 DEF DiskInCall, WordsMoved
  <2>10. DiskInv'
    BY <2>2, <2>4, <2>5, <2>9 DEF DiskInv, InDiskCall
  <2>11. QED  BY <1>1, <2>2, <2>10, DiskStepKeeps
<1>10. QED  BY <1>8, <1>9

LEMMA WordRead ==
  ASSUME DevicesInv, ReadWord
  PROVE  DevicesInv'
<1> DEFINE n == Len(io.buf)
           word == Head(ata.data)
           buf == Append(io.buf, word)
<1>1. /\ io.fn = "disk_blkio" /\ io.at = "data" /\ io.cmd = "read"
      /\ UNCHANGED <<clock, medium, wanted>>
  BY DEF ReadWord, AtDisk
<1>2. DiskTypes /\ DiskCallTypes /\ DiskInCall /\ io.blkno \in BlockNumbers /\ io.blkno \in Left
  BY <1>1, InTheCall
<1>3. /\ ata.busy = FALSE /\ ata.cmd = "read" /\ ata.block = io.blkno
      /\ WordsRead /\ n < Words
  BY <1>1, <1>2 DEF DiskInCall, WordsMoved
<1>4. /\ ata.data \in Seq(Datum) /\ io.buf \in Seq(Datum) /\ medium[io.blkno] \in Block
      /\ n \in Nat
  <2>1. ata.data \in Seq(Datum) /\ io.buf \in Seq(Datum) /\ medium[io.blkno] \in Block
    BY <1>2 DEF DiskTypes, DiskCallTypes
  <2>2. QED  BY <2>1, LenProperties
<1>5. /\ Len(ata.data) = Words - n
      /\ \A k \in 1 .. n : io.buf[k] = medium[io.blkno][k]
      /\ \A k \in 1 .. Len(ata.data) : ata.data[k] = medium[io.blkno][n + k]
  BY <1>3 DEF WordsRead
<1>6. ata.data # <<>> /\ word = ata.data[1] /\ word \in Datum
      /\ Tail(ata.data) \in Seq(Datum) /\ Len(Tail(ata.data)) = Len(ata.data) - 1
      /\ \A k \in 1 .. Len(Tail(ata.data)) : Tail(ata.data)[k] = ata.data[k + 1]
  <2>1. ata.data # <<>>
    <3>1. Len(ata.data) # 0
      <4> DEFINE left == Len(ata.data)
      <4>1. left = Words - n
        BY <1>5
      <4> HIDE DEF n, left
      <4>2. left # 0
        BY <1>3, <1>4, <4>1, DeviceSizes
      <4>3. QED  BY <4>2 DEF left
    <3>2. QED  BY <3>1, EmptySeq
  <2>2. QED  BY <1>4, <2>1, HeadTailProperties
<1>7. /\ buf \in Seq(Datum) /\ Len(buf) = n + 1
      /\ \A k \in 1 .. n + 1 : buf[k] = medium[io.blkno][k]
  <2> HIDE DEF word
  <2>1. buf \in Seq(Datum) /\ Len(buf) = n + 1
    BY <1>4, <1>6
  <2>2. \A k \in 1 .. n : buf[k] = io.buf[k]
    BY <1>4, <1>6
  <2>3. buf[n + 1] = word
    BY <1>4, <1>6
  <2>4. word = medium[io.blkno][n + 1]
    <3>1. 1 \in 1 .. Len(ata.data)
      <4> DEFINE left == Len(ata.data)
      <4>1. left = Words - n
        BY <1>5
      <4> HIDE DEF n, left
      <4>2. 1 \in 1 .. left
        BY <1>3, <1>4, <4>1, DeviceSizes
      <4>3. QED  BY <4>2 DEF left
    <3>2. QED  BY <1>5, <1>6, <3>1
  <2>5. \A k \in 1 .. n + 1 : k \in 1 .. n \/ k = n + 1
    BY <1>4
  <2> HIDE DEF buf
  <2>6. QED  BY <1>5, <2>1, <2>2, <2>3, <2>4, <2>5
<1>8. ata' = IF Len(ata.data) = 1 THEN AtaIdle ELSE [ata EXCEPT !.data = Tail(@)]
  BY <1>3, <1>6 DEF ReadWord
<1>9. io' = CASE Len(buf) < Words -> [io EXCEPT !.buf = buf]
              [] Len(buf) = Words /\ buf = wanted[io.blkno] -> NextBlock
              [] Len(buf) = Words /\ buf # wanted[io.blkno] -> [io EXCEPT !.at = "wrong"]
  <2>1. (~ata.busy /\ ata.data # <<>>) = TRUE
    BY <1>3, <1>6
  <2>2. buf = Append(io.buf, IF ~ata.busy /\ ata.data # <<>> THEN Head(ata.data) ELSE Garbage)
    BY <2>1
  <2>3. QED  BY <2>2, Zenon DEF ReadWord
<1>10. ~Writing
  BY <1>3 DEF Writing
<1> HIDE DEF word, buf
<1>11. CASE n + 1 = Words
  <2>1. Len(ata.data) = 1 /\ Len(buf) = Words
    <3> DEFINE left == Len(ata.data)
               got == Len(buf)
    <3>1. left = Words - n /\ got = n + 1
      BY <1>5, <1>7
    <3> HIDE DEF n, left, got
    <3>2. left = 1 /\ got = Words
      BY <1>4, <1>11, <3>1, DeviceSizes
    <3>3. QED  BY <3>2 DEF left, got
  <2>2. ata' = AtaIdle
    BY <1>8, <2>1
  <2>3. ata'.busy = FALSE /\ ata'.cmd = "none" /\ ata'.block = 0 /\ ata'.data = <<>>
        /\ ata' = [busy |-> ata'.busy, cmd |-> ata'.cmd, block |-> ata'.block, data |-> ata'.data]
    BY <2>2 DEF AtaIdle
  <2>4. ~Writing' /\ AtRest'
    BY <2>2, <2>3 DEF Writing, AtRest
  <2>5. DiskTypes'
    <3>1. ata'.block \in BlockNumbers /\ ata'.data \in Seq(Datum)
      BY <2>3, EmptySeq, DeviceSizes DEF BlockNumbers
    <3>2. QED  BY <1>1, <1>2, <2>3, <2>4, <3>1 DEF DiskTypes
  <2>6. buf = wanted[io.blkno]
    <3>1. buf \in Block
      BY <1>7, <2>1, BlocksAreSequences
    <3>2. buf = medium[io.blkno]
      <4> DEFINE block == medium[io.blkno]
      <4>1. block \in Block /\ \A k \in 1 .. Words : buf[k] = block[k]
        BY <1>4, <1>7, <1>11, <3>1
      <4> HIDE DEF block
      <4>2. buf = block
        BY <3>1, <4>1, SameWords
      <4>3. QED  BY <4>2 DEF block
    <3>3. Settled(io.blkno) = wanted[io.blkno]
      BY <1>1, <1>2 DEF DiskInCall, BlocksSoFar
    <3>4. QED  BY <1>10, <3>2, <3>3 DEF Settled
  <2>7. io' = NextBlock
    <3>1. ~(Len(buf) < Words)
      BY <2>1, DeviceSizes
    <3>2. QED  BY <1>9, <2>1, <2>6, <3>1
  <2>8. \A b \in BlockNumbers : Settled(b)' = IF b = io.blkno THEN wanted[b] ELSE Settled(b)
    <3>1. \A b \in BlockNumbers : Settled(b)' = medium[b] /\ Settled(b) = medium[b]
      BY <1>1, <1>10, <2>4 DEF Settled
    <3>2. Settled(io.blkno) = wanted[io.blkno]
      BY <1>1, <1>2 DEF DiskInCall, BlocksSoFar
    <3>3. QED  BY <3>1, <3>2
  <2>9. DiskInv'
    BY <1>1, <2>4, <2>5, <2>7, <2>8, BlockThrough
  <2>10. io'.fn = io.fn
    BY <1>2, <2>7, NextBlockIs
  <2>11. QED  BY <1>1, <2>9, <2>10, DiskStepKeeps
<1>12. CASE n + 1 # Words
  <2>1. Len(ata.data) # 1 /\ Len(buf) < Words
    <3> DEFINE left == Len(ata.data)
               got == Len(buf)
    <3>1. left = Words - n /\ got = n + 1
      BY <1>5, <1>7
    <3> HIDE DEF left, got
    <3>2. n \in Nat /\ n < Words /\ n + 1 # Words
      BY <1>3, <1>4, <1>12
    <3> HIDE DEF n
    <3>3. left # 1 /\ got < Words
      BY <3>1, <3>2, DeviceSizes
    <3>4. QED  BY <3>3 DEF left, got
  <2>2. /\ ata' = [busy |-> FALSE, cmd |-> ata.cmd, block |-> ata.block, data |-> Tail(ata.data)]
        /\ ata'.busy = FALSE /\ ata'.cmd = "read" /\ ata'.block = io.blkno
        /\ ata'.data = Tail(ata.data)
    BY <1>2, <1>3, <1>8, <2>1 DEF DiskTypes
  <2>3. /\ io' = [fn |-> io.fn, at |-> io.at, blkno |-> io.blkno, remain |-> io.remain,
                  cmd |-> io.cmd, version |-> io.version, buf |-> buf]
        /\ io'.fn = "disk_blkio" /\ io'.at = "data" /\ io'.blkno = io.blkno /\ io'.remain = io.remain
        /\ io'.cmd = "read" /\ io'.version = io.version /\ io'.buf = buf /\ Left' = Left
    <3>1. io' = [io EXCEPT !.buf = buf]
      BY <1>9, <2>1
    <3>2. QED  BY <1>1, <1>2, <3>1 DEF DiskCallTypes, Left
  <2>4. ~Writing' /\ \A b \in BlockNumbers : Settled(b)' = Settled(b)
    BY <1>1, <1>10, <2>2 DEF Writing, Settled
  <2>5. DiskTypes'
    BY <1>1, <1>2, <1>6, <2>2, <2>4 DEF DiskTypes
  <2>6. DiskCallTypes'
    BY <1>2, <1>7, <2>3 DEF DiskCallTypes
  <2>7. BlocksSoFar'
    BY <1>1, <1>2, <2>3, <2>4 DEF DiskInCall, BlocksSoFar
  <2>8. WordsRead'
    <3> DEFINE left == Len(ata.data)
               rest == Tail(ata.data)
    <3>1. left = Words - n /\ left \in Nat /\ Len(rest) = left - 1
          /\ (\A k \in 1 .. left : ata.data[k] = medium[io.blkno][n + k])
          /\ \A k \in 1 .. Len(rest) : rest[k] = ata.data[k + 1]
      BY <1>4, <1>5, <1>6, LenProperties
    <3>2. Len(buf) = n + 1 /\ \A k \in 1 .. n + 1 : buf[k] = medium[io.blkno][k]
      BY <1>7
    <3> HIDE DEF n, left, rest
    <3>3. Len(rest) = Words - (n + 1)
      BY <1>4, <3>1, DeviceSizes
    <3>4. \A k \in 1 .. left - 1 : k + 1 \in 1 .. left /\ n + (k + 1) = (n + 1) + k
      BY <1>4, <3>1
    <3>5. \A k \in 1 .. Len(rest) : rest[k] = medium[io.blkno][(n + 1) + k]
      BY <3>1, <3>4
    <3>6. ata'.data = rest /\ io'.buf = buf /\ io'.blkno = io.blkno /\ medium' = medium
      BY <1>1, <2>2, <2>3 DEF rest
    <3>7. QED  BY <3>2, <3>3, <3>5, <3>6 DEF WordsRead
  <2>9. DiskInCall'
    <3>1. Len(io'.buf) < Words
      BY <2>1, <2>3
    <3>2. QED  BY <2>2, <2>3, <2>7, <2>8, <3>1 DEF DiskInCall, WordsMoved
  <2>10. DiskInv'
    BY <2>3, <2>5, <2>6, <2>9 DEF DiskInv, InDiskCall
  <2>11. QED  BY <1>1, <2>3, <2>10, DiskStepKeeps
<1>13. QED  BY <1>11, <1>12

-----------------------------------------------------------------------------
(* The keyboard.                                                             *)

\* Steps of a call of the keyboard leave the rest alone.
LEMMA KeyStepKeeps ==
  ASSUME DevicesInv, io.fn = "input_keybrd", io'.fn = io.fn,
         UNCHANGED <<clock, ata, medium, wanted>>, KeyInv'
  PROVE  DevicesInv'
<1>1. ClockInv'
  BY DEF DevicesInv, ClockInv, ClockCall, Day
<1>2. CallKnown /\ DiskInv
  BY DEF DevicesInv, CallKnown
<1>3. DiskInv'
  BY <1>2, OtherKinds, DiskUnnoticed
<1>4. io'.fn \in Calls /\ io'.fn # "none"
  BY DEF Calls
<1>5. QED  BY <1>1, <1>3, <1>4 DEF DevicesInv

LEMMA KeyboardCalled ==
  ASSUME DevicesInv, CallKeyboard
  PROVE  DevicesInv'
<1>1. /\ io = NoIo /\ UNCHANGED <<clock, ata, medium, wanted>>
      /\ io' = [fn |-> "input_keybrd", at |-> "poll", codes |-> <<>>, down |-> {},
                moves |-> <<>>, got |-> <<>>]
  BY DEF CallKeyboard
<1>2. CallKnown /\ DiskInv
  BY DEF DevicesInv, CallKnown
<1>3. /\ io'.fn = "input_keybrd" /\ io'.at = "poll" /\ io'.codes = <<>> /\ io'.down = {}
      /\ io'.moves = <<>> /\ io'.got = <<>>
  BY <1>1
<1>4. KeyInv'
  <2>1. io'.codes \in Seq(Nat) /\ io'.moves \in Seq(Movement) /\ io'.got \in Seq(Movement)
    BY <1>3, EmptySeq
  <2>2. Len(io'.codes) = 0 /\ Len(io'.moves) = 0 /\ Len(io'.got) = 0
    BY <1>3
  <2>3. io' = [fn |-> io'.fn, at |-> io'.at, codes |-> io'.codes, down |-> io'.down,
               moves |-> io'.moves, got |-> io'.got]
    BY <1>1
  <2>4. \A n \in 1 .. 0 : FALSE
    OBVIOUS
  <2>5. QED  BY <1>3, <2>1, <2>2, <2>3, <2>4 DEF KeyInv
<1>5. DiskInv'
  BY <1>1, <1>2, <1>3, OtherKinds, DiskUnnoticed
<1>6. ClockInv'
  BY <1>1, <1>3 DEF DevicesInv, ClockInv, ClockCall, Day
<1>7. io'.fn \in Calls /\ io'.fn # "none"
  BY <1>3 DEF Calls
<1>8. QED  BY <1>4, <1>5, <1>6, <1>7 DEF DevicesInv

\* The code of a movement says which key it was and which way it went.
LEMMA CodesDecode ==
  ASSUME NEW k \in KeyCodes
  PROVE  /\ k \in Nat /\ k + KeyBit \in Nat
         /\ Decoded(k) = KeyEvent(TRUE, k) /\ Decoded(k + KeyBit) = KeyEvent(FALSE, k)
<1>1. k \in 1 .. KeyBit - 1 /\ KeyBit \in Nat \ {0}
  BY DeviceSizes
<1>2. k \in 0 .. KeyBit - 1 /\ k \in Int /\ k + KeyBit \in Int /\ 0 \in Int /\ 1 \in Int
  BY <1>1
<1>3. k = 0 * KeyBit + k /\ k + KeyBit = 1 * KeyBit + k
  BY <1>1
<1>4. k % KeyBit = k
  BY <1>1, <1>2, <1>3, RemainderUnique, Zenon
<1>5. (k + KeyBit) % KeyBit = k
  BY <1>1, <1>2, <1>3, RemainderUnique, Zenon
<1>6. keylut[k] = k
  BY <1>2 DEF keylut
<1>7. (k < KeyBit) = TRUE /\ (k + KeyBit < KeyBit) = FALSE
  BY <1>1
<1>8. Decoded(k) = KeyEvent(TRUE, k)
  <2> DEFINE down == k < KeyBit
  <2>1. down = TRUE
    BY <1>7
  <2>2. Decoded(k) = KeyEvent(down, keylut[k % KeyBit])
    BY DEF Decoded
  <2> HIDE DEF down
  <2>3. QED  BY <1>4, <1>6, <2>1, <2>2
<1>9. Decoded(k + KeyBit) = KeyEvent(FALSE, k)
  <2> DEFINE down == k + KeyBit < KeyBit
             code == (k + KeyBit) % KeyBit
  <2>1. down = FALSE /\ code = k
    BY <1>5, <1>7
  <2>2. Decoded(k + KeyBit) = KeyEvent(down, keylut[code])
    BY DEF Decoded
  <2> HIDE DEF down, code
  <2>3. QED  BY <1>6, <2>1, <2>2
<1>10. k \in Nat /\ k + KeyBit \in Nat
  BY <1>1
<1>11. QED  BY <1>8, <1>9, <1>10, Zenon

LEMMA CodesAreMovements ==
  ASSUME NEW code \in Nat
  PROVE  Decoded(code) \in Movement
<1>1. code % KeyBit \in 0 .. KeyBit - 1
  <2>1. code \in Int /\ KeyBit \in Nat \ {0}
    BY DeviceSizes
  <2>2. QED  BY <2>1, Division, Zenon
<1>2. \A c \in 0 .. KeyBit - 1 : keylut[c] \in Nat
  BY DeviceSizes DEF keylut, AM_KEY_NONE
<1>3. (code < KeyBit) \in BOOLEAN
  OBVIOUS
<1>4. QED  BY <1>1, <1>2, <1>3 DEF Decoded, KeyEvent, Movement

LEMMA AppendedIs ==
  ASSUME NEW S, NEW s \in Seq(S), NEW e \in S
  PROVE  /\ Append(s, e) \in Seq(S) /\ Len(Append(s, e)) = Len(s) + 1
         /\ Append(s, e)[Len(s) + 1] = e
         /\ \A i \in 1 .. Len(s) : Append(s, e)[i] = s[i]
OBVIOUS

LEMMA KeyMoved ==
  ASSUME DevicesInv, NEW k \in KeyCodes, NEW down \in BOOLEAN, KeyMoves(k, down)
  PROVE  DevicesInv'
<1> DEFINE code == IF down THEN k ELSE k + KeyBit
           held == IF down THEN io.down \cup {k} ELSE io.down \ {k}
           move == KeyEvent(down, k)
<1>1. /\ io.fn = "input_keybrd" /\ io.at = "poll" /\ UNCHANGED <<clock, ata, medium, wanted>>
      /\ io' = [io EXCEPT !.codes = Append(@, code), !.down = held, !.moves = Append(@, move)]
  BY DEF KeyMoves, AtKeyboard
<1>2. KeyInv
  BY DEF DevicesInv
<1>3. code \in Nat /\ move \in Movement /\ Decoded(code) = move /\ held \subseteq KeyCodes
  <2>1. k \in Nat /\ k + KeyBit \in Nat
        /\ Decoded(k) = KeyEvent(TRUE, k) /\ Decoded(k + KeyBit) = KeyEvent(FALSE, k)
    BY CodesDecode
  <2>2. io.down \subseteq KeyCodes
    BY <1>1, <1>2 DEF KeyInv
  <2>3. move \in Movement
    BY <2>1 DEF KeyEvent, Movement
  <2>4. CASE down = TRUE
    BY <2>1, <2>2, <2>3, <2>4
  <2>5. CASE down = FALSE
    BY <2>1, <2>2, <2>3, <2>5
  <2>6. QED  BY <2>4, <2>5
<1> HIDE DEF code, held, move
<1>4. /\ io' = [fn |-> io.fn, at |-> io.at, codes |-> Append(io.codes, code), down |-> held,
                moves |-> Append(io.moves, move), got |-> io.got]
      /\ io'.fn = io.fn /\ io'.at = io.at /\ io'.codes = Append(io.codes, code) /\ io'.down = held
      /\ io'.moves = Append(io.moves, move) /\ io'.got = io.got
  BY <1>1, <1>2 DEF KeyInv
<1> DEFINE c == Len(io.codes)
           m == Len(io.moves)
           g == Len(io.got)
<1>5. /\ io.codes \in Seq(Nat) /\ io.moves \in Seq(Movement) /\ io.got \in Seq(Movement)
      /\ c \in Nat /\ m \in Nat /\ g \in Nat /\ m = g + c
      /\ \A i \in 1 .. g : io.got[i] = IF i <= m THEN io.moves[i] ELSE KeyEvent(FALSE, AM_KEY_NONE)
      /\ \A i \in 1 .. c : Decoded(io.codes[i]) = io.moves[g + i]
  <2>1. io.codes \in Seq(Nat) /\ io.moves \in Seq(Movement) /\ io.got \in Seq(Movement)
    BY <1>1, <1>2 DEF KeyInv
  <2>2. c \in Nat /\ m \in Nat /\ g \in Nat
    BY <2>1, LenProperties
  <2>3. QED  BY <1>1, <1>2, <2>1, <2>2 DEF KeyInv
<1>6. /\ io'.codes \in Seq(Nat) /\ Len(io'.codes) = c + 1 /\ io'.codes[c + 1] = code
      /\ \A i \in 1 .. c : io'.codes[i] = io.codes[i]
  BY <1>3, <1>4, <1>5
<1>7. /\ io'.moves \in Seq(Movement) /\ Len(io'.moves) = m + 1 /\ io'.moves[m + 1] = move
      /\ \A i \in 1 .. m : io'.moves[i] = io.moves[i]
  <2>1. io'.moves = Append(io.moves, move) /\ io.moves \in Seq(Movement) /\ move \in Movement
    BY <1>3, <1>4, <1>5
  <2>2. QED  BY <2>1, AppendedIs
<1> HIDE DEF c, m, g
<1>8. \A i \in 1 .. g : io'.got[i] = IF i <= m + 1 THEN io'.moves[i] ELSE KeyEvent(FALSE, AM_KEY_NONE)
  <2> SUFFICES ASSUME NEW i \in 1 .. g
               PROVE  io'.got[i] = IF i <= m + 1 THEN io'.moves[i] ELSE KeyEvent(FALSE, AM_KEY_NONE)
    OBVIOUS
  <2>1. i <= m /\ i <= m + 1 /\ i \in 1 .. m
    BY <1>5
  <2>2. io.got[i] = io.moves[i] /\ io'.moves[i] = io.moves[i]
    BY <1>5, <1>7, <2>1
  <2>3. QED  BY <1>4, <2>1, <2>2
<1>9. \A i \in 1 .. c + 1 : Decoded(io'.codes[i]) = io'.moves[g + i]
  <2> SUFFICES ASSUME NEW i \in 1 .. c + 1  PROVE Decoded(io'.codes[i]) = io'.moves[g + i]
    OBVIOUS
  <2>1. CASE i = c + 1
    <3>1. g + i = m + 1
      BY <1>5, <2>1
    <3>2. QED  BY <1>3, <1>6, <1>7, <2>1, <3>1
  <2>2. CASE i # c + 1
    <3>1. i \in 1 .. c /\ g + i \in 1 .. m
      BY <1>5, <2>2
    <3>2. QED  BY <1>5, <1>6, <1>7, <3>1
  <2>3. QED  BY <2>1, <2>2
<1>10. Len(io'.got) = g /\ Len(io'.moves) = g + Len(io'.codes) /\ m + 1 = g + (c + 1)
  <2>1. m + 1 = g + (c + 1)
    BY <1>5
  <2>2. QED  BY <1>4, <1>6, <1>7, <2>1 DEF g
<1>11. KeyInv'
  <2>1. /\ io'.fn = "input_keybrd" /\ io'.at = "poll" /\ io'.down \subseteq KeyCodes
        /\ io'.got \in Seq(Movement)
        /\ io' = [fn |-> io'.fn, at |-> io'.at, codes |-> io'.codes, down |-> io'.down,
                  moves |-> io'.moves, got |-> io'.got]
    BY <1>1, <1>3, <1>4, <1>5
  <2>2. \A i \in 1 .. Len(io'.got) :
          io'.got[i] = IF i <= Len(io'.moves) THEN io'.moves[i] ELSE KeyEvent(FALSE, AM_KEY_NONE)
    BY <1>7, <1>8, <1>10
  <2>3. Len(io'.moves) = Len(io'.got) + Len(io'.codes)
        /\ \A i \in 1 .. Len(io'.codes) : Decoded(io'.codes[i]) = io'.moves[Len(io'.got) + i]
    BY <1>6, <1>9, <1>10
  <2>4. QED  BY <1>6, <1>7, <2>1, <2>2, <2>3 DEF KeyInv
<1>12. QED  BY <1>1, <1>4, <1>11, KeyStepKeeps

LEMMA KeyPolled ==
  ASSUME DevicesInv, input_keybrd
  PROVE  DevicesInv'
<1>1. /\ io.fn = "input_keybrd" /\ io.at = "poll" /\ UNCHANGED <<clock, ata, medium, wanted>>
      /\ io' = IF io.codes = <<>>
               THEN [io EXCEPT !.at = "done", !.got = Append(@, KeyEvent(FALSE, AM_KEY_NONE))]
               ELSE [io EXCEPT !.codes = Tail(@), !.got = Append(@, Decoded(Head(io.codes)))]
  BY DEF input_keybrd, AtKeyboard, Decoded
<1>2. KeyInv
  BY DEF DevicesInv
<1> DEFINE c == Len(io.codes)
           m == Len(io.moves)
           g == Len(io.got)
<1>3. /\ io.codes \in Seq(Nat) /\ io.moves \in Seq(Movement) /\ io.got \in Seq(Movement)
      /\ c \in Nat /\ m \in Nat /\ g \in Nat /\ m = g + c /\ io.down \subseteq KeyCodes
      /\ \A i \in 1 .. g : io.got[i] = IF i <= m THEN io.moves[i] ELSE KeyEvent(FALSE, AM_KEY_NONE)
      /\ \A i \in 1 .. c : Decoded(io.codes[i]) = io.moves[g + i]
  <2>1. io.codes \in Seq(Nat) /\ io.moves \in Seq(Movement) /\ io.got \in Seq(Movement)
    BY <1>1, <1>2 DEF KeyInv
  <2>2. c \in Nat /\ m \in Nat /\ g \in Nat
    BY <2>1, LenProperties
  <2>3. QED  BY <1>1, <1>2, <2>1, <2>2 DEF KeyInv
\* What one more movement got makes of those got.
<1>4. ASSUME NEW e \in Movement, io'.got = Append(io.got, e), io'.moves = io.moves,
             e = IF g + 1 <= m THEN io.moves[g + 1] ELSE KeyEvent(FALSE, AM_KEY_NONE)
      PROVE  /\ io'.got \in Seq(Movement) /\ Len(io'.got) = g + 1
             /\ \A i \in 1 .. Len(io'.got) :
                  io'.got[i] = IF i <= Len(io'.moves) THEN io'.moves[i] ELSE KeyEvent(FALSE, AM_KEY_NONE)
  <2>1. /\ io'.got \in Seq(Movement) /\ Len(io'.got) = g + 1 /\ io'.got[g + 1] = e
        /\ \A i \in 1 .. g : io'.got[i] = io.got[i]
    <3>1. io.got \in Seq(Movement)
      BY <1>3
    <3>2. /\ Append(io.got, e) \in Seq(Movement) /\ Len(Append(io.got, e)) = g + 1
          /\ Append(io.got, e)[g + 1] = e
          /\ \A i \in 1 .. g : Append(io.got, e)[i] = io.got[i]
      BY <3>1, AppendedIs
    <3>3. QED  BY <1>4, <3>2
  <2>2. Len(io'.moves) = m
    BY <1>4
  <2> HIDE DEF c, m, g
  <2>3. ASSUME NEW i \in 1 .. g + 1
        PROVE  io'.got[i] = IF i <= m THEN io'.moves[i] ELSE KeyEvent(FALSE, AM_KEY_NONE)
    <3>1. CASE i = g + 1
      BY <1>4, <2>1, <3>1
    <3>2. CASE i # g + 1
      <4>1. i \in 1 .. g
        BY <1>3, <3>2
      <4>2. QED  BY <1>3, <1>4, <2>1, <4>1
    <3>3. QED  BY <3>1, <3>2
  <2>4. QED  BY <2>1, <2>2, <2>3
<1>5. CASE io.codes = <<>>
  <2> DEFINE e == KeyEvent(FALSE, AM_KEY_NONE)
  <2>1. e \in Movement
    BY DEF KeyEvent, AM_KEY_NONE, Movement
  <2>2. c = 0
    BY <1>5
  <2> HIDE DEF e
  <2>4. /\ io' = [fn |-> io.fn, at |-> "done", codes |-> io.codes, down |-> io.down,
                  moves |-> io.moves, got |-> Append(io.got, e)]
        /\ io'.fn = io.fn /\ io'.at = "done" /\ io'.codes = io.codes /\ io'.down = io.down
        /\ io'.moves = io.moves /\ io'.got = Append(io.got, e)
    <3>1. io' = [io EXCEPT !.at = "done", !.got = Append(@, e)]
      BY <1>1, <1>5 DEF e
    <3>2. QED  BY <1>1, <1>2, <3>1 DEF KeyInv
  <2>5. ~(g + 1 <= m)
    <3> HIDE DEF c, m, g
    <3>1. QED  BY <1>3, <2>2
  <2>6. e = IF g + 1 <= m THEN io.moves[g + 1] ELSE KeyEvent(FALSE, AM_KEY_NONE)
    BY <2>5 DEF e
  <2>7. /\ io'.got \in Seq(Movement) /\ Len(io'.got) = g + 1
        /\ \A i \in 1 .. Len(io'.got) :
             io'.got[i] = IF i <= Len(io'.moves) THEN io'.moves[i] ELSE KeyEvent(FALSE, AM_KEY_NONE)
    BY <1>4, <2>1, <2>4, <2>6, Zenon
  <2>8. Len(io'.got) = Len(io'.moves) + 1
    <3>1. g = m
      <4> HIDE DEF c, m, g
      <4>1. QED  BY <1>3, <2>2
    <3>2. Len(io'.moves) = m
      BY <2>4
    <3>3. QED  BY <2>7, <3>1, <3>2
  <2>9. io' = [fn |-> io'.fn, at |-> io'.at, codes |-> io'.codes, down |-> io'.down,
               moves |-> io'.moves, got |-> io'.got]
    BY <2>4
  <2>10. io'.codes \in Seq(Nat) /\ io'.moves \in Seq(Movement) /\ io'.down \subseteq KeyCodes
    BY <1>3, <2>4
  <2>11. KeyInv'
    BY <1>1, <2>4, <2>7, <2>8, <2>9, <2>10 DEF KeyInv
  <2>12. QED  BY <1>1, <2>4, <2>11, KeyStepKeeps
<1>6. CASE io.codes # <<>>
  <2> DEFINE e == Decoded(Head(io.codes))
             rest == Tail(io.codes)
  <2>1. /\ Head(io.codes) \in Nat /\ Head(io.codes) = io.codes[1] /\ rest \in Seq(Nat)
        /\ Len(rest) = c - 1 /\ \A i \in 1 .. Len(rest) : rest[i] = io.codes[i + 1]
    BY <1>3, <1>6, HeadTailProperties
  <2>2. e \in Movement
    BY <2>1, CodesAreMovements
  <2>3. c \in Nat \ {0}
    BY <1>3, <1>6, EmptySeq
  <2>4. 1 \in 1 .. c /\ g + 1 <= m
    <3> HIDE DEF c, m, g
    <3>1. QED  BY <1>3, <2>3
  <2>5. e = io.moves[g + 1]
    BY <1>3, <2>1, <2>4
  <2> HIDE DEF e, rest
  <2>6. /\ io' = [fn |-> io.fn, at |-> io.at, codes |-> rest, down |-> io.down,
                  moves |-> io.moves, got |-> Append(io.got, e)]
        /\ io'.fn = io.fn /\ io'.at = io.at /\ io'.codes = rest /\ io'.down = io.down
        /\ io'.moves = io.moves /\ io'.got = Append(io.got, e)
    <3>1. io' = [io EXCEPT !.codes = rest, !.got = Append(@, e)]
      BY <1>1, <1>2, <1>6 DEF e, rest, KeyInv
    <3>2. QED  BY <1>1, <1>2, <3>1 DEF KeyInv
  <2>7. e = IF g + 1 <= m THEN io.moves[g + 1] ELSE KeyEvent(FALSE, AM_KEY_NONE)
    BY <2>4, <2>5
  <2>8. /\ io'.got \in Seq(Movement) /\ Len(io'.got) = g + 1
        /\ \A i \in 1 .. Len(io'.got) :
             io'.got[i] = IF i <= Len(io'.moves) THEN io'.moves[i] ELSE KeyEvent(FALSE, AM_KEY_NONE)
    BY <1>4, <2>2, <2>6, <2>7, Zenon
  <2>9. /\ Len(io'.moves) = Len(io'.got) + Len(io'.codes)
        /\ \A i \in 1 .. Len(io'.codes) : Decoded(io'.codes[i]) = io'.moves[Len(io'.got) + i]
    <3>1. Len(io'.moves) = m /\ Len(io'.codes) = c - 1
      BY <2>1, <2>6
    <3> HIDE DEF c, m, g
    <3>2. m = (g + 1) + (c - 1)
      BY <1>3
    <3>3. ASSUME NEW i \in 1 .. c - 1  PROVE Decoded(rest[i]) = io.moves[(g + 1) + i]
      <4>1. i + 1 \in 1 .. c /\ g + (i + 1) = (g + 1) + i /\ i \in 1 .. Len(rest)
        <5>1. i + 1 \in 1 .. c /\ g + (i + 1) = (g + 1) + i
          BY <1>3
        <5>2. Len(rest) = c - 1
          BY <2>1
        <5>3. i \in 1 .. Len(rest)
          BY <5>2
        <5>4. QED  BY <5>1, <5>3
      <4>2. rest[i] = io.codes[i + 1] /\ Decoded(io.codes[i + 1]) = io.moves[g + (i + 1)]
        BY <1>3, <2>1, <4>1
      <4>3. QED  BY <4>1, <4>2
    <3>4. QED  BY <2>6, <2>8, <3>1, <3>2, <3>3
  <2>10. io' = [fn |-> io'.fn, at |-> io'.at, codes |-> io'.codes, down |-> io'.down,
                moves |-> io'.moves, got |-> io'.got]
    BY <2>6
  <2>11. io'.codes \in Seq(Nat) /\ io'.moves \in Seq(Movement) /\ io'.down \subseteq KeyCodes
    BY <1>3, <2>1, <2>6
  <2>12. KeyInv'
    BY <1>1, <2>6, <2>8, <2>9, <2>10, <2>11 DEF KeyInv
  <2>13. QED  BY <1>1, <2>6, <2>12, KeyStepKeeps
<1>7. QED  BY <1>5, <1>6

-----------------------------------------------------------------------------
(* All calls.                                                                *)

LEMMA DevicesStart == DevicesInit => DevicesInv
<1> SUFFICES ASSUME DevicesInit  PROVE DevicesInv
  OBVIOUS
<1>1. /\ io = NoIo /\ clock = 0 /\ ata = AtaIdle /\ wanted = medium
      /\ medium = [b \in BlockNumbers |-> BlockOf(0, b)]
  BY DEF DevicesInit, BlockNumbers
<1>2. io.fn = "none"
  BY <1>1 DEF NoIo
<1>3. /\ ata.busy = FALSE /\ ata.cmd = "none" /\ ata.block = 0 /\ ata.data = <<>>
      /\ ata = [busy |-> ata.busy, cmd |-> ata.cmd, block |-> ata.block, data |-> ata.data]
  BY <1>1 DEF AtaIdle
<1>4. medium \in [BlockNumbers -> Block]
  <2>1. \A b \in BlockNumbers : BlockOf(0, b) \in Block
    BY WordsAreData DEF BlockNumbers
  <2>2. QED  BY <1>1, <2>1
<1>5. ~Writing /\ AtRest /\ \A b \in BlockNumbers : Settled(b) = wanted[b]
  BY <1>1, <1>3 DEF Writing, AtRest, Settled
<1>6. DiskTypes
  <2>1. ata.block \in BlockNumbers /\ ata.data \in Seq(Datum)
    BY <1>3, EmptySeq, DeviceSizes DEF BlockNumbers
  <2>2. QED  BY <1>1, <1>3, <1>4, <1>5, <2>1 DEF DiskTypes
<1>7. DiskInv
  BY <1>2, <1>5, <1>6 DEF DiskInv, InDiskCall
<1>8. ClockInv
  BY <1>1, <1>2, ClockSizes DEF ClockInv, ClockCall
<1>9. KeyInv
  BY <1>2 DEF KeyInv
<1>10. QED  BY <1>1, <1>2, <1>7, <1>8, <1>9 DEF DevicesInv, Calls

LEMMA CallEnded ==
  ASSUME DevicesInv, EndCall
  PROVE  DevicesInv'
<1>1. io.at = "done" /\ io' = NoIo /\ clock' = 0 /\ UNCHANGED <<ata, medium, wanted>>
  BY DEF EndCall
<1>2. io'.fn = "none" /\ ~InDiskCall /\ DiskInv
  BY <1>1 DEF NoIo, InDiskCall, DevicesInv
<1>3. DiskInv'
  BY <1>1, <1>2, DiskUnnoticed
<1>4. ClockInv' /\ KeyInv'
  BY <1>1, <1>2, ClockSizes DEF ClockInv, ClockCall, KeyInv, Day
<1>5. QED  BY <1>1, <1>2, <1>3, <1>4 DEF DevicesInv, Calls

LEMMA DevicesRest ==
  ASSUME DevicesInv, UNCHANGED deviceVars
  PROVE  DevicesInv'
<1>1. io' = io /\ clock' = clock /\ ata' = ata /\ medium' = medium /\ wanted' = wanted
  BY DEF deviceVars
<1>2. ClockInv' = ClockInv
  BY <1>1 DEF ClockInv, ClockTypes, DateRead, ChangeSeen, AllShown, SecondSince, SecondOfHour, Shown
<1>3. KeyInv' = KeyInv
  BY <1>1 DEF KeyInv
<1>4. DiskInv' = DiskInv
  BY <1>1 DEF DiskInv, DiskTypes, DiskCallTypes, InDiskCall, DiskInCall, BlocksSoFar, WordsMoved,
              WordsWritten, WordsRead, Left, AtRest, Settled, Writing
<1>5. QED  BY <1>1, <1>2, <1>3, <1>4 DEF DevicesInv

LEMMA DevicesKeep == DevicesInv /\ [DevicesNext]_deviceVars => DevicesInv'
<1> SUFFICES ASSUME DevicesInv, [DevicesNext]_deviceVars  PROVE DevicesInv'
  OBVIOUS
<1>1. CASE CallClock("timer_rtc") \/ CallClock("estimate_freq")
  BY <1>1, ClockCalled DEF ClockCall
<1>2. CASE \E b, n \in 0 .. Blocks, v \in 1 .. 2 : n > 0 /\ disk_blkio(b, n, "write", v)
  <2>1. PICK b \in 0 .. Blocks, n \in 0 .. Blocks, v \in 1 .. 2 : n > 0 /\ disk_blkio(b, n, "write", v)
    BY <1>2
  <2>2. b \in Nat /\ n \in Nat \ {0} /\ v \in Nat
    BY <2>1, DeviceSizes
  <2>3. QED  BY <2>1, <2>2, DiskCalled
<1>3. CASE \E b, n \in 1 .. Blocks : disk_blkio(b, n, "read", 0)
  <2>1. PICK b \in 1 .. Blocks, n \in 1 .. Blocks : disk_blkio(b, n, "read", 0)
    BY <1>3
  <2>2. b \in Nat /\ n \in Nat \ {0} /\ 0 \in Nat
    BY DeviceSizes
  <2>3. QED  BY <2>1, <2>2, DiskCalled
<1>4. CASE \E b \in 0 .. Blocks - 1 : read_disk(b)
  <2>1. PICK b \in 0 .. Blocks - 1 : disk_blkio(b, 1, "read", 0)
    BY <1>4 DEF read_disk
  <2>2. b \in Nat /\ 1 \in Nat \ {0} /\ 0 \in Nat
    BY DeviceSizes
  <2>3. QED  BY <2>1, <2>2, DiskCalled
<1>5. CASE \E k \in KeyCodes, down \in BOOLEAN : KeyMoves(k, down)
  BY <1>5, KeyMoved
<1>6. QED
  BY <1>1, <1>2, <1>3, <1>4, <1>5, Ticked, RegisterRead, DateChecked, SecondTaken,
     SecondAndMinuteRead, SecondsCounted, KeyboardCalled, KeyPolled, DiskMoves, DiskAwaited,
     Commanded, WordWritten, WordRead, CallEnded, DevicesRest DEF DevicesNext

LEMMA InvIsExact == DevicesInv => DevicesExact
<1> SUFFICES ASSUME DevicesInv  PROVE DevicesExact
  OBVIOUS
<1>1. TimesTrue
  <2>1. ASSUME Done("timer_rtc")  PROVE \A reg \in Registers : io.got[reg] = Shown(reg)
    <3>1. DateRead /\ io.at = "done"
      BY <2>1 DEF DevicesInv, ClockInv, Done
    <3>2. AllShown /\ Len(io.got) = 3
      BY <3>1 DEF DateRead
    <3>3. QED  BY <3>2 DEF AllShown, Registers
  <2>2. ASSUME Done("estimate_freq")  PROVE SecondOfHour - io.t1 = io.since
    BY <2>2 DEF DevicesInv, ClockInv, ChangeSeen, Done
  <2>3. QED  BY <2>1, <2>2 DEF TimesTrue
<1>2. BlocksExact
  <2>1. DiskTypes /\ DiskInv
    BY DEF DevicesInv, DiskInv
  <2>2. io # NoIo => io.at # "wrong"
    <3>1. io.fn = "timer_rtc" => io.at # "wrong"
      BY DEF DevicesInv, ClockInv, DateRead
    <3>2. io.fn = "estimate_freq" => io.at # "wrong"
      BY DEF DevicesInv, ClockInv, ChangeSeen
    <3>3. io.fn = "disk_blkio" => io.at # "wrong"
      BY <2>1 DEF DiskInv, DiskCallTypes
    <3>4. io.fn = "input_keybrd" => io.at # "wrong"
      BY DEF DevicesInv, KeyInv
    <3>5. QED  BY <3>1, <3>2, <3>3, <3>4 DEF DevicesInv, Calls, ClockCall
  <2>3. ASSUME ~ata.busy, ~InDiskCall  PROVE medium = wanted
    <3>1. ~Writing /\ \A b \in BlockNumbers : Settled(b) = wanted[b]
      BY <2>1, <2>3 DEF DiskInv, Writing
    <3>2. \A b \in BlockNumbers : medium[b] = wanted[b]
      BY <3>1 DEF Settled
    <3>3. QED  BY <2>1, <3>2 DEF DiskTypes
  <2>4. io.fn = "disk_blkio" => io # NoIo
    BY DEF NoIo
  <2>5. QED  BY <2>2, <2>3, <2>4 DEF BlocksExact, InDiskCall
<1>3. KeysTrue
  <2> SUFFICES ASSUME io.fn = "input_keybrd"
               PROVE  /\ \A n \in DOMAIN io.got :
                           io.got[n] = IF n \in DOMAIN io.moves THEN io.moves[n] ELSE KeyEvent(FALSE, AM_KEY_NONE)
                      /\ io.at = "done" => Len(io.got) = Len(io.moves) + 1
    BY DEF KeysTrue
  <2>1. KeyInv
    BY DEF DevicesInv
  <2>2. io.moves \in Seq(Movement) /\ io.got \in Seq(Movement)
    BY <2>1 DEF KeyInv
  <2>3. DOMAIN io.got = 1 .. Len(io.got) /\ DOMAIN io.moves = 1 .. Len(io.moves)
        /\ Len(io.moves) \in Nat
    BY <2>2, LenProperties
  <2>4. \A n \in 1 .. Len(io.got) : n \in 1 .. Len(io.moves) <=> n <= Len(io.moves)
    <3> DEFINE m == Len(io.moves)
    <3>1. m \in Nat
      BY <2>3
    <3> HIDE DEF m
    <3>2. \A n \in 1 .. Len(io.got) : n \in 1 .. m <=> n <= m
      BY <3>1
    <3>3. QED  BY <3>2 DEF m
  <2>5. QED  BY <2>1, <2>3, <2>4 DEF KeyInv
<1>4. QED  BY <1>1, <1>2, <1>3 DEF DevicesExact

\* A call of a driver that has returned did what it is for, however the clock,
\* the disk and the keyboard move meanwhile, for any size of the disk and its
\* blocks, any keys and any length of minutes and hours (am/src/x86/qemu/ioe.c).
THEOREM DevicesAreExact == DevicesSpec => []DevicesExact
<1>1. DevicesSpec => []DevicesInv
  BY DevicesStart, DevicesKeep, PTL DEF DevicesSpec
<1>2. QED  BY <1>1, InvIsExact, PTL
=============================================================================
