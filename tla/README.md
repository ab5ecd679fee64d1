# A TLA+ development of linux-cpu

This directory holds TLA+ models of the processors of this repository, of the
simulator that runs them and of the abstract machine (AM) whose programs they
run, the TLC configurations that check the models, and TLAPS proofs of their
main properties. Paths are relative to the repository's root (`src/` here);
`AM/` stands for `abstract-machine/`.

## 1. The system

| Part | State | Operations | Talks to |
|---|---|---|---|
| rv64 pipeline, `IP/rv64/linux_cpu/core`, `top_cpu.v` | pc; the registers of fetch, decode, execute, memory and write back; register file | a rising edge with `rst` high, one with `rst` low | icache (its word, its stall and bubble inputs), memory and program through DPI calls, the simulator through `commit*`, `cur_pc` |
| instruction cache, `IP/rv64/linux_cpu/cache/icache.v`, `IP/rv64/cache-cpu/icache.v` | lines by set and way, output register | hit in either way, miss and fill, stall, bubble | fetch stage, `dpi_instr_mem_read` |
| rv32 single-cycle processor, `IP/rv32/single-cycle-cpu` | pc, register file, four CSRs | one instruction per edge, reset | memory through DPI calls |
| simulator, `simulator/src` | `sim_state`, the Verilated design, guest memory, the reference | `init_simulator`, `cpu_exec`, `execute`, `difftest_step`; image loading and the DPI memory functions | design, reference (a shared object not in the repository) |
| handshake, `IP/rv64/ready-valid` | valid and data of three stages | a clock edge | – |
| libraries, `AM/klib`, `AM/am/src/riscv/npc/libgcc` | arguments and locals | strings, formatting, 64-bit arithmetic for 32-bit processors | programs, the compiler |
| x86 platform, `AM/am/src/x86/qemu` | contexts, page tables, per-processor tables, ioapic, boot record, disk, display | traps, protect/map/unprotect, boot of several processors, halt, boot loader, device registers | programs (handlers, allocator), each other (interrupts between processors) |
| native platform, `AM/am/src/native` | a host process per processor: signals, mappings, shared data | signals as traps, mappings by lists and mmap, start, fork, exit | the host's kernel |
| spike platform, `AM/am/src/riscv/spike` | mailboxes `tohost`, `fromhost`, a spin lock, the keyboard's slot | getchar, putchar, system calls, power off | the host, the other harts |
| npc and nemu platforms, `AM/am/src/riscv/npc`, `AM/am/src/platform/nemu` | device tables | `ioe_init`, `ioe_read`, `ioe_write`, `halt` | devices |
| older or unfinished processors (`pipeline_cpu`, `rv32I-pipeline-cpu`, `single-cycle-cpu-master`, `TaoShuRV`, `mmu_cpu`, `linux_cpu/priv`) | | | |

What is hard here, and what the properties are for:

* **Overlap.** Five instructions are in flight and every edge moves all of them.
  Correctness is that nobody can tell: operands are those of a sequential
  execution, wrong-path instructions leave no trace, stalls end.
* **Agreement of separately written registers.** `pc.v`, `fetch.v`, `regD.v` and
  the cache each interpret stall and bubble on their own, with different
  priorities.
* **Stale copies.** A cache line must stay a copy of the block its tag names; a
  page table or a list of mappings must stay the function its calls describe.
* **Order of observation.** The simulator reads the commit record one clock before
  the registers it belongs to, waits for commits without a limit, and stops at
  ebreak with younger instructions in the pipeline.
* **Traps within traps.** Every entry has a window with interrupts on, and a
  handler may return to another thread than it came from.
* **Several processors, processes, harts.** They boot through static storage they
  share, stop each other, exit while others are being forked, and poll one mailbox.
* **Devices that move on.** A clock is read register by register while it runs, a
  disk takes words only while it is not busy.
* **Arithmetic at the edges.** Division by hand of the sign, the highest word,
  equal words; overlapping areas; clipping at the border of the display.
* **Back-pressure.** In the handshake every stage waits for both neighbours.

`PROJECT.json` lists each hazard at its line with the property that covers it,
or the reason why none does.

## 2. Modules

```
processors and simulator
  RvIsa                         words, decoded instructions, DPI memory
   ├─ SingleCycleCpu            rv32 processor = the sequential specification
   │   └─ SingleCycleTrap       + history of traps ── SingleCycleProofs
   ├─ PipelineCore              linux_cpu's pipeline, one action per kind of edge
   │   └─ PipelineCorrect       refinement mapping, invariants (INSTANCE SingleCycleCpu)
   │       ├─ PipelineProofs
   │       └─ CachedCpu         pipeline with ICache in its fetch stage
   │           └─ Simulator     clock loop, reference (INSTANCE SingleCycleCpu), verdict
   │               └─ SimulatorProofs        (EXTENDS PipelineProofs, INSTANCE ICacheProofs)
   └─ ICache                    instruction cache with the core as environment
       └─ ICacheProofs
  Fifo ── Handshake ── HandshakeProofs   (model-checked within Machines)
abstract machine, one caller at a time                composed in AbstractMachine
  Int64 ── LibGcc               64-bit and multi-word arithmetic
  Klib                          strings, memory, formatting
  Loader ── QemuProofs          x86 boot loader
  QemuDevices ── QemuProofs     x86 drivers: clock, disk, keyboard
  QemuDisplay                   x86 drawing: pictures and trees of canvases
  IoeTables                     device tables of four platforms
  AddressSpaces                 what am.h promises of address spaces
   ├─ PageTables ── QemuProofs  implemented by x86 page tables
   └─ NativeVme ── NativeProofs implemented by lists, mmap and munmap
  NativeTraps ── NativeProofs   traps and contexts as signals of the host
abstract machine, concurrent                          composed in Machines
  Traps ── QemuProofs           x86 traps and contexts under yield-os' scheduler
  QemuBoot ── QemuProofs        x86 processors: boot, start of the others, halt
  NativeBoot ── NativeProofs    native platform: constructor, fork, exit
  Htif ── HostProofs            spike: harts, mailboxes, host
  GuestMemory ── HostProofs     the simulated npc's memory, image and stores
MCIsa, MC*                      small instances
```

How state and actions correspond to the code:

* **PipelineCore.** One record per row of registers: `F` is `fetch.v`'s registers with
  the cache's output, `D`, `E`, `M`, `W` are the registers of `regD.v` to `regW.v`,
  `pc` is `pc.v`, `regs` the register file and `dmem` the simulator's memory. A
  record holds its stage's `commit_info` in `ci`. The combinational modules are
  operators (`AluResult`, `NeedJump`, `Operand`, `LoadUse`, ...) named after
  their outputs. `ResetClock` is the one clock of `npc_reset(1)` and `Edge(instr)`
  every other rising edge; the parameter is the word the instruction memory
  delivers, which `Clock` takes from the program and `CachedCpu` from the cache.
  Non-blocking assignments become one simultaneous update.
* **SingleCycleCpu.** The variables are the registers of `PCU.v`, `REGU.v` and
  `CSR.v`; the operators `ValA` ... `ValW` are the wires of that name.
* **ICache.** `cache[set][way]` is a record of valid, tag and data. `FillWays` is
  the choice of way on a miss: `{0}` in linux_cpu, `$random % 2` in cache-cpu.
* **Simulator.** One action for what the single thread does between two tests of
  `dut.commit`. `main` calls `cpu_exec` once with `UINT64_MAX`, so the loop never
  returns for lack of instructions. The reference is modelled from how `difftest.c`
  uses it: a sequential processor with registers and memory of its own.
* **Handshake.** The code leaves `ready_go` open (`xxx`); the model lets each stage
  take any time and keep `ready_go` once it is done with an item, as `tmp.v`
  describes the signal.
* **Int64, LibGcc, Klib.** A function of C is an operator of the same name; a loop is
  a recursive function or operator over its locals. The division of `__udivmoddi4` is a state
  machine with an action per turn of its loop, so that its loop invariant can be
  stated. Words have `W` bits and lose what leaves them. Buffers are sequences of
  cells, pointers are offsets, so that areas overlap as they do in C. Variadic arguments
  are words behind the named arguments, and a `Target` says how many of them `va_arg` takes for
  the `uint64_t` of `%u` and whether in an even place (the calling conventions of riscv64 and
  x86_64, i386, riscv32, from the compiler and not from the repository). `snprintf` panics, and
  the call never returns, as in the code; the native platform uses the host's.
* **Loader.** A byte of memory holds the place of the disk it was copied from; one
  action for the argument, one for the header, one per segment.
* **QemuDevices.** `io` is the call with its place and locals, an action per access to the device.
  The clock, the disk's controller and the keyboard have actions of their own that
  come in between.
* **QemuDisplay.** A call draws at once on a dark display; `fb` is an array of pixels as in the
  code, so that what leaves a row at the right lies in the next. A tree with an invalid
  node, or whose buffers are more than `VbufPixels`, panics before its root is drawn.
* **IoeTables.** A platform's `lut` maps registers to what the handler does with the caller's
  structure (fills it, takes it, panics, ...), which `ioe_init` completes.
* **AddressSpaces, PageTables, NativeVme.** The abstract specification knows partial
  functions and what user code sees. In `PageTables` `mem` holds the
  entries of every frame and `used` the frames given out; a walk (`ptwalk`) allocates as
  the code does, a release (`teardown`) goes down level by level by the entries the code follows. In `NativeVme` each space has its list head and
  its nodes with `next` and `is_mapped`, and `host` is what the host has mapped. A call
  of the abstract machine is one action.
* **Traps, NativeTraps.** A trap is cut where an interrupt may come in: delivery, the entry
  (`__am_irq_handle` with the client's scheduler in it), the return (`__am_iret`).
  A context is its thread's stack of frames, with `cr3` and `rsp0` (x86), or `vm_head` and
  `ksp` (native).
* **QemuBoot, NativeBoot, Htif.** `pc`, `proc` or `at` says where each processor, process
  or hart is; an action is one access to what they share. In `Htif` the spin lock is
  its read and its swap, a mailbox access is a step, and the host takes, answers and
  forwards keys at any time.
* **GuestMemory.** `pmem` are the bytes of the array and of the host behind it, `stored` what a
  program may expect at each address; loads read as wide as `memory.v` does. A word is
  the vector of its bytes, lowest first.

### Composition

`CachedCpu` and `Simulator` compose what interacts, step by step. `AbstractMachine` and
`Machines` put parts side by side that share no state: a variable (`service`,
`machine`) chosen in the initial state says which part runs, and the others keep theirs.
The states explored are then the sum of the parts', not their product, and
no behaviour is lost, since no action of one part reads or writes a variable of another.
Properties of a part are checked over all behaviours of the composition; the fairness of a
part is required where that part runs.

### Abstractions

* Instructions are decoded records. A class is one of the `inst_*` wires, `fn`
  stands for func3 and func7, and `rd`, `rs1`, `rs2` are there in every
  instruction, used or not, because `ctrl.v` and `decode.v` look at them in every
  instruction.
* What an operation of the processors computes (`Alu`, `Taken`, `LoadExt`, `StoreMerge`) is a
  constant function. The proofs hold for each of them; the runs use a small one.
* In the processors' modules memory is one cell per address and the program is not in it;
  byte order, overlap and the ends of memory are `GuestMemory`'s subject.
* All registers start at 0 unless the code initialises them, as the build's
  `--x-initial fast` makes them. Reset comes once, at the start.
* In the rv32 core `dpi_ebreak` is not modelled: it changes no state of the
  processor.
* The contents of descriptors, gates and messages are reduced to what decides control: privilege,
  interrupt flag, vector, device, command.

## 3. What the runs check

| Run | Question | Properties |
|---|---|---|
| `single_cycle` | traps, CSRs and x0 on five-instruction programs (225k states) | `RegisterZeroIsZero`, `TrapReturnsPastEcall` |
| `pipeline` | every program of four from ten instructions chosen for data hazards, and with jumps forward, back and through registers (438k) | `PipelineInv`, `OperandsAreArchitectural`, `CommitPrePcIsNext`, `BubblesAreInert`, `RefinesSequential`, `StallLastsOneClock`, `CommitsForever` |
| `icache_aligned` | the cache alone, any sequence of stalls, bubbles and jumps to line boundaries, either way filled (908) | `LinesHoldMemory`, `DeliversFetchedWord` |
| `cached_cpu` | pipeline and cache together (274k) | `RefinesSequential`, `DrivesTheCache` |
| `simulator` | simulator, processor and reference (21k) | `DifftestNeverFails`, `StopsExactlyAtEbreak`, `EbreakEndsTheRun` |
| `abstract_machine` | the services of one processor (637k) | see below |
| `machines` | the concurrent parts, the handshake among them (189k) | see below |

**Processors.** 3 registers, 5-bit words, 2 sets of 2-word lines. Three registers give
x0 and two registers to create every pattern of dependence between three
instructions in flight; four or five instructions are as many as the pipeline
holds between fetch and write back. *All* programs of that length over the named
instructions are checked, followed by a jump to itself. 5-bit words let the pc wrap
around. `RefinesSequential` is the central property: `ArchPc` is the address of the oldest
instruction that has not left the memory stage, `ArchRegs` is the register file
with the pending write of write back done, and `dmem` is the memory itself; an
edge at which an instruction leaves the memory stage is a step of `SingleCycleCpu`,
every other edge a stutter. The pipeline executes system instructions as no
operation, so its programs contain no ecall, mret or CSR instruction
(`NoSystemAssumption`). `icache_aligned`, `cached_cpu` and `simulator` are about programs
that enter a line only at its first word; they hold under that restriction and no
wider one, as the violations below show. The cache instance has three blocks,
two of which share a set, so that each way is filled, hit and evicted. The restriction
is stated as named operators, which `MCICache` and `MCCachedCpu` assume of their
instances and the theorems take as hypotheses (section 4): `AlignedJumps`, `CacheFits` and
`LineProgramsOnly`.

**abstract_machine.**

| Part, properties | Instance | Why it is enough |
|---|---|---|
| Int64, LibGcc: `IntegersExact` (loop invariant of the division, results against arithmetic) | `W = 4`: words of 4 bits, all 256 dividends, 25 divisors | the divisors lie on both sides of every boundary the code tests (powers of two, high word zero or not, low word zero or not, the sign); the code's branches depend on nothing else |
| Klib: `StringsExact` against reference definitions | buffers of 4 characters over 3 values, every content, every pair of offsets and lengths; numbers of 8 bits; formats of up to three conversions; `BUF_SIZE` 8; three targets | all overlaps of two areas, terminator at each place; the smallest integer, one to three digits. Formats with `%u` are left out on 32-bit targets (see `klib_unsigned`), and for `printf` results its buffer does not hold |
| Loader: `SegmentsInPlace` | sectors of 3 bytes, files of up to two of 500 segments (`MaxSegments`) | segments that begin and end inside, at and across sectors, with and without a cleared part, and the empty one of a header such as GNU_STACK. Proved for any sizes and files |
| QemuDevices: `DevicesExact` | minutes of 3 seconds, hours of 2 minutes, 2 blocks of 2 words, `KeyBound` 4 movements | the clock's carry between any two reads, disk busy for any time. Proved for any of them |
| QemuDisplay: `PicturesExact` | 4 × 3 pixels, trees of up to two textures, nested once, `VbufPixels` 15 | clipping and scaling at each border; a buffer just full and one too small; invalid nodes |
| IoeTables: `PresentDevicesServed` | the four tables as they are | no bound |
| PageTables: `TablesSound`, `ImplementsAddressSpaces` | 2 levels of 2 entries, 1 shared, 2 spaces, 6 frames | frames run out, are given back and used again by the other space while it is loaded. Proved for any number |
| NativeVme: `ListsHoldAllMappings`, `NativeImplementsAddressSpaces` | 2 spaces, 3 addresses, 2 pages, `Pool` of 5 pages (nothing gives one back) | lists of up to three, taken down and protected again. Proved for any number |
| NativeTraps: `ThreadRunsInItsSpace`, `EventIsTheOneTaken` | one kernel thread, two user threads, the boot context | a switch between any two kinds of context |

`ImplementsAddressSpaces` and `NativeImplementsAddressSpaces` say two things each: the
detailed module implements `AddressSpaces` under the mapping that walks tables or lists, and
each call maps to the abstract call of the same arguments, not to just any step that
the abstract specification would allow. The run does not check for deadlock: a program
may use up its pages, and a call is the last.

**machines.**

| Part, properties | Instance | Why it is enough |
|---|---|---|
| Traps: `UserRunsInItsSpace`, `NestingBounded`, `EveryThreadRuns` | one kernel thread, two user threads with a space each, the boot context | every order of two kinds of thread in the ring; an interrupt in every window |
| QemuBoot: `BootSafe`, `StartsAndHalts` | `Ncpu = 3`, `MaxHalts = 2` | one processor running, one on its way, one off; two that halt at a time. `BootSafe` is proved for any number |
| NativeBoot: `RunsOnAMachine`, `StartsAndEnds` | `CpuCount = 3` processes | an exit before, during and after each fork, any fork failing, `__am_has_ioe` set or not |
| Htif: `HtifExact`, `CallsReturn` | two harts, `MaxCalls = 3` in all, `MaxKeys = 2` | each kind of call against each other, a key before, during and after a call. `HtifExact` is proved for any number |
| Handshake: `RefinesFifo`, `KeepsDelivering` | three stages, three different items (5.6k states) | as many items as the stages hold; a stage may take any time. `RefinesFifo` is proved for any set of items |
| GuestMemory: `GuestMemoryExact` | 5 bytes of one bit, accesses of 1, 2 and 4 bytes, stores of the words in `Values`, images shorter and longer than the built-in one | every overlap of accesses of two widths; reads beyond the end of the array. Proved for any number |

This run does not check for deadlock either: halted machines stop, and bounded numbers of calls,
keys and halts end.

Five runs find the code to do something else than its comments or checks say:

* `simulator_mid_line` (`DifftestNeverFails`): a miss fills the line from `pc` on
  instead of from the line's first word (`icache.v:23-24`). After a jump to the
  middle of a line, a later fetch gets a word of the next block, and `checkregs`
  ends the simulation.
* `icache_random_way` (`LinesHoldMemory`): in cache-cpu `$random % 2` ("generates 0 or
  1") is signed. A write to way -1 is out of range; where the build drops it, the
  next word misses in the middle of the line, with the same effect.
* `simulator_trap` (`GoodTrapMeansCodeZero`): `halt_ret` is never written, so every run
  that reaches ebreak is announced as a good trap, whatever code the guest's `halt`
  left in a0.
* `native_remap` (`ListsHoldAllMappings`): mapping a page of a native address space a
  second time links its node a second time; the list becomes a cycle or loses nodes. The
  passing run has `Remaps = FALSE`: its client maps a page once per space.
* `klib_unsigned` (`UnsignedAsPassed`): `%u` takes a `uint64_t` (`stdio.c:48`) and keeps its
  lower half. On 32-bit targets that is two words of arguments: on i386 the conversions behind
  a `%u` read one word too far, on riscv32, which looks for a pair in an even place, `%u` itself
  may print the argument behind its own, as in coremark's `"[%u]ERROR! list crc 0x%04x ..."`
  (`core_main.c:274`). On 64-bit targets it is right, which `StringsExact` checks.

### Fairness

* Pipeline and CachedCpu: weak fairness of the next-state action. The simulator
  clocks the design in a loop; nothing else can stop the clock.
* Simulator: weak fairness of its single thread. It stops for good at ebreak or at
  a difference, so its runs do not check for deadlock.
* Handshake: the clock runs, and each stage finishes its item eventually
  (`WF_vars(Next /\ ready_go'[s])`). The code does not say what the stages do; without
  this no pipeline delivers.
* Traps: the processor runs entries and returns to their end; the timer is periodic; code
  of the kernel that turned interrupts off turns them on again (`iset(TRUE)`). Delivery of a pending
  timer interrupt is strongly fair: it is enabled again and again, whenever interrupts are
  on, but not continuously, and code between `sti` and the next `cli` is longer than one
  instruction. Threads themselves are not fair: they may compute, yield or fault as they like.
* QemuBoot, NativeBoot: each processor, or process of the host, runs on (weak fairness of
  its own steps). Calls of `halt` are not fair; whether a program ends is its own affair.
* Htif: each hart runs on, and the host polls its mailbox, answers and forwards keys
  (weak fairness of each). Calls and typing are not fair. Nothing is assumed of
  the lock: that every hart gets it follows from the bound on the calls, not from the
  lock's fairness, which it does not have.

## 4. What is proved

All theorems hold for every value of the constants under the named assumptions: any
number of registers, any word size, any program in which no instruction lies at address
0, any arithmetic, any number of processors, processes and threads.

| Assumption | Says | Why the code justifies it |
|---|---|---|
| `SizesAssumption`, `DataPathAssumption`, `PowerOnAssumption`, `CsrAssumption`, `SystemAssumption`, `DataAssumption` | what kind of thing each constant is | widths and types of the code |
| `NoSystemAssumption` | the pipeline's programs have no ecall, mret or CSR instruction | it has none of them |
| `CacheSizes` | lines and sets are not empty, ways and jump targets are what they should be | the parameters of `icache.v` |
| `AlignedJumps` | lines divide the address space; reset and the jump targets are first words of lines | sizes are powers of two, `0x80000000` is a line's first word; for jumps see the next row |
| `JumpsToLineBases`, `LineProgramsOnly` | of the behaviour, or of the program's text: it jumps only to the jump targets, first words of lines | a restriction of the programs, which the code needs: a line begins at the pc that missed (`icache.v:23-24`). The theorems about cache and simulator are conditional on it, and the run `simulator_mid_line` shows a program outside it for which they fail |
| `CacheFits` | `CacheSizes`, `AlignedJumps`, and a miss fills way 0 or 1 | `icache.v:51` of linux_cpu; for cache-cpu see the run `icache_random_way` |
| `QemuBootAssumption`, `NativeBootAssumption` | there is a processor | |
| `LoaderAssumption` | the areas of argument and header are whole sectors and do not overlap; a segment has no more bytes in the file than in memory, and one of none begins with a sector | the constants of `main.c`; ELF; the headers that are not to be loaded, such as GNU_STACK, are all zeros |
| `QemuDevicesAssumption` | a minute has more than one second, a block of the disk words; the code of a key is not 0 and leaves the bit of a release clear | the clock, sectors of 512 bytes; scan codes have 7 bits, and 0 stands for no key |
| `PageTablesAssumption` | there are levels, entries and pages to map; the client's frames are finitely many, none is the null pointer, and none is a page it maps for users | the tables of `mmu`; `pgalloc` and the pages of users are the client's |
| `GuestMemoryAssumption` | a word has at least two bytes; images fit into memory | `word_t` is 64 bits; `load_img` reads the whole file, and one that is larger than the array is the user's error |
| `NativeVmeAssumption` | there are finitely many pages, and a null pointer is none of them | C |
| `~Remaps` (hypothesis of two theorems) | the client maps a page of a space once | a restriction of the clients, which the code needs: the run `native_remap` shows what happens without it |
| `TrapsAssumption`, `NativeTrapsAssumption` | a thread is made by `kcontext` or by `ucontext`, the boot context by neither; a user thread has a space | `kcontext` and `ucontext` return a context each, `ucontext` takes an `AddrSpace *` |

* **PipelineProofs.** `TypeCorrect`; `PipelineInvariant` (`Spec => []PipelineInv`); from
  it `OperandsCorrect`, `CommitRecordsCorrect`, `BubblesInert`, `StallsAreShort` and
  `Refinement` (`Spec => RefinesSequential`). None of the properties is inductive alone:
  that a result is right needs the operands to be right, which needs the
  producers still in flight to hold what they will write, and the stages to be in
  program order without gaps. `PipelineInv` says this stage by stage: each
  stage holds the control bits of the instruction at its pc
  (`StagesHoldTheirInstructions`), successive stages hold successive instructions
  (`InProgramOrder`), execute has the operands its elders will leave
  (`OperandsAreArchitectural`), and the memory stage agrees with the wires of the
  sequential machine (`MemoryStageIsSequential`). `NothingBehindALink` covers the
  missing bypass of a link address. The proof splits an edge into its modes (stall, jump,
  neither), shows how `ArchRegs`, `PendingPc` and `PendingRegs` shift
  in each, and has one lemma per conjunct. `Refinement` then shows that an edge with a
  commit in the memory stage is `Seq!Clock` and any other one a stutter.
* **SingleCycleProofs.** `TypeCorrect`, `RegisterZero`, `TrapReturns`, from `TrapInv`: types, x0 is 0,
  and `mepc` equals the recorded return address as long as the program
  has not written it.
* **HandshakeProofs.** `TypeCorrect`, `SourceIsNeverDry` and `Refinement` (`Spec =>
  RefinesFifo`): each edge puts, gets, does both or neither on the queue of held items.
* **QemuProofs, the start.** `BootIsSafe` (`BootSpec => []BootSafe`), for any number of processors
  and of halts. That a processor loads its own descriptor table through a static operand holds only
  because no two boot at a time; that holds because the bootstrap processor waits for
  each one it starts, and because a halt turns the boot record onto itself before it
  interrupts anybody. `BootInv` says so: `Alone` while the boot record is empty, `Starting`
  while it leads to the loader (all processors from the one being started on are off, or
  this one alone is on its way), `Through` afterwards; from these `OneAtATime`, what is
  set up at each place (`SetUpSoFar`), the count of loads (`LoadedByOne`), and whom a
  halting processor has dealt with (`StoppedSoFar`). One lemma per action.

* **ICacheProofs.** `LinesCorrect` (`Spec => []LinesHoldMemory`) and `FetchesCorrect`
  (`Spec => DeliversFetchedWord`), for any number of sets, any length of a line and either
  choice of way. A line is filled from the pc that missed, with the tag of the
  block that pc lies in; the line is a copy of the block only if that pc is the block's
  first address. So the invariant `CacheInv` says where a miss can happen: `InsideALine`, a pc that
  is not at the first word of a line hits. It is kept because a pc inside a line was reached from the
  word before, which hit or was just filled, and because a fill of one set leaves the line just
  read in place. The arithmetic of tag, index and offset (`BlockNumber`,
  `WordOfBlock`, `NextWord`) is proved once, from the uniqueness of division.
* **SimulatorProofs.** First the pipeline with its cache: `CachedRefinement`,
  `CoreFitsTheCache` and `LineProgramsRefine` (`CpuSpec => RefinesSequential` for programs that jump to
  line boundaries). Neither part's invariant can be kept alone: the pipeline
  needs the word the cache delivers to be the program's, the cache needs the pipeline's
  jumps to go to line boundaries, which holds because jumps are those of the sequential machine.
  `CpuInv` is both invariants together, and each edge is an edge of `PipelineCore` with the
  program's word and a step of `ICache`'s environment. Then the simulator:
  `DifftestPasses` (`DifftestNeverFails`), `EbreakStops` (`StopsExactlyAtEbreak`) and
  `LineProgramsSimulate`. `SimInv` adds to `CpuInv` where the reference is (`InStep`):
  at the architectural state of the design, or, while an instruction commits in write
  back that the reference has not executed yet, one instruction behind. The comparison reads registers
  that write back is still to write, and `InStep` is what makes the two agree.
* **QemuProofs, traps.** `SpacesAreKept` (`UserRunsInItsSpace`) and `NestingIsBounded`
  (`NestingBounded`), for any number of threads and spaces. The tables change
  at `__am_iret` and nowhere else, so what a thread runs in is decided by what its frame holds,
  which was saved at its last entry. `TrapInv` therefore says of every waiting thread that its
  saved context has its own space and stack (`InItsSpace`), of each stack of
  frames what it may hold (`Shape`: the trap taken at home, over it an interrupt of that trap's
  entry, nothing else), and how the processor's place and interrupt flag
  go with the frames of the thread it runs (`Running`).
  `TurnIsOfTheRing` shows that the scheduler always picks a thread of the ring that has a context.
* **QemuProofs, the loader.** `ProgramIsInPlace` (`SegmentsInPlace`), for any size of sectors and any
  linked program. The loader writes whole sectors, so more than it was asked to: from the
  sector its buffer begins in to the end of the one its last byte is in. `LoaderInv` keeps argument,
  header and every segment loaded in place, and the step
  rests on two facts of arithmetic: a byte that is written lies in a sector of the new segment
  (`SegmentLoaded`), which by `AsLinked` no older one has a byte in, and the byte of the disk that arrives is
  the one meant, because address and offset agree within a sector.
* **NativeProofs, the start and traps.** `NativeRunsOnAMachine` (`RunsOnAMachine`) for any number of processes: the
  constructor moves the data section to shared memory under its own feet, so `DataKept`
  follows the data through the section and its copy, `Prepared` says what is set up at each
  place, `Forking` and `Children` that whoever leaves the pipe finds every fork tried, and
  has its parent's set-up. Of devices it says only what `mpe_init` does: where
  `__am_has_ioe`, `__am_ioe_init` is called behind the forks and before any entry. Both are
  declared in `mpe.c:5-6` and defined nowhere in the repository, so the flag is arbitrary and the
  call leaves a mark; `ioe_init` (`native/ioe.c:50`) is the program's own call. `SpacesAreSwitched`
  (`ThreadRunsInItsSpace`) and `EventsAreDelivered` (`EventIsTheOneTaken`) for any number of threads: as in
  on x86, but a signal handler keeps one frame per thread, and switches
  the space on the way into the kernel as well.
* **NativeProofs, the address spaces.** `ListsAreKept` (`ListsHoldAllMappings`) and
  `AddressSpacesAreImplemented` (`NativeImplementsAddressSpaces`), for any number of spaces
  and pages, under `~Remaps`. The model walks a list as the code does, link by link, with a recursive
  function. `Chained` says what a list is instead: there is a sequence of distinct
  pages, each linked to the next. Given that sequence, the result of the walk can be
  written down, and a function that satisfies the walk's equations is the walk; so
  `Walked` needs no induction over the list. `NativeVmeInv` adds
  that exactly the pages of the loaded space are marked (`Marked`) and that the host has mapped
  what they say (`HostHas`). The refinement then takes each call to the call of
  `AddressSpaces` with the same arguments; a program that is `stuck` stutters.
* **QemuProofs, page tables.** `TablesAreSound` (`TablesSound`) and
  `PageTablesImplementAddressSpaces` (`ImplementsAddressSpaces`), for any number of levels, entries,
  frames, pages and spaces, and for any contents of the frames at power on. A frame that is
  used says nothing by itself of whose table it is, at which level, or for which addresses;
  `TablesInv` therefore says that there is a function `pos` that tells it of
  every used frame: an owner (a space or the kernel), a level and an address on the way to
  which it lies. With it the tables are a forest (`Forest`): each frame has such a place
  (`TablesPlaced`), no two frames have the same (`One`), an entry that is present
  leads to the frame of the place below it, with the entry's kind the owner's (`Down`), and each frame
  but a root hangs on an entry of the frame above (`Up`). The top-level entries of the
  kernel are `Borrowed` by every space, and lead each of the kernel's addresses to
  itself. The code's walks are recursive over the levels; `StepByStep` and
  `StepsExist` (from well-foundedness) give the one sequence of
  tables such a recursion passes through, and `ReachIs`, `TablesAre` and
  `DescendGoesDown` say what it is in a forest. `ptwalk` lets the forest grow by the
  tables it adds (`LinkedGrows`, `WalkEnds`, `InstallInstalls`) and changes what one address leads to and nothing else
  (`Sees`, `GrownSees`, `WriteSees`); `teardown` takes exactly the trees of its owner away, because it
  follows the entries of user kind (`SoundTables`, `UnprotectSound`). The refinement then
  takes each call to the call of `AddressSpaces` with the same arguments; a panic, and a walk that
  only adds tables, stutters.
* **QemuProofs, devices.** `DevicesAreExact` (`DevicesSpec => []DevicesExact`), for any size of the disk
  and its blocks, any keys and any length of minutes and hours. Each driver reads from a device
  that moves on between two accesses, and `DevicesInv` says per driver what the accesses so far are worth.
  Clock (`ClockInv`): `timer_rtc` takes a date for good if the second it began with is still shown
  after the last register. That is right only because the second has then not changed at all,
  rather than gone around once: `DateRead` says that the second has moved as often as
  the clock since the first register was read, which is less than a minute. `ChangeSeen` says the
  same of the two changes `estimate_freq` waits for, and that they are as far apart as the clock moved, as
  long as it has not fallen back to the start of an hour. Both rest on facts about
  quotients and remainders, proved once (`Division`, `RemainderUnique`, `CountsOn`,
  `NotAround`, `NotFallen`, `MinutesAndSeconds`). That a read takes less than a minute, and a turn of `wait_sec`
  one second at most, are conditions of the module (`TickBound`), not results. Disk (`DiskInv`): a call that writes returns
  while the disk still writes its last block, so the medium differs from what was wanted; `Settled` is
  what a block holds once that is done, `BlocksSoFar` says that it is what was wanted except
  in the blocks the call has left, and `WordsMoved` splits a block into what has passed the
  data register and what has not. The next call finds the disk `AtRest`. Keyboard (`KeyInv`): what was
  moved is what the program got, followed by what the queue decodes to.
* **HostProofs, the console.** `ConsoleIsExact` (`HtifExact`), for any number of harts, calls and keys, as long as no hart
  powers off. The harts share two mailbox registers and a buffer of one key, and a hart
  that polls for its own answer may take another's off the mailbox. `HtifInv` says why none is
  lost: one hart is between lock and unlock (`Locked`), wherever it is there (`HartsPlaced`);
  a system call on its way is in one of three places, and the hart
  that holds the lock waits for it (`OneAnswer`); a key asked for or on its way is in one of
  five, and only while the buffer is empty (`OneKey`), so that storing it overwrites
  nothing; the message a hart takes is the one it has read (`Reading`). From these
  follow what is shown (`Shown`) and the order of the keys (`InOrder`).
* **HostProofs, guest memory.** `GuestMemoryIsExact` (`GuestMemoryExact`), for any base, any width of
  words and any size of memory and images. What a load returns is right because memory is: `GuestInv` adds
  that each cell holds what was put at its address (`Holds`), and that the array
  ends where the widest read from its last byte does.

Only model-checked:

* The liveness properties (`CommitsForever`, `EbreakEndsTheRun`, `KeepsDelivering`,
  `EveryThreadRuns`, `StartsAndHalts`, `StartsAndEnds`, `CallsReturn`): they
  need fairness and `ENABLED`, outside the prover's reach.
* What recursive definitions compute: `IntegersExact`, `StringsExact` and
  `PicturesExact`, whose modules declare or reach recursive operators, or compute with powers of two.
  They would need induction over data.
* `PresentDevicesServed`, whose tables are fixed, so that the run decides it.

## 5. Not modelled

* `pipeline_cpu` is half-way into the handshake and handles no hazards;
  `single-cycle-cpu-master` is incomplete; `mmu_cpu` and `linux_cpu/priv` are stubs;
  `rv32I-pipeline-cpu` and `TaoShuRV` are superseded or kept for reference.
* The context extensions of nemu, mips and loongarch are skeletons of an exercise
  (`kcontext` returns NULL), the one of npc is not complete.
* The native platform's devices (SDL window, sound, disk image) are calls of host
  libraries.
* x86_64's branch of `vme_init` (`x86/qemu/vme.c:95`), which loads the tables that
  `start64.S` has made; `PageTables` builds the kernel's tables as the 32-bit branch does.
  The device interrupts IRQ 1 and 4 of x86: nothing raises them in `Traps`.
* In `NativeTraps` a signal handler is atomic. The handlers' mask (`native/cte.c:134`) lacks
  SIGUSR2, the signal of a yield: delivered together with another, it would nest in that one's
  handler.
* There is no TLB in `PageTables`: `vme.c:149` takes a mapping away without a flush, and
  what the processor does until the next load of cr3 is not in the tables.
* Bit-level decoding is a constant of the models: for instance, `decode.v:126-127`
  recognises srli and srai only for shift amounts below 32.
* `paddr_read` and `paddr_write` are not called; their `in_pmem` (`memory.c:39`) accepts the
  first address behind the memory. `difftest.c`'s skip flags are written and never read.
* `malloc` (never frees) and `rand`, the descriptors' contents and the first instructions
  of `start.S`, macros of `longlong.h` for other processors, logging and disassembly,
  benchmarks and test programs.
* Power off of spike stops the host at once; what other harts do in the meantime is
  excluded from `HtifExact`.

Remarks from modelling that no run is about: linux_cpu's two-way cache only ever fills way
0 on a miss (`icache.v:51`), so that a hit in way 1 does not happen; the lapic's error vector
(`x86/qemu/ioe.c:412`) has no entry of its own, and the common one (`trap64.S:61`) pushes
-1, outside the range that `cte.c:48` acknowledges.

## 6. Plan

Done, in this order: the vocabulary, the sequential machine, the pipeline and its refinement,
the cache, both together, the simulator, the handshake, the proofs; then the
libraries, loader and devices, the address spaces and their two implementations, traps
and contexts, the boots, spike's host interface, guest memory, the compositions, the proof
of the x86 boot; then the proofs of the cache, of the pipeline with its cache, of the
simulator, of traps on both platforms, of the native start, of the loader, of the native address
spaces and their refinement, of spike's console, of the page tables and their refinement, of
the guest's memory, and of the x86 drivers.

What would come next:

1. `Decode`: the bit fields and immediates of `decode.v` at a small width.
2. `rv32I-pipeline-cpu` with its own forwarding and `select_pc`, refined to the same
   sequential machine; TaoShuRV's stages as an implementation of `Handshake`.
3. Proofs about the division of `Int64`: its loop invariant for any width of words, which
   needs the laws of powers of two and of the scans.
