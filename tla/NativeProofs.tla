----------------------------- MODULE NativeProofs ----------------------------
(***************************************************************************)
(* Proofs about the native platform: its processes start the program on a  *)
(* machine that is set up, for any number of processors; signals keep each *)
(* thread in its own space and deliver it the event it was taken for, for  *)
(* any number of threads; and the lists of mappings implement the address  *)
(* spaces of am.h, for any number of spaces and pages.                     *)
(***************************************************************************)
EXTENDS NativeBoot, NativeTraps, NativeVme, SequenceTheorems, FiniteSetTheorems,
        WellFoundedInduction, TLAPS

-----------------------------------------------------------------------------
(* Start and end (NativeBoot).                                               *)

\* Where the first process is before main: while the data is remapped, while
\* the context is made, and where it is with its data shared.
Remapping == {"map memory", "save data", "unmap data", "map shared", "restore data"}
Preparing == {"init", "save context", "disable interrupts"}
Setup == Remapping \cup Preparing
ChildPlaces == {"none", "not forked", "read", "start", "entry", "halt", "gone"}
Places == Setup \cup {"main", "fork", "ioe", "release"} \cup ChildPlaces
Absent == {"none", "not forked", "gone"}

NativeBootTypes ==
  /\ proc \in [Proc -> Places]
  /\ section \in [map : {"private", "none", "shared"}, holds : {"data", "nothing", "zeros"},
                  copy : {"none", "data"}]
  /\ shared \in [heap : BOOLEAN, sigmask : BOOLEAN, example : {"none", "masked", "unmasked"},
                 mpe_init : BOOLEAN, has_ioe : BOOLEAN, ioe : BOOLEAN]
  /\ own \in [Proc -> [altstack : BOOLEAN, masked : BOOLEAN, timer : BOOLEAN,
                       handlers : BOOLEAN]]
  /\ cpuid \in [Proc -> Proc] /\ loop \in 1 .. CpuCount /\ sync \in Nat /\ crashed = FALSE

\* Before the forks there is one process.
OneProcess ==
  proc[0] \in Setup \cup {"main"} =>
    loop = 1 /\ sync = 0 /\ \A c \in Proc \ {0} : proc[c] = "none"

\* The data is in the section, or in its copy until it is restored.
DataKept ==
  /\ proc[0] \in {"map memory", "save data"} => section.holds = "data"
  /\ proc[0] \in Remapping \ {"map memory", "save data"} => section.copy = "data"
  /\ proc[0] = "restore data" => section.map = "shared"
  /\ proc[0] \notin Remapping => section.map = "shared" /\ section.holds = "data"

\* What the constructor has prepared so far.
Prepared ==
  /\ proc[0] \notin Remapping \cup {"init"} =>
       shared.heap /\ shared.sigmask /\ own[0].altstack
  /\ proc[0] \notin Remapping \cup {"init", "save context"} => shared.example = "masked"
  /\ proc[0] \notin Setup => own[0].masked \/ own[0].handlers

\* Once the pipe has a byte, every fork was tried, and __am_ioe_init called
\* where there is one.
AllForked == \A c \in Proc : proc[c] # "none"
Opened == (shared.has_ioe => shared.ioe) /\ AllForked

Forking ==
  /\ proc[0] \notin {"none", "not forked", "read", "start"}
  /\ proc[0] = "fork" => \A c \in Proc : c < loop => proc[c] # "none"
  /\ proc[0] = "ioe" => AllForked
  /\ proc[0] \in {"release", "entry"} \/ sync # 0 => Opened

\* A child has what its parent had at the fork, and its number when it enters.
Children ==
  \A c \in Proc \ {0} :
    /\ proc[c] \in ChildPlaces
    /\ proc[c] \notin Absent => own[c].altstack /\ (own[c].masked \/ own[c].handlers)
    /\ proc[c] \in {"start", "entry", "halt"} => Opened
    /\ proc[c] = "entry" => cpuid[c] = c /\ own[c].timer

NativeBootInv ==
  /\ NativeBootTypes /\ cpuid[0] = 0
  /\ OneProcess /\ DataKept /\ Prepared /\ Forking /\ Children

\* The processes are numbers from zero on.
LEMMA Processes == 0 \in Proc /\ Proc \subseteq Nat /\ \A c \in Proc : c # 0 => c \in 1 .. CpuCount - 1
BY NativeBootAssumption DEF Proc

\* A step that takes the first process to another place leaves the rest
\* where they are.
LEMMA FirstMoves ==
  ASSUME NativeBootTypes, NEW from, NEW to \in Places, Move(0, from, to)
  PROVE  /\ proc[0] = from /\ proc'[0] = to /\ proc' \in [Proc -> Places]
         /\ \A c \in Proc \ {0} : proc'[c] = proc[c]
BY Processes DEF Move, NativeBootTypes

\* The data stays in the section or its copy while the section is remapped.
LEMMA RemappingKeeps ==
  ASSUME NativeBootInv, map_memory \/ save_data \/ unmap_data \/ map_shared \/ restore_data
  PROVE  NativeBootInv'
<1> USE DEF Places, ChildPlaces, Absent, Setup, Remapping, Preparing
<1>1. ASSUME NEW from \in Remapping, NEW to \in Remapping \cup {"init"}, Move(0, from, to),
             section' \in [map : {"private", "none", "shared"},
                           holds : {"data", "nothing", "zeros"}, copy : {"none", "data"}],
             DataKept', cpuid' = cpuid, crashed' = FALSE,
             UNCHANGED <<shared, own, loop, sync>>
      PROVE  NativeBootInv'
  <2>1. /\ proc[0] = from /\ proc'[0] = to /\ proc' \in [Proc -> Places]
        /\ \A c \in Proc \ {0} : proc'[c] = proc[c]
    BY <1>1, FirstMoves DEF NativeBootInv
  <2>2. loop = 1 /\ sync = 0 /\ \A c \in Proc \ {0} : proc[c] = "none"
    BY <2>1 DEF NativeBootInv, OneProcess
  <2>3. NativeBootTypes' /\ cpuid'[0] = 0
    BY <1>1, <2>1 DEF NativeBootInv, NativeBootTypes
  <2>4. OneProcess'
    BY <1>1, <2>1, <2>2 DEF OneProcess
  <2>5. Prepared'
    BY <1>1, <2>1 DEF Prepared
  <2>6. Forking'
    <3>1. proc'[0] \in Remapping \cup {"init"}
      BY <1>1, <2>1
    <3>2. sync' = 0
      BY <1>1, <2>2
    <3>3. QED  BY <3>1, <3>2 DEF Forking
  <2>7. Children'
    BY <1>1, <2>1, <2>2 DEF Children
  <2>8. QED  BY <1>1, <2>3, <2>4, <2>5, <2>6, <2>7 DEF NativeBootInv
<1>2. section \in [map : {"private", "none", "shared"},
                   holds : {"data", "nothing", "zeros"}, copy : {"none", "data"}]
      /\ crashed = FALSE
  BY DEF NativeBootInv, NativeBootTypes
<1>3. CASE map_memory
  <2>1. Move(0, "map memory", "save data") /\ section' = section
    BY <1>3 DEF map_memory
  <2>2. proc[0] = "map memory" /\ proc'[0] = "save data"
    BY <2>1, FirstMoves DEF NativeBootInv
  <2>3. DataKept'
    BY <2>1, <2>2 DEF NativeBootInv, DataKept
  <2>4. cpuid' = cpuid
    BY <1>3, Processes DEF map_memory, NativeBootInv, NativeBootTypes
  <2>5. QED  BY <1>1, <1>2, <1>3, <2>1, <2>3, <2>4 DEF map_memory
<1>4. CASE save_data
  <2>1. Move(0, "save data", "unmap data") /\ section' = [section EXCEPT !.copy = section.holds]
    BY <1>4 DEF save_data
  <2>2. proc[0] = "save data" /\ proc'[0] = "unmap data"
    BY <2>1, FirstMoves DEF NativeBootInv
  <2>3. section.holds = "data"
    BY <2>2 DEF NativeBootInv, DataKept
  <2>4. DataKept'
    BY <1>2, <2>1, <2>2, <2>3 DEF DataKept
  <2>5. QED  BY <1>1, <1>2, <1>4, <2>1, <2>3, <2>4 DEF save_data
<1>5. CASE unmap_data
  <2>1. /\ Move(0, "unmap data", "map shared")
        /\ section' = [section EXCEPT !.map = "none", !.holds = "nothing"]
    BY <1>5 DEF unmap_data
  <2>2. proc[0] = "unmap data" /\ proc'[0] = "map shared"
    BY <2>1, FirstMoves DEF NativeBootInv
  <2>3. DataKept'
    BY <1>2, <2>1, <2>2 DEF NativeBootInv, DataKept
  <2>4. QED  BY <1>1, <1>2, <1>5, <2>1, <2>3 DEF unmap_data
<1>6. CASE map_shared
  <2>1. /\ Move(0, "map shared", "restore data")
        /\ section' = [section EXCEPT !.map = "shared", !.holds = "zeros"]
    BY <1>6 DEF map_shared
  <2>2. proc[0] = "map shared" /\ proc'[0] = "restore data"
    BY <2>1, FirstMoves DEF NativeBootInv
  <2>3. DataKept'
    BY <1>2, <2>1, <2>2 DEF NativeBootInv, DataKept
  <2>4. QED  BY <1>1, <1>2, <1>6, <2>1, <2>3 DEF map_shared
<1>7. CASE restore_data
  <2>1. /\ Move(0, "restore data", "init") /\ crashed' = FALSE
        /\ section' = [section EXCEPT !.holds = section.copy, !.copy = "none"]
    BY <1>7 DEF restore_data, memcpy_libc_temp, OnStack
  <2>2. proc[0] = "restore data" /\ proc'[0] = "init"
    BY <2>1, FirstMoves DEF NativeBootInv
  <2>3. section.copy = "data" /\ section.map = "shared"
    BY <2>2 DEF NativeBootInv, DataKept
  <2>4. DataKept'
    BY <1>2, <2>1, <2>2, <2>3 DEF DataKept
  <2>5. QED  BY <1>1, <1>2, <1>7, <2>1, <2>3, <2>4 DEF restore_data
<1>8. QED  BY <1>3, <1>4, <1>5, <1>6, <1>7

\* Heap, signal stack, mask and example context are there before main.
LEMMA PreparingKeeps ==
  ASSUME NativeBootInv, setup_sigaltstack \/ save_example_context \/ disable_interrupts
  PROVE  NativeBootInv'
<1> USE DEF Places, ChildPlaces, Absent, Setup, Remapping, Preparing
<1>1. /\ loop = 1 /\ sync = 0 /\ \A c \in Proc \ {0} : proc[c] = "none"
      /\ proc[0] \in Preparing /\ section.map = "shared" /\ section.holds = "data"
      /\ UNCHANGED <<section, cpuid, loop, sync, crashed>>
  <2>1. proc[0] \in Preparing /\ UNCHANGED <<section, cpuid, loop, sync, crashed>>
    BY DEF setup_sigaltstack, save_example_context, disable_interrupts, Move
  <2>2. QED  BY <2>1 DEF NativeBootInv, OneProcess, DataKept
<1>2. /\ shared \in [heap : BOOLEAN, sigmask : BOOLEAN, mpe_init : BOOLEAN,
                     has_ioe : BOOLEAN, ioe : BOOLEAN,
                     example : {"none", "masked", "unmasked"}]
      /\ own \in [Proc -> [altstack : BOOLEAN, masked : BOOLEAN, timer : BOOLEAN,
                           handlers : BOOLEAN]]
      /\ 0 \in Proc
  BY Processes DEF NativeBootInv, NativeBootTypes
<1>3. ASSUME NEW to \in {"save context", "disable interrupts", "main"}, proc'[0] = to,
             proc' \in [Proc -> Places], \A c \in Proc \ {0} : proc'[c] = proc[c],
             Prepared',
             shared' \in [heap : BOOLEAN, sigmask : BOOLEAN, mpe_init : BOOLEAN,
                     has_ioe : BOOLEAN, ioe : BOOLEAN,
                          example : {"none", "masked", "unmasked"}],
             own' \in [Proc -> [altstack : BOOLEAN, masked : BOOLEAN, timer : BOOLEAN,
                                handlers : BOOLEAN]]
      PROVE  NativeBootInv'
  <2>1. NativeBootTypes' /\ cpuid'[0] = 0
    BY <1>1, <1>3 DEF NativeBootInv, NativeBootTypes
  <2>2. OneProcess'
    BY <1>1, <1>3 DEF OneProcess
  <2>5. Forking'
    <3>1. proc'[0] \in {"save context", "disable interrupts", "main"}
      BY <1>3
    <3>2. sync' = 0
      BY <1>1
    <3>3. QED  BY <3>1, <3>2 DEF Forking
  <2>3. DataKept' /\ Children'
    BY <1>1, <1>3 DEF DataKept, Children
  <2>4. QED  BY <1>3, <2>1, <2>2, <2>3, <2>5 DEF NativeBootInv
<1>4. CASE setup_sigaltstack
  <2>1. /\ Move(0, "init", "save context")
        /\ shared' = [shared EXCEPT !.heap = TRUE, !.sigmask = TRUE]
        /\ own' = [own EXCEPT ![0].altstack = TRUE]
    BY <1>4 DEF setup_sigaltstack
  <2>2. /\ proc'[0] = "save context" /\ proc' \in [Proc -> Places]
        /\ \A c \in Proc \ {0} : proc'[c] = proc[c]
    BY <2>1, FirstMoves DEF NativeBootInv
  <2>3. /\ own' \in [Proc -> [altstack : BOOLEAN, masked : BOOLEAN, timer : BOOLEAN,
                              handlers : BOOLEAN]]
        /\ own'[0].altstack
    BY <1>2, <2>1
  <2>4. Prepared'
    BY <1>2, <2>1, <2>2, <2>3 DEF Prepared
  <2>5. QED  BY <1>2, <1>3, <2>1, <2>2, <2>3, <2>4
<1>5. CASE save_example_context
  <2>1. /\ Move(0, "save context", "disable interrupts") /\ own' = own
        /\ shared' = [shared EXCEPT !.example = IF shared.sigmask THEN "masked" ELSE "unmasked"]
    BY <1>5 DEF save_example_context
  <2>2. /\ proc[0] = "save context" /\ proc'[0] = "disable interrupts"
        /\ proc' \in [Proc -> Places]
        /\ \A c \in Proc \ {0} : proc'[c] = proc[c]
    BY <2>1, FirstMoves DEF NativeBootInv
  <2>3. shared.heap /\ shared.sigmask /\ own[0].altstack
    BY <2>2 DEF NativeBootInv, Prepared
  <2>4. Prepared'
    BY <1>2, <2>1, <2>2, <2>3 DEF Prepared
  <2>5. QED  BY <1>2, <1>3, <2>1, <2>2, <2>4
<1>6. CASE disable_interrupts
  <2>1. /\ Move(0, "disable interrupts", "main") /\ shared' = shared
        /\ own' = [own EXCEPT ![0].masked = TRUE]
    BY <1>6 DEF disable_interrupts
  <2>2. /\ proc[0] = "disable interrupts" /\ proc'[0] = "main" /\ proc' \in [Proc -> Places]
        /\ \A c \in Proc \ {0} : proc'[c] = proc[c]
    BY <2>1, FirstMoves DEF NativeBootInv
  <2>3. /\ own' \in [Proc -> [altstack : BOOLEAN, masked : BOOLEAN, timer : BOOLEAN,
                              handlers : BOOLEAN]]
        /\ own'[0].masked /\ own'[0].altstack = own[0].altstack
    BY <1>2, <2>1
  <2>4. shared.heap /\ shared.sigmask /\ own[0].altstack /\ shared.example = "masked"
    BY <2>2 DEF NativeBootInv, Prepared
  <2>5. Prepared'
    BY <2>1, <2>2, <2>3, <2>4 DEF Prepared
  <2>6. QED  BY <1>2, <1>3, <2>1, <2>2, <2>3, <2>5
<1>7. QED  BY <1>4, <1>5, <1>6

\* Handlers and masks of a process that runs the program change together.
LEMMA ProgramKeeps ==
  ASSUME NativeBootInv, NEW p \in Proc, cte_init(p) \/ boot_iset(p)
  PROVE  NativeBootInv'
<1>1. /\ InProgram(p) /\ UNCHANGED <<proc, section, shared, cpuid, loop, sync, crashed>>
      /\ own \in [Proc -> [altstack : BOOLEAN, masked : BOOLEAN, timer : BOOLEAN,
                           handlers : BOOLEAN]]
  BY DEF cte_init, boot_iset, NativeBootInv, NativeBootTypes
<1>2. /\ own' \in [Proc -> [altstack : BOOLEAN, masked : BOOLEAN, timer : BOOLEAN,
                            handlers : BOOLEAN]]
      /\ own'[p].handlers /\ own'[p].altstack = own[p].altstack
      /\ own[p].timer => own'[p].timer
      /\ \A c \in Proc \ {p} : own'[c] = own[c]
  <2>1. CASE cte_init(p)
    BY <1>1, <2>1 DEF cte_init
  <2>2. CASE boot_iset(p)
    BY <1>1, <2>2 DEF boot_iset
  <2>3. QED  BY <2>1, <2>2
<1>3. NativeBootTypes' /\ cpuid'[0] = 0
  BY <1>1, <1>2 DEF NativeBootInv, NativeBootTypes
<1>4. OneProcess' /\ DataKept'
  BY <1>1 DEF NativeBootInv, OneProcess, DataKept
<1>5. Prepared'
  <2>1. CASE p = 0
    BY <1>1, <1>2, <2>1 DEF NativeBootInv, Prepared
  <2>2. CASE p # 0
    <3>1. own'[0] = own[0]
      BY <1>2, <2>2, Processes
    <3>2. QED  BY <1>1, <3>1 DEF NativeBootInv, Prepared
  <2>3. QED  BY <2>1, <2>2
<1>6. Forking'
  BY <1>1 DEF NativeBootInv, Forking, Opened, AllForked
<1>7. Children'
  <2>1. ASSUME NEW c \in Proc \ {0}
        PROVE  /\ own[c].altstack => own'[c].altstack
               /\ own[c].masked \/ own[c].handlers => own'[c].masked \/ own'[c].handlers
               /\ own[c].timer => own'[c].timer
    <3>1. CASE c = p
      BY <1>2, <3>1
    <3>2. CASE c # p
      BY <1>2, <3>2
    <3>3. QED  BY <3>1, <3>2
  <2>2. QED  BY <1>1, <2>1 DEF NativeBootInv, Children, Opened, AllForked
<1>8. QED  BY <1>3, <1>4, <1>5, <1>6, <1>7 DEF NativeBootInv

\* The first process goes on from the program to the forks, the devices and
\* the pipe, and the data stays where it is.
LEMMA FirstGoesOn ==
  ASSUME NativeBootInv, proc[0] \in {"main", "fork", "ioe", "release"},
         proc'[0] \in {"fork", "ioe", "release", "entry"},
         proc' \in [Proc -> Places], \A c \in Proc \ {0} : proc'[c] = proc[c],
         \/ shared' = shared \/ shared' = [shared EXCEPT !.mpe_init = TRUE]
         \/ shared' = [shared EXCEPT !.ioe = shared.has_ioe],
         loop' \in 1 .. CpuCount, sync' \in Nat, UNCHANGED <<section, own, cpuid, crashed>>,
         Forking'
  PROVE  NativeBootInv'
<1> USE DEF Places, ChildPlaces, Absent, Setup, Remapping, Preparing
<1>1. /\ shared' \in [heap : BOOLEAN, sigmask : BOOLEAN, mpe_init : BOOLEAN,
                     has_ioe : BOOLEAN, ioe : BOOLEAN,
                      example : {"none", "masked", "unmasked"}]
      /\ shared'.heap = shared.heap /\ shared'.sigmask = shared.sigmask
      /\ shared'.example = shared.example
      /\ (shared.has_ioe => shared.ioe) => (shared'.has_ioe => shared'.ioe)
  <2>1. shared \in [heap : BOOLEAN, sigmask : BOOLEAN, mpe_init : BOOLEAN,
                     has_ioe : BOOLEAN, ioe : BOOLEAN,
                    example : {"none", "masked", "unmasked"}]
    BY DEF NativeBootInv, NativeBootTypes
  <2>2. CASE shared' = shared
    BY <2>1, <2>2
  <2>3. CASE shared' = [shared EXCEPT !.mpe_init = TRUE]
    BY <2>1, <2>3
  <2>4. CASE shared' = [shared EXCEPT !.ioe = shared.has_ioe]
    BY <2>1, <2>4
  <2>5. QED  BY <2>2, <2>3, <2>4
<1>2. NativeBootTypes' /\ cpuid'[0] = 0
  BY <1>1 DEF NativeBootInv, NativeBootTypes
<1>3. OneProcess' /\ DataKept'
  BY DEF NativeBootInv, OneProcess, DataKept
<1>4. Prepared'
  BY <1>1 DEF NativeBootInv, Prepared
<1>5. Opened => Opened'
  <2>1. ASSUME AllForked, NEW c \in Proc  PROVE proc'[c] # "none"
    <3>1. CASE c = 0
      BY <3>1
    <3>2. CASE c # 0
      BY <2>1, <3>2 DEF AllForked
    <3>3. QED  BY <3>1, <3>2
  <2>2. QED  BY <1>1, <2>1 DEF Opened, AllForked
<1>6. Children'
  BY <1>5 DEF NativeBootInv, Children
<1>7. QED  BY <1>2, <1>3, <1>4, <1>6 DEF NativeBootInv

\* The forks come before __am_ioe_init, and that before the pipe has a byte.
LEMMA ForkingKeeps ==
  ASSUME NativeBootInv, native_mpe_init \/ forked \/ __am_ioe_init \/ release \/ released
  PROVE  NativeBootInv'
<1> USE DEF Places, ChildPlaces, Absent, Setup, Remapping, Preparing
<1>1. NativeBootTypes /\ loop \in 1 .. CpuCount /\ sync \in Nat /\ proc \in [Proc -> Places]
  BY DEF NativeBootInv, NativeBootTypes
<1>2. CASE native_mpe_init
  <2>1. /\ Move(0, "main", "fork") /\ shared' = [shared EXCEPT !.mpe_init = TRUE]
        /\ UNCHANGED <<section, own, cpuid, loop, sync, crashed>>
    BY <1>2 DEF native_mpe_init
  <2>2. /\ proc[0] = "main" /\ proc'[0] = "fork" /\ proc' \in [Proc -> Places]
        /\ \A c \in Proc \ {0} : proc'[c] = proc[c]
    BY <1>1, <2>1, FirstMoves
  <2>3. loop = 1 /\ sync = 0
    BY <2>2 DEF NativeBootInv, OneProcess
  <2>4. ASSUME NEW c \in Proc, c < loop'  PROVE proc'[c] # "none"
    <3>1. c = 0
      BY <2>1, <2>3, <2>4, Processes
    <3>2. QED  BY <2>2, <3>1
  <2>5. Forking'
    BY <2>1, <2>2, <2>3, <2>4 DEF Forking
  <2>6. QED  BY <1>1, <2>1, <2>2, <2>5, FirstGoesOn
<1>3. CASE forked
  <2>1. /\ Move(0, "fork", "ioe") /\ loop = CpuCount /\ loop' = 1
        /\ UNCHANGED <<section, shared, own, cpuid, sync, crashed>>
    BY <1>3 DEF forked, Move
  <2>2. /\ proc[0] = "fork" /\ proc'[0] = "ioe" /\ proc' \in [Proc -> Places]
        /\ \A c \in Proc \ {0} : proc'[c] = proc[c]
    BY <1>1, <2>1, FirstMoves
  <2>3. AllForked'
    <3>1. \A c \in Proc : c < CpuCount
      BY Processes, NativeBootAssumption DEF Proc
    <3>2. \A c \in Proc : proc[c] # "none"
      BY <2>1, <2>2, <3>1 DEF NativeBootInv, Forking
    <3>3. QED  BY <2>2, <3>2 DEF AllForked
  <2>4. sync # 0 => Opened
    BY DEF NativeBootInv, Forking
  <2>5. Forking'
    BY <2>1, <2>2, <2>3, <2>4 DEF Forking, Opened
  <2>6. loop' \in 1 .. CpuCount
    BY <2>1, NativeBootAssumption
  <2>7. QED  BY <1>1, <2>1, <2>2, <2>5, <2>6, FirstGoesOn
<1>4. CASE __am_ioe_init
  <2>1. /\ Move(0, "ioe", "release") /\ shared' = [shared EXCEPT !.ioe = shared.has_ioe]
        /\ UNCHANGED <<section, own, cpuid, loop, sync, crashed>>
    BY <1>4 DEF __am_ioe_init
  <2>2. /\ proc[0] = "ioe" /\ proc'[0] = "release" /\ proc' \in [Proc -> Places]
        /\ \A c \in Proc \ {0} : proc'[c] = proc[c]
    BY <1>1, <2>1, FirstMoves
  <2>3. AllForked
    BY <2>2 DEF NativeBootInv, Forking
  <2>4. shared'.has_ioe => shared'.ioe
    BY <1>1, <2>1 DEF NativeBootTypes
  <2>5. Opened'
    BY <2>2, <2>3, <2>4 DEF Opened, AllForked
  <2>6. Forking'
    BY <2>2, <2>5 DEF Forking
  <2>7. QED  BY <1>1, <2>1, <2>2, <2>6, FirstGoesOn
<1>5. CASE release
  <2>1. /\ proc[0] = "release" /\ loop < CpuCount /\ sync' = sync + 1 /\ loop' = loop + 1
        /\ UNCHANGED <<proc, section, shared, own, cpuid, crashed>>
    BY <1>5 DEF release
  <2>2. Opened'
    BY <2>1 DEF NativeBootInv, Forking, Opened, AllForked
  <2>3. Forking'
    BY <2>1, <2>2 DEF Forking
  <2>4. loop' \in 1 .. CpuCount /\ sync' \in Nat
    <3>1. \A k \in 1 .. CpuCount : k < CpuCount => k + 1 \in 1 .. CpuCount
      BY NativeBootAssumption
    <3>2. loop' \in 1 .. CpuCount
      BY <1>1, <2>1, <3>1, Zenon
    <3>3. sync' \in Nat
      <4>1. \A k \in Nat : k + 1 \in Nat
        OBVIOUS
      <4>2. QED  BY <1>1, <2>1, <4>1, Zenon
    <3>4. QED  BY <3>2, <3>3
  <2>5. QED  BY <1>1, <2>1, <2>3, <2>4, FirstGoesOn
<1>6. CASE released
  <2>1. /\ Move(0, "release", "entry")
        /\ UNCHANGED <<section, shared, own, cpuid, loop, sync, crashed>>
    BY <1>6 DEF released
  <2>2. /\ proc[0] = "release" /\ proc'[0] = "entry" /\ proc' \in [Proc -> Places]
        /\ \A c \in Proc \ {0} : proc'[c] = proc[c]
    BY <1>1, <2>1, FirstMoves
  <2>3. Opened
    BY <2>2 DEF NativeBootInv, Forking
  <2>4. Opened'
    BY <2>1, <2>2, <2>3 DEF Opened, AllForked
  <2>5. Forking'
    BY <2>2, <2>4 DEF Forking
  <2>6. QED  BY <1>1, <2>1, <2>2, <2>5, FirstGoesOn
<1>7. QED  BY <1>2, <1>3, <1>4, <1>5, <1>6

\* A child is born with its parent's signal stack, mask and handlers.
LEMMA ForkKeeps ==
  ASSUME NativeBootInv, fork
  PROVE  NativeBootInv'
<1> USE DEF Places, ChildPlaces, Absent, Setup, Remapping, Preparing
<1>1. /\ NativeBootTypes /\ loop \in 1 .. CpuCount - 1 /\ loop \in Proc /\ loop # 0
      /\ loop + 1 \in 1 .. CpuCount
  <2>1. loop \in 1 .. CpuCount /\ loop < CpuCount
    BY DEF fork, NativeBootInv, NativeBootTypes
  <2>2. QED  BY <2>1, NativeBootAssumption DEF Proc, NativeBootInv
<1>2. /\ proc[0] = "fork"
      /\ proc' = [proc EXCEPT ![loop] = "read"]
      /\ own' = [own EXCEPT ![loop] = [own[0] EXCEPT !.timer = FALSE]]
      /\ cpuid' = [cpuid EXCEPT ![loop] = cpuid[0]]
      /\ loop' = loop + 1 /\ UNCHANGED <<section, shared, sync, crashed>>
  BY DEF fork, StructOf
<1>3. /\ proc' \in [Proc -> Places] /\ proc'[loop] = "read" /\ proc'[0] = "fork"
      /\ \A c \in Proc \ {loop} : proc'[c] = proc[c]
  BY <1>1, <1>2, Processes DEF NativeBootTypes
<1>4. /\ own' \in [Proc -> [altstack : BOOLEAN, masked : BOOLEAN, timer : BOOLEAN,
                            handlers : BOOLEAN]]
      /\ own'[loop].altstack = own[0].altstack /\ own'[loop].masked = own[0].masked
      /\ own'[loop].handlers = own[0].handlers
      /\ \A c \in Proc \ {loop} : own'[c] = own[c]
  <2> DEFINE f == [own[0] EXCEPT !.timer = FALSE]
             R == [altstack : BOOLEAN, masked : BOOLEAN, timer : BOOLEAN, handlers : BOOLEAN]
  <2>1. own[0] \in R /\ own \in [Proc -> R]
    BY <1>1, Processes DEF NativeBootTypes
  <2>2. /\ f \in R /\ f.altstack = own[0].altstack /\ f.masked = own[0].masked
        /\ f.handlers = own[0].handlers
    BY <2>1
  <2>3. own' = [own EXCEPT ![loop] = f]
    BY <1>2
  <2> HIDE DEF f, R
  <2>4. /\ own' \in [Proc -> R] /\ own'[loop] = f
        /\ \A c \in Proc \ {loop} : own'[c] = own[c]
    BY <1>1, <2>1, <2>2, <2>3
  <2>5. QED  BY <2>2, <2>4 DEF R
<1>5. /\ cpuid' \in [Proc -> Proc] /\ cpuid'[0] = cpuid[0]
      /\ \A c \in Proc \ {loop} : cpuid'[c] = cpuid[c]
  BY <1>1, <1>2, Processes DEF NativeBootTypes
<1>6. own[0].altstack /\ (own[0].masked \/ own[0].handlers)
  BY <1>2 DEF NativeBootInv, Prepared
<1>7. NativeBootTypes'
  BY <1>1, <1>2, <1>3, <1>4, <1>5 DEF NativeBootTypes
<1>8. OneProcess' /\ DataKept'
  BY <1>2, <1>3 DEF NativeBootInv, OneProcess, DataKept
<1>9. Prepared'
  BY <1>1, <1>2, <1>3, <1>4, Processes DEF NativeBootInv, Prepared
<1>10. Opened => Opened'
  <2>1. AllForked => AllForked'
    BY <1>3 DEF AllForked
  <2>2. QED  BY <1>2, <2>1 DEF Opened
<1>11. Forking'
  <2>1. ASSUME NEW c \in Proc, c < loop'  PROVE proc'[c] # "none"
    <3>1. c < loop \/ c = loop
      BY <1>1, <1>2, <2>1, Processes
    <3>2. CASE c = loop
      BY <1>3, <3>2
    <3>3. CASE c < loop /\ c # loop
      <4>1. proc[c] # "none"
        BY <1>2, <3>3 DEF NativeBootInv, Forking
      <4>2. QED  BY <1>3, <3>3, <4>1
    <3>4. QED  BY <3>1, <3>2, <3>3
  <2>2. sync' # 0 => Opened'
    BY <1>2, <1>10 DEF NativeBootInv, Forking
  <2>3. QED  BY <1>3, <2>1, <2>2 DEF Forking
<1>12. Children'
  <2>1. ASSUME NEW c \in Proc \ {0}
        PROVE  /\ proc'[c] \in ChildPlaces
               /\ proc'[c] \notin Absent => own'[c].altstack /\ (own'[c].masked \/ own'[c].handlers)
               /\ proc'[c] \in {"start", "entry", "halt"} => Opened'
               /\ proc'[c] = "entry" => cpuid'[c] = c /\ own'[c].timer
    <3>1. CASE c = loop
      BY <1>3, <1>4, <1>6, <3>1
    <3>2. CASE c # loop
      <4>1. proc'[c] = proc[c] /\ own'[c] = own[c] /\ cpuid'[c] = cpuid[c]
        BY <1>3, <1>4, <1>5, <3>2
      <4>2. QED  BY <1>10, <4>1 DEF NativeBootInv, Children
    <3>3. QED  BY <3>1, <3>2
  <2>2. QED  BY <2>1 DEF Children
<1>13. QED  BY <1>5, <1>7, <1>8, <1>9, <1>11, <1>12 DEF NativeBootInv

\* A fork that fails leaves its number without a process.
LEMMA ForkFailKeeps ==
  ASSUME NativeBootInv, fork_fails
  PROVE  NativeBootInv'
<1> USE DEF Places, ChildPlaces, Absent, Setup, Remapping, Preparing
<1>1. /\ NativeBootTypes /\ loop \in 1 .. CpuCount - 1 /\ loop \in Proc /\ loop # 0
      /\ loop + 1 \in 1 .. CpuCount
  <2>1. loop \in 1 .. CpuCount /\ loop < CpuCount
    BY DEF fork_fails, NativeBootInv, NativeBootTypes
  <2>2. QED  BY <2>1, NativeBootAssumption DEF Proc, NativeBootInv
<1>2. /\ proc[0] = "fork"
      /\ proc' = [proc EXCEPT ![loop] = "not forked"]
      /\ loop' = loop + 1 /\ UNCHANGED <<section, shared, own, cpuid, sync, crashed>>
  BY DEF fork_fails
<1>3. /\ proc' \in [Proc -> Places] /\ proc'[loop] = "not forked" /\ proc'[0] = "fork"
      /\ \A c \in Proc \ {loop} : proc'[c] = proc[c]
  BY <1>1, <1>2, Processes DEF NativeBootTypes
<1>4. NativeBootTypes' /\ cpuid'[0] = 0
  BY <1>1, <1>2, <1>3 DEF NativeBootInv, NativeBootTypes
<1>5. OneProcess' /\ DataKept' /\ Prepared'
  BY <1>2, <1>3 DEF NativeBootInv, OneProcess, DataKept, Prepared
<1>6. Opened => Opened'
  <2>1. AllForked => AllForked'
    BY <1>3 DEF AllForked
  <2>2. QED  BY <1>2, <2>1 DEF Opened
<1>7. Forking'
  <2>1. ASSUME NEW c \in Proc, c < loop'  PROVE proc'[c] # "none"
    <3>1. c < loop \/ c = loop
      <4>1. c \in Nat /\ loop \in Nat /\ c < loop + 1
        BY <1>1, <1>2, <2>1, Processes, Zenon DEF NativeBootTypes
      <4>2. QED  BY <4>1
    <3>2. CASE c = loop
      BY <1>3, <3>2
    <3>3. CASE c < loop /\ c # loop
      <4>1. proc[c] # "none"
        BY <1>2, <3>3 DEF NativeBootInv, Forking
      <4>2. QED  BY <1>3, <3>3, <4>1
    <3>4. QED  BY <3>1, <3>2, <3>3
  <2>2. sync' # 0 => Opened'
    BY <1>2, <1>6 DEF NativeBootInv, Forking
  <2>3. QED  BY <1>3, <2>1, <2>2 DEF Forking
<1>8. Children'
  <2>1. ASSUME NEW c \in Proc \ {0}
        PROVE  /\ proc'[c] \in ChildPlaces
               /\ proc'[c] \notin Absent => own'[c].altstack /\ (own'[c].masked \/ own'[c].handlers)
               /\ proc'[c] \in {"start", "entry", "halt"} => Opened'
               /\ proc'[c] = "entry" => cpuid'[c] = c /\ own'[c].timer
    <3>1. CASE c = loop
      BY <1>3, <3>1
    <3>2. CASE c # loop
      <4>1. proc'[c] = proc[c] /\ own'[c] = own[c] /\ cpuid'[c] = cpuid[c]
        BY <1>2, <1>3, <3>2
      <4>2. QED  BY <1>6, <4>1 DEF NativeBootInv, Children
    <3>3. QED  BY <3>1, <3>2
  <2>2. QED  BY <2>1 DEF Children
<1>9. QED  BY <1>4, <1>5, <1>7, <1>8 DEF NativeBootInv

\* A child that reads a byte comes behind __am_ioe_init; it takes its number
\* and its timer before it enters.
LEMMA ChildKeeps ==
  ASSUME NativeBootInv, NEW p \in Proc, read_pipe(p) \/ __am_init_timer_irq(p)
  PROVE  NativeBootInv'
<1> USE DEF Places, ChildPlaces, Absent, Setup, Remapping, Preparing
<1>1. p # 0 /\ proc[p] \in {"read", "start"} /\ NativeBootTypes
  BY DEF read_pipe, __am_init_timer_irq, Move, NativeBootInv, Forking
<1>2. Opened
  <2>1. CASE read_pipe(p)
    <3>1. sync # 0
      BY <2>1 DEF read_pipe, NativeBootTypes
    <3>2. QED  BY <3>1 DEF NativeBootInv, Forking
  <2>2. CASE __am_init_timer_irq(p)
    <3>1. proc[p] = "start"
      BY <2>2 DEF __am_init_timer_irq, Move
    <3>2. QED  BY <1>1, <3>1 DEF NativeBootInv, Children
  <2>3. QED  BY <2>1, <2>2
<1>3. /\ proc' \in [Proc -> Places] /\ proc'[p] \in {"start", "entry"}
      /\ \A c \in Proc \ {p} : proc'[c] = proc[c]
  <2>1. PICK to \in {"start", "entry"} : proc' = [proc EXCEPT ![p] = to]
    BY DEF read_pipe, __am_init_timer_irq, Move
  <2>2. QED  BY <1>1, <2>1 DEF NativeBootTypes
<1>4. /\ own' \in [Proc -> [altstack : BOOLEAN, masked : BOOLEAN, timer : BOOLEAN,
                            handlers : BOOLEAN]]
      /\ own'[p].altstack = own[p].altstack
      /\ own[p].masked \/ own[p].handlers => own'[p].masked \/ own'[p].handlers
      /\ \A c \in Proc \ {p} : own'[c] = own[c]
      /\ cpuid' \in [Proc -> Proc] /\ (\A c \in Proc \ {p} : cpuid'[c] = cpuid[c])
      /\ proc'[p] = "entry" => cpuid'[p] = p /\ own'[p].timer
  <2>1. CASE read_pipe(p)
    <3>1. own' = own /\ cpuid' = cpuid /\ proc'[p] = "start"
      BY <1>1, <2>1 DEF read_pipe, Move, NativeBootTypes
    <3>2. QED  BY <1>1, <3>1 DEF NativeBootTypes
  <2>2. CASE __am_init_timer_irq(p)
    <3>1. /\ own' = [own EXCEPT ![p].masked = TRUE, ![p].timer = TRUE]
          /\ cpuid' = [cpuid EXCEPT ![p] = p]
      BY <2>2 DEF __am_init_timer_irq, StructOf
    <3> DEFINE R == [altstack : BOOLEAN, masked : BOOLEAN, timer : BOOLEAN,
                     handlers : BOOLEAN]
               f == [own[p] EXCEPT !.masked = TRUE, !.timer = TRUE]
    <3>2. own \in [Proc -> R] /\ own[p] \in R /\ cpuid \in [Proc -> Proc]
      BY <1>1 DEF NativeBootTypes
    <3>3. f \in R /\ f.altstack = own[p].altstack /\ f.masked /\ f.timer
      BY <3>2
    <3>4. own' = [own EXCEPT ![p] = f]
      BY <3>1, <3>2
    <3> HIDE DEF R, f
    <3>5. /\ own' \in [Proc -> R] /\ own'[p] = f
          /\ \A c \in Proc \ {p} : own'[c] = own[c]
      BY <3>2, <3>3, <3>4
    <3>6. /\ cpuid' \in [Proc -> Proc] /\ cpuid'[p] = p
          /\ \A c \in Proc \ {p} : cpuid'[c] = cpuid[c]
      BY <3>1, <3>2
    <3>7. QED  BY <3>3, <3>5, <3>6 DEF R
  <2>3. QED  BY <2>1, <2>2
<1>5. UNCHANGED <<section, shared, loop, crashed>> /\ sync' \in Nat
  <2>1. UNCHANGED <<section, shared, loop, crashed>>
    BY DEF read_pipe, __am_init_timer_irq
  <2>2. sync' = sync \/ (sync > 0 /\ sync' = sync - 1)
    BY DEF read_pipe, __am_init_timer_irq
  <2>3. sync \in Nat
    BY <1>1 DEF NativeBootTypes
  <2>4. QED  BY <2>1, <2>2, <2>3
<1>6. proc'[0] = proc[0] /\ own'[0] = own[0] /\ cpuid'[0] = cpuid[0]
  BY <1>1, <1>3, <1>4, Processes
<1>7. NativeBootTypes'
  BY <1>1, <1>3, <1>4, <1>5 DEF NativeBootTypes
<1>8. OneProcess'
  <2>1. proc[p] # "none" /\ p \in Proc \ {0}
    BY <1>1
  <2>2. QED  BY <1>6, <2>1 DEF NativeBootInv, OneProcess
<1>9. DataKept' /\ Prepared'
  BY <1>5, <1>6 DEF NativeBootInv, DataKept, Prepared
<1>10. Opened'
  BY <1>2, <1>3, <1>5 DEF Opened, AllForked
<1>11. Forking'
  <2>1. proc'[0] = "fork" => \A c \in Proc : c < loop' => proc'[c] # "none"
    BY <1>10 DEF Opened, AllForked
  <2>2. proc'[0] = "ioe" => AllForked'
    BY <1>10 DEF Opened
  <2>3. QED  BY <1>6, <1>10, <2>1, <2>2 DEF NativeBootInv, Forking
<1>12. Children'
  <2>1. ASSUME NEW c \in Proc \ {0}
        PROVE  /\ proc'[c] \in ChildPlaces
               /\ proc'[c] \notin Absent => own'[c].altstack /\ (own'[c].masked \/ own'[c].handlers)
               /\ proc'[c] = "entry" => cpuid'[c] = c /\ own'[c].timer
    <3>1. CASE c = p
      <4>1. own[p].altstack /\ (own[p].masked \/ own[p].handlers)
        BY <1>1 DEF NativeBootInv, Children
      <4>2. QED  BY <1>3, <1>4, <3>1, <4>1
    <3>2. CASE c # p
      <4>1. proc'[c] = proc[c] /\ own'[c] = own[c] /\ cpuid'[c] = cpuid[c]
        BY <1>3, <1>4, <3>2
      <4>2. QED  BY <4>1 DEF NativeBootInv, Children
    <3>3. QED  BY <3>1, <3>2
  <2>2. QED  BY <1>10, <2>1 DEF Children
<1>13. QED  BY <1>6, <1>7, <1>8, <1>9, <1>11, <1>12 DEF NativeBootInv

\* A halt says so and then takes every process with it, or the only one.
LEMMA EndKeeps ==
  ASSUME NativeBootInv, NEW p \in Proc, native_halt(p) \/ __am_exit_platform(p)
  PROVE  NativeBootInv'
<1> USE DEF Places, ChildPlaces, Absent, Setup, Remapping, Preparing
<1>1. /\ UNCHANGED <<section, shared, own, cpuid, loop, sync, crashed>>
      /\ proc[p] \in {"main", "entry", "halt"} /\ NativeBootTypes
  BY DEF native_halt, __am_exit_platform, InProgram, NativeBootInv
<1>2. /\ proc' \in [Proc -> Places] /\ proc'[p] # proc[p]
      /\ \A c \in Proc :
           proc'[c] = proc[c] \/ proc'[c] = "gone" \/ (c = p /\ proc'[c] = "halt")
  <2>1. CASE native_halt(p)
    <3>1. proc' = [proc EXCEPT ![p] = "halt"] /\ proc[p] \in {"main", "entry"}
      BY <2>1 DEF native_halt, InProgram
    <3>2. QED  BY <1>1, <3>1 DEF NativeBootTypes
  <2>2. CASE __am_exit_platform(p)
    <3>1. /\ proc' = [q \in Proc |-> IF q = p \/ KillsAll THEN "gone" ELSE proc[q]]
          /\ proc[p] = "halt"
      BY <2>2 DEF __am_exit_platform
    <3>2. proc'[p] = "gone"
      BY <3>1
    <3>3. \A c \in Proc : proc'[c] = proc[c] \/ proc'[c] = "gone"
      BY <3>1
    <3>4. proc' \in [Proc -> Places]
      BY <1>1, <3>1 DEF NativeBootTypes
    <3>5. QED  BY <3>1, <3>2, <3>3, <3>4
  <2>3. QED  BY <2>1, <2>2
<1>3. proc'[0] = proc[0] \/ proc'[0] \in {"gone", "halt"}
  BY <1>2, Processes
<1>4. NativeBootTypes' /\ cpuid'[0] = 0
  BY <1>1, <1>2 DEF NativeBootInv, NativeBootTypes
<1>5. OneProcess'
  <2>1. ASSUME proc'[0] \in Setup \cup {"main"}  PROVE FALSE
    <3>1. proc'[0] = proc[0]
      BY <1>3, <2>1
    <3>2. p # 0 /\ p \in Proc \ {0}
      BY <1>2, <3>1
    <3>3. proc[p] = "none"
      BY <2>1, <3>1, <3>2 DEF NativeBootInv, OneProcess
    <3>4. QED  BY <1>1, <3>3
  <2>2. QED  BY <2>1 DEF OneProcess
<1>6. DataKept' /\ Prepared'
  <2>1. proc[p] \notin Setup
    BY <1>1
  <2>2. proc[0] \notin Setup \/ p # 0
    BY <2>1
  <2>3. proc[0] \notin Setup
    <3>1. CASE p = 0
      BY <2>1, <3>1
    <3>2. CASE p # 0
      <4>1. p \in Proc \ {0} /\ proc[p] # "none"
        BY <1>1, <3>2
      <4>2. QED  BY <4>1 DEF NativeBootInv, OneProcess
    <3>3. QED  BY <3>1, <3>2
  <2>4. proc'[0] \notin Setup
    BY <1>3, <2>3
  <2>5. DataKept'
    BY <1>1, <2>3, <2>4 DEF NativeBootInv, DataKept
  <2>6. Prepared'
    BY <1>1, <2>3, <2>4 DEF NativeBootInv, Prepared
  <2>7. QED  BY <2>5, <2>6
<1>7. \A c \in Proc : proc[c] # "none" => proc'[c] # "none"
  BY <1>2
<1>8. Opened => Opened'
  BY <1>1, <1>7 DEF Opened, AllForked
<1>9. Forking'
  <2>1. proc'[0] = "fork" => \A c \in Proc : c < loop' => proc'[c] # "none"
    BY <1>1, <1>3, <1>7 DEF NativeBootInv, Forking
  <2>2. proc'[0] = "ioe" => AllForked'
    BY <1>3, <1>7 DEF NativeBootInv, Forking, AllForked
  <2>3. proc'[0] \in {"release", "entry"} \/ sync' # 0 => Opened'
    BY <1>1, <1>3, <1>8 DEF NativeBootInv, Forking
  <2>4. proc'[0] \notin {"none", "not forked", "read", "start"}
    BY <1>3 DEF NativeBootInv, Forking
  <2>5. QED  BY <2>1, <2>2, <2>3, <2>4 DEF Forking
<1>10. Children'
  <2>1. ASSUME NEW c \in Proc \ {0}
        PROVE  /\ proc'[c] \in ChildPlaces
               /\ proc'[c] \notin Absent => own'[c].altstack /\ (own'[c].masked \/ own'[c].handlers)
               /\ proc'[c] \in {"start", "entry", "halt"} => Opened'
               /\ proc'[c] = "entry" => cpuid'[c] = c /\ own'[c].timer
    <3>1. /\ proc[c] \in ChildPlaces
          /\ proc[c] \notin Absent => own[c].altstack /\ (own[c].masked \/ own[c].handlers)
          /\ proc[c] \in {"start", "entry", "halt"} => Opened
          /\ proc[c] = "entry" => cpuid[c] = c /\ own[c].timer
      BY DEF NativeBootInv, Children
    <3>2. own' = own /\ cpuid' = cpuid
      BY <1>1
    <3>3. CASE proc'[c] = proc[c]
      BY <1>8, <3>1, <3>2, <3>3
    <3>4. CASE c = p /\ proc'[c] = "halt"
      BY <1>1, <1>8, <3>1, <3>2, <3>4
    <3>5. CASE proc'[c] = "gone"
      BY <3>5
    <3>6. QED  BY <1>2, <3>3, <3>4, <3>5
  <2>2. QED  BY <2>1 DEF Children
<1>11. QED  BY <1>4, <1>5, <1>6, <1>9, <1>10 DEF NativeBootInv

\* The constructor starts with the data where it was loaded.
LEMMA NativeStarts ==
  ASSUME NativeBootInit
  PROVE  NativeBootInv
<1> USE DEF Places, ChildPlaces, Absent, Setup, Remapping, Preparing
<1>1. /\ proc = [p \in Proc |-> IF p = 0 THEN "map memory" ELSE "none"]
      /\ proc[0] = "map memory" /\ \A c \in Proc \ {0} : proc[c] = "none"
      /\ cpuid = [p \in Proc |-> 0] /\ cpuid[0] = 0
  BY Processes DEF NativeBootInit
<1>2. 1 \in 1 .. CpuCount
  BY NativeBootAssumption
<1>3. NativeBootTypes
  <2>1. PICK has_ioe \in BOOLEAN :
          shared = [heap |-> FALSE, sigmask |-> FALSE, example |-> "none", mpe_init |-> FALSE,
                    has_ioe |-> has_ioe, ioe |-> FALSE]
    BY DEF NativeBootInit
  <2>2. QED  BY <1>1, <1>2, <2>1, Processes DEF NativeBootInit, NativeBootTypes
<1>4. OneProcess /\ DataKept /\ Prepared /\ Forking /\ Children
  BY <1>1 DEF NativeBootInit, OneProcess, DataKept, Prepared, Forking, Children
<1>5. QED  BY <1>1, <1>3, <1>4 DEF NativeBootInv

\* What the invariant means for a process that runs the program.
LEMMA NativeSound ==
  ASSUME NativeBootInv
  PROVE  RunsOnAMachine
<1> USE DEF Places, ChildPlaces, Absent, Setup, Remapping, Preparing
<1>1. ASSUME NEW p \in Proc, InProgram(p)
      PROVE  /\ cpuid[p] = p /\ own[p].altstack
             /\ own[p].masked \/ own[p].handlers
             /\ section.map = "shared" /\ section.holds = "data"
             /\ shared.heap /\ shared.example = "masked"
             /\ proc[p] = "entry" => Opened /\ (p # 0 => own[p].timer)
  <2>1. proc[0] \notin Setup
    <3>1. CASE p = 0
      BY <1>1, <3>1 DEF InProgram
    <3>2. CASE p # 0
      <4>1. p \in Proc \ {0} /\ proc[p] # "none"
        BY <1>1, <3>2 DEF InProgram
      <4>2. QED  BY <4>1 DEF NativeBootInv, OneProcess
    <3>3. QED  BY <3>1, <3>2
  <2>2. /\ section.map = "shared" /\ section.holds = "data"
        /\ shared.heap /\ shared.example = "masked" /\ own[0].altstack
        /\ own[0].masked \/ own[0].handlers
    BY <2>1 DEF NativeBootInv, DataKept, Prepared
  <2>3. CASE p = 0
    BY <2>2, <2>3 DEF NativeBootInv, Forking
  <2>4. CASE p # 0
    <3>1. /\ proc[p] \in ChildPlaces
          /\ proc[p] \notin Absent =>
               own[p].altstack /\ (own[p].masked \/ own[p].handlers)
          /\ proc[p] \in {"start", "entry", "halt"} => Opened
          /\ proc[p] = "entry" => cpuid[p] = p /\ own[p].timer
      BY <2>4 DEF NativeBootInv, Children
    <3>2. proc[p] = "entry"
      BY <1>1, <3>1 DEF InProgram
    <3>3. QED  BY <2>2, <3>1, <3>2
  <2>5. QED  BY <2>3, <2>4
<1>2. ~crashed
  BY DEF NativeBootInv, NativeBootTypes
<1>3. Opened => (shared.has_ioe => shared.ioe) /\ \A q \in Proc : proc[q] # "none"
  BY DEF Opened, AllForked
<1>4. QED  BY <1>1, <1>2, <1>3 DEF RunsOnAMachine, StructOf

\* Every process that runs the program has its own number, signal stack and
\* mask and the data of the machine; in the entry its own timer, every fork
\* behind it, and __am_ioe_init too where __am_has_ioe (mpe.c:14,
\* platform.c:123).
THEOREM NativeRunsOnAMachine == NativeBootSpec => []RunsOnAMachine
<1>1. NativeBootInit => NativeBootInv
  BY NativeStarts
<1>2. NativeBootInv /\ [NativeBootNext]_nativeBootVars => NativeBootInv'
  <2>1. ASSUME NativeBootInv, NEW p \in Proc, NativeBootStep(p)  PROVE NativeBootInv'
    BY <2>1, RemappingKeeps, PreparingKeeps, ForkingKeeps, ForkKeeps, ForkFailKeeps, ChildKeeps,
       EndKeeps
       DEF NativeBootStep
  <2>2. ASSUME NativeBootInv, UNCHANGED nativeBootVars  PROVE NativeBootInv'
    <3>1. /\ proc' = proc /\ section' = section /\ shared' = shared /\ own' = own
          /\ cpuid' = cpuid /\ loop' = loop /\ sync' = sync /\ crashed' = crashed
      BY <2>2 DEF nativeBootVars
    <3>2. NativeBootTypes' /\ cpuid'[0] = 0
      BY <2>2, <3>1 DEF NativeBootInv, NativeBootTypes
    <3>3. OneProcess' /\ DataKept' /\ Prepared'
      BY <2>2, <3>1 DEF NativeBootInv, OneProcess, DataKept, Prepared
    <3>4. Forking' /\ Children'
      BY <2>2, <3>1 DEF NativeBootInv, Forking, Children, Opened, AllForked
    <3>5. QED  BY <3>2, <3>3, <3>4 DEF NativeBootInv
  <2>3. QED  BY <2>1, <2>2, ForkingKeeps, ProgramKeeps, EndKeeps DEF NativeBootNext
<1>3. NativeBootInv => RunsOnAMachine
  BY NativeSound
<1>4. QED  BY <1>1, <1>2, <1>3, PTL DEF NativeBootSpec
-----------------------------------------------------------------------------
(* Signals as traps (NativeTraps).                                           *)

Contexts == Threads \cup {Main}
Events == Interrupts \cup {"EVENT_YIELD", "EVENT_SYSCALL", "EVENT_PAGEFAULT", "EVENT_ERROR"}
Frames == [place : {"text", "lib", "user"}, masked : BOOLEAN, event : Events]

NativeTrapTypes ==
  /\ cpu.thread \in Contexts /\ cpu.masked \in BOOLEAN
  /\ cpu = [thread |-> cpu.thread, place |-> cpu.place, masked |-> cpu.masked,
            vm_head |-> cpu.vm_head, ksp |-> cpu.ksp]
  /\ stack \in [Contexts -> Seq(Frames)]
  /\ DOMAIN ctx = Contexts
  /\ ring \in Seq(Threads)

\* Where a context runs when it is not in a trap.
Home(t) == IF t \in Uthreads THEN {"user"} ELSE {"text", "lib"}

\* No signal interrupts irq_handle, so that a stack holds one frame at most.
Shape(t) == stack[t] = <<>> \/ (Len(stack[t]) = 1 /\ stack[t][1].place \in Home(t))

\* In irq_handle signals are masked, and the slot holds the frame's event.
Running ==
  \/ cpu.place \in Home(cpu.thread) /\ stack[cpu.thread] = <<>>
  \/ /\ cpu.place = "irq_handle" /\ cpu.masked /\ stack[cpu.thread] # <<>>
     /\ ev = stack[cpu.thread][1].event

\* The space and the kernel stack of a thread are the processor's while it
\* runs and its context's while it waits.
Saved(t) ==
  /\ stack[t] # <<>>
  /\ ctx[t].vm_head = SpaceFor(t) /\ (t \in Uthreads => ctx[t].ksp = t)
InItsSpace ==
  /\ cpu.thread \in Threads =>
       cpu.vm_head = SpaceFor(cpu.thread) /\ (cpu.thread \in Uthreads => cpu.ksp = cpu.thread)
  /\ \A t \in ToSet(ring) : t # cpu.thread => Saved(t)

NativeTrapInv == NativeTrapTypes /\ (\A t \in Contexts : Shape(t)) /\ Running /\ InItsSpace

\* Nonempty sets of numbers have a least element, so that SelectInSeq returns
\* a place of the sequence or zero.
LEMMA Least ==
  ASSUME NEW S \in SUBSET Nat, S # {}
  PROVE  Min(S) \in S
<1>1. PICK x \in S : \A y \in S : <<y, x>> \notin OpToRel(<, Nat)
  BY NatLessThanWellFounded, WFMin
<1>2. ASSUME NEW y \in S  PROVE x \leq y
  <2>1. x \in Nat /\ y \in Nat
    OBVIOUS
  <2>2. y < x => <<y, x>> \in OpToRel(<, Nat)
    BY <2>1 DEF OpToRel
  <2>3. ~ (y < x)
    BY <1>1, <2>2, Zenon
  <2>4. QED  BY <2>1, <2>3
<1>3. QED  BY <1>2 DEF Min

\* The scheduler takes the next thread of the ring.
LEMMA AfterIsOfTheRing ==
  ASSUME ring \in Seq(Threads), ring # <<>>
  PROVE  After(cpu.thread) \in ToSet(ring)
<1> DEFINE I == {i \in 1 .. Len(ring) : ring[i] = cpu.thread}
           turn == IF I # {} THEN Min(I) ELSE 0
           at == IF turn = Len(ring) THEN 1 ELSE turn + 1
<1>1. Len(ring) \in Nat /\ Len(ring) # 0 /\ DOMAIN ring = 1 .. Len(ring)
  BY LenProperties, EmptySeq
<1>2. turn \in 0 .. Len(ring)
  <2>1. I \in SUBSET Nat
    BY <1>1
  <2>2. CASE I # {}
    <3>1. Min(I) \in I
      BY <2>1, <2>2, Least
    <3>2. QED  BY <2>2, <3>1
  <2>3. QED  BY <1>1, <2>2
<1>3. After(cpu.thread) = ring[at]
  BY DEF After, SelectInSeq
<1> HIDE DEF turn
<1>4. at \in 1 .. Len(ring)
  <2>1. \A n \in Nat : \A k \in 0 .. n : n # 0 =>
          1 \in 1 .. n /\ (k # n => k + 1 \in 1 .. n)
    OBVIOUS
  <2>2. QED  BY <1>1, <1>2, <2>1, Zenon
<1>5. QED  BY <1>1, <1>3, <1>4 DEF ToSet

\* A stack of one frame, and none when the frame is taken off.
LEMMA OneFrame ==
  ASSUME NEW f \in Frames
  PROVE  /\ <<f>> \in Seq(Frames) /\ Len(<<f>>) = 1 /\ <<f>>[1] = f /\ <<f>> # <<>>
         /\ <<f>> \o <<>> = <<f>>
<1>1. <<f>> \in Seq(Frames) /\ Len(<<f>>) = 1 /\ <<f>>[1] = f
  OBVIOUS
<1>2. Len(<<>>) = 0
  BY EmptySeq
<1>3. Len(<<f>>) # 0
  BY <1>1
<1>4. <<f>> # <<>>
  BY <1>2, <1>3, Zenon
<1>5. <<f>> \o <<>> = <<f>>
  BY <1>1, ConcatEmptySeq
<1>6. QED  BY <1>1, <1>4, <1>5

\* A stack of one frame is empty once that frame is taken off.
LEMMA TakenOff ==
  ASSUME NEW s \in Seq(Frames), Len(s) = 1, s # <<>>
  PROVE  s[1] \in Frames /\ Tail(s) = <<>>
<1>1. Tail(s) \in Seq(Frames) /\ Len(Tail(s)) = Len(s) - 1
  BY HeadTailProperties
<1>2. Len(Tail(s)) = 0
  BY <1>1
<1>3. Tail(s) = <<>>
  BY <1>1, <1>2, EmptySeq
<1>4. 1 \in 1 .. Len(s)
  OBVIOUS
<1>5. s[1] \in Frames
  BY <1>4, ElementOfSeq
<1>6. QED  BY <1>3, <1>5

\* A signal builds its frame on the stack of the thread that it interrupts,
\* in user code too, and leaves its event in the slot.
LEMMA SettingUp ==
  ASSUME NativeTrapInv, NEW event \in Events, setup_stack(event), ev' = event,
         cpu.place # "irq_handle", UNCHANGED <<ctx, ring>>
  PROVE  NativeTrapInv'
<1> DEFINE t == cpu.thread
           f == Frame(cpu.place, cpu.masked, event)
<1>1. /\ t \in Contexts /\ cpu.place \in Home(t) /\ stack[t] = <<>>
      /\ cpu.masked \in BOOLEAN
  BY DEF NativeTrapInv, NativeTrapTypes, Running
<1>2. cpu.place = "user" => cpu.ksp = t
  <2>1. cpu.place = "user" => t \in Uthreads /\ t \in Threads
    BY <1>1 DEF Home, Threads
  <2>2. QED  BY <2>1 DEF NativeTrapInv, InItsSpace
<1>3. f \in Frames /\ f.place \in Home(t) /\ f.event = event
  BY <1>1 DEF Frame, Frames, Home
<1>4. /\ stack' = [stack EXCEPT ![t] = <<f>> \o @]
      /\ cpu' = [cpu EXCEPT !.thread = t, !.place = "irq_handle", !.masked = TRUE]
  BY <1>2 DEF setup_stack, MaskedInHandler
<1>5. /\ cpu'.thread = t /\ cpu'.place = "irq_handle" /\ cpu'.masked = TRUE
      /\ cpu'.vm_head = cpu.vm_head /\ cpu'.ksp = cpu.ksp
      /\ cpu' = [thread |-> t, place |-> "irq_handle", masked |-> TRUE,
                 vm_head |-> cpu.vm_head, ksp |-> cpu.ksp]
  BY <1>4 DEF NativeTrapInv, NativeTrapTypes
<1>6. /\ stack'[t] = <<f>> \o <<>>
      /\ \A c \in Contexts : c # t => stack'[c] = stack[c]
  BY <1>1, <1>4 DEF NativeTrapInv, NativeTrapTypes
<1> HIDE DEF f
<1>7. /\ stack'[t] \in Seq(Frames) /\ Len(stack'[t]) = 1 /\ stack'[t][1] = f
      /\ stack'[t] # <<>>
  <2>1. /\ <<f>> \in Seq(Frames) /\ Len(<<f>>) = 1 /\ <<f>>[1] = f /\ <<f>> # <<>>
        /\ <<f>> \o <<>> = <<f>>
    BY <1>3, OneFrame
  <2>2. stack'[t] = <<f>>
    BY <1>6, <2>1, Zenon
  <2>3. QED  BY <2>1, <2>2, Zenon
<1>8. NativeTrapTypes'
  <2>1. stack' \in [Contexts -> Seq(Frames)]
    BY <1>4, <1>6, <1>7 DEF NativeTrapInv, NativeTrapTypes
  <2>2. QED  BY <1>1, <1>5, <2>1 DEF NativeTrapInv, NativeTrapTypes
<1>9. ASSUME NEW c \in Contexts  PROVE Shape(c)'
  <2>1. CASE c = t
    BY <1>3, <1>7, <2>1 DEF Shape
  <2>2. CASE c # t
    BY <1>6, <2>2 DEF NativeTrapInv, Shape
  <2>3. QED  BY <2>1, <2>2
<1>10. Running'
  BY <1>3, <1>5, <1>7 DEF Running
<1>11. InItsSpace'
  <2>1. ASSUME NEW c \in ToSet(ring), c # t  PROVE Saved(c)'
    <3>1. c \in Contexts /\ Saved(c)
      BY <2>1 DEF NativeTrapInv, InItsSpace, NativeTrapTypes, ToSet, Contexts
    <3>2. QED  BY <1>6, <2>1, <3>1 DEF Saved
  <2>2. QED  BY <1>5, <2>1 DEF NativeTrapInv, InItsSpace
<1>12. QED  BY <1>8, <1>9, <1>10, <1>11 DEF NativeTrapInv

\* The steps that raise a signal or hold one back.
LEMMA Signalling ==
  ASSUME NativeTrapInv,
         \/ \E event \in Interrupts : Interrupt(event)
         \/ \E event \in {"EVENT_YIELD", "EVENT_SYSCALL", "EVENT_PAGEFAULT", "EVENT_ERROR"} :
              Synchronous(event)
  PROVE  NativeTrapInv'
<1>1. ASSUME NEW event \in Interrupts, Interrupt(event)  PROVE NativeTrapInv'
  <2>1. ev' = event /\ ~cpu.masked /\ UNCHANGED <<ctx, ring>> /\ event \in Events
    BY <1>1 DEF Interrupt, Events
  <2>2. cpu.place # "irq_handle"
    BY <2>1 DEF NativeTrapInv, Running, Home
  <2>3. CASE cpu.place = "lib"
    <3>1. cpu' = cpu /\ stack' = stack /\ cpu'.place = "lib"
      BY <1>1, <2>3 DEF Interrupt
    <3>2. NativeTrapTypes' /\ (\A c \in Contexts : Shape(c)')
      BY <2>1, <3>1 DEF NativeTrapInv, NativeTrapTypes, Shape
    <3>3. Running'
      BY <2>2, <3>1 DEF NativeTrapInv, Running
    <3>4. InItsSpace'
      BY <2>1, <3>1 DEF NativeTrapInv, InItsSpace, Saved
    <3>5. QED  BY <3>2, <3>3, <3>4 DEF NativeTrapInv
  <2>4. CASE cpu.place # "lib"
    <3>1. setup_stack(event)
      BY <1>1, <2>4 DEF Interrupt
    <3>2. QED  BY <2>1, <2>2, <3>1, SettingUp
  <2>5. QED  BY <2>3, <2>4
<1>2. ASSUME NEW event \in {"EVENT_YIELD", "EVENT_SYSCALL", "EVENT_PAGEFAULT", "EVENT_ERROR"},
             Synchronous(event)
      PROVE  NativeTrapInv'
  <2>1. /\ ev' = event /\ setup_stack(event) /\ UNCHANGED <<ctx, ring>>
        /\ event \in Events /\ cpu.place # "irq_handle"
    BY <1>2 DEF Synchronous, Events
  <2>2. QED  BY <2>1, SettingUp
<1>3. QED  BY <1>1, <1>2

\* Steps that leave every stack and context alone.
LEMMA SignalsRest ==
  ASSUME NativeTrapInv,
         \/ \E event \in Interrupts : Post(event)
         \/ CallLibrary \/ native_iset \/ UNCHANGED nativeTrapVars
  PROVE  NativeTrapInv'
<1>1. stack' = stack /\ ctx' = ctx /\ ring' = ring /\ ev' = ev
  BY DEF Post, CallLibrary, native_iset, nativeTrapVars
<1>2. /\ cpu'.thread = cpu.thread /\ cpu'.vm_head = cpu.vm_head /\ cpu'.ksp = cpu.ksp
      /\ cpu'.masked \in BOOLEAN
      /\ cpu' = [thread |-> cpu'.thread, place |-> cpu'.place, masked |-> cpu'.masked,
                 vm_head |-> cpu'.vm_head, ksp |-> cpu'.ksp]
      /\ \/ cpu'.place = cpu.place /\ (cpu.place = "irq_handle" => cpu'.masked = cpu.masked)
         \/ {cpu.place, cpu'.place} \subseteq {"text", "lib"}
  <2>1. /\ cpu = [thread |-> cpu.thread, place |-> cpu.place, masked |-> cpu.masked,
                  vm_head |-> cpu.vm_head, ksp |-> cpu.ksp]
        /\ cpu.masked \in BOOLEAN
    BY DEF NativeTrapInv, NativeTrapTypes
  <2>2. CASE cpu' = cpu
    BY <2>1, <2>2
  <2>3. CASE CallLibrary
    BY <2>1, <2>3 DEF CallLibrary
  <2>4. CASE native_iset
    BY <2>1, <2>4 DEF native_iset
  <2>5. QED  BY <2>2, <2>3, <2>4 DEF Post, nativeTrapVars
<1>3. NativeTrapTypes'
  BY <1>1, <1>2 DEF NativeTrapInv, NativeTrapTypes
<1>4. \A c \in Contexts : Shape(c)'
  BY <1>1 DEF NativeTrapInv, Shape
<1>5. Running'
  <2>1. CASE cpu'.place = cpu.place /\ (cpu.place = "irq_handle" => cpu'.masked = cpu.masked)
    BY <1>1, <1>2, <2>1 DEF NativeTrapInv, Running
  <2>2. CASE {cpu.place, cpu'.place} \subseteq {"text", "lib"}
    BY <1>1, <1>2, <2>2 DEF NativeTrapInv, Running, Home
  <2>3. QED  BY <1>2, <2>1, <2>2
<1>6. InItsSpace'
  BY <1>1, <1>2 DEF NativeTrapInv, InItsSpace, Saved
<1>7. QED  BY <1>3, <1>4, <1>5, <1>6 DEF NativeTrapInv

\* A context that starts has one frame, at home, and names its space.
LEMMA Making ==
  ASSUME NativeTrapInv, NEW t \in Threads, NEW place \in Home(t), NEW ksp,
         t \in Uthreads => ksp = t, NewContext(t, place, ksp)
  PROVE  NativeTrapInv'
<1> DEFINE f == Frame(place, FALSE, "EVENT_YIELD")
<1>1. t \in Contexts /\ t # cpu.thread /\ UNCHANGED <<cpu, ev>>
  BY NativeTrapsAssumption DEF Contexts, NewContext
<1>2. f \in Frames /\ f.place \in Home(t)
  BY DEF Frame, Frames, Events, Home
<1>3. /\ stack' = [stack EXCEPT ![t] = <<f>>]
      /\ ctx' = [ctx EXCEPT ![t] = [vm_head |-> SpaceFor(t), ksp |-> ksp]]
      /\ ring' = Append(ring, t)
  BY DEF NewContext
<1>4. /\ stack'[t] = <<f>>
      /\ \A c \in Contexts : c # t => stack'[c] = stack[c]
      /\ ctx'[t] = [vm_head |-> SpaceFor(t), ksp |-> ksp] /\ DOMAIN ctx' = Contexts
      /\ \A c \in Contexts : c # t => ctx'[c] = ctx[c]
  BY <1>1, <1>3 DEF NativeTrapInv, NativeTrapTypes
<1> HIDE DEF f
<1>5. /\ <<f>> \in Seq(Frames) /\ Len(<<f>>) = 1 /\ <<f>>[1] = f /\ <<f>> # <<>>
  BY <1>2, OneFrame
<1>6. /\ ring' \in Seq(Threads)
      /\ \A c \in ToSet(ring') : c = t \/ c \in ToSet(ring)
  <2>1. ring \in Seq(Threads)
    BY DEF NativeTrapInv, NativeTrapTypes
  <2>2. /\ ring' \in Seq(Threads) /\ Len(ring') = Len(ring) + 1
        /\ \A i \in 1 .. Len(ring) : ring'[i] = ring[i]
        /\ ring'[Len(ring) + 1] = t
    BY <1>3, <2>1, AppendProperties
  <2>3. Len(ring) \in Nat /\ DOMAIN ring = 1 .. Len(ring) /\ DOMAIN ring' = 1 .. Len(ring')
    BY <2>1, <2>2, LenProperties
  <2>4. ASSUME NEW i \in 1 .. Len(ring')
        PROVE  ring'[i] = t \/ \E j \in 1 .. Len(ring) : ring'[i] = ring[j]
    BY <2>2, <2>3
  <2>5. QED  BY <2>2, <2>3, <2>4 DEF ToSet
<1>7. NativeTrapTypes'
  <2>1. stack' \in [Contexts -> Seq(Frames)]
    BY <1>3, <1>5 DEF NativeTrapInv, NativeTrapTypes
  <2>2. QED  BY <1>1, <1>4, <1>6, <2>1 DEF NativeTrapInv, NativeTrapTypes
<1>8. ASSUME NEW c \in Contexts  PROVE Shape(c)'
  <2>1. CASE c = t
    <3>1. Len(stack'[c]) = 1 /\ stack'[c][1].place \in Home(c)
      BY <1>2, <1>4, <1>5, <2>1, Zenon
    <3>2. QED  BY <3>1 DEF Shape
  <2>2. CASE c # t
    BY <1>4, <2>2 DEF NativeTrapInv, Shape
  <2>3. QED  BY <2>1, <2>2
<1>9. Running'
  <2>1. stack'[cpu.thread] = stack[cpu.thread]
    BY <1>1, <1>4 DEF NativeTrapInv, NativeTrapTypes
  <2>2. QED  BY <1>1, <2>1 DEF NativeTrapInv, Running
<1>10. InItsSpace'
  <2>1. Saved(t)'
    <3>1. stack'[t] # <<>>
      BY <1>4, <1>5, Zenon
    <3>2. ctx'[t].vm_head = SpaceFor(t) /\ (t \in Uthreads => ctx'[t].ksp = t)
      BY <1>4
    <3>3. QED  BY <3>1, <3>2 DEF Saved
  <2>2. ASSUME NEW c \in ToSet(ring), c # t, c # cpu.thread  PROVE Saved(c)'
    <3>1. c \in Contexts /\ Saved(c)
      BY <2>2 DEF NativeTrapInv, InItsSpace, NativeTrapTypes, ToSet, Contexts
    <3>2. QED  BY <1>4, <2>2, <3>1 DEF Saved
  <2>3. QED  BY <1>1, <1>6, <2>1, <2>2 DEF NativeTrapInv, InItsSpace
<1>11. QED  BY <1>7, <1>8, <1>9, <1>10 DEF NativeTrapInv

\* irq_handle saves the processor's space and kernel stack in the context,
\* and goes on in the next thread of the ring with those of its context.
LEMMA Handling ==
  ASSUME NativeTrapInv, irq_handle
  PROVE  NativeTrapInv'
<1> DEFINE t == cpu.thread
           n == After(t)
           kept == [ctx EXCEPT ![t] = [vm_head |-> cpu.vm_head, ksp |-> cpu.ksp]]
<1>1. /\ t \in Contexts /\ stack[t] # <<>> /\ ring' = ring /\ NativeTrapTypes
      /\ cpu.place = "irq_handle"
  BY DEF irq_handle, NativeTrapInv, NativeTrapTypes, Running, Home
<1>2. CASE UNCHANGED <<cpu, ev, stack, ctx>>
  <2>1. NativeTrapTypes' /\ (\A c \in Contexts : Shape(c)')
    BY <1>1, <1>2 DEF NativeTrapInv, NativeTrapTypes, Shape
  <2>2. Running'
    BY <1>2 DEF NativeTrapInv, Running
  <2>3. InItsSpace'
    BY <1>1, <1>2 DEF NativeTrapInv, InItsSpace, Saved
  <2>4. QED  BY <2>1, <2>2, <2>3 DEF NativeTrapInv
<1>3. CASE ~ UNCHANGED <<cpu, ev, stack, ctx>>
  <2>1. /\ ring # <<>>
        /\ cpu' = [thread |-> n, place |-> stack[n][1].place, masked |-> stack[n][1].masked,
                   vm_head |-> kept[n].vm_head, ksp |-> kept[n].ksp]
        /\ stack' = [stack EXCEPT ![n] = Tail(@)]
        /\ ctx' = [kept EXCEPT ![n] = None]
    BY <1>3 DEF irq_handle, KspOf
  <2>2. n \in ToSet(ring) /\ n \in Threads /\ n \in Contexts
    <3>1. n \in ToSet(ring)
      BY <1>1, <2>1, AfterIsOfTheRing DEF NativeTrapTypes
    <3>2. QED  BY <1>1, <3>1 DEF NativeTrapTypes, ToSet, Contexts
  <2> HIDE DEF n
  <2>3. /\ kept[t] = [vm_head |-> cpu.vm_head, ksp |-> cpu.ksp] /\ DOMAIN kept = Contexts
        /\ \A c \in Contexts : c # t => kept[c] = ctx[c]
    BY <1>1 DEF NativeTrapTypes
  <2>4. \A c \in ToSet(ring) : c # t => Saved(c)
    BY DEF NativeTrapInv, InItsSpace
  <2>5. stack[n] # <<>>
    BY <1>1, <2>2, <2>4 DEF Saved
  <2>6. ASSUME NEW c \in Threads, c \in ToSet(ring) \/ c = t
        PROVE  kept[c].vm_head = SpaceFor(c) /\ (c \in Uthreads => kept[c].ksp = c)
    <3>1. CASE c = t
      <4>1. cpu.vm_head = SpaceFor(c) /\ (c \in Uthreads => cpu.ksp = c)
        BY <3>1 DEF NativeTrapInv, InItsSpace
      <4>2. QED  BY <2>3, <3>1, <4>1
    <3>2. CASE c # t
      <4>1. kept[c] = ctx[c] /\ Saved(c)
        BY <2>3, <2>4, <2>6, <3>2 DEF Contexts
      <4>2. QED  BY <4>1 DEF Saved
    <3>3. QED  BY <3>1, <3>2
  <2> HIDE DEF kept
  <2>7. /\ stack[n] \in Seq(Frames) /\ Len(stack[n]) = 1
        /\ stack[n][1].place \in Home(n)
    BY <1>1, <2>2, <2>5 DEF NativeTrapInv, NativeTrapTypes, Shape
  <2>8. stack[n][1] \in Frames /\ Tail(stack[n]) = <<>>
    BY <2>5, <2>7, TakenOff
  <2>9. /\ cpu'.thread = n /\ cpu'.place = stack[n][1].place
        /\ cpu'.masked \in BOOLEAN
        /\ cpu'.vm_head = kept[n].vm_head /\ cpu'.ksp = kept[n].ksp
        /\ cpu' = [thread |-> cpu'.thread, place |-> cpu'.place, masked |-> cpu'.masked,
                   vm_head |-> cpu'.vm_head, ksp |-> cpu'.ksp]
    BY <2>1, <2>8 DEF Frames
  <2>10. /\ stack'[n] = <<>> /\ DOMAIN ctx' = Contexts
         /\ \A c \in Contexts : c # n => stack'[c] = stack[c] /\ ctx'[c] = kept[c]
    BY <1>1, <2>1, <2>2, <2>3, <2>8 DEF NativeTrapTypes
  <2>11. NativeTrapTypes'
    <3>1. stack' \in [Contexts -> Seq(Frames)]
      <4>1. Tail(stack[n]) \in Seq(Frames)
        BY <2>8, EmptySeq
      <4>2. QED  BY <1>1, <2>1, <4>1 DEF NativeTrapTypes
    <3>2. QED  BY <1>1, <2>2, <2>9, <2>10, <3>1 DEF NativeTrapTypes
  <2>12. \A c \in Contexts : Shape(c)'
    BY <2>10 DEF NativeTrapInv, Shape
  <2>13. Running'
    BY <2>7, <2>9, <2>10 DEF Running
  <2>14. InItsSpace'
    <3>1. ASSUME NEW c \in ToSet(ring), c # n  PROVE Saved(c)'
      <4>1. c \in Threads /\ c \in Contexts
        BY <1>1 DEF NativeTrapTypes, ToSet, Contexts
      <4>2. stack[c] # <<>>
        BY <1>1, <2>4 DEF Saved
      <4>3. kept[c].vm_head = SpaceFor(c) /\ (c \in Uthreads => kept[c].ksp = c)
        BY <2>6, <4>1
      <4>4. QED  BY <2>10, <3>1, <4>1, <4>2, <4>3 DEF Saved
    <3>2. kept[n].vm_head = SpaceFor(n) /\ (n \in Uthreads => kept[n].ksp = n)
      BY <2>2, <2>6
    <3>3. QED  BY <1>1, <2>9, <3>1, <3>2 DEF InItsSpace
  <2>15. QED  BY <2>11, <2>12, <2>13, <2>14 DEF NativeTrapInv
<1>4. QED  BY <1>2, <1>3

\* No signal has come yet.
LEMMA SignalsStart ==
  ASSUME NativeTrapsInit
  PROVE  NativeTrapInv
<1>1. /\ cpu = [thread |-> Main, place |-> "text", masked |-> TRUE, vm_head |-> None,
                ksp |-> None]
      /\ stack = [t \in Contexts |-> <<>>] /\ ctx = [t \in Contexts |-> None] /\ ring = <<>>
  BY DEF NativeTrapsInit, Contexts
<1>2. Main \in Contexts /\ Main \notin Threads /\ Home(Main) = {"text", "lib"}
  BY NativeTrapsAssumption DEF Contexts, Threads, Home
<1>3. <<>> \in Seq(Frames) /\ <<>> \in Seq(Threads) /\ ToSet(<<>>) = {}
  BY EmptySeq DEF ToSet
<1>4. NativeTrapTypes
  BY <1>1, <1>2, <1>3 DEF NativeTrapTypes
<1>5. (\A c \in Contexts : Shape(c)) /\ Running /\ InItsSpace
  BY <1>1, <1>2, <1>3 DEF Shape, Running, InItsSpace
<1>6. QED  BY <1>4, <1>5 DEF NativeTrapInv

\* Every signal and every step of the threads keeps the invariant.
LEMMA SignalsKeep ==
  ASSUME NativeTrapInv, [NativeTrapsNext]_nativeTrapVars
  PROVE  NativeTrapInv'
<1>1. ASSUME NEW t \in Kthreads, native_kcontext(t)  PROVE NativeTrapInv'
  <2>1. t \in Threads /\ t \notin Uthreads /\ "text" \in Home(t)
    BY NativeTrapsAssumption DEF Threads, Home
  <2>2. QED  BY <1>1, <2>1, Making DEF native_kcontext
<1>2. ASSUME NEW t \in Uthreads, native_ucontext(t)  PROVE NativeTrapInv'
  <2>1. t \in Threads /\ "user" \in Home(t)
    BY DEF Threads, Home
  <2>2. QED  BY <1>2, <2>1, Making DEF native_ucontext
<1>3. QED  BY <1>1, <1>2, Signalling, SignalsRest, Handling DEF NativeTrapsNext

\* What the invariant means for the properties.
LEMMA SignalsSound ==
  ASSUME NativeTrapInv
  PROVE  ThreadRunsInItsSpace /\ EventIsTheOneTaken
<1>1. cpu.thread \in Contexts /\ (cpu.place = "user" => cpu.thread \in Uthreads)
  BY DEF NativeTrapInv, NativeTrapTypes, Running, Home
<1>2. ThreadRunsInItsSpace
  <2>1. \A c \in Uthreads : c \in Threads /\ SpaceFor(c) = c
    BY DEF Threads, SpaceFor
  <2>2. \A c \in Kthreads : c \in Threads /\ SpaceFor(c) = None
    BY NativeTrapsAssumption DEF Threads, SpaceFor
  <2>3. QED  BY <1>1, <2>1, <2>2 DEF ThreadRunsInItsSpace, NativeTrapInv, InItsSpace
<1>3. EventIsTheOneTaken
  BY DEF EventIsTheOneTaken, NativeTrapInv, Running, Home
<1>4. QED  BY <1>2, <1>3

\* Each thread runs in its own space, one of the kernel in none, and user
\* code over its own kernel stack, whatever the contexts of the kernel's
\* threads held when they started (cte.c:19).
THEOREM SpacesAreSwitched == NativeTrapsSpec => []ThreadRunsInItsSpace
<1>1. NativeTrapsInit => NativeTrapInv
  BY SignalsStart
<1>2. NativeTrapInv /\ [NativeTrapsNext]_nativeTrapVars => NativeTrapInv'
  BY SignalsKeep
<1>3. NativeTrapInv => ThreadRunsInItsSpace
  BY SignalsSound
<1>4. QED  BY <1>1, <1>2, <1>3, PTL DEF NativeTrapsSpec

\* irq_handle hands the client the event of the signal that it returns from,
\* though every signal uses the one slot (cte.c:28, cte.c:76).
THEOREM EventsAreDelivered == NativeTrapsSpec => []EventIsTheOneTaken
<1>1. NativeTrapsInit => NativeTrapInv
  BY SignalsStart
<1>2. NativeTrapInv /\ [NativeTrapsNext]_nativeTrapVars => NativeTrapInv'
  BY SignalsKeep
<1>3. NativeTrapInv => EventIsTheOneTaken
  BY SignalsSound
<1>4. QED  BY <1>1, <1>2, <1>3, PTL DEF NativeTrapsSpec
-----------------------------------------------------------------------------
(* Address spaces as lists (NativeVme).                                      *)

\* A node and a list of a space, of the right types.
Nodes == [known : BOOLEAN, pa : PhysPages \cup {NoPhys}, is_mapped : BOOLEAN,
          next : UserVas \cup {End}]
Heads == [head : UserVas \cup {End}, node : [UserVas -> Nodes]]

\* The list of a space as what it is: its pages p[1] to p[k], once each, every
\* one linked to the one behind it.
Known(h) == {va \in UserVas : h.node[va].known}
Chain(h, k, p) ==
  /\ p \in [1 .. k -> UserVas]
  /\ \A i, j \in 1 .. k : p[i] = p[j] => i = j
  /\ h.head = IF k = 0 THEN End ELSE p[1]
  /\ \A i \in 1 .. k : h.node[p[i]].next = IF i = k THEN End ELSE p[i + 1]
  /\ Known(h) = {p[i] : i \in 1 .. k}
Chained(h) == \E k \in Nat : \E p : Chain(h, k, p)

\* A list is no longer than there are pages.
LEMMA ChainIsShort ==
  ASSUME NEW h, NEW k \in Nat, NEW p, Chain(h, k, p)
  PROVE  k \leq Cardinality(UserVas)
<1>1. p \in Injection(1 .. k, UserVas)
  BY DEF Chain, Injection, IsInjective
<1>2. Cardinality(1 .. k) = k
  BY FS_Interval
<1>3. QED
  BY <1>1, <1>2, FS_Injection, NativeVmeAssumption

\* Walking a chain passes each page of it, one by one, and then ends.
LEMMA Walked ==
  ASSUME NEW h, NEW k \in Nat, NEW p, Chain(h, k, p)
  PROVE  Ends(h) /\ Listed(h) = Known(h)
<1> DEFINE g == [n \in Nat |-> IF n < k THEN p[n + 1] ELSE End]
           Step(f) == [n \in Nat |-> IF n = 0 THEN h.head
                                     ELSE IF f[n - 1] = End THEN End
                                     ELSE h.node[f[n - 1]].next]
           after == CHOOSE f : f = Step(f)
           c == Cardinality(UserVas)
<1>1. c \in Nat /\ k \leq c
  BY ChainIsShort, FS_CardinalityType, NativeVmeAssumption
<1>2. \A n \in Nat : g[n] = Step(g)[n]
  <2> SUFFICES ASSUME NEW n \in Nat  PROVE g[n] = Step(g)[n]
    OBVIOUS
  <2>1. CASE n = 0
    BY <2>1 DEF Chain
  <2>2. CASE n # 0
    <3>1. n - 1 \in Nat /\ n - 1 + 1 = n
      BY <2>2
    <3>2. CASE n - 1 < k
      <4>1. g[n - 1] = p[n] /\ n \in 1 .. k
        BY <3>1, <3>2, <2>2
      <4>2. p[n] # End /\ h.node[p[n]].next = IF n = k THEN End ELSE p[n + 1]
        BY <4>1, NativeVmeAssumption DEF Chain
      <4>3. g[n] = IF n = k THEN End ELSE p[n + 1]
        BY <4>1
      <4>4. QED  BY <2>2, <4>1, <4>2, <4>3
    <3>3. CASE ~(n - 1 < k)
      <4>1. g[n - 1] = End /\ g[n] = End
        BY <3>1, <3>3
      <4>2. QED  BY <2>2, <4>1
    <3>4. QED  BY <3>2, <3>3
  <2>3. QED  BY <2>1, <2>2
<1>3. g = Step(g)
  BY <1>2
<1>4. after = Step(after)
  BY <1>3
<1> HIDE DEF after
<1>5. \A n \in Nat : after[n] = g[n]
  <2> DEFINE Bad == {n \in Nat : after[n] # g[n]}
  <2> SUFFICES ASSUME Bad # {}  PROVE FALSE
    OBVIOUS
  <2>1. PICK m \in Bad : \A y \in Bad : <<y, m>> \notin OpToRel(<, Nat)
    BY NatLessThanWellFounded, WFMin
  <2>2. m \in Nat /\ after[m] # g[m]
    BY <2>1
  <2>3. after[m] = Step(after)[m] /\ g[m] = Step(g)[m]
    BY <1>2, <1>4, <2>2
  <2>4. m # 0
    BY <2>2, <2>3
  <2>5. m - 1 \in Nat /\ m - 1 < m
    BY <2>2, <2>4
  <2>6. <<m - 1, m>> \in OpToRel(<, Nat)
    BY <2>2, <2>5 DEF OpToRel
  <2>7. after[m - 1] = g[m - 1]
    BY <2>1, <2>5, <2>6
  <2>8. QED
    BY <2>2, <2>3, <2>4, <2>7
<1>6. Passed(h) = [n \in 0 .. c |-> after[n]]
  BY DEF Passed, after
<1>7. Passed(h) = [n \in 0 .. c |-> g[n]]
  BY <1>5, <1>6
<1>8. Ends(h)
  BY <1>1, <1>7 DEF Ends
<1>9. Listed(h) = {g[n] : n \in 0 .. c} \ {End}
  BY <1>7 DEF Listed
<1>10. ASSUME NEW i \in 1 .. k  PROVE p[i] \in Listed(h)
  <2>1. i - 1 \in 0 .. c /\ g[i - 1] = p[i]
    BY <1>1
  <2>2. p[i] # End
    BY NativeVmeAssumption DEF Chain
  <2>3. QED  BY <1>9, <2>1, <2>2
<1>11. ASSUME NEW va \in Listed(h)  PROVE \E i \in 1 .. k : va = p[i]
  <2>1. PICK n \in 0 .. c : va = g[n] /\ va # End
    BY <1>9
  <2>2. n < k /\ n + 1 \in 1 .. k /\ va = p[n + 1]
    BY <2>1
  <2>3. QED  BY <2>2
<1>12. QED
  BY <1>8, <1>10, <1>11 DEF Chain

\* Whatever keeps head, known pages and links keeps the chain.
LEMMA SameChain ==
  ASSUME NEW h, NEW i, Chained(h), i.head = h.head,
         \A va \in UserVas : i.node[va].known = h.node[va].known /\ i.node[va].next = h.node[va].next
  PROVE  Chained(i) /\ Known(i) = Known(h)
<1> PICK k \in Nat : \E p : Chain(h, k, p)
  BY DEF Chained
<1>1. PICK p : Chain(h, k, p)
  OBVIOUS
<1>2. Known(i) = Known(h)
  BY DEF Known
<1>3. \A j \in 1 .. k : p[j] \in UserVas
  BY <1>1 DEF Chain
<1>4. Chain(i, k, p)
  BY <1>1, <1>2, <1>3 DEF Chain
<1>5. QED  BY <1>2, <1>4 DEF Chained

\* A page mapped for the first time goes in front of the chain.
LEMMA ChainGrows ==
  ASSUME NEW h \in Heads, Chained(h), NEW va \in UserVas, ~h.node[va].known,
         NEW pa \in PhysPages, NEW mapped \in BOOLEAN
  PROVE  LET i == Linked(h, va, pa, mapped)
         IN  i \in Heads /\ Chained(i) /\ Known(i) = Known(h) \cup {va}
<1> DEFINE i == Linked(h, va, pa, mapped)
<1> PICK k \in Nat : \E p : Chain(h, k, p)
  BY DEF Chained
<1>1. PICK p : Chain(h, k, p)
  OBVIOUS
<1>2. i \in Heads
  BY DEF Linked, Heads, Nodes
<1>3. /\ i.head = va /\ i.node[va].known /\ i.node[va].next = h.head
      /\ \A w \in UserVas \ {va} : i.node[w] = h.node[w]
  BY DEF Linked, Heads, Nodes
<1> HIDE DEF i
<1>4. Known(i) = Known(h) \cup {va}
  BY <1>3 DEF Known
<1> DEFINE q == [j \in 1 .. k + 1 |-> IF j = 1 THEN va ELSE p[j - 1]]
<1>5. /\ p \in [1 .. k -> UserVas] /\ \A a, b \in 1 .. k : p[a] = p[b] => a = b
      /\ Known(h) = {p[j] : j \in 1 .. k}
      /\ \A j \in 1 .. k : h.node[p[j]].next = IF j = k THEN End ELSE p[j + 1]
      /\ h.head = IF k = 0 THEN End ELSE p[1]
  BY <1>1 DEF Chain
<1>6. \A j \in 1 .. k : p[j] \in UserVas /\ p[j] # va
  BY <1>5 DEF Known
<1>7. ASSUME NEW j \in 2 .. k + 1  PROVE j - 1 \in 1 .. k /\ q[j] = p[j - 1]
  OBVIOUS
<1>8. q[1] = va /\ k + 1 \in Nat /\ k + 1 # 0
  OBVIOUS
<1>9. q \in [1 .. k + 1 -> UserVas]
  BY <1>6
<1>10. ASSUME NEW a \in 1 .. k + 1, NEW b \in 1 .. k + 1, q[a] = q[b]  PROVE a = b
  <2>1. (a = 1 \/ a \in 2 .. k + 1) /\ (b = 1 \/ b \in 2 .. k + 1)
    OBVIOUS
  <2>2. CASE a = 1 /\ b \in 2 .. k + 1
    BY <1>6, <1>7, <1>8, <1>10, <2>2
  <2>3. CASE b = 1 /\ a \in 2 .. k + 1
    BY <1>6, <1>7, <1>8, <1>10, <2>3
  <2>4. CASE a \in 2 .. k + 1 /\ b \in 2 .. k + 1
    <3>1. a - 1 = b - 1
      BY <1>5, <1>7, <1>10, <2>4
    <3>2. QED  BY <3>1
  <2>5. QED  BY <2>1, <2>2, <2>3, <2>4
<1>11. ASSUME NEW j \in 1 .. k + 1
       PROVE  i.node[q[j]].next = IF j = k + 1 THEN End ELSE q[j + 1]
  <2>1. CASE j = 1
    <3>1. i.node[q[j]].next = IF k = 0 THEN End ELSE p[1]
      BY <1>3, <1>5, <1>8, <2>1
    <3>2. k # 0 => 2 \in 2 .. k + 1 /\ q[2] = p[1]
      OBVIOUS
    <3>3. QED  BY <2>1, <3>1, <3>2
  <2>2. CASE j \in 2 .. k + 1
    <3>1. /\ j - 1 \in 1 .. k /\ q[j] = p[j - 1] /\ q[j] \in UserVas \ {va}
      BY <1>6, <1>7, <2>2
    <3>2. i.node[q[j]].next = IF j - 1 = k THEN End ELSE p[j - 1 + 1]
      BY <1>3, <1>5, <3>1
    <3>3. j # k + 1 => j + 1 \in 2 .. k + 1 /\ q[j + 1] = p[j - 1 + 1]
      BY <2>2
    <3>4. QED  BY <3>2, <3>3
  <2>3. QED  BY <2>1, <2>2
<1>12. Known(i) = {q[j] : j \in 1 .. k + 1}
  <2>1. ASSUME NEW w \in Known(i)  PROVE \E j \in 1 .. k + 1 : w = q[j]
    <3>1. CASE w = va
      BY <1>8, <3>1
    <3>2. CASE w \in Known(h)
      <4>1. PICK j \in 1 .. k : w = p[j]
        BY <1>5, <3>2
      <4>2. j + 1 \in 1 .. k + 1 /\ q[j + 1] = p[j]
        OBVIOUS
      <4>3. QED  BY <4>1, <4>2
    <3>3. QED  BY <1>4, <3>1, <3>2
  <2>2. ASSUME NEW j \in 1 .. k + 1  PROVE q[j] \in Known(i)
    BY <1>4, <1>5
  <2>3. QED  BY <2>1, <2>2
<1>13. Chain(i, k + 1, q)
  BY <1>3, <1>8, <1>9, <1>10, <1>11, <1>12 DEF Chain
<1>14. QED
  BY <1>2, <1>4, <1>8, <1>13 DEF i, Chained

NativeVmeTypes ==
  /\ n_live \subseteq AddrSpaces /\ vm_head \in n_live \cup {NoSpace}
  /\ as \in [AddrSpaces -> Heads]
  /\ host \in [UserVas -> PhysPages \cup {NoPhys}]
  /\ pool \in Nat /\ stuck \in BOOLEAN

\* Each list is a chain of pages that have something behind them.
Lists == \A s \in AddrSpaces : Chained(as[s]) /\ \A va \in Known(as[s]) : as[s].node[va].pa \in PhysPages

\* is_mapped is set for the pages of the space that is loaded, no others.
Marked ==
  \A s \in n_live, va \in UserVas :
    as[s].node[va].is_mapped <=> s = vm_head /\ va \in Known(as[s])

\* The page behind an address in a space, and what the host has mapped.
Behind(s, va) == IF s # NoSpace /\ va \in Known(as[s]) THEN as[s].node[va].pa ELSE NoPhys
HostHas == \A va \in UserVas : host[va] = Behind(vm_head, va)

NativeVmeInv == NativeVmeTypes /\ Lists /\ Marked /\ HostHas

\* The walks of an invariant state.
LEMMA Walks ==
  ASSUME NativeVmeInv, NEW s \in AddrSpaces
  PROVE  Ends(as[s]) /\ Listed(as[s]) = Known(as[s])
  BY Walked DEF NativeVmeInv, Lists, Chained

\* An empty list is a chain of nothing.
LEMMA EmptyChain ==
  /\ EmptyHead \in Heads /\ Known(EmptyHead) = {} /\ Chained(EmptyHead)
  /\ \A va \in UserVas : ~EmptyHead.node[va].is_mapped
<1>1. /\ EmptyHead \in Heads /\ Known(EmptyHead) = {}
      /\ \A va \in UserVas : ~EmptyHead.node[va].is_mapped
  BY DEF EmptyHead, NoNode, Heads, Nodes, Known
<1> DEFINE p == [i \in 1 .. 0 |-> End]
<1>2. 1 .. 0 = {}
  OBVIOUS
<1>3. Chain(EmptyHead, 0, p)
  BY <1>1, <1>2 DEF Chain, EmptyHead
<1>4. QED  BY <1>1, <1>3 DEF Chained

\* protect makes an empty list.
LEMMA Protecting ==
  ASSUME NativeVmeInv, NEW s \in AddrSpaces, NativeProtect(s)
  PROVE  NativeVmeInv'
<1>1. CASE pool = 0
  BY <1>1 DEF NativeProtect, NativeVmeInv, NativeVmeTypes, Lists, Marked, HostHas, Behind
<1>2. CASE pool # 0
  <2>1. /\ n_live' = n_live \cup {s} /\ as' = [as EXCEPT ![s] = EmptyHead] /\ pool' = pool - 1
        /\ UNCHANGED <<vm_head, host, stuck>> /\ s \notin n_live /\ s # vm_head
    BY <1>2, NativeVmeAssumption DEF NativeProtect, NativeVmeInv, NativeVmeTypes
  <2>2. /\ EmptyHead \in Heads /\ Known(EmptyHead) = {} /\ Chained(EmptyHead)
        /\ \A va \in UserVas : ~EmptyHead.node[va].is_mapped
    BY EmptyChain
  <2> HIDE DEF NativeVmeInv
  <2>4. as'[s] = EmptyHead /\ \A t \in AddrSpaces \ {s} : as'[t] = as[t]
    BY <2>1 DEF NativeVmeInv, NativeVmeTypes
  <2>5. NativeVmeTypes'
    <3>1. as' \in [AddrSpaces -> Heads]
      BY <2>1, <2>2 DEF NativeVmeInv, NativeVmeTypes
    <3>2. pool' \in Nat
      BY <1>2, <2>1 DEF NativeVmeInv, NativeVmeTypes
    <3>3. QED  BY <2>1, <3>1, <3>2 DEF NativeVmeInv, NativeVmeTypes
  <2>6. Lists'
    BY <2>2, <2>4 DEF NativeVmeInv, Lists
  <2>7. Marked'
    <3>1. ASSUME NEW t \in n_live', NEW va \in UserVas
          PROVE  as'[t].node[va].is_mapped <=> t = vm_head' /\ va \in Known(as'[t])
      <4>1. CASE t = s
        BY <2>1, <2>2, <2>4, <4>1
      <4>2. CASE t # s
        BY <2>1, <2>4, <4>2 DEF NativeVmeInv, NativeVmeTypes, Marked
      <4>3. QED  BY <4>1, <4>2
    <3>2. QED  BY <3>1 DEF Marked
  <2>8. HostHas'
    BY <2>1, <2>4, NativeVmeAssumption DEF NativeVmeInv, NativeVmeTypes, HostHas, Behind
  <2>9. QED  BY <2>5, <2>6, <2>7, <2>8 DEF NativeVmeInv
<1>3. QED  BY <1>1, <1>2

\* map puts the page in front, and on the host if the space is loaded.
LEMMA Mapping ==
  ASSUME NativeVmeInv, ~Remaps, NEW s \in AddrSpaces, NEW va \in UserVas,
         NEW pa \in PhysPages, NativeMap(s, va, pa)
  PROVE  NativeVmeInv'
<1> DEFINE i == Linked(as[s], va, pa, s = vm_head)
<1>1. CASE pool = 0
  BY <1>1 DEF NativeMap, NativeVmeInv, NativeVmeTypes, Lists, Marked, HostHas, Behind
<1>2. CASE pool # 0
  <2>1. /\ s \in n_live /\ ~as[s].node[va].known /\ as' = [as EXCEPT ![s] = i]
        /\ host' = IF s = vm_head THEN [host EXCEPT ![va] = pa] ELSE host
        /\ pool' = pool - 1 /\ UNCHANGED <<stuck, n_live, vm_head>>
    BY <1>2 DEF NativeMap
  <2>2. as[s] \in Heads /\ Chained(as[s])
    BY DEF NativeVmeInv, NativeVmeTypes, Lists
  <2>3. i \in Heads /\ Chained(i) /\ Known(i) = Known(as[s]) \cup {va}
    BY <2>1, <2>2, ChainGrows
  <2>4. /\ i.node[va].pa = pa /\ i.node[va].is_mapped = (s = vm_head)
        /\ \A w \in UserVas \ {va} : i.node[w] = as[s].node[w]
    BY <2>2 DEF Linked, Heads, Nodes
  <2> HIDE DEF i
  <2>5. as'[s] = i /\ \A t \in AddrSpaces \ {s} : as'[t] = as[t]
    BY <2>1 DEF NativeVmeInv, NativeVmeTypes
  <2>6. NativeVmeTypes'
    <3>1. as' \in [AddrSpaces -> Heads]
      BY <2>1, <2>3 DEF NativeVmeInv, NativeVmeTypes
    <3>2. pool' \in Nat
      BY <1>2, <2>1 DEF NativeVmeInv, NativeVmeTypes
    <3>3. host' \in [UserVas -> PhysPages \cup {NoPhys}]
      BY <2>1 DEF NativeVmeInv, NativeVmeTypes
    <3>4. QED  BY <2>1, <3>1, <3>2, <3>3 DEF NativeVmeInv, NativeVmeTypes
  <2>7. Lists'
    <3>1. ASSUME NEW w \in Known(i)  PROVE i.node[w].pa \in PhysPages
      BY <2>3, <2>4 DEF NativeVmeInv, Lists, Known
    <3>2. QED  BY <2>3, <2>5, <3>1 DEF NativeVmeInv, Lists
  <2>8. Marked'
    <3>1. ASSUME NEW t \in n_live', NEW w \in UserVas
          PROVE  as'[t].node[w].is_mapped <=> t = vm_head' /\ w \in Known(as'[t])
      <4>1. CASE t = s /\ w = va
        BY <2>1, <2>3, <2>4, <2>5, <4>1
      <4>2. CASE t = s /\ w # va
        <5>1. i.node[w] = as[s].node[w] /\ (w \in Known(i) <=> w \in Known(as[s]))
          BY <2>3, <2>4, <4>2
        <5>2. as[s].node[w].is_mapped <=> s = vm_head /\ w \in Known(as[s])
          BY <2>1 DEF NativeVmeInv, Marked
        <5>3. as'[t] = i /\ vm_head' = vm_head
          BY <2>1, <2>5, <4>2
        <5>4. QED  BY <4>2, <5>1, <5>2, <5>3
      <4>3. CASE t # s
        BY <2>1, <2>5, <4>3 DEF NativeVmeInv, NativeVmeTypes, Marked
      <4>4. QED  BY <4>1, <4>2, <4>3
    <3>2. QED  BY <3>1 DEF Marked
  <2>9. HostHas'
    <3>1. ASSUME NEW w \in UserVas  PROVE host'[w] = Behind(vm_head, w)'
      <4>1. host[w] = Behind(vm_head, w) /\ s # NoSpace
        BY NativeVmeAssumption DEF NativeVmeInv, HostHas
      <4>2. CASE s = vm_head /\ w = va
        BY <2>1, <2>3, <2>4, <2>5, <4>1, <4>2 DEF Behind, NativeVmeInv, NativeVmeTypes
      <4>3. CASE s = vm_head /\ w # va
        BY <2>1, <2>3, <2>4, <2>5, <4>1, <4>3 DEF Behind, NativeVmeInv, NativeVmeTypes
      <4>4. CASE s # vm_head
        BY <2>1, <2>5, <4>1, <4>4 DEF Behind, NativeVmeInv, NativeVmeTypes
      <4>5. QED  BY <4>2, <4>3, <4>4
    <3>2. QED  BY <3>1 DEF HostHas
  <2>10. QED  BY <2>6, <2>7, <2>8, <2>9 DEF NativeVmeInv
<1>3. QED  BY <1>1, <1>2

\* A walk that marks all pages of a list changes nothing else.
Remarked(h, n, flag) ==
  /\ n \in Heads /\ n.head = h.head
  /\ \A va \in UserVas :
       /\ n.node[va].known = h.node[va].known
       /\ n.node[va].next = h.node[va].next
       /\ n.node[va].pa = h.node[va].pa
       /\ n.node[va].is_mapped = IF va \in Known(h) THEN flag ELSE h.node[va].is_mapped

LEMMA Remarking ==
  ASSUME NEW h \in Heads, Listed(h) = Known(h), NEW flag \in BOOLEAN
  PROVE  Remarked(h, SetMapped(h, flag), flag)
<1> DEFINE Marking(va) == IF va \in Known(h) THEN [h.node[va] EXCEPT !.is_mapped = flag] ELSE h.node[va]
           nodes == [va \in UserVas |-> Marking(va)]
<1>1. SetMapped(h, flag) = [h EXCEPT !.node = nodes]
  BY DEF SetMapped, Heads
<1>2. ASSUME NEW va \in UserVas
      PROVE  /\ Marking(va) \in Nodes /\ Marking(va).known = h.node[va].known
             /\ Marking(va).next = h.node[va].next /\ Marking(va).pa = h.node[va].pa
             /\ Marking(va).is_mapped = IF va \in Known(h) THEN flag ELSE h.node[va].is_mapped
  <2>1. h.node[va] \in Nodes
    BY DEF Heads
  <2>2. QED  BY <2>1 DEF Nodes
<1> HIDE DEF Marking
<1>3. nodes \in [UserVas -> Nodes]
  BY <1>2
<1> HIDE DEF nodes
<1>4. /\ SetMapped(h, flag) \in Heads /\ SetMapped(h, flag).head = h.head
      /\ SetMapped(h, flag).node = nodes
  BY <1>1, <1>3 DEF Heads
<1>5. \A va \in UserVas : nodes[va] = Marking(va)
  BY DEF nodes
<1>6. QED
  BY <1>2, <1>4, <1>5 DEF Remarked

\* A switch takes down what the host has of the space left and puts up what
\* the space entered has.
LEMMA Switching ==
  ASSUME NativeVmeInv, NEW s \in AddrSpaces \cup {NoSpace}, __am_switch(s)
  PROVE  NativeVmeInv' /\ vm_head' = s /\ UNCHANGED <<n_live, stuck>>
         /\ (\A t \in AddrSpaces : /\ Known(as[t])' = Known(as[t])
                                  /\ \A va \in UserVas : as'[t].node[va].pa = as[t].node[va].pa)
<1>1. /\ s \in n_live \cup {NoSpace} /\ s # vm_head
      /\ n_live \subseteq AddrSpaces /\ vm_head \in n_live \cup {NoSpace}
  BY DEF __am_switch, NativeVmeInv, NativeVmeTypes
<1>2. (vm_head # NoSpace => Ends(as[vm_head])) /\ (s # NoSpace => Ends(as[s]))
  BY <1>1, Walks
<1> DEFINE New(t) == IF t = s THEN SetMapped(as[t], TRUE)
                     ELSE IF t = vm_head THEN SetMapped(as[t], FALSE) ELSE as[t]
<1>3. /\ vm_head' = s /\ UNCHANGED <<n_live, pool, stuck>>
      /\ as' = [t \in AddrSpaces |-> New(t)]
      /\ host' = [va \in UserVas |->
                   IF s # NoSpace /\ va \in Listed(as[s]) THEN as[s].node[va].pa
                   ELSE IF vm_head # NoSpace /\ Unmapped(as[vm_head], va) THEN NoPhys
                   ELSE host[va]]
  BY <1>2 DEF __am_switch
<1>4. ASSUME NEW t \in AddrSpaces, NEW flag \in BOOLEAN
      PROVE  Remarked(as[t], SetMapped(as[t], flag), flag)
  BY Remarking, Walks DEF NativeVmeInv, NativeVmeTypes
<1>5. ASSUME NEW t \in AddrSpaces
      PROVE  /\ as'[t] \in Heads /\ as'[t].head = as[t].head
             /\ \A va \in UserVas :
                  /\ as'[t].node[va].known = as[t].node[va].known
                  /\ as'[t].node[va].next = as[t].node[va].next
                  /\ as'[t].node[va].pa = as[t].node[va].pa
                  /\ as'[t].node[va].is_mapped =
                       IF t = s /\ va \in Known(as[t]) THEN TRUE
                       ELSE IF t = vm_head /\ va \in Known(as[t]) THEN FALSE
                       ELSE as[t].node[va].is_mapped
  <2>1. as'[t] = New(t) /\ as[t] \in Heads
    BY <1>3 DEF NativeVmeInv, NativeVmeTypes
  <2>2. CASE t = s
    <3>1. as'[t] = SetMapped(as[t], TRUE) /\ Remarked(as[t], SetMapped(as[t], TRUE), TRUE)
      BY <1>4, <2>1, <2>2
    <3>2. QED  BY <2>2, <3>1 DEF Remarked
  <2>3. CASE t = vm_head
    <3>1. t # s /\ as'[t] = SetMapped(as[t], FALSE) /\ Remarked(as[t], SetMapped(as[t], FALSE), FALSE)
      BY <1>1, <1>4, <2>1, <2>3
    <3>2. QED  BY <2>3, <3>1 DEF Remarked
  <2>4. CASE t # s /\ t # vm_head
    BY <2>1, <2>4
  <2>5. QED  BY <2>2, <2>3, <2>4
<1>6. \A t \in AddrSpaces : Chained(as'[t]) /\ Known(as'[t]) = Known(as[t])
  <2> SUFFICES ASSUME NEW t \in AddrSpaces  PROVE Chained(as'[t]) /\ Known(as'[t]) = Known(as[t])
    OBVIOUS
  <2>1. Chained(as[t])
    BY DEF NativeVmeInv, Lists
  <2>2. /\ as'[t].head = as[t].head
        /\ \A va \in UserVas : /\ as'[t].node[va].known = as[t].node[va].known
                               /\ as'[t].node[va].next = as[t].node[va].next
    BY <1>5
  <2>3. QED  BY <2>1, <2>2, SameChain
<1>7. NativeVmeTypes'
  <2>1. as' \in [AddrSpaces -> Heads]
    BY <1>3, <1>5
  <2>2. ASSUME NEW va \in UserVas  PROVE host'[va] \in PhysPages \cup {NoPhys}
    <3>1. host[va] \in PhysPages \cup {NoPhys}
      BY DEF NativeVmeInv, NativeVmeTypes
    <3>2. s # NoSpace => as[s].node[va].pa \in PhysPages \cup {NoPhys}
      BY <1>1 DEF NativeVmeInv, NativeVmeTypes, Heads, Nodes
    <3>3. QED  BY <1>3, <3>1, <3>2
  <2>3. host' \in [UserVas -> PhysPages \cup {NoPhys}]
    BY <1>3, <2>2
  <2>4. QED  BY <1>1, <1>3, <2>1, <2>3 DEF NativeVmeInv, NativeVmeTypes
<1>8. Lists'
  <2>1. ASSUME NEW t \in AddrSpaces, NEW va \in Known(as'[t])  PROVE as'[t].node[va].pa \in PhysPages
    <3>1. va \in UserVas /\ va \in Known(as[t])
      BY <1>6, <2>1 DEF Known
    <3>2. QED  BY <1>5, <3>1 DEF NativeVmeInv, Lists
  <2>2. QED  BY <1>6, <2>1 DEF Lists
<1>9. Marked'
  <2>1. ASSUME NEW t \in n_live', NEW va \in UserVas
        PROVE  as'[t].node[va].is_mapped <=> t = vm_head' /\ va \in Known(as'[t])
    <3>1. t \in AddrSpaces /\ t \in n_live /\ vm_head' = s /\ Known(as'[t]) = Known(as[t])
      BY <1>1, <1>3, <1>6
    <3>2. as[t].node[va].is_mapped <=> t = vm_head /\ va \in Known(as[t])
      BY <3>1 DEF NativeVmeInv, Marked
    <3>3. as'[t].node[va].is_mapped = IF t = s /\ va \in Known(as[t]) THEN TRUE
                                     ELSE IF t = vm_head /\ va \in Known(as[t]) THEN FALSE
                                     ELSE as[t].node[va].is_mapped
      BY <1>5, <3>1
    <3>4. QED  BY <1>1, <3>1, <3>2, <3>3
  <2>2. QED  BY <2>1 DEF Marked
<1>10. HostHas'
  <2>1. ASSUME NEW va \in UserVas  PROVE host'[va] = Behind(vm_head, va)'
    <3>1. host[va] = Behind(vm_head, va)
      BY DEF NativeVmeInv, HostHas
    <3>2. s # NoSpace => /\ s \in AddrSpaces /\ Listed(as[s]) = Known(as[s])
                         /\ Known(as'[s]) = Known(as[s]) /\ as'[s].node[va].pa = as[s].node[va].pa
      BY <1>1, <1>5, <1>6, Walks
    <3>3. vm_head # NoSpace => (Unmapped(as[vm_head], va) <=> va \in Known(as[vm_head]))
      BY <1>1, Walks DEF Unmapped, NativeVmeInv, Marked
    <3>4. host'[va] = IF s # NoSpace /\ va \in Known(as[s]) THEN as[s].node[va].pa
                      ELSE IF vm_head # NoSpace /\ va \in Known(as[vm_head]) THEN NoPhys
                      ELSE host[va]
      BY <1>3, <3>2, <3>3
    <3>5. host'[va] = IF s # NoSpace /\ va \in Known(as[s]) THEN as[s].node[va].pa ELSE NoPhys
      BY <3>1, <3>4 DEF Behind
    <3>6. Behind(vm_head, va)' = IF s # NoSpace /\ va \in Known(as'[s]) THEN as'[s].node[va].pa ELSE NoPhys
      BY <1>3 DEF Behind
    <3>7. QED  BY <3>2, <3>5, <3>6
  <2>2. QED  BY <2>1 DEF HostHas
<1>11. QED
  <2>1. NativeVmeInv'
    BY <1>7, <1>8, <1>9, <1>10 DEF NativeVmeInv
  <2>2. ASSUME NEW t \in AddrSpaces  PROVE Known(as[t])' = Known(as[t])
    BY <1>6 DEF Known
  <2>3. QED  BY <1>3, <1>5, <2>1, <2>2

\* Every call keeps the invariant, for a client that maps no page twice.
LEMMA VmeStep ==
  ASSUME ~Remaps, NativeVmeInv, [NativeVmeNext]_nativeVmeVars
  PROVE  NativeVmeInv'
<1>1. ASSUME NEW s \in AddrSpaces, NativeUnprotect(s)  PROVE NativeVmeInv'
  BY <1>1 DEF NativeUnprotect, NativeVmeInv, NativeVmeTypes, Lists, Marked, HostHas, Behind, Known
<1>2. CASE UNCHANGED nativeVmeVars
  BY <1>2 DEF nativeVmeVars, NativeVmeInv, NativeVmeTypes, Lists, Marked, HostHas, Behind, Known
<1>3. QED
  BY <1>1, <1>2, Protecting, Mapping, Switching DEF NativeVmeNext

\* No space is live at first, and every list is empty.
LEMMA VmeStarts ==
  ASSUME NativeVmeInit
  PROVE  NativeVmeInv
<1>1. EmptyHead \in Heads /\ Known(EmptyHead) = {} /\ Chained(EmptyHead)
  BY EmptyChain
<1>2. \A s \in AddrSpaces : as[s] = EmptyHead
  BY DEF NativeVmeInit
<1>3. NativeVmeTypes
  BY <1>1, NativeVmeAssumption DEF NativeVmeInit, NativeVmeTypes
<1>4. Lists /\ Marked
  BY <1>1, <1>2 DEF NativeVmeInit, Lists, Marked
<1>5. HostHas
  BY DEF NativeVmeInit, HostHas, Behind
<1>6. QED  BY <1>3, <1>4, <1>5 DEF NativeVmeInv

\* What is linked is what was mapped, and what is marked is what the host has.
LEMMA VmeSound ==
  ASSUME NativeVmeInv
  PROVE  ListsHoldAllMappings
<1> SUFFICES ASSUME NEW s \in n_live
             PROVE  /\ Ends(as[s]) /\ Listed(as[s]) = Known(as[s])
                    /\ \A va \in UserVas : as[s].node[va].is_mapped <=>
                         s = vm_head /\ as[s].node[va].known /\ host[va] # NoPhys
  BY DEF ListsHoldAllMappings, Known
<1>1. s \in AddrSpaces /\ s # NoSpace
  BY NativeVmeAssumption DEF NativeVmeInv, NativeVmeTypes
<1>2. ASSUME NEW va \in UserVas
      PROVE  as[s].node[va].is_mapped <=> s = vm_head /\ as[s].node[va].known /\ host[va] # NoPhys
  <2>1. as[s].node[va].is_mapped <=> s = vm_head /\ va \in Known(as[s])
    BY DEF NativeVmeInv, Marked
  <2>2. va \in Known(as[s]) <=> as[s].node[va].known
    BY DEF Known
  <2>3. va \in Known(as[s]) => as[s].node[va].pa # NoPhys
    BY <1>1, NativeVmeAssumption DEF NativeVmeInv, Lists
  <2>4. s = vm_head => host[va] = Behind(s, va)
    BY DEF NativeVmeInv, HostHas
  <2>5. QED  BY <1>1, <2>1, <2>2, <2>3, <2>4 DEF Behind
<1>3. QED  BY <1>1, <1>2, Walks

\* Every mapping is on its list once and every list ends, and what is marked is
\* what the host has: for a client that maps a page once per space
\* (native/vme.c).
THEOREM ListsAreKept ==
  ASSUME ~Remaps
  PROVE  NativeVmeSpec => []ListsHoldAllMappings
<1>1. NativeVmeInit => NativeVmeInv
  BY VmeStarts
<1>2. NativeVmeInv /\ [NativeVmeNext]_nativeVmeVars => NativeVmeInv'
  BY VmeStep
<1>3. NativeVmeInv => ListsHoldAllMappings
  BY VmeSound
<1>4. QED  BY <1>1, <1>2, <1>3, PTL DEF NativeVmeSpec
\* The function each space is, as the refinement reads it.
Maps == [s \in AddrSpaces |-> [va \in UserVas |->
           IF s \in n_live /\ va \in Listed(as[s]) THEN as[s].node[va].pa ELSE NoPhys]]

NothingMapped == [va \in UserVas |-> NoPhys]

\* It is what is behind each address; and the host has that of the space
\* that is loaded.
LEMMA MapsAre ==
  NativeVmeInv =>
    /\ Maps = [s \in AddrSpaces |-> [va \in UserVas |->
                 IF s \in n_live THEN Behind(s, va) ELSE NoPhys]]
    /\ host = IF vm_head = NoSpace THEN NothingMapped ELSE Maps[vm_head]
<1> SUFFICES ASSUME NativeVmeInv
             PROVE  /\ Maps = [s \in AddrSpaces |-> [va \in UserVas |->
                                 IF s \in n_live THEN Behind(s, va) ELSE NoPhys]]
                    /\ host = IF vm_head = NoSpace THEN NothingMapped ELSE Maps[vm_head]
  OBVIOUS
<1>1. ASSUME NEW s \in AddrSpaces
      PROVE  [va \in UserVas |-> IF s \in n_live /\ va \in Listed(as[s]) THEN as[s].node[va].pa ELSE NoPhys]
             = [va \in UserVas |-> IF s \in n_live THEN Behind(s, va) ELSE NoPhys]
  <2>1. Listed(as[s]) = Known(as[s]) /\ s # NoSpace
    BY Walks, NativeVmeAssumption
  <2>2. QED  BY <2>1 DEF Behind
<1>2. Maps = [s \in AddrSpaces |-> [va \in UserVas |->
                IF s \in n_live THEN Behind(s, va) ELSE NoPhys]]
  BY <1>1 DEF Maps
<1>3. host = [va \in UserVas |-> Behind(vm_head, va)]
  BY DEF NativeVmeInv, NativeVmeTypes, HostHas
<1>4. CASE vm_head = NoSpace
  BY <1>2, <1>3, <1>4 DEF Behind, NothingMapped
<1>5. CASE vm_head # NoSpace
  <2>1. vm_head \in AddrSpaces /\ vm_head \in n_live
    BY <1>5 DEF NativeVmeInv, NativeVmeTypes
  <2>2. QED  BY <1>2, <1>3, <1>5, <2>1
<1>6. QED  BY <1>2, <1>4, <1>5

\* The calls of the promise over these functions.
LEMMA Promised ==
  /\ NativePromise!Nothing = NothingMapped
  /\ \A s : NativePromise!Protect(s) <=>
       /\ s \notin n_live /\ n_live' = n_live \cup {s}
       /\ Maps' = [Maps EXCEPT ![s] = NothingMapped] /\ UNCHANGED vm_head
  /\ \A s : NativePromise!Unprotect(s) <=>
       /\ s \in n_live \ {vm_head} /\ n_live' = n_live \ {s}
       /\ Maps' = [Maps EXCEPT ![s] = NothingMapped] /\ UNCHANGED vm_head
  /\ \A s, va, pa : NativePromise!Map(s, va, pa) <=>
       /\ s \in n_live /\ Maps' = [Maps EXCEPT ![s][va] = pa] /\ UNCHANGED <<n_live, vm_head>>
  /\ \A s : NativePromise!Switch(s) <=>
       s \in n_live \cup {NoSpace} /\ vm_head' = s /\ UNCHANGED <<n_live, Maps>>
  /\ NativePromise!SeesWhatIsLoaded <=>
       host' = IF vm_head' = NoSpace THEN NothingMapped ELSE Maps'[vm_head']
  BY Zenon DEF Maps, NothingMapped, NativePromise!Nothing, NativePromise!Protect, NativePromise!Unprotect,
     NativePromise!Map, NativePromise!Switch, NativePromise!SeesWhatIsLoaded

\* What user code sees is the function of the space that is loaded.
LEMMA SeesLoaded ==
  ASSUME NativeVmeInv'
  PROVE  NativePromise!SeesWhatIsLoaded
<1>1. (NativeVmeInv => host = IF vm_head = NoSpace THEN NothingMapped ELSE Maps[vm_head])'
  BY MapsAre, PTL
<1>2. QED  BY <1>1, Promised DEF NothingMapped

\* One by one, the functions of the spaces before and after a call.
LEMMA MapsOf ==
  ASSUME NativeVmeInv, NativeVmeInv'
  PROVE  /\ DOMAIN Maps = AddrSpaces /\ DOMAIN Maps' = AddrSpaces
         /\ Maps = [s \in AddrSpaces |-> Maps[s]] /\ Maps' = [s \in AddrSpaces |-> Maps'[s]]
         /\ \A s \in AddrSpaces :
              /\ Maps[s] = [va \in UserVas |-> IF s \in n_live THEN Behind(s, va) ELSE NoPhys]
              /\ Maps'[s] = [va \in UserVas |-> IF s \in n_live' THEN Behind(s, va)' ELSE NoPhys]
<1>1. (NativeVmeInv => Maps = [s \in AddrSpaces |-> [va \in UserVas |->
                                IF s \in n_live THEN Behind(s, va) ELSE NoPhys]])'
  BY MapsAre, PTL
<1>2. Maps' = [s \in AddrSpaces |-> [va \in UserVas |->
                 IF s \in n_live' THEN Behind(s, va)' ELSE NoPhys]]
  BY <1>1
<1>3. Maps = [s \in AddrSpaces |-> [va \in UserVas |->
                IF s \in n_live THEN Behind(s, va) ELSE NoPhys]]
  BY MapsAre
<1>4. QED  BY <1>2, <1>3

\* protect is Protect,
LEMMA ProtectRefines ==
  ASSUME NativeVmeInv, NativeVmeInv', NEW s \in AddrSpaces, NativeProtect(s), ~stuck'
  PROVE  NativePromise!Protect(s)
<1>1. /\ n_live' = n_live \cup {s} /\ as' = [as EXCEPT ![s] = EmptyHead]
      /\ UNCHANGED <<vm_head, host>> /\ s \notin n_live
  BY DEF NativeProtect
<1>2. as'[s] = EmptyHead /\ \A t \in AddrSpaces \ {s} : as'[t] = as[t]
  BY <1>1 DEF NativeVmeInv, NativeVmeTypes
<1>3. \A va \in UserVas : Behind(s, va)' = NoPhys
  BY <1>2, EmptyChain DEF Behind
<1>4. \A t \in AddrSpaces \ {s}, va \in UserVas : Behind(t, va)' = Behind(t, va)
  BY <1>2 DEF Behind, Known
<1>5. Maps'[s] = NothingMapped
  BY <1>3, MapsOf DEF NothingMapped
<1>6. ASSUME NEW t \in AddrSpaces \ {s}  PROVE Maps'[t] = Maps[t]
  BY <1>1, <1>4, MapsOf
<1>7. Maps' = [Maps EXCEPT ![s] = NothingMapped]
  BY <1>5, <1>6, MapsOf
<1>8. QED  BY <1>1, <1>7, Promised

\* unprotect is Unprotect, although it takes nothing down,
LEMMA UnprotectRefines ==
  ASSUME NativeVmeInv, NativeVmeInv', NEW s \in AddrSpaces, NativeUnprotect(s)
  PROVE  NativePromise!Unprotect(s)
<1>1. s \in n_live \ {vm_head} /\ n_live' = n_live \ {s} /\ UNCHANGED <<as, vm_head, host>>
  BY DEF NativeUnprotect
<1>2. \A t \in AddrSpaces, va \in UserVas : Behind(t, va)' = Behind(t, va)
  BY <1>1 DEF Behind, Known
<1>3. Maps'[s] = NothingMapped
  BY <1>1, MapsOf DEF NothingMapped
<1>4. ASSUME NEW t \in AddrSpaces \ {s}  PROVE Maps'[t] = Maps[t]
  BY <1>1, <1>2, MapsOf
<1>5. Maps' = [Maps EXCEPT ![s] = NothingMapped]
  BY <1>3, <1>4, MapsOf
<1>6. QED  BY <1>1, <1>5, Promised

\* map is Map, which changes one address of one space.
LEMMA MapRefines ==
  ASSUME ~Remaps, NativeVmeInv, NativeVmeInv', NEW s \in AddrSpaces, NEW va \in UserVas,
         NEW pa \in PhysPages, NativeMap(s, va, pa), ~stuck'
  PROVE  NativePromise!Map(s, va, pa)
<1> DEFINE i == Linked(as[s], va, pa, s = vm_head)
<1>1. /\ s \in n_live /\ ~as[s].node[va].known /\ as' = [as EXCEPT ![s] = i]
      /\ UNCHANGED <<n_live, vm_head>>
  BY DEF NativeMap
<1>2. as[s] \in Heads /\ Chained(as[s]) /\ s # NoSpace
  BY NativeVmeAssumption DEF NativeVmeInv, NativeVmeTypes, Lists
<1>3. i \in Heads /\ Chained(i) /\ Known(i) = Known(as[s]) \cup {va}
  BY <1>1, <1>2, ChainGrows
<1>4. i.node[va].pa = pa /\ \A w \in UserVas \ {va} : i.node[w] = as[s].node[w]
  BY <1>2 DEF Linked, Heads, Nodes
<1> HIDE DEF i
<1>5. as'[s] = i /\ \A t \in AddrSpaces \ {s} : as'[t] = as[t]
  BY <1>1 DEF NativeVmeInv, NativeVmeTypes
<1>6. Behind(s, va)' = pa /\ \A w \in UserVas \ {va} : Behind(s, w)' = Behind(s, w)
  BY <1>2, <1>3, <1>4, <1>5 DEF Behind
<1>7. \A t \in AddrSpaces \ {s}, w \in UserVas : Behind(t, w)' = Behind(t, w)
  BY <1>5 DEF Behind
<1>8. Maps'[s] = [Maps[s] EXCEPT ![va] = pa]
  BY <1>1, <1>6, MapsOf
<1>9. ASSUME NEW t \in AddrSpaces \ {s}  PROVE Maps'[t] = Maps[t]
  BY <1>1, <1>7, MapsOf
<1>10. Maps' = [Maps EXCEPT ![s] = [Maps[s] EXCEPT ![va] = pa]]
  BY <1>8, <1>9, MapsOf
<1>11. Maps' = [Maps EXCEPT ![s][va] = pa]
  BY <1>10
<1>12. QED  BY <1>1, <1>11, Promised

\* A switch is Switch: it marks pages, and changes the function of no space.
LEMMA SwitchRefines ==
  ASSUME NativeVmeInv, NativeVmeInv', NEW s \in AddrSpaces \cup {NoSpace}, __am_switch(s)
  PROVE  NativePromise!Switch(s)
<1>1. /\ vm_head' = s /\ UNCHANGED n_live
      /\ \A t \in AddrSpaces : /\ Known(as[t])' = Known(as[t])
                              /\ \A va \in UserVas : as'[t].node[va].pa = as[t].node[va].pa
  BY Switching
<1>2. \A t \in AddrSpaces, va \in UserVas : Behind(t, va)' = Behind(t, va)
  BY <1>1 DEF Behind
<1>3. ASSUME NEW t \in AddrSpaces  PROVE Maps'[t] = Maps[t]
  BY <1>1, <1>2, MapsOf
<1>4. Maps' = Maps
  BY <1>3, MapsOf
<1>5. s \in n_live \cup {NoSpace}
  BY DEF __am_switch
<1>6. QED  BY <1>1, <1>4, <1>5, Promised

\* A call whose assertion fails changes no mapping.
LEMMA StuckRefines ==
  ASSUME ~stuck, stuck', NativeVmeInv, NativeVmeNext
  PROVE  UNCHANGED <<n_live, as, vm_head, host>>
<1>1. ASSUME NEW s \in AddrSpaces \cup {NoSpace}, __am_switch(s)  PROVE FALSE
  BY <1>1, Switching
<1>2. QED
  BY <1>1 DEF NativeVmeNext, NativeProtect, NativeUnprotect, NativeMap

\* The lists, hash tables and host mappings implement the address spaces of am.h,
\* call by call, for a client that maps a page once per space (native/vme.c).
THEOREM AddressSpacesAreImplemented ==
  ASSUME ~Remaps
  PROVE  NativeVmeSpec => NativeImplementsAddressSpaces
<1>1. NativeVmeInit => NativeVmeInv
  BY VmeStarts
<1>2. NativeVmeInv /\ [NativeVmeNext]_nativeVmeVars => NativeVmeInv'
  BY VmeStep
<1>3. NativeVmeInit => NativePromise!Init
  <2> SUFFICES ASSUME NativeVmeInit  PROVE NativePromise!Init
    OBVIOUS
  <2>1. Maps = [s \in AddrSpaces |-> NothingMapped]
    BY DEF Maps, NativeVmeInit, NothingMapped
  <2>2. n_live = {} /\ vm_head = NoSpace /\ host = NothingMapped
    BY DEF NativeVmeInit, NothingMapped
  <2>3. QED
    BY <2>1, <2>2, Promised, Zenon DEF NativePromise!Init, Maps
<1>4. ASSUME NativeVmeInv, NativeVmeInv', NativeVmeNext
      PROVE  NativePromise!Next \/ UNCHANGED <<n_live, as, vm_head, host>>
  <2>1. CASE stuck'
    BY <1>4, <2>1, StuckRefines DEF NativeVmeNext
  <2>2. CASE ~stuck'
    <3>1. NativePromise!SeesWhatIsLoaded
      BY <1>4, SeesLoaded
    <3>2. ASSUME NEW s \in AddrSpaces, NativeProtect(s) \/ NativeUnprotect(s)
          PROVE  NativePromise!Protect(s) \/ NativePromise!Unprotect(s)
      BY <1>4, <2>2, <3>2, ProtectRefines, UnprotectRefines
    <3>3. ASSUME NEW s \in AddrSpaces, NEW va \in UserVas, NEW pa \in PhysPages,
                 NativeMap(s, va, pa)
          PROVE  NativePromise!Map(s, va, pa)
      BY <1>4, <2>2, <3>3, MapRefines
    <3>4. ASSUME NEW s \in AddrSpaces \cup {NoSpace}, __am_switch(s)
          PROVE  NativePromise!Switch(s)
      BY <1>4, <3>4, SwitchRefines
    <3>5. QED
      BY <1>4, <3>1, <3>2, <3>3, <3>4, Zenon DEF NativeVmeNext, NativePromise!Next
  <2>3. QED  BY <2>1, <2>2
<1>5. UNCHANGED <<n_live, as, vm_head, host>> => UNCHANGED NativePromise!vars
  <2> SUFFICES ASSUME UNCHANGED <<n_live, as, vm_head, host>>
               PROVE  UNCHANGED NativePromise!vars
    OBVIOUS
  <2>1. Maps' = Maps
    BY DEF Maps, Listed, Passed
  <2>2. QED  BY <2>1, Zenon DEF NativePromise!vars, Maps
<1>6. NativeVmeInv /\ NativeVmeInv' /\ [NativeVmeNext]_nativeVmeVars
        => [NativePromise!Next]_NativePromise!vars
  BY <1>4, <1>5 DEF nativeVmeVars
<1>7. NativeVmeInv /\ NativeVmeInv' /\ [NativeVmeNext]_nativeVmeVars
        => [EachNativeCallAsPromised]_nativeVmeVars
  BY ProtectRefines, UnprotectRefines, MapRefines, SwitchRefines, Zenon
     DEF EachNativeCallAsPromised
<1>8. QED
  BY <1>1, <1>2, <1>3, <1>6, <1>7, PTL
     DEF NativeVmeSpec, NativeImplementsAddressSpaces, NativePromise!Spec
==============================================================================
