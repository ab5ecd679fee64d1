----------------------------- MODULE NativeBoot -----------------------------
(* The native platform's start and end (am/src/native: platform.c, mpe.c,    *)
(* trm.c, cte.c): the constructor that turns the process into a machine, its *)
(* data made shared while it is in use, the processes forked as further      *)
(* processors and held at a pipe, and the exit that kills them all.          *)
EXTENDS Naturals

CONSTANT CpuCount  \* __am_ncpu, from the environment

ASSUME NativeBootAssumption == CpuCount \in Nat \ {0}

Proc == 0 .. CpuCount - 1

VARIABLES proc,      \* where each process is; "none" before its fork
          section, \* the data and bss: [map, holds, copy]
          shared,  \* what the data holds, for all: [heap, sigmask, example, mpe_init,
                   \* has_ioe, ioe]: the last, whether __am_ioe_init was called
          own,     \* of each process: [altstack, masked, timer, handlers]
          cpuid,     \* the private structures: cpuid
          loop,    \* the parent's loop variable
          sync,    \* bytes in the pipe
          crashed  \* a failed assertion or a jump through what is not there

nativeBootVars == <<proc, section, shared, own, cpuid, loop, sync, crashed>>

NativeBootInit ==
  /\ proc = [p \in Proc |-> IF p = 0 THEN "map memory" ELSE "none"]
  /\ section = [map |-> "private", holds |-> "data", copy |-> "none"]
  /\ \E has_ioe \in BOOLEAN :   \* __am_has_ioe: no file here defines or sets it
       shared = [heap |-> FALSE, sigmask |-> FALSE, example |-> "none", mpe_init |-> FALSE,
                 has_ioe |-> has_ioe, ioe |-> FALSE]
  /\ own = [p \in Proc |-> [altstack |-> FALSE, masked |-> FALSE, timer |-> FALSE, handlers |-> FALSE]]
  /\ cpuid = [p \in Proc |-> 0]
  /\ loop = 1 /\ sync = 0 /\ crashed = FALSE

Move(p, from, to) == proc[p] = from /\ proc' = [proc EXCEPT ![p] = to]

(* Physical memory, the structure of the processor, the trap page.           *)
map_memory ==
  /\ Move(0, "map memory", "save data")
  /\ cpuid' = [cpuid EXCEPT ![0] = 0]
  /\ UNCHANGED <<section, shared, own, loop, sync, crashed>>

(* The writable segment is mapped again, shared: its contents go to a        *)
(* temporary mapping and come back. Meanwhile the data, the global offset    *)
(* table in it included, is not there: the functions called are on the stack.*)
save_data ==
  /\ Move(0, "save data", "unmap data")
  /\ section' = [section EXCEPT !.copy = section.holds]
  /\ UNCHANGED <<shared, own, cpuid, loop, sync, crashed>>
unmap_data ==
  /\ Move(0, "unmap data", "map shared")
  /\ section' = [section EXCEPT !.map = "none", !.holds = "nothing"]
  /\ UNCHANGED <<shared, own, cpuid, loop, sync, crashed>>
map_shared ==
  /\ Move(0, "map shared", "restore data")
  /\ section' = [section EXCEPT !.map = "shared", !.holds = "zeros"]
  /\ UNCHANGED <<shared, own, cpuid, loop, sync, crashed>>

OnStack == TRUE
memcpy_libc_temp == OnStack   \* whether the pointer can be read
restore_data ==
  /\ Move(0, "restore data", "init")
  /\ section' = [section EXCEPT !.holds = IF memcpy_libc_temp THEN section.copy ELSE @, !.copy = "none"]
  /\ crashed' = ~memcpy_libc_temp
  /\ UNCHANGED <<shared, own, cpuid, loop, sync>>

(* heap and __am_intr_sigmask; the alternative stack. *)
setup_sigaltstack ==
  /\ Move(0, "init", "save context")
  /\ shared' = [shared EXCEPT !.heap = TRUE, !.sigmask = TRUE]
  /\ own' = [own EXCEPT ![0].altstack = TRUE]
  /\ UNCHANGED <<section, cpuid, loop, sync, crashed>>

(* The example context is one a signal handler was given; its mask is set to *)
(* the interrupting signals afterwards.                                      *)
save_example_context ==
  /\ Move(0, "save context", "disable interrupts")
  /\ shared' = [shared EXCEPT !.example = IF shared.sigmask THEN "masked" ELSE "unmasked"]
  /\ UNCHANGED <<section, own, cpuid, loop, sync, crashed>>

disable_interrupts ==
  /\ Move(0, "disable interrupts", "main")
  /\ own' = [own EXCEPT ![0].masked = TRUE]
  /\ UNCHANGED <<section, shared, cpuid, loop, sync, crashed>>
-----------------------------------------------------------------------------
(* The program: cte_init installs the handlers and starts the timer, in main *)
(* or in an entry; interrupts are turned on only behind it.                  *)
InProgram(p) == proc[p] \in {"main", "entry"}

cte_init(p) ==
  /\ InProgram(p) /\ ~own[p].handlers
  /\ own' = [own EXCEPT ![p] = [@ EXCEPT !.handlers = TRUE, !.timer = TRUE, !.masked = TRUE]]
  /\ UNCHANGED <<proc, section, shared, cpuid, loop, sync, crashed>>

boot_iset(p) ==
  /\ InProgram(p) /\ own[p].handlers
  /\ own' = [own EXCEPT ![p].masked = ~@]
  /\ UNCHANGED <<proc, section, shared, cpuid, loop, sync, crashed>>

native_mpe_init ==
  /\ Move(0, "main", "fork")
  /\ shared' = [shared EXCEPT !.mpe_init = TRUE]
  /\ UNCHANGED <<section, own, cpuid, loop, sync, crashed>>

(* A child has its parent's handlers, signal mask, alternative stack and a   *)
(* copy of its private memory, but no timer.                                 *)
StructShared(p) == 0
StructOf(p) == p
fork ==
  /\ proc[0] = "fork" /\ loop < CpuCount
  /\ proc' = [proc EXCEPT ![loop] = "read"]
  /\ own' = [own EXCEPT ![loop] = [own[0] EXCEPT !.timer = FALSE]]
  /\ cpuid' = [cpuid EXCEPT ![StructOf(loop)] = cpuid[0]]
  /\ loop' = loop + 1
  /\ UNCHANGED <<section, shared, sync, crashed>>

(* A fork that fails returns -1, which is not 0: the parent goes on without. *)
fork_fails ==
  /\ proc[0] = "fork" /\ loop < CpuCount
  /\ proc' = [proc EXCEPT ![loop] = "not forked"]
  /\ loop' = loop + 1
  /\ UNCHANGED <<section, shared, own, cpuid, sync, crashed>>

forked ==
  /\ loop = CpuCount /\ Move(0, "fork", "ioe")
  /\ loop' = 1
  /\ UNCHANGED <<section, shared, own, cpuid, sync, crashed>>

(* Called when __am_has_ioe; neither is defined in this repository, whose    *)
(* ioe_init (ioe.c:50) is for the program to call.                           *)
__am_ioe_init ==
  /\ Move(0, "ioe", "release")
  /\ shared' = [shared EXCEPT !.ioe = shared.has_ioe]
  /\ UNCHANGED <<section, own, cpuid, loop, sync, crashed>>

release ==
  /\ proc[0] = "release" /\ loop < CpuCount
  /\ sync' = sync + 1 /\ loop' = loop + 1
  /\ UNCHANGED <<proc, section, shared, own, cpuid, crashed>>
released ==
  /\ loop = CpuCount /\ Move(0, "release", "entry")
  /\ UNCHANGED <<section, shared, own, cpuid, loop, sync, crashed>>

(* A child reads its byte, whoever's it was. *)
read_pipe(p) ==
  /\ sync > 0 /\ Move(p, "read", "start")
  /\ sync' = sync - 1
  /\ UNCHANGED <<section, shared, own, cpuid, loop, crashed>>
__am_init_timer_irq(p) ==
  /\ Move(p, "start", "entry")
  /\ cpuid' = [cpuid EXCEPT ![StructOf(p)] = p]
  /\ own' = [own EXCEPT ![p].masked = TRUE, ![p].timer = TRUE]
  /\ UNCHANGED <<section, shared, loop, sync, crashed>>

(* halt prints and then leaves, with every process of the group once there   *)
(* may be others; an exit of a process alone ends only that one.             *)
native_halt(p) ==
  /\ InProgram(p)
  /\ proc' = [proc EXCEPT ![p] = "halt"]
  /\ UNCHANGED <<section, shared, own, cpuid, loop, sync, crashed>>
KillsNone == FALSE
KillsAll == shared.mpe_init /\ CpuCount > 1
__am_exit_platform(p) ==
  /\ proc[p] = "halt"
  /\ proc' = [q \in Proc |-> IF q = p \/ KillsAll THEN "gone" ELSE proc[q]]
  /\ UNCHANGED <<section, shared, own, cpuid, loop, sync, crashed>>

NativeBootStep(p) ==
  \/ read_pipe(p) \/ __am_init_timer_irq(p) \/ __am_exit_platform(p)
  \/ p = 0 /\ \/ map_memory \/ save_data \/ unmap_data \/ map_shared \/ restore_data
              \/ setup_sigaltstack \/ save_example_context \/ disable_interrupts
              \/ fork \/ fork_fails \/ forked \/ __am_ioe_init \/ release \/ released

NativeBootNext ==
  /\ ~crashed
  /\ \/ \E p \in Proc : NativeBootStep(p) \/ cte_init(p) \/ boot_iset(p) \/ native_halt(p)
     \/ native_mpe_init

(* The host runs every process. *)
NativeBootFairness == \A p \in Proc : WF_nativeBootVars(~crashed /\ NativeBootStep(p))
NativeBootSpec == NativeBootInit /\ [][NativeBootNext]_nativeBootVars /\ NativeBootFairness
-----------------------------------------------------------------------------
(* A processor that runs the program has a number nobody else has, its own   *)
(* stack for signals and its own timer, no signal it does not handle, the    *)
(* data all of them share with what it held before main. No entry begins     *)
(* before every fork was tried, nor, where __am_has_ioe, before the call of  *)
(* __am_ioe_init behind the forks; without it nothing is said of devices     *)
(* (platform.c:123, mpe.c:14, mpe.c:27).                                     *)
RunsOnAMachine ==
  /\ ~crashed
  /\ \A p \in Proc : InProgram(p) =>
       /\ cpuid[StructOf(p)] = p /\ own[p].altstack
       /\ own[p].masked \/ own[p].handlers
       /\ section.map = "shared" /\ section.holds = "data"
       /\ shared.heap /\ shared.example = "masked"
       /\ proc[p] = "entry" =>
            /\ shared.has_ioe => shared.ioe
            /\ p # 0 => own[p].timer
            /\ \A q \in Proc : proc[q] # "none"

(* A program that starts the others sees all that could be forked run its    *)
(* entry, unless one halts; and a halt leaves no process behind (mpe.c:31,   *)
(* platform.c:179).                                                          *)
StartsAndEnds ==
  proc[0] = "fork" \/ (\E p \in Proc : proc[p] = "halt") ~>
    \/ \A p \in Proc : proc[p] \in {"entry", "not forked"}
    \/ \A p \in Proc : proc[p] \in {"gone", "none"}
=============================================================================
