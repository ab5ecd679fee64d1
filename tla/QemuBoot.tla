------------------------------ MODULE QemuBoot ------------------------------
(* Several processors on the x86 platform of the abstract machine: the boot  *)
(* of the others by the bootstrap processor, each setting up its descriptor  *)
(* tables and interrupt lines through storage they share, and the halt that  *)
(* stops the rest of the world (am/src/x86/qemu: mpe.c, trm.c, ioe.c,        *)
(* boot/main.c).                                                             *)
EXTENDS Naturals, FiniteSets

CONSTANTS Ncpu,      \* __am_ncpu
          MaxHalts   \* how many processors call halt

ASSUME QemuBootAssumption == Ncpu \in Nat \ {0} /\ MaxHalts \in Nat

Cpu == 0 .. Ncpu - 1
Lines == {"IRQ_KBD", "IRQ_COM1"}
NULL == "NULL"
NoTable == Ncpu  \* the descriptor table of no processor

VARIABLES pc,          \* where each processor is
          boot_record, \* [jmp_code, is_ap]
          ipi,         \* processors an INIT and STARTUP is on its way to
          next,        \* of each processor the target of its loop over the others
          ap_ready,
          gdt_data,    \* the static operand of lgdt in set_gdt
          gdtr,        \* the descriptor table each processor has loaded
          ioapic,      \* [reg, table]: the select register and the entries
          loads,       \* how often the program was read from the disk
          halts,       \* calls of halt so far
          power        \* FALSE after the write to port 0x604

bootVars == <<pc, boot_record, ipi, next, ap_ready, gdt_data, gdtr, ioapic, loads, halts, power>>

BootInit ==
  /\ pc = [c \in Cpu |-> IF c = 0 THEN "loader" ELSE "off"]
  /\ boot_record = [jmp_code |-> NULL, is_ap |-> FALSE]
  /\ ipi = {}
  /\ next = [c \in Cpu |-> 0]
  /\ ap_ready = FALSE
  /\ gdt_data = NoTable
  /\ gdtr = [c \in Cpu |-> NoTable]
  /\ ioapic = [reg |-> NULL, table |-> [l \in Lines |-> "disabled"]]
  /\ loads = 0
  /\ halts = 0
  /\ power = TRUE

Goto(c, place) == pc' = [pc EXCEPT ![c] = place]

(* INIT and STARTUP arrive: whatever the processor does, it begins again at  *)
(* the boot record's jump, into the boot loader or onto itself for ever.     *)
Wake(c) ==
  /\ c \in ipi
  /\ ipi' = ipi \ {c}
  /\ Goto(c, IF boot_record.jmp_code = "jmp loader" THEN "loader" ELSE "stopped")
  /\ UNCHANGED <<boot_record, next, ap_ready, gdt_data, gdtr, ioapic, loads, halts, power>>

(* load_kernel: the others find everything loaded. *)
load_kernel(c) ==
  /\ pc[c] = "loader"
  /\ loads' = IF boot_record.is_ap THEN loads ELSE loads + 1
  /\ Goto(c, "start")
  /\ UNCHANGED <<boot_record, ipi, next, ap_ready, gdt_data, gdtr, ioapic, halts, power>>

(* _start_c: the bootstrap processor masks all lines of the ioapic first.    *)
_start_c(c) ==
  /\ pc[c] = "start"
  /\ ioapic' = IF boot_record.is_ap THEN ioapic
               ELSE [ioapic EXCEPT !.table = [l \in Lines |-> "disabled"]]
  /\ Goto(c, "set_gdt")
  /\ UNCHANGED <<boot_record, ipi, next, ap_ready, gdt_data, gdtr, loads, halts, power>>

(* set_gdt fills a static structure and lets lgdt read it. *)
set_gdt(c) ==
  /\ pc[c] = "set_gdt"
  /\ gdt_data' = c
  /\ Goto(c, "lgdt")
  /\ UNCHANGED <<boot_record, ipi, next, ap_ready, gdtr, ioapic, loads, halts, power>>

lgdt(c) ==
  /\ pc[c] = "lgdt"
  /\ gdtr' = [gdtr EXCEPT ![c] = gdt_data]
  /\ Goto(c, "select IRQ_KBD")
  /\ UNCHANGED <<boot_record, ipi, next, ap_ready, gdt_data, ioapic, loads, halts, power>>

(* ioapicwrite: the register is selected, then written; the write goes to    *)
(* whatever is selected by then.                                             *)
ioapic_select(c, line) ==
  /\ pc[c] = IF line = "IRQ_KBD" THEN "select IRQ_KBD" ELSE "select IRQ_COM1"
  /\ ioapic' = [ioapic EXCEPT !.reg = line]
  /\ Goto(c, IF line = "IRQ_KBD" THEN "write IRQ_KBD" ELSE "write IRQ_COM1")
  /\ UNCHANGED <<boot_record, ipi, next, ap_ready, gdt_data, gdtr, loads, halts, power>>

ioapic_write(c, line) ==
  /\ pc[c] = IF line = "IRQ_KBD" THEN "write IRQ_KBD" ELSE "write IRQ_COM1"
  /\ ioapic' = [ioapic EXCEPT !.table[ioapic.reg] = line]
  /\ Goto(c, IF line = "IRQ_KBD" THEN "select IRQ_COM1"
             ELSE IF c = 0 THEN "main" ELSE "ready")
  /\ UNCHANGED <<boot_record, ipi, next, ap_ready, gdt_data, gdtr, loads, halts, power>>

(* othercpu_entry: tell the bootstrap processor, then run the entry. *)
SayReady(c) ==
  /\ pc[c] = "ready"
  /\ ap_ready' = TRUE
  /\ Goto(c, "entry")
  /\ UNCHANGED <<boot_record, ipi, next, gdt_data, gdtr, ioapic, loads, halts, power>>

(* mpe_init, called by main: one processor after the other is started, and   *)
(* waited for.                                                               *)
mpe_init ==
  /\ pc[0] = "main"
  /\ boot_record' = [boot_record EXCEPT !.jmp_code = "jmp loader"]
  /\ next' = [next EXCEPT ![0] = 1]
  /\ Goto(0, IF Ncpu > 1 THEN "bootap" ELSE "entry")
  /\ UNCHANGED <<ipi, ap_ready, gdt_data, gdtr, ioapic, loads, halts, power>>

(* __am_lapic_bootap sends the two interrupts and does not wait for them.    *)
bootap ==
  /\ pc[0] = "bootap"
  /\ boot_record' = [boot_record EXCEPT !.is_ap = TRUE]
  /\ ipi' = ipi \cup {next[0]}
  /\ Goto(0, "await")
  /\ UNCHANGED <<next, ap_ready, gdt_data, gdtr, ioapic, loads, halts, power>>

StartedAtOnce == TRUE
Started == ap_ready
await ==
  /\ pc[0] = "await" /\ Started
  /\ ap_ready' = FALSE
  /\ next' = [next EXCEPT ![0] = @ + 1]
  /\ Goto(0, IF next[0] + 1 < Ncpu THEN "bootap" ELSE "entry")
  /\ UNCHANGED <<boot_record, ipi, gdt_data, gdtr, ioapic, loads, halts, power>>

(* halt, by the program's end, its entry's return (a panic) or its wish.     *)
halt(c) ==
  /\ pc[c] \in {"main", "entry"} /\ halts < MaxHalts
  /\ halts' = halts + 1
  /\ boot_record' = [boot_record EXCEPT !.jmp_code = "jmp ."]
  /\ next' = [next EXCEPT ![c] = 0]
  /\ Goto(c, "stop the world")
  /\ UNCHANGED <<ipi, ap_ready, gdt_data, gdtr, ioapic, loads, power>>

WithItself(c) == {next[c]}
OtherThan(c) == {next[c]} \ {c}
__am_stop_the_world(c) ==
  /\ pc[c] = "stop the world" /\ next[c] < Ncpu
  /\ ipi' = ipi \cup OtherThan(c)
  /\ next' = [next EXCEPT ![c] = @ + 1]
  /\ UNCHANGED <<pc, boot_record, ap_ready, gdt_data, gdtr, ioapic, loads, halts, power>>

PowerOff(c) ==
  /\ pc[c] = "stop the world" /\ next[c] = Ncpu
  /\ power' = FALSE
  /\ Goto(c, "hlt")
  /\ UNCHANGED <<boot_record, ipi, next, ap_ready, gdt_data, gdtr, ioapic, loads, halts>>

BootStep(c) ==
  \/ Wake(c) \/ load_kernel(c) \/ _start_c(c) \/ set_gdt(c) \/ lgdt(c)
  \/ \E line \in Lines : ioapic_select(c, line) \/ ioapic_write(c, line)
  \/ SayReady(c) \/ __am_stop_the_world(c) \/ PowerOff(c)
  \/ c = 0 /\ (mpe_init \/ bootap \/ await)

BootNext == \E c \in Cpu : BootStep(c) \/ halt(c)

(* Every processor runs on; whether the program halts is its own affair. *)
BootFairness == \A c \in Cpu : WF_bootVars(BootStep(c))
BootSpec == BootInit /\ [][BootNext]_bootVars /\ BootFairness
-----------------------------------------------------------------------------
(* A processor that runs the program has its own descriptor table, though    *)
(* all of them load it through one static structure, and both interrupt      *)
(* lines lead to their own vectors, though all of them enable them through   *)
(* one select register (x86.h:293, ioe.c:451).                               *)
ProcessorsSetUp ==
  \A c \in Cpu : pc[c] \in {"main", "bootap", "await", "entry", "ready"} =>
    gdtr[c] = c /\ \A line \in Lines : ioapic.table[line] = line

(* The program is read from the disk once: no processor started later reads  *)
(* it again over the data of those that run (boot/main.c:71).                *)
LoadedOnce == loads <= 1 /\ (pc[0] \notin {"loader", "stopped"} => loads = 1)

(* When the machine is switched off, nobody else runs the program: each      *)
(* other processor is at the boot record, or on its way there (trm.c:43).    *)
HaltStopsTheWorld ==
  ~power => \A c \in Cpu \ ipi : pc[c] \in {"hlt", "stopped"}

(* However many processors start and halt at a time: what they share is      *)
(* loaded once and set up for each, and a halt ends all of them.             *)
BootSafe == ProcessorsSetUp /\ LoadedOnce /\ HaltStopsTheWorld

(* A program that starts the others sees all of them enter, unless one       *)
(* halts; and a processor that halts alone switches the machine off. Two     *)
(* that halt at a time may stop each other before either does (trm.c:57).    *)
StartsAndHalts ==
  pc[0] = "bootap" \/ halts = 1 ~>
    (\A c \in Cpu : pc[c] = "entry") \/ ~power \/ halts > 1
=============================================================================
