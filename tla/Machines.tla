------------------------------ MODULE Machines ------------------------------
(***************************************************************************)
(* The concurrent halves of the abstract machine's platforms: traps and    *)
(* contexts on x86 with the scheduler of yield-os, several processors      *)
(* booting and halting on x86, the same as processes of a host on native,  *)
(* harts and their host on spike, and the memory of the simulated npc; and *)
(* the stages of the ready-valid design, which run side by side as well.   *)
(* They share no state, so a behaviour is one of any of them while the     *)
(* others rest, and the states checked are those of each, not their        *)
(* products.                                                               *)
(***************************************************************************)
EXTENDS Traps, QemuBoot, NativeBoot, Htif, GuestMemory, Handshake

VARIABLE machine  \* the part that runs

MachinesInit ==
  /\ TrapsInit /\ BootInit /\ NativeBootInit /\ HtifInit /\ GuestInit /\ Init
  /\ machine \in {"traps", "boot", "native boot", "htif", "guest", "handshake"}
  \* One state of the parts that rest is enough.
  /\ machine # "guest" => \A c \in DOMAIN pmem : pmem[c] = 0
  /\ machine # "native boot" => ~shared.has_ioe
  /\ machine # "handshake" =>
       out = (CHOOSE d \in Data : TRUE) /\ \A s \in Stage : reg[s] = out /\ ~ready_go[s]

MachinesNext ==
  /\ \/ machine = "traps" /\ TrapsNext /\ UNCHANGED <<vars, bootVars, nativeBootVars, htifVars, guestVars>>
     \/ machine = "boot" /\ BootNext /\ UNCHANGED <<vars, trapVars, nativeBootVars, htifVars, guestVars>>
     \/ machine = "native boot" /\ NativeBootNext /\ UNCHANGED <<vars, trapVars, bootVars, htifVars, guestVars>>
     \/ machine = "htif" /\ HtifNext /\ UNCHANGED <<vars, trapVars, bootVars, nativeBootVars, guestVars>>
     \/ machine = "guest" /\ GuestNext /\ UNCHANGED <<vars, trapVars, bootVars, nativeBootVars, htifVars>>
     \/ /\ machine = "handshake" /\ Next
        /\ UNCHANGED <<trapVars, bootVars, nativeBootVars, htifVars, guestVars>>
  /\ UNCHANGED machine

(* The fairness of the part that runs.                                       *)
MachinesFairness ==
  /\ WF_trapVars(machine = "traps" /\ ~dead /\ (__am_irq_handle \/ __am_iret))
  /\ WF_trapVars(machine = "traps" /\ ~dead /\ TimerFires)
  /\ SF_trapVars(machine = "traps" /\ ~dead /\ TimerInterrupt)
  /\ WF_trapVars(machine = "traps" /\ ~dead /\ iset(TRUE))
  /\ \A c \in Cpu : WF_bootVars(machine = "boot" /\ BootStep(c))
  /\ \A p \in Proc : WF_nativeBootVars(machine = "native boot" /\ ~crashed /\ NativeBootStep(p))
  /\ \A h \in Harts : WF_htifVars(machine = "htif" /\ spike.on /\ HartStep(h))
  /\ WF_htifVars(machine = "htif" /\ spike.on /\ HostTakes)
  /\ WF_htifVars(machine = "htif" /\ spike.on /\ HostGivesKey)
  /\ WF_htifVars(machine = "htif" /\ spike.on /\ HostAnswers)
  /\ WF_vars(machine = "handshake" /\ Next)
  /\ \A s \in Stage : WF_vars(machine = "handshake" /\ Next /\ ready_go'[s])

MachinesSpec ==
  /\ MachinesInit
  /\ [][MachinesNext]_<<machine, vars, trapVars, bootVars, nativeBootVars, htifVars, guestVars>>
  /\ MachinesFairness
=============================================================================
