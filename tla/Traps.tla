------------------------------- MODULE Traps --------------------------------
(* Traps and contexts of the x86 platform of the abstract machine            *)
(* (am/src/x86/qemu/cte.c, trap64.S): the gates, the saved contexts, the     *)
(* return to whatever context the client's handler chooses. One processor,   *)
(* and the round-robin scheduler of yield-os.c as the client.                *)
EXTENDS Naturals, Sequences, FiniteSets, SequencesExt

CONSTANTS Kthreads,  \* threads made by kcontext, in a set of the client
          Uthreads,  \* threads made by ucontext
          SpaceOf,   \* the address space the client makes each for
          Kpt,       \* the kernel's table
          Main,      \* the context that boots and then yields for good
          None       \* the null pointer

Threads == Kthreads \cup Uthreads

(* Contexts are distinct, and a user thread has a space of its own.          *)
ASSUME TrapsAssumption ==
  /\ Kthreads \cap Uthreads = {} /\ Main \notin Threads
  /\ \A t \in Uthreads : SpaceOf[t] # None

(* The vectors of x86.h that something raises: IRQ 0, the timer; a software  *)
(* vector for the system call and the yield; page fault, protection fault.   *)
(* IRQ 1 and 4, of the keyboard and the serial port, nothing raises here.    *)
T_IRQ0 == 32
TimerIrq == T_IRQ0
EX_GP == 13
EX_PF == 14
EX_SYSCALL == 128
EX_YIELD == 129
IsIrqBehindTimer(v) == v \in T_IRQ0 + 1 .. T_IRQ0 + 31
IsIrq(v) == v \in T_IRQ0 .. T_IRQ0 + 31

(* The privilege from which the int instruction may use a gate: the DPL      *)
(* column of IRQS.                                                           *)
UserGate(v) == v \in {EX_SYSCALL, EX_YIELD}

(* The event the handler is told of a vector. *)
EventOf(v) ==
  CASE v = TimerIrq   -> "EVENT_IRQ_TIMER"
    [] v \in {T_IRQ0 + 1, T_IRQ0 + 4} -> "EVENT_IRQ_IODEV"
    [] v = EX_SYSCALL -> "EVENT_SYSCALL"
    [] v = EX_YIELD   -> "EVENT_YIELD"
    [] v = EX_PF      -> "EVENT_PAGEFAULT"
    [] OTHER          -> "EVENT_ERROR"

VARIABLES cpu,        \* [thread, mode, fi, cr3, rsp0]: what the processor runs
          stack,      \* of each context the frames a trap has left on its stack
          ctx,        \* the context the client keeps of each thread, or None
          ring,       \* the client's threads in the order of their turns
          irq,        \* lapic: is the timer pending, is a vector in service
          dead        \* panic, or every user thread gone

trapVars == <<cpu, stack, ctx, ring, irq, dead>>

(* A frame: the mode and interrupt flag it returns to, and its vector. A     *)
(* context: the frame on top of its thread's stack with cr3 and rsp0.        *)
Frame(mode, fi, vec) == [mode |-> mode, fi |-> fi, vec |-> vec]

TrapsInit ==
  /\ cpu = [thread |-> Main, mode |-> "kernel", fi |-> FALSE, cr3 |-> Kpt, rsp0 |-> None]
  /\ stack = [t \in Threads \cup {Main} |-> <<>>]
  /\ ctx = [t \in Threads \cup {Main} |-> None]
  /\ ring = <<>>
  /\ irq = [pending |-> FALSE, service |-> FALSE]
  /\ dead = FALSE

Booting == cpu.thread = Main /\ cpu.mode = "kernel"
Fresh(t) == ctx[t] = None /\ t \notin ToSet(ring)

(* kcontext: a context that starts in the kernel with interrupts on and      *)
(* without an address space (cr3 = 0).                                       *)
kcontext(t) ==
  /\ Booting /\ Fresh(t)
  /\ stack' = [stack EXCEPT ![t] = <<Frame("kernel", TRUE, EX_YIELD)>>]
  /\ ctx' = [ctx EXCEPT ![t] = [cr3 |-> None, rsp0 |-> None]]
  /\ ring' = Append(ring, t)
  /\ UNCHANGED <<cpu, irq, dead>>

(* ucontext: a context that starts in user mode in its space, with its       *)
(* kernel stack for the traps it takes.                                      *)
ucontext(t) ==
  /\ Booting /\ Fresh(t)
  /\ stack' = [stack EXCEPT ![t] = <<Frame("user", TRUE, EX_YIELD)>>]
  /\ ctx' = [ctx EXCEPT ![t] = [cr3 |-> SpaceOf[t], rsp0 |-> t]]
  /\ ring' = Append(ring, t)
  /\ UNCHANGED <<cpu, irq, dead>>

(* The processor goes through a gate: an STS_TG gate leaves the interrupt    *)
(* flag as it is, so interrupts stay on until the cli of the entry. From     *)
(* user mode the frame goes to the stack rsp0 names.                         *)
Enter(v) ==
  LET on == IF cpu.mode = "user" THEN cpu.rsp0 ELSE cpu.thread
  IN  /\ stack' = [stack EXCEPT ![on] = <<Frame(cpu.mode, cpu.fi, v)>> \o @]
      /\ cpu' = [cpu EXCEPT !.mode = "entry", !.thread = on]
      /\ UNCHANGED <<ctx, ring, dead>>

(* int n: from user mode through a gate of the kernel it is a protection     *)
(* fault. Kernel code yields; a user program tries any vector.               *)
interrupt(v) ==
  /\ cpu.mode \in {"user", "kernel"}
  /\ cpu.mode = "kernel" => v = EX_YIELD
  /\ Enter(IF cpu.mode = "user" /\ ~UserGate(v) THEN EX_GP ELSE v)
  /\ UNCHANGED irq

PageFault ==
  /\ cpu.mode = "user"
  /\ Enter(EX_PF)
  /\ UNCHANGED irq

(* The lapic's timer is periodic; it interrupts where the flag is on and no  *)
(* interrupt of its class is in service.                                     *)
TimerFires ==
  /\ ~irq.pending
  /\ irq' = [irq EXCEPT !.pending = TRUE]
  /\ UNCHANGED <<cpu, stack, ctx, ring, dead>>

TimerInterrupt ==
  /\ irq.pending /\ ~irq.service /\ cpu.fi
  /\ irq' = [pending |-> FALSE, service |-> TRUE]
  /\ Enter(TimerIrq)

iset(enable) ==
  /\ cpu.mode = "kernel" /\ cpu.fi # enable
  /\ cpu' = [cpu EXCEPT !.fi = enable]
  /\ UNCHANGED <<stack, ctx, ring, irq, dead>>

Vector == stack[cpu.thread][1].vec

(* The entry: cli, the context saved with the cr3 and rsp0 of the moment,    *)
(* the interrupt acknowledged, the client's handler called.                  *)
FlagKept == cpu.fi
FlagAfterCli == FALSE
__am_irq_handle ==
  /\ cpu.mode = "entry"
  /\ cpu' = [cpu EXCEPT !.mode = "handler", !.fi = FlagAfterCli]
  /\ ctx' = [ctx EXCEPT ![cpu.thread] = [cr3 |-> cpu.cr3, rsp0 |-> cpu.rsp0]]
  /\ irq' = IF IsIrq(Vector) THEN [irq EXCEPT !.service = FALSE] ELSE irq
  /\ UNCHANGED <<stack, ring, dead>>

(* schedule of yield-os.c: the next thread of the ring in turn, whatever the *)
(* event; a program with an error is dropped from the ring.                  *)
Turn ==
  LET rest == SelectInSeq(ring, LAMBDA t : t = cpu.thread)   \* 0 if it has no turn
      drops == rest # 0 /\ EventOf(Vector) = "EVENT_ERROR"
      left == IF drops THEN RemoveAt(ring, rest) ELSE ring
      from == IF drops THEN rest ELSE rest + 1
  IN  [ring |-> left,
       next |-> IF left = <<>> THEN None ELSE left[IF from > Len(left) THEN 1 ELSE from]]

(* What is left of __am_irq_handle behind the handler, and __am_iret: panic  *)
(* on a null context; a context without a space keeps the cr3 that is        *)
(* loaded, and rsp0 with it.                                                 *)
BorrowsAlways(to) == TRUE
Borrows(to) == to.cr3 = None
Resumed(t) ==
  LET to == ctx[t]
      frame == stack[t][1]
      keep == Borrows(to)
  IN  [thread |-> t, mode |-> frame.mode, fi |-> frame.fi,
       cr3 |-> IF keep THEN cpu.cr3 ELSE to.cr3,
       rsp0 |-> IF keep THEN cpu.rsp0 ELSE to.rsp0]

Served == [stack EXCEPT ![cpu.thread][1].vec = EX_YIELD]   \* nobody asks again
__am_iret ==
  /\ cpu.mode = "handler"
  /\ IF Turn.next = None THEN dead' = TRUE /\ UNCHANGED <<cpu, stack, ctx>>
     ELSE /\ cpu' = Resumed(Turn.next)
          /\ stack' = [Served EXCEPT ![Turn.next] = Tail(@)]
          /\ ctx' = [ctx EXCEPT ![Turn.next] = None]
          /\ UNCHANGED dead
  /\ ring' = Turn.ring
  /\ UNCHANGED irq

TrapsNext ==
  /\ ~dead
  /\ \/ \E t \in Kthreads : kcontext(t)
     \/ \E t \in Uthreads : ucontext(t)
     \/ \E v \in {TimerIrq, EX_SYSCALL, EX_YIELD} : interrupt(v)
     \/ \E on \in BOOLEAN : iset(on)
     \/ PageFault \/ TimerFires \/ TimerInterrupt \/ __am_irq_handle \/ __am_iret

(* The processor runs on, the timer is periodic, and code between sti and    *)
(* the next cli is longer than an instruction, so that a pending interrupt   *)
(* is taken. Kernel code turns interrupts on again.                          *)
TrapsFairness ==
  /\ WF_trapVars(~dead /\ (__am_irq_handle \/ __am_iret))
  /\ WF_trapVars(~dead /\ TimerFires)
  /\ SF_trapVars(~dead /\ TimerInterrupt)
  /\ WF_trapVars(~dead /\ iset(TRUE))

TrapsSpec == TrapsInit /\ [][TrapsNext]_trapVars /\ TrapsFairness
-----------------------------------------------------------------------------
(* User code runs in the address space it was made for, and the next trap    *)
(* finds the thread's own kernel stack, however many threads of the kernel,  *)
(* which borrow the space and the stack pointer of the thread before them,   *)
(* have run in between (cte.c:95).                                           *)
UserRunsInItsSpace ==
  cpu.mode = "user" => cpu.cr3 = SpaceOf[cpu.thread] /\ cpu.rsp0 = cpu.thread

(* However traps interrupt the entries of traps, a stack holds at most two   *)
(* frames: the window before the cli admits one interrupt, and none of its   *)
(* class until the handler has interrupts off. And an interrupt is in        *)
(* service only in the entry it was delivered to: no context is left with    *)
(* one unacknowledged (cte.c:113, cte.c:48, trap64.S).                       *)
NestingBounded ==
  /\ \A t \in DOMAIN stack : Len(stack[t]) <= 2
  /\ irq.service => cpu.mode = "entry" /\ Vector = TimerIrq

(* A thread the client has in its ring gets the processor again and again:   *)
(* no other thread, however it yields, faults or computes, keeps it.         *)
EveryThreadRuns ==
  \A t \in Threads :
    t \in ToSet(ring) /\ ctx[t] # None ~> cpu.thread = t \/ dead
=============================================================================
