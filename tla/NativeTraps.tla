----------------------------- MODULE NativeTraps ----------------------------
(* Traps and contexts on the native platform (am/src/native/cte.c), where a  *)
(* trap is a signal of the host: the signal handler leaves the event in a    *)
(* slot of the processor, builds a context on the stack and returns into     *)
(* irq_handle with the interrupting signals masked. The client is the        *)
(* round-robin scheduler of yield-os.c, as in Traps.                         *)
EXTENDS Naturals, Sequences, SequencesExt

CONSTANTS Kthreads, Uthreads, Main, None

Threads == Kthreads \cup Uthreads

(* Contexts are distinct.                                                    *)
ASSUME NativeTrapsAssumption == Kthreads \cap Uthreads = {} /\ Main \notin Threads

Interrupts == {"EVENT_IRQ_TIMER", "EVENT_IRQ_IODEV"}

VARIABLES cpu,      \* [thread, place, masked, vm_head, ksp]: what runs
          ev,       \* thiscpu->ev
          stack,    \* of each context the frames the signals left on its stack
          ctx,      \* the context the client keeps of each thread, or None
          ring,     \* the client's threads in the order of their turns
          pending,  \* interrupting signals the host holds back
          failed    \* an assertion of irq_handle

nativeTrapVars == <<cpu, ev, stack, ctx, ring, pending, failed>>

(* Where the program counter is: in the program's own text, in a shared      *)
(* library of the host, in the user area, or in irq_handle. A frame also     *)
(* keeps the event that made it.                                             *)
Frame(place, masked, event) == [place |-> place, masked |-> masked, event |-> event]

(* The address space of a thread's context: a user thread has one of its     *)
(* own, a thread of the kernel none.                                         *)
SpaceFor(t) == IF t \in Uthreads THEN t ELSE None

NativeTrapsInit ==
  /\ cpu = [thread |-> Main, place |-> "text", masked |-> TRUE, vm_head |-> None, ksp |-> None]
  /\ ev = "EVENT_NULL"
  /\ stack = [t \in Threads \cup {Main} |-> <<>>]
  /\ ctx = [t \in Threads \cup {Main} |-> None]
  /\ ring = <<>>
  /\ pending = {}
  /\ failed = FALSE

(* kcontext and ucontext, by the client's boot code, before its first yield. *)
(* The ksp of a context of the kernel is whatever the memory held.           *)
NewContext(t, place, ksp) ==
  /\ cpu.thread = Main /\ cpu.place = "text" /\ t \notin ToSet(ring)
  /\ stack' = [stack EXCEPT ![t] = <<Frame(place, FALSE, "EVENT_YIELD")>>]
  /\ ctx' = [ctx EXCEPT ![t] = [vm_head |-> SpaceFor(t), ksp |-> ksp]]
  /\ ring' = Append(ring, t)
  /\ UNCHANGED <<cpu, ev, pending, failed>>
native_kcontext(t) == \E garbage \in Uthreads \cup {None} : NewContext(t, "text", garbage)
native_ucontext(t) == NewContext(t, "user", t)

(* The host posts an interrupting signal; it keeps one of each kind.         *)
Post(event) ==
  /\ event \notin pending
  /\ pending' = pending \cup {event}
  /\ UNCHANGED <<cpu, ev, stack, ctx, ring, failed>>

(* setup_stack: the context goes below the stack pointer, or on the kernel   *)
(* stack of the processor if user code was interrupted.                      *)
MaskedAsBefore == cpu.masked
MaskedInHandler == TRUE
setup_stack(event) ==
  LET on == IF cpu.place = "user" THEN cpu.ksp ELSE cpu.thread
  IN  /\ stack' = [stack EXCEPT ![on] = <<Frame(cpu.place, cpu.masked, event)>> \o @]
      /\ cpu' = [cpu EXCEPT !.thread = on, !.place = "irq_handle",
                             !.masked = MaskedInHandler]

(* An interrupting signal whose handler runs: code of a shared library is    *)
(* not reentrant, so there the interrupt is forgotten.                       *)
Interrupt(event) ==
  /\ event \in pending /\ ~cpu.masked
  /\ pending' = pending \ {event}
  /\ ev' = event
  /\ IF cpu.place = "lib" THEN UNCHANGED <<cpu, stack>> ELSE setup_stack(event)
  /\ UNCHANGED <<ctx, ring, failed>>

(* The synchronous signals: raise for a yield, from inside the library, and  *)
(* SIGSEGV for a system call, a page fault or an error of a user program.    *)
(* The handlers' mask lacks SIGUSR2 (cte.c:134); that a yield's signal nests *)
(* in the handler of one delivered together with it is not modelled.         *)
Synchronous(event) ==
  /\ \/ event = "EVENT_YIELD" /\ cpu.place = "lib"
     \/ event \in {"EVENT_SYSCALL", "EVENT_PAGEFAULT", "EVENT_ERROR"} /\ cpu.place = "user"
  /\ ev' = event
  /\ setup_stack(event)
  /\ UNCHANGED <<ctx, ring, pending, failed>>

(* Code of the kernel calls into the host's libraries and returns, and turns *)
(* interrupts on and off.                                                    *)
CallLibrary ==
  /\ cpu.place \in {"text", "lib"}
  /\ cpu' = [cpu EXCEPT !.place = IF @ = "text" THEN "lib" ELSE "text"]
  /\ UNCHANGED <<ev, stack, ctx, ring, pending, failed>>

native_iset ==
  /\ cpu.place = "text"
  /\ cpu' = [cpu EXCEPT !.masked = ~@]
  /\ UNCHANGED <<ev, stack, ctx, ring, pending, failed>>

After(t) ==
  LET turn == SelectInSeq(ring, LAMBDA x : x = t)
  IN  ring[IF turn = Len(ring) THEN 1 ELSE turn + 1]

(* irq_handle: the space and kernel stack of the processor go into the       *)
(* context, the client's scheduler chooses, __am_switch replaces the space,  *)
(* and the signal of the magic call restores the chosen context.             *)
KspKept(c) == cpu.ksp
KspOf(c) == c.ksp
irq_handle ==
  LET next == After(cpu.thread)
      kept == [ctx EXCEPT ![cpu.thread] = [vm_head |-> cpu.vm_head, ksp |-> cpu.ksp]]
      frame == stack[next][1]
  IN  /\ cpu.place = "irq_handle"
      /\ IF ev = "EVENT_ERROR" \/ ring = <<>>
         THEN failed' = TRUE /\ UNCHANGED <<cpu, ev, stack, ctx>>
         ELSE /\ cpu' = [thread |-> next, place |-> frame.place, masked |-> frame.masked,
                         vm_head |-> kept[next].vm_head, ksp |-> KspOf(kept[next])]
              /\ ev' = "EVENT_ERROR"      \* the slot at the magic call
              /\ stack' = [stack EXCEPT ![next] = Tail(@)]
              /\ ctx' = [kept EXCEPT ![next] = None]
              /\ UNCHANGED failed
      /\ UNCHANGED <<ring, pending>>

NativeTrapsNext ==
  /\ ~failed
  /\ \/ \E t \in Kthreads : native_kcontext(t)
     \/ \E t \in Uthreads : native_ucontext(t)
     \/ \E event \in Interrupts : Post(event) \/ Interrupt(event)
     \/ \E event \in {"EVENT_YIELD", "EVENT_SYSCALL", "EVENT_PAGEFAULT", "EVENT_ERROR"} :
          Synchronous(event)
     \/ CallLibrary \/ native_iset \/ irq_handle

NativeTrapsSpec == NativeTrapsInit /\ [][NativeTrapsNext]_nativeTrapVars
-----------------------------------------------------------------------------
(* Each thread runs with its own space, a thread of the kernel with none,    *)
(* and user code with its own stack for the next trap, whatever the garbage  *)
(* in the contexts the kernel's threads started from (cte.c:19).             *)
ThreadRunsInItsSpace ==
  /\ cpu.place = "user" => cpu.vm_head = cpu.thread /\ cpu.ksp = cpu.thread
  /\ cpu.thread \in Kthreads => cpu.vm_head = None

(* irq_handle reads the event of the signal that made its context: the slot  *)
(* of the processor is not overwritten between the return of the signal      *)
(* handler and the call of the client's (cte.c:28, cte.c:76).                *)
EventIsTheOneTaken ==
  cpu.place = "irq_handle" => ev = stack[cpu.thread][1].event
=============================================================================
