--------------------------- MODULE AddressSpaces ---------------------------
(* What the virtual memory half of the abstract machine promises its client  *)
(* (am/include/am.h: protect, unprotect, map and the address space of a      *)
(* context), whatever the platform: each address space is a partial function *)
(* from virtual to physical pages, and user code on a processor sees the     *)
(* function of the space that is loaded there, nothing else.                 *)

CONSTANTS Spaces,  \* the AddrSpace objects of the client
          Vas,     \* the user pages of the virtual address space
          Pages    \* the physical pages the client maps

CONSTANTS NoPage,  \* what an address without a mapping translates to
          Kernel   \* no address space: only the kernel's own mappings

VARIABLES live,    \* the spaces between protect and unprotect
          maps,    \* the function of each space
          loaded,  \* the space loaded on the processor, or Kernel
          seen     \* what user code on the processor sees

vars == <<live, maps, loaded, seen>>

Nothing == [va \in Vas |-> NoPage]

Init ==
  /\ live = {}
  /\ maps = [s \in Spaces |-> Nothing]
  /\ loaded = Kernel
  /\ seen = Nothing

SeesWhatIsLoaded == seen' = IF loaded' = Kernel THEN Nothing ELSE maps'[loaded']

Protect(s) ==
  /\ s \notin live
  /\ live' = live \cup {s}
  /\ maps' = [maps EXCEPT ![s] = Nothing]
  /\ UNCHANGED loaded

(* The client takes a space down only where no processor uses it. *)
Unprotect(s) ==
  /\ s \in live \ {loaded}
  /\ live' = live \ {s}
  /\ maps' = [maps EXCEPT ![s] = Nothing]
  /\ UNCHANGED loaded

Map(s, va, pa) ==
  /\ s \in live
  /\ maps' = [maps EXCEPT ![s][va] = pa]
  /\ UNCHANGED <<live, loaded>>

Switch(s) ==
  /\ s \in live \cup {Kernel}
  /\ loaded' = s
  /\ UNCHANGED <<live, maps>>

Next ==
  /\ \/ \E s \in Spaces : Protect(s) \/ Unprotect(s)
     \/ \E s \in Spaces, va \in Vas, pa \in Pages \cup {NoPage} : Map(s, va, pa)
     \/ \E s \in Spaces \cup {Kernel} : Switch(s)
  /\ SeesWhatIsLoaded

Spec == Init /\ [][Next]_vars
============================================================================
