----------------------------- MODULE NativeVme ------------------------------
(* Address spaces on the native platform (am/src/native/vme.c), where a user *)
(* page is a page the host maps into the process: each space keeps a linked  *)
(* list of its pages, found again by a hash of the address, and a switch     *)
(* replays the lists of the two spaces with munmap and mmap. One process.    *)
EXTENDS Naturals, FiniteSets

CONSTANTS AddrSpaces, UserVas, PhysPages, NoPhys, NoSpace,
          End,      \* the end of a list
          Pool,     \* pages pgalloc has; nothing gives one back
          Remaps    \* whether the client maps a page it has mapped before

(* A null pointer is no address, no space and no page.                       *)
ASSUME NativeVmeAssumption ==
  /\ Pool \in Nat /\ Remaps \in BOOLEAN
  /\ IsFiniteSet(UserVas)
  /\ End \notin UserVas /\ NoSpace \notin AddrSpaces /\ NoPhys \notin PhysPages

VARIABLES n_live,   \* the spaces between protect and unprotect
          as,       \* of each space the VMHead and its PageMap nodes
          vm_head,  \* thiscpu->vm_head
          host,     \* what the host has mapped in the user area
          pool,     \* pages pgalloc has left
          stuck     \* an assertion failed, or a loop does not end

nativeVmeVars == <<n_live, as, vm_head, host, pool, stuck>>

(* A space: the head of its list and, for each page once mapped, its node    *)
(* with the page behind it, is_mapped and the next node.                     *)
NoNode == [known |-> FALSE, pa |-> NoPhys, is_mapped |-> FALSE, next |-> End]
EmptyHead == [head |-> End, node |-> [va \in UserVas |-> NoNode]]

(* list_foreach: the nodes passed in n steps from va, and where that leads. *)
Passed(h) ==
  LET after[n \in Nat] == IF n = 0 THEN h.head
                          ELSE IF after[n - 1] = End THEN End
                          ELSE h.node[after[n - 1]].next
  IN  [n \in 0 .. Cardinality(UserVas) |-> after[n]]
Listed(h) == {Passed(h)[n] : n \in DOMAIN Passed(h)} \ {End}
Ends(h) == Passed(h)[Cardinality(UserVas)] = End

NativeVmeInit ==
  /\ n_live = {}
  /\ as = [s \in AddrSpaces |-> EmptyHead]
  /\ vm_head = NoSpace
  /\ host = [va \in UserVas |-> NoPhys]
  /\ pool = Pool
  /\ stuck = FALSE

(* protect asserts that it got a page for the head. *)
NativeProtect(s) ==
  /\ s \notin n_live
  /\ IF pool = 0 THEN stuck' = TRUE /\ UNCHANGED <<n_live, as, pool>>
     ELSE /\ n_live' = n_live \cup {s}
          /\ as' = [as EXCEPT ![s] = EmptyHead]
          /\ pool' = pool - 1
          /\ UNCHANGED stuck
  /\ UNCHANGED <<vm_head, host>>

(* unprotect does nothing: the head and the nodes of the space stay taken. *)
NativeUnprotect(s) ==
  /\ s \in n_live \ {vm_head}
  /\ n_live' = n_live \ {s}
  /\ UNCHANGED <<as, vm_head, host, pool, stuck>>

(* The node of va becomes the head of the list, found or new. *)
LinkedAlone(h, va, pa, mapped) ==
  [head |-> va,
   node |-> [h.node EXCEPT ![va] = [known |-> TRUE, pa |-> pa, is_mapped |-> mapped,
                                    next |-> End]]]
Linked(h, va, pa, mapped) ==
  [head |-> va,
   node |-> [h.node EXCEPT ![va] = [known |-> TRUE, pa |-> pa, is_mapped |-> mapped,
                                    next |-> h.head]]]

(* map: a page of the space that is loaded is mapped at once. A new node     *)
(* that pgalloc has no page for is written through a null pointer.           *)
NativeMap(s, va, pa) ==
  LET new == ~as[s].node[va].known
      loaded == s = vm_head
  IN  /\ s \in n_live
      /\ new \/ Remaps
      /\ IF new /\ pool = 0 THEN stuck' = TRUE /\ UNCHANGED <<as, host, pool>>
         ELSE /\ as' = [as EXCEPT ![s] = Linked(@, va, pa, loaded)]
              /\ host' = IF loaded THEN [host EXCEPT ![va] = pa] ELSE host
              /\ pool' = IF new THEN pool - 1 ELSE pool
              /\ UNCHANGED stuck
      /\ UNCHANGED <<n_live, vm_head>>

UnmappedFirstOnly(h, va) == va = h.head /\ h.node[va].is_mapped
Unmapped(h, va) == va \in Listed(h) /\ h.node[va].is_mapped
SetMapped(h, flag) ==
  [h EXCEPT !.node = [va \in UserVas |-> IF va \in Listed(h) THEN [@[va] EXCEPT !.is_mapped = flag]
                                     ELSE @[va]]]

(* __am_switch to a context whose vm_head is that of s, or null: munmap the  *)
(* list of the space left, mmap that of the space entered. A list that runs  *)
(* into itself is walked for ever.                                           *)
__am_switch(s) ==
  LET leaves == vm_head # NoSpace
      enters == s # NoSpace
  IN  /\ s \in n_live \cup {NoSpace}
      /\ s # vm_head
      /\ IF (leaves => Ends(as[vm_head])) /\ (enters => Ends(as[s]))
         THEN /\ host' = [va \in UserVas |->
                   IF enters /\ va \in Listed(as[s]) THEN as[s].node[va].pa
                   ELSE IF leaves /\ Unmapped(as[vm_head], va) THEN NoPhys
                   ELSE host[va]]
              /\ as' = [t \in AddrSpaces |-> IF t = s THEN SetMapped(as[t], TRUE)
                                         ELSE IF t = vm_head THEN SetMapped(as[t], FALSE)
                                         ELSE as[t]]
              /\ vm_head' = s
              /\ UNCHANGED stuck
         ELSE stuck' = TRUE /\ UNCHANGED <<host, as, vm_head>>
      /\ UNCHANGED <<n_live, pool>>

NativeVmeNext ==
  /\ ~stuck
  /\ \/ \E s \in AddrSpaces : NativeProtect(s) \/ NativeUnprotect(s)
     \/ \E s \in AddrSpaces, va \in UserVas, pa \in PhysPages : NativeMap(s, va, pa)
     \/ \E s \in AddrSpaces \cup {NoSpace} : __am_switch(s)

NativeVmeSpec == NativeVmeInit /\ [][NativeVmeNext]_nativeVmeVars
-----------------------------------------------------------------------------
(* A switch passes every mapping of a space: each page once mapped is on the *)
(* list, and the list ends ("munmap all mappings", "mmap all mappings",      *)
(* vme.c:63, vme.c:73). And is_mapped says what the host has, so that the    *)
(* next switch takes away exactly what is there.                             *)
ListsHoldAllMappings ==
  \A s \in n_live :
    /\ Ends(as[s]) /\ Listed(as[s]) = {va \in UserVas : as[s].node[va].known}
    /\ \A va \in UserVas : as[s].node[va].is_mapped <=>
         s = vm_head /\ as[s].node[va].known /\ host[va] # NoPhys

(* The lists and the host implement the promise of am.h. *)
NativePromise == INSTANCE AddressSpaces WITH
  Spaces <- AddrSpaces, Vas <- UserVas, Pages <- PhysPages, NoPage <- NoPhys, Kernel <- NoSpace,
  live <- n_live,
  maps <- [s \in AddrSpaces |-> [va \in UserVas |->
             IF s \in n_live /\ va \in Listed(as[s]) THEN as[s].node[va].pa ELSE NoPhys]],
  loaded <- vm_head,
  seen <- host

(* And each call does what it is asked to, for the page it is asked about.   *)
EachNativeCallAsPromised ==
  /\ \A s \in AddrSpaces : /\ NativeProtect(s) => stuck' \/ NativePromise!Protect(s)
                           /\ NativeUnprotect(s) => NativePromise!Unprotect(s)
  /\ \A s \in AddrSpaces, va \in UserVas, pa \in PhysPages :
       NativeMap(s, va, pa) => stuck' \/ NativePromise!Map(s, va, pa)
  /\ \A s \in AddrSpaces \cup {NoSpace} : __am_switch(s) => stuck' \/ NativePromise!Switch(s)

(* The lists and the host implement the address spaces of am.h, call by call *)
(* (native/vme.c).                                                           *)
NativeImplementsAddressSpaces ==
  NativePromise!Spec /\ [][EachNativeCallAsPromised]_nativeVmeVars
=============================================================================
