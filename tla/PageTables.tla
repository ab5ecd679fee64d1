----------------------------- MODULE PageTables -----------------------------
(* The page tables of the x86 platform of the abstract machine               *)
(* (am/src/x86/qemu/vme.c): frames taken from the client's allocator, the    *)
(* walk that fills in missing levels, the recursive release of a space, and  *)
(* the top-level kernel entries every space shares. One processor.           *)
EXTENDS Naturals, FiniteSets, FiniteSetsExt, SequencesExt

CONSTANTS PtLevels,     \* mmu.ptlevels
          Entries,      \* entries of a table (512 or 1024 in the code)
          KernelIndex,  \* the top-level entries of the kernel's areas
          Frames,       \* what the client's pgalloc has, as numbers
          Pages,        \* the physical pages the client maps for users
          Spaces,
          NoPage, Kernel

ASSUME PageTablesAssumption ==
  /\ PtLevels \in Nat \ {0} /\ Entries \in Nat \ {0}
  /\ Frames \subseteq Nat \ {0} /\ IsFiniteSet(Frames)
  /\ Pages \subseteq Nat \ Frames /\ Pages # {}
  /\ KernelIndex \subseteq 0 .. Entries - 1
  /\ Kernel \notin Spaces

Index == 0 .. Entries - 1
NoFrame == 0

(* A virtual page is the index it has at each level, outermost first. *)
AllVas == [1 .. PtLevels -> Index]
KernelVas == {va \in AllVas : va[1] \in KernelIndex}
Vas == AllVas \ KernelVas       \* the user area of vm_areas

(* The kernel's areas are mapped to themselves, as page numbers. *)
PageNumber(va) ==
  LET number[level \in 1 .. PtLevels] ==
        IF level = 1 THEN va[1] ELSE number[level - 1] * Entries + va[level]
  IN  number[PtLevels]

(* An entry of a table: PTE_P, PTE_U and the number of the frame or page it  *)
(* points at.                                                                *)
NotPresent == [p |-> FALSE, u |-> FALSE, to |-> NoFrame]
Present(to, user) == [p |-> TRUE, u |-> user, to |-> to]
ZeroPage == [i \in Index |-> NotPresent]

VARIABLES mem,     \* contents of the frames, those that are free included
          used,    \* the frames pgalloc has given out
          kpt,     \* the kernel's top-level table
          as_ptr,  \* AddrSpace.ptr of each space; stale after unprotect
          live,    \* the spaces between protect and unprotect
          cr3,     \* the table the processor walks
          panic    \* the machine has stopped at a panic

pageTableVars == <<mem, used, kpt, as_ptr, live, cr3, panic>>

(* A heap: its frames and which are used; a walk carries one along. *)
Heap == [mem |-> mem, used |-> used, failed |-> FALSE]

(* pgallocz: a frame of the client's allocator, all entries cleared. *)
pgallocz(h) ==
  IF Frames \subseteq h.used THEN [h EXCEPT !.failed = TRUE]
  ELSE LET f == Min(Frames \ h.used)
       IN  [h EXCEPT !.mem[f] = ZeroPage, !.used = @ \cup {f}]
LastAlloc(h, h2) == CHOOSE f \in h2.used : f \notin h.used

(* What a level's entry for the table below it is made of. *)
TableEntryOfKernel(to, user) == Present(to, FALSE)
TableEntry(to, user) == Present(to, user)

(* indexof: the index of va in the table of a level. *)
IndexOfLevelAbove(va, level) == va[Max({level - 1, 1})]
indexof(va, level) == va[level]

(* One level of ptwalk: go to the next table, allocated where missing. *)
Descend(w, index, user) ==
  LET entry == w.h.mem[w.pt][index]
      h2 == pgallocz(w.h)
      next == LastAlloc(w.h, h2)
  IN  IF w.h.failed THEN w
      ELSE IF entry.p THEN [w EXCEPT !.pt = entry.to]
      ELSE IF h2.failed THEN [w EXCEPT !.h = h2]
      ELSE [h |-> [h2 EXCEPT !.mem[w.pt][index] = TableEntry(next, user)],
            pt |-> next]

(* ptwalk: the last-level table of va below root, and the heap after it. *)
ptwalk(h, root, va, user) ==
  LET walk[level \in 1 .. PtLevels] ==
        IF level = 1 THEN [h |-> h, pt |-> root]
        ELSE Descend(walk[level - 1], indexof(va, level - 1), user)
  IN  walk[PtLevels]

(* Write the last-level entry of va; on failure the heap only says so. *)
Install(h, root, va, user, entry) ==
  LET w == ptwalk(h, root, va, user)
  IN  IF w.h.failed THEN w.h ELSE [w.h EXCEPT !.mem[w.pt][indexof(va, PtLevels)] = entry]

(* The tables below a root, level by level, by the entries that are followed. *)
EntriesOf(m, tables) == {m[pt][i] : pt \in tables, i \in Index}
TablesBelow(m, root, followed) ==
  LET below[level \in 1 .. PtLevels] ==
        IF level = 1 THEN {root}
        ELSE {e.to : e \in EntriesOf(m, below[level - 1]) \cap followed}
  IN  UNION {below[level] : level \in 1 .. PtLevels}

(* The recursion of teardown follows the entries that are present and of     *)
(* user kind, down to the last level, whose entries are the client's pages.  *)
teardown(m, root) == TablesBelow(m, root, [p : {TRUE}, u : {TRUE}, to : Nat])

PageTablesTypeOK ==
  /\ used \subseteq Frames /\ live \subseteq Spaces /\ panic \in BOOLEAN
  /\ mem \in [Frames -> [Index -> [p : BOOLEAN, u : BOOLEAN, to : Nat]]]
  /\ kpt \in Frames \cup {NoFrame} /\ cr3 \in Frames \cup {NoFrame}
  /\ as_ptr \in [Spaces -> Frames \cup {NoFrame}]
-----------------------------------------------------------------------------
(* vme_init of 32-bit x86 builds the kernel's identity mapping in frames of  *)
(* the allocator and loads it; what the frames held before is anything. That *)
(* of x86_64, not modelled, loads the tables start64.S has made (vme.c:95).  *)
FramesAtPowerOn ==
  [mem |-> [f \in Frames |-> [i \in Index |-> Present(CHOOSE p \in Pages : TRUE, TRUE)]],
   used |-> {}, failed |-> FALSE]
KernelTables ==
  LET h == pgallocz(FramesAtPowerOn)
      vas == SetToSeq(KernelVas)
      built[n \in 1 .. Len(vas) + 1] ==
        IF n = 1 THEN h
        ELSE Install(built[n - 1], LastAlloc(FramesAtPowerOn, h), vas[n - 1], FALSE,
                     Present(PageNumber(vas[n - 1]), FALSE))
  IN  built[Len(vas) + 1]

vme_init ==
  /\ ~KernelTables.failed
  /\ mem = KernelTables.mem /\ used = KernelTables.used
  /\ kpt = Min(Frames) /\ cr3 = kpt

PageTablesInit ==
  /\ vme_init
  /\ as_ptr = [s \in Spaces |-> NoFrame]
  /\ live = {}
  /\ panic = FALSE

(* The outcome of an operation that allocates: the new heap, or the panic of *)
(* pgallocz, after which nothing runs.                                       *)
Allocating(h) ==
  IF h.failed THEN panic' = TRUE /\ UNCHANGED <<mem, used>>
  ELSE panic' = FALSE /\ mem' = h.mem /\ used' = h.used

protect(s) ==
  LET h == pgallocz(Heap)
      upt == LastAlloc(Heap, h)
  IN  /\ s \notin live
      /\ Allocating(IF h.failed THEN h
                    ELSE [h EXCEPT !.mem[upt] = [i \in Index |->
                            IF i \in KernelIndex THEN h.mem[kpt][i] ELSE @[i]]])
      /\ as_ptr' = IF h.failed THEN as_ptr ELSE [as_ptr EXCEPT ![s] = upt]
      /\ live' = IF h.failed THEN live ELSE live \cup {s}
      /\ UNCHANGED <<kpt, cr3>>

(* The client's duty: no processor uses the space any more. *)
unprotect(s) ==
  /\ s \in live /\ cr3 # as_ptr[s]
  /\ used' = used \ teardown(mem, as_ptr[s])
  /\ live' = live \ {s}
  /\ UNCHANGED <<mem, kpt, as_ptr, cr3, panic>>

(* map with a protection maps a page that is not mapped yet. *)
MapPage(s, va, pa) ==
  LET w == ptwalk(Heap, as_ptr[s], va, TRUE)
  IN  /\ s \in live
      /\ IF ~w.h.failed /\ w.h.mem[w.pt][indexof(va, PtLevels)].p
         THEN panic' = TRUE /\ UNCHANGED <<mem, used>>    \* remapping
         ELSE Allocating(Install(Heap, as_ptr[s], va, TRUE, Present(pa, TRUE)))
      /\ UNCHANGED <<kpt, as_ptr, live, cr3>>

(* map with MMAP_NONE takes the mapping away. *)
UnmapPage(s, va) ==
  LET w == ptwalk(Heap, as_ptr[s], va, TRUE)
  IN  /\ s \in live
      /\ IF ~w.h.failed /\ ~w.h.mem[w.pt][indexof(va, PtLevels)].p
         THEN panic' = TRUE /\ UNCHANGED <<mem, used>>    \* not mapped
         ELSE Allocating(Install(Heap, as_ptr[s], va, TRUE, NotPresent))
      /\ UNCHANGED <<kpt, as_ptr, live, cr3>>

(* map of an address outside the user area panics before it walks. *)
MapOutside(s) ==
  /\ s \in live /\ KernelVas # {}
  /\ panic' = TRUE
  /\ UNCHANGED <<mem, used, kpt, as_ptr, live, cr3>>

(* The set_cr3 of a return to a context of space s, or of the kernel. *)
set_cr3(root) ==
  /\ cr3' = root
  /\ UNCHANGED <<mem, used, kpt, as_ptr, live, panic>>

PageTablesNext ==
  /\ ~panic
  /\ \/ \E s \in Spaces : protect(s) \/ unprotect(s) \/ MapOutside(s)
     \/ \E s \in Spaces, va \in Vas, pa \in Pages : MapPage(s, va, pa)
     \/ \E s \in Spaces, va \in Vas : UnmapPage(s, va)
     \/ \E s \in live : set_cr3(as_ptr[s])
     \/ set_cr3(kpt)

PageTablesSpec == PageTablesInit /\ [][PageTablesNext]_pageTableVars
-----------------------------------------------------------------------------
(* The processor's walk: where va leads below root, and whether user code    *)
(* may use it (every level present, every level of user kind).               *)
Translate(m, below, index) ==
  LET entry == m[below.to][index]
  IN  IF below.to \notin Frames \/ ~entry.p THEN [to |-> NoFrame, u |-> FALSE]
      ELSE [to |-> entry.to, u |-> below.u /\ entry.u]
Reach(m, root, va) ==
  LET at[level \in 1 .. PtLevels + 1] ==
        IF level = 1 THEN [to |-> root, u |-> TRUE]
        ELSE Translate(m, at[level - 1], va[level - 1])
  IN  at[PtLevels + 1]

UserView(m, root) ==
  [va \in Vas |-> IF Reach(m, root, va).u THEN Reach(m, root, va).to ELSE NoPage]

(* All tables below a root, of whatever kind. *)
Tables(m, root) == TablesBelow(m, root, [p : {TRUE}, u : BOOLEAN, to : Nat])

Roots == {kpt} \cup {as_ptr[s] : s \in live}

(* The frames given out are exactly those some live table reaches: what      *)
(* teardown misses is lost for good, and what it releases too much is still  *)
(* walked, by another space or by the kernel (vme.c:77).                     *)
FramesExactlyReachable == used = UNION {Tables(mem, root) : root \in Roots}

(* Two spaces have no table in common but the kernel's own (vme.c:117).      *)
TablesPrivate ==
  \A s, t \in live :
     s # t => Tables(mem, as_ptr[s]) \cap Tables(mem, as_ptr[t]) \subseteq Tables(mem, kpt)

(* Whatever table the processor walks, the kernel's addresses lead to        *)
(* themselves and user code may use none of them: an interrupt can be taken  *)
(* in every space (vme.c:120).                                               *)
KernelMappedEverywhere ==
  \A root \in Roots \cup {cr3}, va \in KernelVas :
     Reach(mem, root, va) = [to |-> PageNumber(va), u |-> FALSE]

(* The tables stay sound in every order of protect, map and unprotect: no    *)
(* frame is lost, none shared, and the kernel is mapped (vme.c:77-157).      *)
TablesSound ==
  PageTablesTypeOK /\ FramesExactlyReachable /\ TablesPrivate /\ KernelMappedEverywhere

(* The tables implement the promise of am.h: protect, unprotect, map and the *)
(* switch of a context act on the functions of AddressSpaces, and what the   *)
(* processor sees is the function of the loaded space.                       *)
Promise == INSTANCE AddressSpaces WITH
  maps <- [s \in Spaces |-> IF s \in live THEN UserView(mem, as_ptr[s]) ELSE [va \in Vas |-> NoPage]],
  loaded <- IF cr3 = kpt THEN Kernel ELSE CHOOSE s \in live : as_ptr[s] = cr3,
  seen <- UserView(mem, cr3)

(* And each call does what it is asked to, for the page it is asked about.   *)
EachCallAsPromised ==
  /\ \A s \in Spaces : /\ protect(s) => panic' \/ Promise!Protect(s)
                       /\ unprotect(s) => Promise!Unprotect(s)
  /\ \A s \in Spaces, va \in Vas :
       /\ \A pa \in Pages : MapPage(s, va, pa) => panic' \/ Promise!Map(s, va, pa)
       /\ UnmapPage(s, va) => panic' \/ Promise!Map(s, va, NoPage)
  /\ \A s \in live : set_cr3(as_ptr[s]) => Promise!Switch(s)

(* The tables implement the address spaces of am.h, call by call (vme.c).    *)
ImplementsAddressSpaces == Promise!Spec /\ [][EachCallAsPromised]_pageTableVars
=============================================================================
