----------------------------- MODULE GuestMemory -----------------------------
(* The guest's memory in the simulator: the image loaded into it             *)
(* (simulator/src/monitor/monitor.c), the functions the design calls         *)
(* (dpi/dpi.c, memory/memory.c), and the memory stage that loads and stores  *)
(* through them (IP/rv64/linux_cpu/core/memory.v). A program accesses its    *)
(* own memory and the serial port; fetches may run ahead of it. A word is    *)
(* the bytes it is made of, lowest first.                                    *)
EXTENDS Integers, Sequences

CONSTANTS Base,          \* values of a byte
          Wide,          \* bytes of the widest access
          CONFIG_MBASE, CONFIG_MSIZE, CONFIG_SERIAL_MMIO,
          img,           \* the built-in program, byte by byte
          Files,         \* images on disk; <<>> when none is named
          Values         \* the words a program stores

ASSUME GuestMemoryAssumption ==
  /\ {Base, Wide} \subseteq Nat \ {0, 1}
  /\ {CONFIG_MBASE, CONFIG_MSIZE} \subseteq Nat \ {0}
  /\ Values \subseteq [0 .. Wide - 1 -> 0 .. Base - 1]
  /\ \A f \in Files \cup {img} : f \in Seq(0 .. Base - 1) /\ Len(f) <= CONFIG_MSIZE

VARIABLES pmem,   \* bytes of the host from the array on; those behind it are not the guest's
          stored, \* what the image or the program put at each address, -1 for nothing
          access  \* the last access and what it returned

guestVars == <<pmem, stored, access>>

Byte == 0 .. Base - 1
Zero == [i \in 0 .. Wide - 1 |-> 0]
Cells == 0 .. CONFIG_MSIZE - 1
Guest == CONFIG_MBASE .. CONFIG_MBASE + CONFIG_MSIZE - 1
Within(addr, len) == {addr, addr + len - 1} \subseteq Guest
Lengths == {1, Wide \div 2, Wide}
NoAccess == [did |-> "init_mem"]

(* init_mem fills the array with one random byte. *)
init_mem ==
  \E filled, behind \in Byte :
    pmem = [c \in 0 .. CONFIG_MSIZE + Wide - 2 |-> IF c \in Cells THEN filled ELSE behind]
GuestInit ==
  /\ init_mem
  /\ stored = [a \in Guest |-> -1]
  /\ access = NoAccess

guest_to_host(paddr) == paddr - CONFIG_MBASE

(* The array through a pointer to an integer of len bytes. *)
host_read(at, len) == [i \in 0 .. Wide - 1 |-> IF i < len THEN pmem[at + i] ELSE 0]

host_write_all(at, len, data) ==
  [c \in DOMAIN pmem |-> IF c \in at .. at + Wide - 1 THEN data[c - at] ELSE pmem[c]]
host_write(at, len, data) ==
  [c \in DOMAIN pmem |-> IF c \in at .. at + len - 1 THEN data[c - at] ELSE pmem[c]]

pmem_read(addr, len) == host_read(guest_to_host(addr), len)
pmem_write(addr, len, data) == pmem' = host_write(guest_to_host(addr), len, data)

(* The built-in program first and the file over it, which may be shorter. *)
Over(bytes, content) == [c \in DOMAIN content |-> IF c + 1 \in DOMAIN bytes THEN bytes[c + 1] ELSE content[c]]
load_img(file) ==
  /\ access = NoAccess
  /\ pmem' = Over(file, Over(img, pmem))
  /\ stored' = [a \in Guest |-> Over(file, Over(img, [c \in Cells |-> -1]))[a - CONFIG_MBASE]]
  /\ access' = [did |-> "load_img"]

Loaded == access # NoAccess

(* A fetch is looked up by its first byte. *)
dpi_instr_mem_read(addr) ==
  /\ Loaded
  /\ access' = [did |-> "fetch", addr |-> addr,
                value |-> IF addr \in Guest THEN pmem_read(addr, Wide \div 2) ELSE Zero]
  /\ UNCHANGED <<pmem, stored>>

(* A load reads as many bytes as the widest does, and uses some of them.     *)
dpi_mem_read(addr) == IF addr = 0 THEN Zero ELSE pmem_read(addr, Wide)
memory_o_memdata(rdata, len, signed) ==
  LET extension == IF signed /\ 2 * rdata[len - 1] >= Base THEN Base - 1 ELSE 0
  IN  [i \in 0 .. Wide - 1 |-> IF i < len THEN rdata[i] ELSE extension]
Load(addr, len, signed) ==
  /\ Loaded /\ Within(addr, len)
  /\ access' = [did |-> "load", addr |-> addr, len |-> len, signed |-> signed,
                value |-> memory_o_memdata(dpi_mem_read(addr), len, signed)]
  /\ UNCHANGED <<pmem, stored>>

dpi_mem_write(addr, len, data) ==
  /\ Loaded /\ (Within(addr, len) \/ addr = CONFIG_SERIAL_MMIO)
  /\ IF addr = CONFIG_SERIAL_MMIO THEN UNCHANGED <<pmem, stored>>
     ELSE /\ pmem_write(addr, len, data)
          /\ stored' = [a \in Guest |-> IF a \in addr .. addr + len - 1
                                        THEN data[a - addr] ELSE stored[a]]
  /\ access' = [did |-> "store"]

GuestNext ==
  \/ \E f \in Files : load_img(f)
  \/ \E a \in CONFIG_MBASE - 1 .. CONFIG_MBASE + CONFIG_MSIZE : dpi_instr_mem_read(a)
  \/ \E a \in Guest, len \in Lengths, signed \in BOOLEAN : Load(a, len, signed)
  \/ \E a \in Guest \cup {CONFIG_SERIAL_MMIO}, len \in Lengths, data \in Values :
       dpi_mem_write(a, len, data)

GuestSpec == GuestInit /\ [][GuestNext]_guestVars
-----------------------------------------------------------------------------
(* Byte by byte a load returns what was last put there, by stores of other   *)
(* widths at other addresses or by the image, extended by its sign or by     *)
(* zeros, although it always reads as far as the widest load and so beyond   *)
(* the array at the end of memory; a fetch inside memory returns what lies   *)
(* there, one outside returns zero (memory.v:34, memory.c:19, dpi.c:13).     *)
Agrees(a, byte) == a \in Guest /\ stored[a] # -1 => byte = stored[a]
GuestMemoryExact ==
  /\ access.did = "load" =>
       LET negative == access.signed /\ 2 * access.value[access.len - 1] >= Base
       IN  \A i \in 0 .. Wide - 1 :
             IF i < access.len THEN Agrees(access.addr + i, access.value[i])
             ELSE access.value[i] = IF negative THEN Base - 1 ELSE 0
  /\ access.did = "fetch" =>
       IF access.addr \in Guest
       THEN \A i \in 0 .. Wide \div 2 - 1 : Agrees(access.addr + i, access.value[i])
       ELSE access.value = Zero
=============================================================================
