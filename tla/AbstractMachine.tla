-------------------------- MODULE AbstractMachine ---------------------------
(***************************************************************************)
(* The services of the abstract machine a program calls, or is interrupted *)
(* by, on one processor: the libraries, the boot loader, the devices, the  *)
(* address spaces of the x86 and of the native platform, and the contexts  *)
(* of the native platform. They share no state, so a behaviour is one of   *)
(* any of them while the others rest, and the states checked are those of  *)
(* each, not their products.                                               *)
(***************************************************************************)
EXTENDS LibGcc, Klib, Loader, QemuDevices, QemuDisplay, IoeTables,
        PageTables, NativeVme, NativeTraps

VARIABLE service  \* the part that runs

(* The libraries: a program calls one function of theirs at a time. *)
libraryVars == <<vars, klibVars>>
LibraryInit == Init /\ KlibInit
LibraryNext ==
  \/ call = NoCall /\ Next /\ UNCHANGED klibVars
  \/ pc = "idle" /\ KlibNext /\ UNCHANGED vars

AbstractMachineInit ==
  /\ LibraryInit /\ LoaderInit /\ DevicesInit /\ DisplayInit /\ IoeInit
  /\ PageTablesInit /\ NativeVmeInit /\ NativeTrapsInit
  /\ service \in {"library", "loader", "devices", "display", "ioe", "tables",
                 "native vme", "native traps"}
  /\ service # "ioe" => platform = "x86"   \* one platform is enough

driverVars == <<loaderVars, deviceVars, displayVars, ioeVars>>
memoryVars == <<pageTableVars, nativeVmeVars, nativeTrapVars>>

LibraryCalled ==
  service = "library" /\ LibraryNext /\ UNCHANGED <<service, driverVars, memoryVars>>

DriversRun ==
  /\ \/ service = "loader" /\ LoaderNext /\ UNCHANGED <<deviceVars, displayVars, ioeVars>>
     \/ service = "devices" /\ DevicesNext /\ UNCHANGED <<loaderVars, displayVars, ioeVars>>
     \/ service = "display" /\ DisplayNext /\ UNCHANGED <<loaderVars, deviceVars, ioeVars>>
     \/ service = "ioe" /\ IoeNext /\ UNCHANGED <<loaderVars, deviceVars, displayVars>>
  /\ UNCHANGED <<service, libraryVars, memoryVars>>

MemoryRuns ==
  /\ \/ service = "tables" /\ PageTablesNext /\ UNCHANGED <<nativeVmeVars, nativeTrapVars>>
     \/ service = "native vme" /\ NativeVmeNext /\ UNCHANGED <<pageTableVars, nativeTrapVars>>
     \/ service = "native traps" /\ NativeTrapsNext /\ UNCHANGED <<pageTableVars, nativeVmeVars>>
  /\ UNCHANGED <<service, libraryVars, driverVars>>

AbstractMachineNext == LibraryCalled \/ DriversRun \/ MemoryRuns

AbstractMachineSpec ==
  AbstractMachineInit /\ [][AbstractMachineNext]_<<service, libraryVars, driverVars, memoryVars>>
=============================================================================
