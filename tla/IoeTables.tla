----------------------------- MODULE IoeTables ------------------------------
(* The device registers of the abstract machine (am/include/amdev.h) and the *)
(* tables through which each platform serves them: x86 (x86/qemu/ioe.c),     *)
(* nemu (platform/nemu/ioe), npc (riscv/npc) and spike (riscv/spike). The    *)
(* client asks a device's CONFIG register whether it is there before it uses *)
(* its other registers.                                                      *)
EXTENDS TLC

(* The registers of amdev.h, device by device, and those a program reads.    *)
Regs ==
  [UART  |-> {"UART_TX", "UART_RX"},
   TIMER |-> {"TIMER_RTC", "TIMER_UPTIME"},
   INPUT |-> {"INPUT_KEYBRD"},
   GPU   |-> {"GPU_STATUS", "GPU_FBDRAW", "GPU_MEMCPY", "GPU_RENDER"},
   AUDIO |-> {"AUDIO_CTRL", "AUDIO_STATUS", "AUDIO_PLAY"},
   DISK  |-> {"DISK_STATUS", "DISK_BLKIO"},
   NET   |-> {"NET_STATUS", "NET_TX", "NET_RX"}]
Device == DOMAIN Regs
Read == {"UART_RX", "TIMER_RTC", "TIMER_UPTIME", "INPUT_KEYBRD", "GPU_STATUS",
         "AUDIO_STATUS", "DISK_STATUS", "NET_STATUS"}

(* A handler: one of a CONFIG register says what is there; another fills in  *)
(* the caller's structure, or takes what is in it, or does neither.          *)
Config(says) == [kind |-> "config", says |-> says]
Fills == [kind |-> "fills", says |-> {}]
Takes == [kind |-> "takes", says |-> {}]
Ignores == [kind |-> "ignores", says |-> {}]
fail == [kind |-> "panic", says |-> {}]
NullHandler == [kind |-> "null", says |-> {}]
Here == {"present"}

(* A device's CONFIG register goes by the name of the device. *)
Providing(config, served) == config @@ served
x86_lut ==
  Providing(
    "UART" :> Config(Here) @@ "TIMER" :> Config({"present", "has_rtc"}) @@
    "INPUT" :> Config(Here) @@ "GPU" :> Config(Here) @@ "AUDIO" :> Config({}) @@
    "DISK" :> Config(Here) @@ "NET" :> Config({}),
    "UART_TX" :> Takes @@ "UART_RX" :> Fills @@ "TIMER_RTC" :> Fills @@
    "TIMER_UPTIME" :> Fills @@ "INPUT_KEYBRD" :> Fills @@ "GPU_STATUS" :> Fills @@
    "GPU_FBDRAW" :> Takes @@ "GPU_MEMCPY" :> Takes @@ "GPU_RENDER" :> Takes @@
    "DISK_STATUS" :> Fills @@ "DISK_BLKIO" :> Takes)

nemu_gpu == "GPU" :> Config(Here) @@ "GPU_FBDRAW" :> Takes @@ "GPU_STATUS" :> Fills
nemu_audio == "AUDIO" :> Config({}) @@ "AUDIO_CTRL" :> Ignores @@
              "AUDIO_STATUS" :> Fills @@ "AUDIO_PLAY" :> Ignores
nemu_disk_present == "DISK" :> Config(Here) @@ "DISK_STATUS" :> Ignores @@ "DISK_BLKIO" :> Ignores
nemu_disk == "DISK" :> Config({}) @@ "DISK_STATUS" :> Ignores @@ "DISK_BLKIO" :> Ignores
nemu_timer == "TIMER_RTC" :> Fills @@ "TIMER_UPTIME" :> Fills
nemu_input == "INPUT_KEYBRD" :> Fills
nemu_lut ==
  Providing(
    "UART" :> Config({}) @@ "TIMER" :> Config({"present", "has_rtc"}) @@
    "INPUT" :> Config(Here) @@ "NET" :> Config({}),
    nemu_gpu @@ nemu_audio @@ nemu_disk @@ nemu_timer @@ nemu_input)

npc_timer == "TIMER_RTC" :> Fills @@ "TIMER_UPTIME" :> Fills
npc_lut ==
  Providing(
    "UART" :> Config({}) @@ "TIMER" :> Config({"present", "has_rtc"}) @@ "INPUT" :> Config(Here),
    npc_timer @@ "INPUT_KEYBRD" :> Fills)

spike_timer == "TIMER_RTC" :> Fills @@ "TIMER_UPTIME" :> Fills
spike_lut == Providing("TIMER" :> Config({"present", "has_rtc"}), spike_timer)

Static(platform) ==
  CASE platform = "x86"   -> x86_lut
    [] platform = "nemu"  -> nemu_lut
    [] platform = "npc"   -> npc_lut
    [] platform = "spike" -> spike_lut

Names == Device \cup UNION {Regs[d] : d \in Device}

VARIABLES platform,
          lut,     \* the table; NullHandler where nobody has written
          called,  \* the register of the last call, and what its handler did
          told     \* what the CONFIG registers read so far have said

ioeVars == <<platform, lut, called, told>>

Unknown == "unknown"
Called(reg, did) == [reg |-> reg, did |-> did]

IoeInit ==
  /\ platform \in {"x86", "nemu", "npc", "spike"}
  /\ lut = [reg \in Names |-> IF reg \in DOMAIN Static(platform)
                              THEN Static(platform)[reg] ELSE NullHandler]
  /\ called = Called("none", "nothing")
  /\ told = [d \in Device |-> {Unknown}]

(* ioe_init; x86 serves it on the bootstrap processor only.                  *)
Filled(reg) == IF lut[reg] = NullHandler THEN fail ELSE lut[reg]
ioe_init(bootstrap) ==
  /\ called.did = "nothing"
  /\ IF platform = "x86" /\ ~bootstrap
     THEN called' = Called("ioe_init", "panic") /\ UNCHANGED lut
     ELSE called' = Called("ioe_init", "init") /\ lut' = [reg \in Names |-> Filled(reg)]
  /\ UNCHANGED <<platform, told>>

Running == called.did \notin {"nothing", "panic", "null"}

ioe_read_config(d) ==
  /\ Running /\ told[d] = {Unknown}
  /\ called' = Called(d, lut[d].kind)
  /\ told' = IF lut[d].kind = "config" THEN [told EXCEPT ![d] = lut[d].says] ELSE told
  /\ UNCHANGED <<platform, lut>>

(* A register a program that has read the CONFIG may use. *)
Usable(reg) ==
  \E d \in Device :
    /\ reg \in Regs[d] /\ "present" \in told[d]
    /\ reg = "TIMER_RTC" => "has_rtc" \in told[d]
    /\ reg \in {"GPU_MEMCPY", "GPU_RENDER"} => "has_accel" \in told[d]

ioe_access(reg) ==
  /\ Running /\ Usable(reg)
  /\ called' = Called(reg, lut[reg].kind)
  /\ UNCHANGED <<platform, lut, told>>

IoeNext ==
  \/ \E bootstrap \in BOOLEAN : ioe_init(bootstrap)
  \/ \E d \in Device : ioe_read_config(d)
  \/ \E reg \in Names \ Device : ioe_access(reg)

IoeSpec == IoeInit /\ [][IoeNext]_ioeVars
-----------------------------------------------------------------------------
(* Whatever a platform says is present is served: no register of such a      *)
(* device panics, jumps through an empty entry or leaves what a program      *)
(* reads unwritten. A platform panics at a CONFIG it has no entry for, and   *)
(* in the ioe_init of another processor (ioe_init and lut of each ioe.c).    *)
PresentDevicesServed ==
  /\ called.did # "null"
  /\ called.did = "panic" => called.reg \in Device \cup {"ioe_init"}
  /\ called.reg \in Read => called.did = "fills"
=============================================================================
