----------------------------- MODULE QemuDevices -----------------------------
(* The drivers of the x86 platform of the abstract machine that talk to a    *)
(* device that moves on by itself (am/src/x86/qemu/ioe.c): the clock read    *)
(* register by register, the disk behind its busy flag, and the keyboard.    *)
(* The program makes one call at a time; a call begins with a device in the  *)
(* state it was left in.                                                     *)
EXTENDS Naturals, Sequences

CONSTANTS SecondsOfMinute, MinutesOfHour,
          Blocks,       \* blocks of the disk, 0 .. Blocks - 1
          Words,        \* words of a block
          KeyCodes,     \* scan codes of the keys there are
          KeyBit,       \* set in the code of a key that comes up
          KeyBound      \* movements of keys in one run of calls

ASSUME QemuDevicesAssumption ==
  /\ {SecondsOfMinute, MinutesOfHour, Blocks, Words} \subseteq Nat \ {0}
  /\ SecondsOfMinute > 1
  /\ KeyBit \in Nat \ {0} /\ KeyBound \in Nat /\ KeyCodes \subseteq 1 .. KeyBit - 1

VARIABLES io,       \* the call: its function, place and locals; NoIo without one
          clock,    \* the time, in seconds
          ata,      \* the disk: [busy, cmd, block, data]
          medium,   \* what its blocks hold
          wanted    \* what they were last told to hold

deviceVars == <<io, clock, ata, medium, wanted>>

NoIo == [fn |-> "none"]
DiskWord(version, block, k) == [version |-> version, block |-> block, k |-> k]
BlockOf(version, block) == [k \in 1 .. Words |-> DiskWord(version, block, k)]
AtaIdle == [busy |-> FALSE, cmd |-> "none", block |-> 0, data |-> <<>>]
Garbage == [x |-> "garbage"]

DevicesInit ==
  /\ io = NoIo /\ clock = 0
  /\ ata = AtaIdle
  /\ medium = [b \in 0 .. Blocks - 1 |-> BlockOf(0, b)]
  /\ wanted = medium

Finished == io' = [io EXCEPT !.at = "done"]
EndCall ==
  /\ io # NoIo /\ io.at = "done"
  /\ io' = NoIo /\ clock' = 0
  /\ UNCHANGED <<ata, medium, wanted>>
-----------------------------------------------------------------------------
(* The clock: its registers show the second, the minute and the rest (here   *)
(* the parity of the hour), one per access.                                  *)
Day == 2 * MinutesOfHour * SecondsOfMinute
Registers == 1 .. 3
Shown(reg) ==
  <<clock % SecondsOfMinute, (clock \div SecondsOfMinute) % MinutesOfHour,
    clock \div (SecondsOfMinute * MinutesOfHour)>>[reg]

(* How often the second may change in one pass over the registers: a read of *)
(* the clock takes less than a minute, a turn of wait_sec one second at most,*)
(* and the two changes wait_sec waits for are at most an hour apart.         *)
TickBound == IF io.fn = "timer_rtc" THEN SecondsOfMinute - 1 ELSE 1
HourBound == SecondsOfMinute * MinutesOfHour

CallClock(fn) ==
  /\ io = NoIo
  /\ io' = [fn |-> fn, at |-> IF fn = "timer_rtc" THEN "read" ELSE "t0", got |-> <<>>,
            ticks |-> 0, t0 |-> 0, t1 |-> Day, since |-> 0]
  /\ clock' \in 0 .. Day - 1
  /\ UNCHANGED <<ata, medium, wanted>>

OnClock(fn, place) == io # NoIo /\ io.fn = fn /\ io.at = place
ClockOnly == UNCHANGED <<clock, ata, medium, wanted>>

Tick ==
  /\ io # NoIo /\ io.fn \in {"timer_rtc", "estimate_freq"} /\ io.at # "done"
  /\ io.ticks < TickBound /\ io.since < HourBound
  /\ clock' = (clock + 1) % Day
  /\ io' = [io EXCEPT !.ticks = @ + 1, !.since = IF io.t1 = Day THEN 0 ELSE @ + 1]
  /\ UNCHANGED <<ata, medium, wanted>>

(* read_rtc of the next register, into the structure of the caller. *)
read_rtc == Append(io.got, Shown(Len(io.got) + 1))

(* timer_rtc: all registers, until the second is still the same afterwards.  *)
read_rtc_async ==
  /\ OnClock("timer_rtc", "read")
  /\ io' = [io EXCEPT !.got = read_rtc, !.at = IF Len(read_rtc) = 3 THEN "check" ELSE "read"]
  /\ ClockOnly

SameSecondAssumed == TRUE
SameSecond == Shown(1) = io.got[1]
timer_rtc ==
  /\ OnClock("timer_rtc", "check")
  /\ IF SameSecond THEN Finished
     ELSE io' = [io EXCEPT !.at = "read", !.got = <<>>, !.ticks = 0]
  /\ ClockOnly

(* wait_sec: t0, a delay, t1, until the second has changed in between. Only  *)
(* the second and the minute are looked at.                                  *)
wait_sec_t0 ==
  /\ OnClock("estimate_freq", "t0")
  /\ io' = [io EXCEPT !.t0 = Shown(1), !.at = "t1", !.got = <<>>, !.ticks = 0]
  /\ ClockOnly

wait_sec_t1 ==
  /\ OnClock("estimate_freq", "t1")
  /\ io' = [io EXCEPT !.got = read_rtc, !.at = IF Len(read_rtc) = 2 THEN "compare" ELSE "t1"]
  /\ ClockOnly

SecondOfHour == io.got[2] * SecondsOfMinute + io.got[1]
PassedAnHour == io.t1 >= SecondOfHour

(* estimate_freq: the times of two such changes; t1 = Day before the first.  *)
estimate_freq ==
  /\ OnClock("estimate_freq", "compare")
  /\ CASE io.got[1] = io.t0 -> io' = [io EXCEPT !.at = "t0"]
       [] io.got[1] # io.t0 /\ io.t1 = Day ->
            io' = [io EXCEPT !.at = "t0", !.t1 = SecondOfHour, !.since = 0]
       [] io.got[1] # io.t0 /\ io.t1 # Day ->
            IF PassedAnHour THEN io' = [io EXCEPT !.at = "t0", !.t1 = Day, !.since = 0] ELSE Finished
  /\ ClockOnly
-----------------------------------------------------------------------------
(* The disk. It takes a command when it is not busy, and is busy until it    *)
(* has a block to give or room to take one; behind the last word of a block  *)
(* it is busy again while it writes. What reaches it while busy is lost.     *)
AtaMoves ==
  /\ ata.busy
  /\ CASE ata.cmd = "read" -> ata' = [ata EXCEPT !.busy = FALSE, !.data = medium[ata.block]]
                              /\ UNCHANGED medium
       [] ata.cmd = "write" /\ ata.data = <<>> -> ata' = [ata EXCEPT !.busy = FALSE]
                                                  /\ UNCHANGED medium
       [] ata.cmd = "write" /\ ata.data # <<>> -> ata' = AtaIdle
                                  /\ medium' = [medium EXCEPT ![ata.block] = ata.data]
  /\ UNCHANGED <<io, clock, wanted>>

disk_blkio(blkno, blkcnt, cmd, version) ==
  /\ io = NoIo /\ blkno + blkcnt <= Blocks
  /\ io' = [fn |-> "disk_blkio", at |-> "wait", blkno |-> blkno, remain |-> blkcnt,
            cmd |-> cmd, version |-> version, buf |-> <<>>]
  /\ wanted' = [b \in DOMAIN wanted |-> IF cmd = "write" /\ b \in blkno .. blkno + blkcnt - 1
                                        THEN BlockOf(version, b) ELSE wanted[b]]
  /\ UNCHANGED <<clock, ata, medium>>

(* The boot loader's function for one sector. *)
read_disk(sect) == disk_blkio(sect, 1, "read", 0)

AtDisk(place) == io # NoIo /\ io.fn = "disk_blkio" /\ io.at = place

DiskReady == ~ata.busy
wait_disk ==
  /\ \/ AtDisk("wait") /\ io' = [io EXCEPT !.at = "command"]
     \/ AtDisk("wait for data") /\ io' = [io EXCEPT !.at = "data"]
  /\ DiskReady
  /\ UNCHANGED <<clock, ata, medium, wanted>>

(* The registers of the block and the command behind them. *)
Command ==
  /\ AtDisk("command")
  /\ ata' = IF ata.busy THEN ata
            ELSE [busy |-> TRUE, cmd |-> io.cmd, block |-> io.blkno, data |-> <<>>]
  /\ io' = [io EXCEPT !.at = "wait for data"]
  /\ UNCHANGED <<clock, medium, wanted>>

NextBlock ==
  [io EXCEPT !.buf = <<>>, !.blkno = @ + 1, !.remain = @ - 1,
             !.at = IF io.remain = 1 THEN "done" ELSE "wait"]

WriteWord ==
  LET word == DiskWord(io.version, io.blkno, Len(io.buf) + 1)
      data == Append(ata.data, word)
  IN  /\ AtDisk("data") /\ io.cmd = "write"
      /\ ata' = IF ata.busy THEN ata
                ELSE [ata EXCEPT !.data = data, !.busy = Len(data) = Words]
      /\ io' = IF Len(io.buf) + 1 = Words THEN NextBlock
               ELSE [io EXCEPT !.buf = Append(@, word)]
      /\ UNCHANGED <<clock, medium, wanted>>

(* A word read; here buf is what has been read of the block so far, and the  *)
(* call stops at a block that is not the one wanted.                         *)
ReadWord ==
  LET given == ~ata.busy /\ ata.data # <<>>
      buf == Append(io.buf, IF given THEN Head(ata.data) ELSE Garbage)
  IN  /\ AtDisk("data") /\ io.cmd = "read"
      /\ ata' = IF ~given THEN ata
                ELSE IF Len(ata.data) = 1 THEN AtaIdle ELSE [ata EXCEPT !.data = Tail(@)]
      /\ io' = CASE Len(buf) < Words -> [io EXCEPT !.buf = buf]
                 [] Len(buf) = Words /\ buf = wanted[io.blkno] -> NextBlock
                 [] Len(buf) = Words /\ buf # wanted[io.blkno] -> [io EXCEPT !.at = "wrong"]
      /\ UNCHANGED <<clock, medium, wanted>>
-----------------------------------------------------------------------------
(* The keyboard, which queues a code for each movement of a key, and the     *)
(* program that polls it again and again.                                    *)
AM_KEY_NONE == 0
keylut == [code \in 0 .. KeyBit - 1 |-> IF code \in KeyCodes THEN code ELSE AM_KEY_NONE]
AtKeyboard == io # NoIo /\ io.fn = "input_keybrd" /\ io.at = "poll"
KeyEvent(keydown, keycode) == [keydown |-> keydown, keycode |-> keycode]

CallKeyboard ==
  /\ io = NoIo
  /\ io' = [fn |-> "input_keybrd", at |-> "poll", codes |-> <<>>, down |-> {}, moves |-> <<>>, got |-> <<>>]
  /\ UNCHANGED <<clock, ata, medium, wanted>>

(* A key goes down, repeats while it is down, or comes up. *)
KeyMoves(k, down) ==
  /\ AtKeyboard /\ Len(io.moves) < KeyBound
  /\ down \/ k \in io.down
  /\ io' = [io EXCEPT !.codes = Append(@, IF down THEN k ELSE k + KeyBit),
                      !.down = IF down THEN @ \cup {k} ELSE @ \ {k},
                      !.moves = Append(@, KeyEvent(down, k))]
  /\ UNCHANGED <<clock, ata, medium, wanted>>

(* A code that is there is taken and split; nothing is reported otherwise.   *)
input_keybrd ==
  /\ AtKeyboard
  /\ io' = IF io.codes = <<>> THEN [io EXCEPT !.at = "done", !.got = Append(@, KeyEvent(FALSE, AM_KEY_NONE))]
           ELSE LET code == Head(io.codes)
                IN  [io EXCEPT !.codes = Tail(@),
                               !.got = Append(@, KeyEvent(code < KeyBit, keylut[code % KeyBit]))]
  /\ UNCHANGED <<clock, ata, medium, wanted>>
-----------------------------------------------------------------------------
DevicesNext ==
  \/ CallClock("timer_rtc") \/ CallClock("estimate_freq") \/ Tick
  \/ read_rtc_async \/ timer_rtc \/ wait_sec_t0 \/ wait_sec_t1 \/ estimate_freq
  \/ \E b, n \in 0 .. Blocks, v \in 1 .. 2 : n > 0 /\ disk_blkio(b, n, "write", v)
  \/ \E b, n \in 1 .. Blocks : disk_blkio(b, n, "read", 0)
  \/ \E b \in 0 .. Blocks - 1 : read_disk(b)
  \/ CallKeyboard \/ input_keybrd
  \/ \E k \in KeyCodes, down \in BOOLEAN : KeyMoves(k, down)
  \/ AtaMoves \/ wait_disk \/ Command \/ WriteWord \/ ReadWord
  \/ EndCall

DevicesSpec == DevicesInit /\ [][DevicesNext]_deviceVars
-----------------------------------------------------------------------------
Done(fn) == io # NoIo /\ io.fn = fn /\ io.at = "done"

(* The date a call of timer_rtc returns is one the clock showed as a whole,  *)
(* however the second, minute and hour change between the registers read,    *)
(* and the seconds the frequency is divided by are those that passed         *)
(* (ioe.c:90, ioe.c:71).                                                     *)
TimesTrue ==
  /\ Done("timer_rtc") => \A reg \in Registers : io.got[reg] = Shown(reg)
  /\ Done("estimate_freq") => SecondOfHour - io.t1 = io.since

(* Every word a call transfers is taken by the disk, or comes from the block *)
(* that was asked for, although the disk may still be writing the block of   *)
(* the call before (ioe.c:285, ioe.c:292).                                   *)
BlocksExact ==
  /\ io # NoIo => io.at # "wrong"
  /\ ~ata.busy /\ ~(io # NoIo /\ io.fn = "disk_blkio" /\ io.at # "done") => medium = wanted

(* The program sees every movement of a key once, in order, and no other;    *)
(* a key comes up only after it went down (ioe.c:139).                       *)
KeysTrue ==
  io # NoIo /\ io.fn = "input_keybrd" =>
    /\ \A n \in DOMAIN io.got :
         io.got[n] = IF n \in DOMAIN io.moves THEN io.moves[n] ELSE KeyEvent(FALSE, AM_KEY_NONE)
    /\ io.at = "done" => Len(io.got) = Len(io.moves) + 1

(* A call of a driver that has returned did what it is for, however the      *)
(* device moved meanwhile (ioe.c:48, ioe.c:277, ioe.c:137).                  *)
DevicesExact == TimesTrue /\ BlocksExact /\ KeysTrue
=============================================================================
