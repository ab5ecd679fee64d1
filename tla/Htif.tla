-------------------------------- MODULE Htif --------------------------------
(* The host-target interface of the spike platform                           *)
(* (am/src/riscv/spike/htif.c, atomic.h): harts that share the console and   *)
(* the system calls of the host under a spin lock, through one mailbox in    *)
(* each direction, which both sides poll.                                    *)
EXTENDS Integers, Sequences, SequencesExt, Functions

CONSTANTS Harts,
          MaxCalls,  \* calls the harts make, at most, all together
          MaxKeys    \* keys typed, at most

VARIABLES at,       \* of each hart the place it is at
          call,     \* the function it has called
          back,     \* where its __check_fromhost returns to
          fh,       \* the message it has read
          calls,    \* how often it has called
          htif_lock, tohost, fromhost, htif_console_buf,
          spike,     \* what the host does: [reads, answers, typed, unread, on]
          screen,   \* the characters it has shown
          put,      \* the characters of putchar's calls, as they got the lock
          got,      \* the keys getchar returned, in the order of the lock
          confused    \* an assertion of __check_fromhost, or a foreign answer

hartVars == <<at, call, back, fh, calls, put, got, confused>>
mailVars == <<htif_lock, tohost, fromhost, htif_console_buf>>
htifVars == <<at, call, back, fh, calls, put, got, confused,
              htif_lock, tohost, fromhost, htif_console_buf, spike, screen>>

(* A message: device, command and data, which names the hart of a system     *)
(* call, the call of a character, or a key.                                  *)
Message(dev, cmd, data) == [dev |-> dev, cmd |-> cmd, data |-> data]
Empty == Message(0, 0, <<>>)
Exit == Message(0, 0, <<"exit">>)

HtifInit ==
  /\ at = [h \in Harts |-> "idle"] /\ call = at /\ back = at
  /\ fh = [h \in Harts |-> Empty]
  /\ calls = [h \in Harts |-> 0]
  /\ htif_lock = 0 /\ tohost = Empty /\ fromhost = Empty
  /\ htif_console_buf = 0
  /\ spike = [reads |-> 0, answers |-> <<>>, typed |-> 0, unread |-> <<>>, on |-> TRUE]
  /\ screen = <<>> /\ put = <<>> /\ got = <<>>
  /\ confused = FALSE

HGoto(h, place) == at' = [at EXCEPT ![h] = place]

Begin(h, function) ==
  /\ at[h] = "idle" /\ SumFunction(calls) < MaxCalls
  /\ calls' = [calls EXCEPT ![h] = @ + 1]
  /\ call' = [call EXCEPT ![h] = function]
  /\ HGoto(h, "spin")
  /\ UNCHANGED <<back, fh, put, got, confused, mailVars, spike, screen>>

(* spinlock_lock: read until it is free, then swap. *)
spinlock_read(h) ==
  /\ at[h] = "spin" /\ htif_lock = 0
  /\ HGoto(h, "trylock")
  /\ UNCHANGED <<call, back, fh, calls, put, got, confused, mailVars, spike, screen>>

spinlock_trylock(h) ==
  /\ at[h] = "trylock"
  /\ htif_lock' = -1
  /\ IF htif_lock # 0 THEN HGoto(h, "spin") /\ UNCHANGED <<back, put>>
     ELSE /\ HGoto(h, IF call[h] = "getchar" THEN "check" ELSE "set_tohost")
          /\ back' = [back EXCEPT ![h] = "getchar"]
          /\ put' = IF call[h] = "putchar" THEN Append(put, <<h, calls[h]>>) ELSE put
  /\ UNCHANGED <<call, fh, calls, got, confused, tohost, fromhost, htif_console_buf, spike, screen>>

spinlock_unlock(h) ==
  /\ at[h] = "unlock"
  /\ htif_lock' = 0
  /\ HGoto(h, "idle")
  /\ call' = [call EXCEPT ![h] = "idle"]
  /\ UNCHANGED <<back, fh, calls, put, got, confused, tohost, fromhost, htif_console_buf, spike, screen>>

(* __check_fromhost: the message read, cleared, and taken if it is a key.    *)
__check_fromhost(h) ==
  /\ at[h] = "check"
  /\ fh' = [fh EXCEPT ![h] = fromhost]
  /\ HGoto(h, IF fromhost = Empty THEN back[h] ELSE "take")
  /\ UNCHANGED <<call, back, calls, put, got, confused, mailVars, spike, screen>>

TakenAndKept == fromhost
Taken == Empty
TakeFromhost(h) ==
  /\ at[h] = "take"
  /\ fromhost' = Taken
  /\ confused' = (confused \/ fh[h].dev # 1 \/ fh[h].cmd \notin {0, 1})
  /\ htif_console_buf' = IF fh[h].dev = 1 /\ fh[h].cmd = 0 THEN 1 + fh[h].data[1] ELSE htif_console_buf
  /\ HGoto(h, back[h])
  /\ UNCHANGED <<call, back, fh, calls, put, got, htif_lock, tohost, spike, screen>>

Sent(h) ==
  CASE call[h] = "getchar" -> Message(1, 0, <<>>)
    [] call[h] = "putchar" -> Message(1, 1, <<h, calls[h]>>)
    [] call[h] = "syscall" -> Message(0, 0, <<h>>)

(* __set_tohost: while the host has not taken the message before, what comes *)
(* from it is taken.                                                         *)
TohostFree == tohost = Empty
__set_tohost(h) ==
  /\ at[h] = "set_tohost"
  /\ IF TohostFree
     THEN /\ tohost' = Sent(h)
          /\ HGoto(h, IF call[h] = "syscall" THEN "await" ELSE "unlock")
          /\ UNCHANGED back
     ELSE /\ HGoto(h, "check")
          /\ back' = [back EXCEPT ![h] = "set_tohost"]
          /\ UNCHANGED tohost
  /\ UNCHANGED <<call, fh, calls, put, got, confused, htif_lock, fromhost, htif_console_buf, spike, screen>>

(* htif_console_getchar, behind its first check: the key in the buffer is    *)
(* taken, and with it, or in the first call, the next one asked for.         *)
htif_console_getchar(h) ==
  LET ch == htif_console_buf
  IN  /\ at[h] = "getchar"
      /\ got' = IF ch > 0 THEN Append(got, ch - 1) ELSE got
      /\ htif_console_buf' = IF ch >= 0 THEN -1 ELSE ch
      /\ HGoto(h, IF ch >= 0 THEN "set_tohost" ELSE "unlock")
      /\ UNCHANGED <<call, back, fh, calls, put, confused, htif_lock, tohost, fromhost, spike, screen>>

(* do_tohost_fromhost waits for its answer, and takes keys meanwhile. *)
AwaitOnlyMine(h) == "await"
AwaitOther(h) == "check"
do_tohost_fromhost(h) ==
  /\ at[h] = "await" /\ fromhost # Empty
  /\ IF fromhost.dev = 0 /\ fromhost.cmd = 0
     THEN /\ fromhost' = Empty
          /\ confused' = (confused \/ fromhost.data # <<h>>)
          /\ HGoto(h, "unlock")
          /\ UNCHANGED back
     ELSE /\ HGoto(h, AwaitOther(h))
          /\ back' = [back EXCEPT ![h] = "await"]
          /\ UNCHANGED <<fromhost, confused>>
  /\ UNCHANGED <<call, fh, calls, put, got, htif_lock, tohost, htif_console_buf, spike, screen>>

(* htif_poweroff asks for the lock no more, and asks the host for ever. *)
CallPoweroff(h) ==
  /\ at[h] = "idle"
  /\ HGoto(h, "poweroff")
  /\ call' = [call EXCEPT ![h] = "poweroff"]
  /\ UNCHANGED <<back, fh, calls, put, got, confused, mailVars, spike, screen>>

htif_poweroff(h) ==
  /\ at[h] = "poweroff"
  /\ fromhost' = Empty /\ tohost' = Exit
  /\ UNCHANGED <<hartVars, htif_lock, htif_console_buf, spike, screen>>

HartStep(h) ==
  \/ spinlock_read(h) \/ spinlock_trylock(h) \/ spinlock_unlock(h)
  \/ __check_fromhost(h) \/ TakeFromhost(h) \/ __set_tohost(h)
  \/ htif_console_getchar(h) \/ do_tohost_fromhost(h) \/ htif_poweroff(h)
-----------------------------------------------------------------------------
(* The host takes a message out of tohost; a key that was asked for and an   *)
(* answer are put into fromhost when it is empty.                            *)
HostTakes ==
  /\ tohost # Empty
  /\ tohost' = Empty
  /\ screen' = IF tohost.dev = 1 /\ tohost.cmd = 1 THEN Append(screen, tohost.data) ELSE screen
  /\ spike' = CASE tohost = Exit -> [spike EXCEPT !.on = FALSE]
               [] tohost # Exit /\ tohost.dev = 0 -> [spike EXCEPT !.answers = Append(@, tohost)]
               [] tohost.dev = 1 /\ tohost.cmd = 0 -> [spike EXCEPT !.reads = @ + 1]
               [] tohost.dev = 1 /\ tohost.cmd = 1 -> spike
  /\ UNCHANGED <<hartVars, htif_lock, fromhost, htif_console_buf>>

HostGivesKey ==
  /\ spike.reads > 0 /\ spike.unread # <<>>
  /\ spike' = [spike EXCEPT !.reads = @ - 1, !.unread = Tail(@),
                          !.answers = Append(@, Message(1, 0, <<Head(spike.unread)>>))]
  /\ UNCHANGED <<hartVars, mailVars, screen>>

HostAnswers ==
  /\ spike.answers # <<>> /\ fromhost = Empty
  /\ fromhost' = Head(spike.answers)
  /\ spike' = [spike EXCEPT !.answers = Tail(@)]
  /\ UNCHANGED <<hartVars, htif_lock, tohost, htif_console_buf, screen>>

Type ==
  /\ spike.typed < MaxKeys
  /\ spike' = [spike EXCEPT !.typed = @ + 1, !.unread = Append(@, spike.typed + 1)]
  /\ UNCHANGED <<hartVars, mailVars, screen>>

Host == HostTakes \/ HostGivesKey \/ HostAnswers

HtifNext ==
  /\ spike.on
  /\ \/ \E h \in Harts : HartStep(h) \/ CallPoweroff(h)
     \/ \E h \in Harts, f \in {"getchar", "putchar", "syscall"} : Begin(h, f)
     \/ Host \/ Type

(* Harts run on and the host polls. *)
HtifFairness ==
  /\ \A h \in Harts : WF_htifVars(spike.on /\ HartStep(h))
  /\ WF_htifVars(spike.on /\ HostTakes) /\ WF_htifVars(spike.on /\ HostGivesKey)
  /\ WF_htifVars(spike.on /\ HostAnswers)

HtifSpec == HtifInit /\ [][HtifNext]_htifVars /\ HtifFairness
-----------------------------------------------------------------------------
Stopping == \E h \in Harts : call[h] = "poweroff"

(* A hart that holds the lock and has its message to send still.             *)
Sending(h) == at[h] = "set_tohost" \/ (at[h] \in {"check", "take"} /\ back[h] = "set_tohost")
Unsent == \E h \in Harts : call[h] = "putchar" /\ Sending(h)

(* The key among messages of which at most one brings a key.                 *)
KeyIn(messages) ==
  IF \E m \in messages : m.dev = 1 THEN (CHOOSE m \in messages : m.dev = 1).data ELSE <<>>
KeyInBuffer == IF htif_console_buf > 0 THEN <<htif_console_buf - 1>> ELSE <<>>

(* Characters reach the screen in the order of the calls that put them, all  *)
(* of them but the one that is being sent, keys are returned once each and   *)
(* in the order they were typed, at most one on its way behind those unread, *)
(* and no message is mistaken for another's answer, however the harts and    *)
(* the host interleave, until a hart powers off (htif.c:19, htif.c:53).      *)
HtifExact ==
  ~Stopping =>
    /\ ~confused
    /\ screen \o (IF tohost.dev = 1 /\ tohost.cmd = 1 THEN <<tohost.data>> ELSE <<>>)
         = IF Unsent THEN Front(put) ELSE put
    /\ got \o KeyInBuffer \o KeyIn({fromhost}) \o KeyIn(Range(spike.answers)) \o spike.unread
         = [n \in 1 .. spike.typed |-> n]

(* Every call returns: no hart waits for good for the lock, for a mailbox    *)
(* that only it could empty, or for an answer behind a key it does not take; *)
(* and a machine that is told to power off does (htif.c:70, htif.c:107).     *)
CallsReturn == \A h \in Harts : call[h] # "idle" ~> call[h] = "idle" \/ ~spike.on
=============================================================================
