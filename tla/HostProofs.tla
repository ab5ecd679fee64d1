----------------------------- MODULE HostProofs -----------------------------
(***************************************************************************)
(* Proofs about what a host does for its guests. The spike platform        *)
(* (Htif): however many harts share the console and the host's system      *)
(* calls, and however they interleave with the host, no character, key or  *)
(* answer is lost, doubled or mistaken. The simulator (GuestMemory): a     *)
(* load returns what was put into memory, for bytes, words, memories and   *)
(* images of any size.                                                     *)
(***************************************************************************)
EXTENDS Htif, GuestMemory, SequenceTheorems, TLAPS

-----------------------------------------------------------------------------
(* Harts and their host (Htif).                                              *)

\* The messages: what harts ask for and what the host answers.
Read == Message(1, 0, <<>>)
Shows == {Message(1, 1, c) : c \in Harts \X Nat}
SysCalls == {Message(0, 0, <<h>>) : h \in Harts}
Keys == {Message(1, 0, <<k>>) : k \in Nat}
Answers == SysCalls \cup Keys
Requests == SysCalls \cup Shows \cup {Read}

\* The places at which a hart holds the lock, and the others.
Inside == {"set_tohost", "check", "take", "getchar", "await", "unlock"}
Outside == {"idle", "spin", "trylock", "poweroff"}

HartTypes ==
  /\ at \in [Harts -> Inside \cup Outside]
  /\ call \in [Harts -> {"idle", "getchar", "putchar", "syscall", "poweroff"}]
  /\ back \in [Harts -> {"idle", "getchar", "set_tohost", "await"}]
  /\ calls \in [Harts -> Nat]
  /\ fh \in [Harts -> Answers \cup {Empty}]
  /\ put \in Seq(Harts \X Nat) /\ got \in Seq(Nat)
MailTypes ==
  /\ htif_lock \in {0, -1}
  /\ tohost \in Requests \cup {Empty, Exit}
  /\ fromhost \in Answers \cup {Empty}
  /\ htif_console_buf = -1 \/ htif_console_buf \in Nat
HostTypes ==
  /\ spike \in [reads : Nat, answers : Seq(Answers), typed : Nat, unread : Seq(Nat), on : BOOLEAN]
  /\ screen \in Seq(Harts \X Nat)

\* Whoever is inside is alone there, and the lock is taken.
Locked ==
  /\ \A h, g \in Harts : at[h] \in Inside /\ at[g] \in Inside => h = g
  /\ htif_lock = 0 => \A h \in Harts : at[h] \notin Inside

\* What a hart has called, and where a check returns to, at each place.
Placed(h) ==
  /\ at[h] = "poweroff" <=> call[h] = "poweroff"
  /\ at[h] = "idle" <=> call[h] = "idle"
  /\ at[h] = "getchar" => call[h] = "getchar"
  /\ at[h] = "await" => call[h] = "syscall"
  /\ at[h] \in {"check", "take"} =>
       \/ call[h] = "getchar" /\ back[h] \in {"getchar", "set_tohost"}
       \/ call[h] = "putchar" /\ back[h] = "set_tohost"
       \/ call[h] = "syscall" /\ back[h] \in {"set_tohost", "await"}
HartsPlaced == \A h \in Harts : Placed(h)

\* A hart that has sent its system call and waits for the answer, and one
\* that has the next key to ask for.
Waiting(h) == at[h] = "await" \/ (at[h] \in {"check", "take"} /\ back[h] = "await")
Asking == \E h \in Harts : call[h] = "getchar" /\ Sending(h)

\* A hart takes the message it has read, which is no answer to another one.
Reading ==
  /\ ~confused
  /\ \A h \in Harts :
       /\ at[h] = "take" => fh[h] = fromhost /\ fromhost # Empty
       /\ at[h] \in {"check", "take"} /\ back[h] = "await" => fromhost \in Keys

\* One system call is on its way at most, that of a hart that waits.
Awaited(m) == \E h \in Harts : m = Message(0, 0, <<h>>) /\ Waiting(h)
AnswerIs(w) ==
  /\ tohost \in SysCalls => w = "tohost" /\ Awaited(tohost)
  /\ \A n \in DOMAIN spike.answers :
       spike.answers[n] \in SysCalls => w = "answers" /\ Awaited(spike.answers[n])
  /\ \A m, n \in DOMAIN spike.answers :
       spike.answers[m] \in SysCalls /\ spike.answers[n] \in SysCalls => m = n
  /\ fromhost \in SysCalls => w = "fromhost" /\ Awaited(fromhost)
OneAnswer == \E w \in {"tohost", "answers", "fromhost"} : AnswerIs(w)

\* One key is asked for or on its way at most, and none while one is buffered.
KeyIs(w) ==
  /\ Asking => w = "asking"
  /\ tohost = Read => w = "tohost"
  /\ spike.reads # 0 => w = "reads" /\ spike.reads = 1
  /\ \A n \in DOMAIN spike.answers : spike.answers[n] \in Keys => w = "answers"
  /\ \A m, n \in DOMAIN spike.answers :
       spike.answers[m] \in Keys /\ spike.answers[n] \in Keys => m = n
  /\ fromhost \in Keys => w = "fromhost"
  /\ w # "nowhere" => htif_console_buf = -1
OneKey == \E w \in {"nowhere", "asking", "tohost", "reads", "answers", "fromhost"} : KeyIs(w)

\* The screen, and the character on its way to it.
Showing == IF tohost.dev = 1 /\ tohost.cmd = 1 THEN <<tohost.data>> ELSE <<>>
Shown ==
  /\ \A h \in Harts : call[h] = "putchar" /\ Sending(h) =>
       put # <<>> /\ Last(put) = <<h, calls[h]>>
  /\ screen \o Showing = IF Unsent THEN Front(put) ELSE put
InOrder ==
  got \o KeyInBuffer \o KeyIn({fromhost}) \o KeyIn(Range(spike.answers)) \o spike.unread
    = [n \in 1 .. spike.typed |-> n]

Console == Reading /\ OneAnswer /\ OneKey /\ Shown /\ InOrder
HtifInv ==
  /\ HartTypes /\ MailTypes /\ HostTypes /\ Locked /\ HartsPlaced
  /\ ~Stopping => Console
-----------------------------------------------------------------------------
\* What tells the messages apart.
LEMMA MessageFacts ==
  /\ \A m \in SysCalls : m.dev = 0 /\ m.cmd = 0 /\ m # Empty
  /\ \A m \in Keys : m.dev = 1 /\ m.cmd = 0 /\ m # Empty /\ (\E k \in Nat : m.data = <<k>>)
  /\ \A m \in Shows : m.dev = 1 /\ m.cmd = 1 /\ m.data \in Harts \X Nat
  /\ Read.dev = 1 /\ Read.cmd = 0
  /\ Empty.dev = 0 /\ Empty.cmd = 0 /\ Exit.dev = 0 /\ Exit # Empty
<1>1. \A m \in SysCalls : m.dev = 0 /\ m.cmd = 0 /\ m # Empty
  <2> SUFFICES ASSUME NEW h \in Harts
               PROVE  LET m == Message(0, 0, <<h>>) IN m.dev = 0 /\ m.cmd = 0 /\ m # Empty
    BY DEF SysCalls
  <2>1. <<h>> # <<>>
    OBVIOUS
  <2>2. QED  BY <2>1 DEF Message, Empty
<1>2. \A m \in Keys : m.dev = 1 /\ m.cmd = 0 /\ m # Empty /\ (\E k \in Nat : m.data = <<k>>)
  BY DEF Keys, Message, Empty
<1>3. \A m \in Shows : m.dev = 1 /\ m.cmd = 1 /\ m.data \in Harts \X Nat
  BY DEF Shows, Message
<1>4. Read.dev = 1 /\ Read.cmd = 0 /\ Empty.dev = 0 /\ Empty.cmd = 0 /\ Exit.dev = 0
  BY DEF Read, Empty, Exit, Message
<1>5. Exit # Empty
  <2>1. <<"exit">> # <<>>
    OBVIOUS
  <2>2. QED  BY <2>1 DEF Message, Empty, Exit
<1>6. QED  BY <1>1, <1>2, <1>3, <1>4, <1>5

\* No key among messages that bring none, and the one there is.
LEMMA NoKeyIn == ASSUME NEW M, \A m \in M : m.dev # 1  PROVE KeyIn(M) = <<>>
  BY DEF KeyIn
LEMMA TheKeyIn ==
  ASSUME NEW M, NEW k \in M, k.dev = 1, \A m \in M : m.dev = 1 => m = k
  PROVE  KeyIn(M) = k.data
<1>1. (CHOOSE m \in M : m.dev = 1) = k
  OBVIOUS
<1>2. QED  BY <1>1 DEF KeyIn

\* The key of the mailbox, and that of the host's queue.
LEMMA KeyOfFromhost ==
  ASSUME MailTypes
  PROVE  /\ fromhost \in Keys => KeyIn({fromhost}) = fromhost.data
         /\ fromhost \notin Keys => KeyIn({fromhost}) = <<>>
<1>1. fromhost \notin Keys => fromhost.dev # 1
  BY MessageFacts DEF MailTypes, Answers
<1>2. fromhost \in Keys => fromhost.dev = 1
  BY MessageFacts
<1>3. CASE fromhost \in Keys
  <2>1. fromhost \in {fromhost} /\ \A m \in {fromhost} : m.dev = 1 => m = fromhost
    OBVIOUS
  <2>2. KeyIn({fromhost}) = fromhost.data
    BY <1>2, <1>3, <2>1, TheKeyIn
  <2>3. QED  BY <1>3, <2>2
<1>4. CASE fromhost \notin Keys
  <2>1. \A m \in {fromhost} : m.dev # 1
    BY <1>1, <1>4
  <2>2. KeyIn({fromhost}) = <<>>
    BY <2>1, NoKeyIn
  <2>3. QED  BY <1>4, <2>2
<1>5. QED  BY <1>3, <1>4

LEMMA KeyOfAnswers ==
  ASSUME NEW q \in Seq(Answers)
  PROVE  /\ (\A n \in DOMAIN q : q[n] \notin Keys) => KeyIn(Range(q)) = <<>>
         /\ \A n \in DOMAIN q :
              q[n] \in Keys /\ (\A m \in DOMAIN q : q[m] \in Keys => m = n)
                => KeyIn(Range(q)) = q[n].data
<1>1. \A n \in DOMAIN q : q[n] \in Range(q) /\ q[n] \in Answers
  BY DEF Range
<1>2. \A m \in Range(q) : \E n \in DOMAIN q : m = q[n]
  BY DEF Range
<1>3. \A n \in DOMAIN q : q[n] \in Keys <=> q[n].dev = 1
  BY <1>1, MessageFacts DEF Answers
<1>4. ASSUME \A n \in DOMAIN q : q[n] \notin Keys  PROVE KeyIn(Range(q)) = <<>>
  <2>1. \A m \in Range(q) : m.dev # 1
    BY <1>2, <1>3, <1>4
  <2>2. QED  BY <2>1, NoKeyIn
<1>5. ASSUME NEW n \in DOMAIN q, q[n] \in Keys, \A m \in DOMAIN q : q[m] \in Keys => m = n
      PROVE  KeyIn(Range(q)) = q[n].data
  <2>1. \A m \in Range(q) : m.dev = 1 => m = q[n]
    BY <1>2, <1>3, <1>5
  <2>2. q[n] \in Range(q) /\ q[n].dev = 1
    BY <1>1, <1>3, <1>5
  <2>3. QED  BY <2>1, <2>2, TheKeyIn
<1>6. QED  BY <1>4, <1>5
-----------------------------------------------------------------------------
\* A key moves from one place of the line to the next, and the line stays.
LEMMA KeyMoves ==
  ASSUME NEW g \in Seq(Nat), NEW u \in Seq(Nat), NEW k \in Nat
  PROVE  /\ g \o <<>> \o <<>> \o <<k>> \o u = g \o <<>> \o <<k>> \o <<>> \o u
         /\ g \o <<>> \o <<k>> \o <<>> \o u = g \o <<k>> \o <<>> \o <<>> \o u
         /\ g \o <<k>> \o <<>> \o <<>> \o u = Append(g, k) \o <<>> \o <<>> \o <<>> \o u
<1>1. <<k>> \in Seq(Nat) /\ Append(g, k) \in Seq(Nat) /\ Append(g, k) = g \o <<k>>
  BY AppendIsConcat
<1>2. g \o <<>> = g /\ (g \o <<k>>) \o <<>> = g \o <<k>>
  <2>1. g \o <<k>> \in Seq(Nat)
    BY <1>1
  <2>2. QED  BY <2>1, ConcatEmptySeq
<1>3. QED  BY <1>1, <1>2

\* Three sequences of numbers after each other.
LEMMA Regroup ==
  ASSUME NEW s \in Seq(Nat), NEW t \in Seq(Nat), NEW u \in Seq(Nat)
  PROVE  (s \o t) \o u = s \o (t \o u)
<1>1. /\ s \o t \in Seq(Nat) /\ Len(s \o t) = Len(s) + Len(t)
      /\ t \o u \in Seq(Nat) /\ Len(t \o u) = Len(t) + Len(u)
  OBVIOUS
<1>2. (s \o t) \o u \in Seq(Nat) /\ s \o (t \o u) \in Seq(Nat)
  BY <1>1
<1>3. Len((s \o t) \o u) = Len(s \o (t \o u))
  BY <1>1
<1>4. ASSUME NEW i \in 1 .. Len((s \o t) \o u)  PROVE ((s \o t) \o u)[i] = (s \o (t \o u))[i]
  BY <1>1
<1>5. QED  BY <1>2, <1>3, <1>4, SeqEqual

\* The first unread key is the one that is given.
LEMMA KeyGiven ==
  ASSUME NEW g \in Seq(Nat), NEW u \in Seq(Nat), u # <<>>
  PROVE  g \o <<>> \o <<>> \o <<>> \o u = g \o <<>> \o <<>> \o <<Head(u)>> \o Tail(u)
<1>1. Head(u) \in Nat /\ Tail(u) \in Seq(Nat) /\ <<Head(u)>> \in Seq(Nat)
  BY HeadTailProperties
<1>2. <<Head(u)>> \o Tail(u) = u
  <2>1. /\ Len(<<Head(u)>> \o Tail(u)) = Len(u)
        /\ \A i \in 1 .. Len(u) : (<<Head(u)>> \o Tail(u))[i] = u[i]
    BY <1>1, HeadTailProperties
  <2>2. <<Head(u)>> \o Tail(u) \in Seq(Nat)
    BY <1>1
  <2>3. QED  BY <2>1, <2>2, SeqEqual
<1>3. g \o <<>> = g
  BY ConcatEmptySeq
<1>4. (g \o <<Head(u)>>) \o Tail(u) = g \o u
  <2>1. (g \o <<Head(u)>>) \o Tail(u) = g \o (<<Head(u)>> \o Tail(u))
    BY <1>1, Regroup
  <2>2. QED  BY <1>2, <2>1
<1>5. QED  BY <1>3, <1>4

\* The first n keys of the keyboard.
FirstKeys(n) == [i \in 1 .. n |-> i]

\* A key typed comes behind all others.
LEMMA KeyTyped ==
  ASSUME NEW s \in Seq(Nat), NEW u \in Seq(Nat), NEW n \in Nat, s \o u = FirstKeys(n)
  PROVE  s \o Append(u, n + 1) = FirstKeys(n + 1)
<1>0. s \o u = [i \in 1 .. n |-> i]
  BY DEF FirstKeys
<1>1. [i \in 1 .. n |-> i] \in Seq(Nat) /\ [i \in 1 .. n + 1 |-> i] \in Seq(Nat)
  OBVIOUS
<1>2. Append(s \o u, n + 1) = [i \in 1 .. n + 1 |-> i]
  BY <1>0
<1>3. n + 1 \in Nat /\ <<n + 1>> \in Seq(Nat)
  OBVIOUS
<1>4. s \o Append(u, n + 1) = Append(s \o u, n + 1)
  <2>1. s \o (u \o <<n + 1>>) = (s \o u) \o <<n + 1>>
    BY <1>3, Regroup
  <2>2. Append(u, n + 1) = u \o <<n + 1>> /\ Append(s \o u, n + 1) = (s \o u) \o <<n + 1>>
    <3>1. s \o u \in Seq(Nat)
      BY ConcatProperties
    <3>2. QED  BY <1>3, <3>1, AppendIsConcat
  <2>3. QED  BY <2>1, <2>2
<1>5. QED  BY <1>2, <1>4 DEF FirstKeys
-----------------------------------------------------------------------------
\* A step of one hart leaves the others where they are.
Others(h) ==
  \A g \in Harts \ {h} : /\ at'[g] = at[g] /\ call'[g] = call[g] /\ back'[g] = back[g]
                         /\ fh'[g] = fh[g] /\ calls'[g] = calls[g]

\* A hart that powers off goes on doing so.
LEMMA StopsForGood ==
  ASSUME HartsPlaced, NEW h \in Harts, Others(h), at[h] # "poweroff", ~Stopping'
  PROVE  ~Stopping
<1> SUFFICES ASSUME NEW g \in Harts, call[g] = "poweroff"  PROVE FALSE
  BY DEF Stopping
<1>1. at[g] = "poweroff"
  BY DEF HartsPlaced, Placed
<1>2. call'[g] = "poweroff"
  BY <1>1 DEF Others
<1>3. QED  BY <1>2 DEF Stopping

\* Nobody enters but through the lock, and who leaves was the only one.
LEMMA LockKept ==
  ASSUME Locked, NEW h \in Harts, Others(h),
         at'[h] \in Inside => at[h] \in Inside \/ htif_lock = 0,
         htif_lock' = 0 => at'[h] \notin Inside /\ (at[h] \in Inside \/ htif_lock = 0)
  PROVE  Locked'
<1>1. ASSUME NEW f \in Harts, NEW g \in Harts, at'[f] \in Inside, at'[g] \in Inside  PROVE f = g
  <2>1. CASE f # h /\ g # h
    BY <1>1, <2>1 DEF Others, Locked
  <2>2. CASE f = h /\ g # h
    BY <1>1, <2>2 DEF Others, Locked
  <2>3. CASE f # h /\ g = h
    BY <1>1, <2>3 DEF Others, Locked
  <2>4. QED  BY <2>1, <2>2, <2>3
<1>2. ASSUME NEW g \in Harts, htif_lock' = 0  PROVE at'[g] \notin Inside
  <2>1. CASE g = h
    BY <1>2, <2>1
  <2>2. CASE g # h
    BY <1>2, <2>2 DEF Others, Locked
  <2>3. QED  BY <2>1, <2>2
<1>3. QED  BY <1>1, <1>2 DEF Locked

\* The others stay where their calls lead.
LEMMA PlacedKept ==
  ASSUME HartsPlaced, NEW h \in Harts, Others(h), Placed(h)'
  PROVE  HartsPlaced'
<1> SUFFICES ASSUME NEW g \in Harts, g # h  PROVE Placed(g)'
  BY DEF HartsPlaced
<1>1. Placed(g) /\ at'[g] = at[g] /\ call'[g] = call[g] /\ back'[g] = back[g]
  BY DEF HartsPlaced, Others
<1>2. QED  BY <1>1 DEF Placed

\* Only who is inside reads the mailbox.
LEMMA ReadingKept ==
  ASSUME Locked, Reading, NEW h \in Harts, Others(h),
         at[h] \in Inside \/ fromhost' = fromhost,
         ~confused',
         at'[h] = "take" => fh'[h] = fromhost' /\ fromhost' # Empty,
         at'[h] \in {"check", "take"} /\ back'[h] = "await" => fromhost' \in Keys
  PROVE  Reading'
<1>1. ASSUME NEW g \in Harts, g # h
      PROVE  /\ at'[g] = "take" => fh'[g] = fromhost' /\ fromhost' # Empty
             /\ at'[g] \in {"check", "take"} /\ back'[g] = "await" => fromhost' \in Keys
  <2>1. at'[g] = at[g] /\ back'[g] = back[g] /\ fh'[g] = fh[g]
    BY <1>1 DEF Others
  <2>2. CASE fromhost' = fromhost
    BY <2>1, <2>2 DEF Reading
  <2>3. CASE at[h] \in Inside
    <3>1. at[g] \notin Inside
      BY <1>1, <2>3 DEF Locked
    <3>2. QED  BY <2>1, <3>1 DEF Inside
  <2>4. QED  BY <2>2, <2>3
<1>2. \A x : x \in Keys => (x \in Keys)'
  BY DEF Keys, Message
<1>3. QED  BY <1>1, <1>2 DEF Reading, Keys, Empty, Message

\* A system call stays awaited while nothing is sent and nobody gives up.
LEMMA AnswerKept ==
  ASSUME OneAnswer, spike'.answers = spike.answers,
         tohost' \in SysCalls => tohost' = tohost,
         fromhost' \in SysCalls => fromhost' = fromhost,
         \A g \in Harts : Waiting(g) => Waiting(g)'
  PROVE  OneAnswer'
<1>1. PICK w \in {"tohost", "answers", "fromhost"} : AnswerIs(w)
  BY DEF OneAnswer
<1>2. \A m : Awaited(m) => Awaited(m)'
  BY DEF Awaited, Message
<1>3. AnswerIs(w)'
  BY <1>1, <1>2 DEF AnswerIs, SysCalls, Message
<1>4. QED  BY <1>3 DEF OneAnswer

\* The key stays in its place while nobody asks for one.
LEMMA KeyKept ==
  ASSUME OneKey, spike'.answers = spike.answers, spike'.reads = spike.reads,
         tohost' = Read => tohost = Read, fromhost' \in Keys => fromhost \in Keys,
         Asking' => Asking, htif_console_buf' = htif_console_buf
  PROVE  OneKey'
<1>1. PICK w \in {"nowhere", "asking", "tohost", "reads", "answers", "fromhost"} : KeyIs(w)
  BY DEF OneKey
<1>2. KeyIs(w)'
  BY <1>1 DEF KeyIs, Keys, Read, Message
<1>3. QED  BY <1>2 DEF OneKey

\* Nobody asks but who did.
LEMMA AskingKept ==
  ASSUME NEW h \in Harts, Others(h),
         call'[h] = "getchar" /\ Sending(h)' => call[h] = "getchar" /\ Sending(h), Asking'
  PROVE  Asking
<1>1. PICK g \in Harts : call'[g] = "getchar" /\ Sending(g)'
  BY DEF Asking
<1>2. CASE g = h
  BY <1>1, <1>2 DEF Asking
<1>3. CASE g # h
  BY <1>1, <1>3 DEF Asking, Others, Sending
<1>4. QED  BY <1>2, <1>3

\* Nobody gives up waiting.
LEMMA WaitingKept ==
  ASSUME NEW h \in Harts, Others(h), Waiting(h) => Waiting(h)'
  PROVE  \A g \in Harts : Waiting(g) => Waiting(g)'
  BY DEF Others, Waiting

\* The character of a hart that is sending stays the last.
LEMMA ShownKept ==
  ASSUME Shown, NEW h \in Harts, Others(h), put' = put, screen' = screen, Showing' = Showing,
         (call'[h] = "putchar" /\ Sending(h)') <=> (call[h] = "putchar" /\ Sending(h)),
         call[h] = "putchar" /\ Sending(h) => calls'[h] = calls[h]
  PROVE  Shown'
<1>1. ASSUME NEW g \in Harts
      PROVE  /\ (call'[g] = "putchar" /\ Sending(g)') <=> (call[g] = "putchar" /\ Sending(g))
             /\ call[g] = "putchar" /\ Sending(g) => calls'[g] = calls[g]
  <2>1. CASE g = h
    BY <2>1
  <2>2. CASE g # h
    BY <2>2 DEF Others, Sending
  <2>3. QED  BY <2>1, <2>2
<1>2. Unsent' <=> Unsent
  BY <1>1 DEF Unsent
<1>3. QED  BY <1>1, <1>2 DEF Shown

\* The line of keys is as it was.
LEMMA OrderKept ==
  ASSUME InOrder, got' = got, htif_console_buf' = htif_console_buf,
         KeyIn({fromhost})' = KeyIn({fromhost}), spike'.answers = spike.answers,
         spike'.unread = spike.unread, spike'.typed = spike.typed
  PROVE  InOrder'
<1>1. KeyInBuffer' = KeyInBuffer
  BY DEF KeyInBuffer
<1>2. KeyIn(Range(spike.answers))' = KeyIn(Range(spike.answers))
  BY DEF KeyIn, Range
<1>3. QED  BY <1>1, <1>2 DEF InOrder

\* A step of a hart that sends, takes and waits for nothing.
LEMMA ConsoleKept ==
  ASSUME Locked, Console, NEW h \in Harts, Others(h),
         UNCHANGED <<tohost, fromhost, htif_console_buf, spike, screen, put, got, confused>>,
         at'[h] = "take" => fh'[h] = fromhost /\ fromhost # Empty,
         at'[h] \in {"check", "take"} /\ back'[h] = "await" => fromhost \in Keys,
         Waiting(h) => Waiting(h)',
         call'[h] = "getchar" /\ Sending(h)' => call[h] = "getchar" /\ Sending(h),
         (call'[h] = "putchar" /\ Sending(h)') <=> (call[h] = "putchar" /\ Sending(h)),
         call[h] = "putchar" /\ Sending(h) => calls'[h] = calls[h]
  PROVE  Console'
<1>1. Reading'
  BY ReadingKept DEF Console, Reading
<1>2. OneAnswer'
  BY AnswerKept, WaitingKept DEF Console
<1>3. OneKey'
  BY KeyKept, AskingKept DEF Console
<1>4. Shown'
  BY ShownKept DEF Console, Showing
<1>5. InOrder'
  <2>1. KeyIn({fromhost})' = KeyIn({fromhost})
    BY DEF KeyIn
  <2>2. QED  BY <2>1, OrderKept DEF Console
<1>6. QED  BY <1>1, <1>2, <1>3, <1>4, <1>5 DEF Console
-----------------------------------------------------------------------------
\* The types when nothing but a hart's place has changed in the mailboxes.
LEMMA MailKept ==
  ASSUME MailTypes, HostTypes, UNCHANGED <<tohost, fromhost, htif_console_buf, spike, screen>>,
         htif_lock' \in {0, -1}
  PROVE  MailTypes' /\ HostTypes'
  BY DEF MailTypes, HostTypes, Requests, Answers, SysCalls, Shows, Keys, Read, Empty, Exit, Message

\* What a step of a hart starts from.
LEMMA HartFacts ==
  ASSUME HtifInv, NEW h \in Harts
  PROVE  /\ HartTypes /\ MailTypes /\ HostTypes /\ Locked /\ HartsPlaced /\ Placed(h)
         /\ ~Stopping => Console
  BY DEF HtifInv, HartsPlaced

\* A call begins outside.
LEMMA BeginKeeps ==
  ASSUME HtifInv, NEW h \in Harts, NEW f \in {"getchar", "putchar", "syscall"}, Begin(h, f)
  PROVE  HtifInv'
<1>1. /\ HartTypes /\ MailTypes /\ HostTypes /\ Locked /\ HartsPlaced /\ Placed(h)
      /\ ~Stopping => Console
  BY HartFacts
<1>2. /\ at[h] = "idle" /\ at' = [at EXCEPT ![h] = "spin"] /\ call' = [call EXCEPT ![h] = f]
      /\ calls' = [calls EXCEPT ![h] = @ + 1] /\ back' = back /\ fh' = fh
      /\ UNCHANGED <<tohost, fromhost, htif_console_buf, spike, screen, put, got, confused>>
      /\ htif_lock' = htif_lock
  BY DEF Begin, HGoto, mailVars
<1>3. at'[h] = "spin" /\ call'[h] = f /\ Others(h)
  BY <1>1, <1>2 DEF HartTypes, Others
<1>4. HartTypes' /\ MailTypes' /\ HostTypes'
  <2>1. HartTypes'
    BY <1>1, <1>2 DEF HartTypes, Outside
  <2>2. htif_lock' \in {0, -1}
    BY <1>1, <1>2 DEF MailTypes
  <2>3. QED  BY <1>1, <1>2, <2>1, <2>2, MailKept
<1>5. Locked'
  <2>1. at'[h] \notin Inside
    BY <1>3 DEF Inside
  <2>2. htif_lock' = htif_lock
    BY <1>2
  <2>3. QED  BY <1>1, <1>3, <2>1, <2>2, LockKept
<1>6. HartsPlaced'
  <2>1. Placed(h)'
    BY <1>3 DEF Placed
  <2>2. QED  BY <1>1, <1>3, <2>1, PlacedKept
<1>7. ASSUME ~Stopping'  PROVE Console'
  <2>1. Console
    BY <1>1, <1>2, <1>3, <1>7, StopsForGood
  <2>2. ~Waiting(h) /\ ~Sending(h) /\ ~Sending(h)'
    BY <1>2, <1>3 DEF Waiting, Sending
  <2>3. QED  BY <1>1, <1>2, <1>3, <2>1, <2>2, ConsoleKept
<1>8. QED  BY <1>4, <1>5, <1>6, <1>7 DEF HtifInv

\* Nothing is entered by reading the lock.
LEMMA ReadKeeps ==
  ASSUME HtifInv, NEW h \in Harts, spinlock_read(h)
  PROVE  HtifInv'
<1>1. /\ HartTypes /\ MailTypes /\ HostTypes /\ Locked /\ HartsPlaced /\ Placed(h)
      /\ ~Stopping => Console
  BY HartFacts
<1>2. /\ at[h] = "spin" /\ at' = [at EXCEPT ![h] = "trylock"] /\ UNCHANGED <<call, back, fh, calls>>
      /\ UNCHANGED <<tohost, fromhost, htif_console_buf, spike, screen, put, got, confused>>
      /\ htif_lock' = htif_lock
  BY DEF spinlock_read, HGoto, mailVars
<1>3. at'[h] = "trylock" /\ call'[h] = call[h] /\ Others(h)
  BY <1>1, <1>2 DEF HartTypes, Others
<1>4. HartTypes' /\ MailTypes' /\ HostTypes'
  <2>1. HartTypes'
    BY <1>1, <1>2 DEF HartTypes, Outside
  <2>2. htif_lock' \in {0, -1}
    BY <1>1, <1>2 DEF MailTypes
  <2>3. QED  BY <1>1, <1>2, <2>1, <2>2, MailKept
<1>5. Locked'
  <2>1. at'[h] \notin Inside
    BY <1>3 DEF Inside
  <2>2. htif_lock' = htif_lock
    BY <1>2
  <2>3. QED  BY <1>1, <1>3, <2>1, <2>2, LockKept
<1>6. HartsPlaced'
  <2>1. Placed(h)'
    BY <1>1, <1>2, <1>3 DEF Placed
  <2>2. QED  BY <1>1, <1>3, <2>1, PlacedKept
<1>7. ASSUME ~Stopping'  PROVE Console'
  <2>1. Console
    BY <1>1, <1>2, <1>3, <1>7, StopsForGood
  <2>2. ~Waiting(h) /\ ~Sending(h) /\ ~Sending(h)'
    BY <1>2, <1>3 DEF Waiting, Sending
  <2>3. QED  BY <1>1, <1>2, <1>3, <2>1, <2>2, ConsoleKept
<1>8. QED  BY <1>4, <1>5, <1>6, <1>7 DEF HtifInv

\* Who has had its call leaves.
LEMMA UnlockKeeps ==
  ASSUME HtifInv, NEW h \in Harts, spinlock_unlock(h)
  PROVE  HtifInv'
<1>1. /\ HartTypes /\ MailTypes /\ HostTypes /\ Locked /\ HartsPlaced /\ Placed(h)
      /\ ~Stopping => Console
  BY HartFacts
<1>2. /\ at[h] = "unlock" /\ at' = [at EXCEPT ![h] = "idle"]
      /\ call' = [call EXCEPT ![h] = "idle"] /\ UNCHANGED <<back, fh, calls>>
      /\ UNCHANGED <<tohost, fromhost, htif_console_buf, spike, screen, put, got, confused>>
      /\ htif_lock' = 0
  BY DEF spinlock_unlock, HGoto
<1>3. at'[h] = "idle" /\ call'[h] = "idle" /\ Others(h)
  BY <1>1, <1>2 DEF HartTypes, Others
<1>4. HartTypes' /\ MailTypes' /\ HostTypes'
  <2>1. HartTypes'
    BY <1>1, <1>2 DEF HartTypes, Outside
  <2>2. QED  BY <1>1, <1>2, <2>1, MailKept
<1>5. Locked'
  <2>1. at'[h] \notin Inside /\ at[h] \in Inside
    BY <1>2, <1>3 DEF Inside
  <2>2. QED  BY <1>1, <1>3, <2>1, LockKept
<1>6. HartsPlaced'
  <2>1. Placed(h)'
    BY <1>3 DEF Placed
  <2>2. QED  BY <1>1, <1>3, <2>1, PlacedKept
<1>7. ASSUME ~Stopping'  PROVE Console'
  <2>1. Console
    BY <1>1, <1>2, <1>3, <1>7, StopsForGood
  <2>2. ~Waiting(h) /\ ~Sending(h) /\ ~Sending(h)'
    BY <1>2, <1>3 DEF Waiting, Sending
  <2>3. QED  BY <1>1, <1>2, <1>3, <2>1, <2>2, ConsoleKept
<1>8. QED  BY <1>4, <1>5, <1>6, <1>7 DEF HtifInv

\* A message that is read is that of the mailbox still when it is taken.
LEMMA CheckKeeps ==
  ASSUME HtifInv, NEW h \in Harts, __check_fromhost(h)
  PROVE  HtifInv'
<1>1. /\ HartTypes /\ MailTypes /\ HostTypes /\ Locked /\ HartsPlaced /\ Placed(h)
      /\ ~Stopping => Console
  BY HartFacts
<1> DEFINE place == IF fromhost = Empty THEN back[h] ELSE "take"
<1>2. /\ at[h] = "check" /\ at' = [at EXCEPT ![h] = place]
      /\ fh' = [fh EXCEPT ![h] = fromhost] /\ UNCHANGED <<call, back, calls>>
      /\ UNCHANGED <<tohost, fromhost, htif_console_buf, spike, screen, put, got, confused>>
      /\ htif_lock' = htif_lock
  BY DEF __check_fromhost, HGoto, mailVars
<1>3. /\ at'[h] = place /\ call'[h] = call[h] /\ back'[h] = back[h] /\ calls'[h] = calls[h]
      /\ fh'[h] = fromhost /\ Others(h)
  BY <1>1, <1>2 DEF HartTypes, Others
<1>4. /\ back[h] \in {"getchar", "set_tohost", "await"}
      /\ back[h] = "getchar" => call[h] = "getchar"
      /\ back[h] = "await" => call[h] = "syscall"
      /\ call[h] \in {"getchar", "putchar", "syscall"}
  BY <1>1, <1>2 DEF Placed
<1>5. place \in {"getchar", "set_tohost", "await", "take"} /\ (place # "take" => place = back[h])
  BY <1>4
<1> HIDE DEF place
<1>6. HartTypes' /\ MailTypes' /\ HostTypes'
  <2>1. HartTypes'
    BY <1>1, <1>2, <1>5 DEF HartTypes, MailTypes, Inside
  <2>2. htif_lock' \in {0, -1}
    BY <1>1, <1>2 DEF MailTypes
  <2>3. QED  BY <1>1, <1>2, <2>1, <2>2, MailKept
<1>7. Locked'
  <2>1. at[h] \in Inside /\ htif_lock' = htif_lock
    BY <1>2 DEF Inside
  <2>2. htif_lock # 0
    BY <1>1, <2>1 DEF Locked
  <2>3. QED  BY <1>1, <1>3, <2>1, <2>2, LockKept
<1>8. HartsPlaced'
  <2>1. Placed(h)'
    BY <1>1, <1>2, <1>3, <1>4, <1>5 DEF Placed
  <2>2. QED  BY <1>1, <1>3, <2>1, PlacedKept
<1>9. ASSUME ~Stopping'  PROVE Console'
  <2>1. Console
    BY <1>1, <1>2, <1>3, <1>9, StopsForGood
  <2>2. (Waiting(h)' <=> Waiting(h)) /\ (Sending(h)' <=> Sending(h))
    BY <1>2, <1>3, <1>5 DEF Waiting, Sending
  <2>3. back[h] = "await" => fromhost \in Keys
    BY <1>2, <2>1 DEF Console, Reading
  <2>4. at'[h] = "take" => fromhost # Empty
    BY <1>3, <1>4 DEF place
  <2>5. QED  BY <1>1, <1>2, <1>3, <2>1, <2>2, <2>3, <2>4, ConsoleKept
<1>10. QED  BY <1>6, <1>7, <1>8, <1>9 DEF HtifInv

\* Who finds the lock taken reads it again; who finds it free is alone, and
\* its character is the next and the last one put.
LEMMA TrylockKeeps ==
  ASSUME HtifInv, NEW h \in Harts, spinlock_trylock(h)
  PROVE  HtifInv'
<1>1. /\ HartTypes /\ MailTypes /\ HostTypes /\ Locked /\ HartsPlaced /\ Placed(h)
      /\ ~Stopping => Console
  BY HartFacts
<1>2. /\ at[h] = "trylock" /\ htif_lock' = -1 /\ UNCHANGED <<call, fh, calls>>
      /\ UNCHANGED <<tohost, fromhost, htif_console_buf, spike, screen, got, confused>>
  BY DEF spinlock_trylock
<1>3. call[h] \notin {"idle", "poweroff"} /\ call[h] \in {"getchar", "putchar", "syscall"}
  BY <1>1, <1>2 DEF Placed, HartTypes
<1>4. MailTypes' /\ HostTypes'
  BY <1>1, <1>2, MailKept
<1>5. CASE htif_lock # 0
  <2>1. at' = [at EXCEPT ![h] = "spin"] /\ back' = back /\ put' = put
    BY <1>5 DEF spinlock_trylock, HGoto
  <2>2. at'[h] = "spin" /\ Others(h)
    BY <1>1, <1>2, <2>1 DEF HartTypes, Others
  <2>3. HartTypes'
    BY <1>1, <1>2, <2>1 DEF HartTypes, Outside
  <2>4. Locked'
    <3>1. at'[h] \notin Inside
      BY <2>2 DEF Inside
    <3>2. QED  BY <1>1, <1>2, <2>2, <3>1, LockKept
  <2>5. HartsPlaced'
    <3>1. Placed(h)'
      BY <1>2, <1>3, <2>2 DEF Placed
    <3>2. QED  BY <1>1, <2>2, <3>1, PlacedKept
  <2>6. ASSUME ~Stopping'  PROVE Console'
    <3>1. Console
      BY <1>1, <1>2, <2>2, <2>6, StopsForGood
    <3>2. ~Waiting(h) /\ ~Sending(h) /\ ~Sending(h)'
      BY <1>2, <2>2 DEF Waiting, Sending
    <3>3. QED  BY <1>1, <1>2, <2>1, <2>2, <3>1, <3>2, ConsoleKept
  <2>7. QED  BY <1>4, <2>3, <2>4, <2>5, <2>6 DEF HtifInv
<1>6. CASE htif_lock = 0
  <2> DEFINE place == IF call[h] = "getchar" THEN "check" ELSE "set_tohost"
  <2>1. /\ at' = [at EXCEPT ![h] = place] /\ back' = [back EXCEPT ![h] = "getchar"]
        /\ put' = IF call[h] = "putchar" THEN Append(put, <<h, calls[h]>>) ELSE put
    BY <1>6 DEF spinlock_trylock, HGoto
  <2>2. at'[h] = place /\ back'[h] = "getchar" /\ Others(h)
    BY <1>1, <1>2, <2>1 DEF HartTypes, Others
  <2>3. <<h, calls[h]>> \in Harts \X Nat
    BY <1>1 DEF HartTypes
  <2>4. HartTypes'
    BY <1>1, <1>2, <2>1, <2>3 DEF HartTypes, Inside
  <2>5. Locked'
    BY <1>1, <1>2, <1>6, <2>2, LockKept
  <2>6. HartsPlaced'
    <3>1. Placed(h)'
      BY <1>2, <1>3, <2>2 DEF Placed
    <3>2. QED  BY <1>1, <2>2, <3>1, PlacedKept
  <2>7. ASSUME ~Stopping'  PROVE Console'
    <3>1. Console
      BY <1>1, <1>2, <2>2, <2>7, StopsForGood
    <3>2. ~Waiting(h) /\ ~Sending(h)
      BY <1>2 DEF Waiting, Sending
    <3>3. call[h] = "getchar" => ~Sending(h)'
      BY <2>2 DEF Sending
    <3>4. CASE call[h] # "putchar"
      <4>1. put' = put /\ (at'[h] \in {"check", "take"} => back'[h] # "await") /\ at'[h] # "take"
        BY <2>1, <2>2, <3>4
      <4>2. QED  BY <1>1, <1>2, <2>2, <3>1, <3>2, <3>3, <3>4, <4>1, ConsoleKept
    <3>5. CASE call[h] = "putchar"
      <4>1. at'[h] = "set_tohost" /\ put' = Append(put, <<h, calls[h]>>) /\ call'[h] = "putchar"
        BY <1>2, <2>1, <2>2, <3>5
      <4>2. Reading'
        BY <1>1, <1>2, <2>2, <3>1, <4>1, ReadingKept DEF Console, Reading
      <4>3. OneAnswer'
        BY <1>2, <2>2, <3>1, <3>2, AnswerKept, WaitingKept DEF Console
      <4>4. OneKey'
        BY <1>2, <2>2, <3>1, <4>1, KeyKept, AskingKept DEF Console
      <4>5. InOrder'
        <5>1. KeyIn({fromhost})' = KeyIn({fromhost})
          BY <1>2 DEF KeyIn
        <5>2. QED  BY <1>2, <3>1, <5>1, OrderKept DEF Console
      <4>6. \A g \in Harts : ~Sending(g)
        BY <1>1, <1>6 DEF Locked, Sending, Inside
      <4>7. screen' \o Showing' = put
        BY <1>2, <3>1, <4>6 DEF Console, Shown, Unsent, Showing
      <4>8. Sending(h)' /\ \A g \in Harts \ {h} : ~Sending(g)'
        BY <2>2, <4>1, <4>6 DEF Sending, Others
      <4>9. put' # <<>> /\ Last(put') = <<h, calls[h]>> /\ Front(put') = put
        <5>1. put \in Seq(Harts \X Nat)
          BY <1>1 DEF HartTypes
        <5>2. Len(put') = Len(put) + 1 /\ put'[Len(put) + 1] = <<h, calls[h]>> /\ put' # <<>>
          BY <2>3, <4>1, <5>1, AppendProperties
        <5>3. SubSeq(put', 1, Len(put)) = put
          BY <2>3, <4>1, <5>1
        <5>4. QED  BY <5>1, <5>2, <5>3 DEF Last, Front
      <4>10. Shown'
        <5>1. Unsent'
          BY <4>1, <4>8 DEF Unsent
        <5>2. \A g \in Harts : call'[g] = "putchar" /\ Sending(g)' =>
                put' # <<>> /\ Last(put') = <<g, calls'[g]>>
          BY <1>2, <4>8, <4>9
        <5>3. screen' \o Showing' = Front(put')
          BY <4>7, <4>9
        <5>4. QED  BY <5>1, <5>2, <5>3 DEF Shown, Last, Front
      <4>11. QED  BY <4>2, <4>3, <4>4, <4>5, <4>10 DEF Console
    <3>6. QED  BY <3>4, <3>5
  <2>8. QED  BY <1>4, <2>4, <2>5, <2>6, <2>7 DEF HtifInv
<1>7. QED  BY <1>5, <1>6

\* What is taken out of the mailbox by a check is the key that was asked for.
LEMMA TakeKeeps ==
  ASSUME HtifInv, NEW h \in Harts, TakeFromhost(h)
  PROVE  HtifInv'
<1>1. /\ HartTypes /\ MailTypes /\ HostTypes /\ Locked /\ HartsPlaced /\ Placed(h)
      /\ ~Stopping => Console
  BY HartFacts
<1>2. /\ at[h] = "take" /\ at' = [at EXCEPT ![h] = back[h]] /\ fromhost' = Empty
      /\ UNCHANGED <<call, back, fh, calls, put, got, htif_lock, tohost, spike, screen>>
      /\ confused' = (confused \/ fh[h].dev # 1 \/ fh[h].cmd \notin {0, 1})
      /\ htif_console_buf' =
           IF fh[h].dev = 1 /\ fh[h].cmd = 0 THEN 1 + fh[h].data[1] ELSE htif_console_buf
  BY DEF TakeFromhost, HGoto, Taken
<1>3. /\ at'[h] = back[h] /\ call'[h] = call[h] /\ back'[h] = back[h] /\ calls'[h] = calls[h]
      /\ fh'[h] = fh[h] /\ Others(h)
  BY <1>1, <1>2 DEF HartTypes, Others
<1>4. /\ back[h] \in {"getchar", "set_tohost", "await"}
      /\ back[h] = "getchar" => call[h] = "getchar"
      /\ back[h] = "await" => call[h] = "syscall"
      /\ call[h] \in {"getchar", "putchar", "syscall"}
  BY <1>1, <1>2 DEF Placed
<1>5. HartTypes'
  BY <1>1, <1>2, <1>4 DEF HartTypes, Inside
<1>6. Locked'
  <2>1. at[h] \in Inside
    BY <1>2 DEF Inside
  <2>2. htif_lock # 0 /\ htif_lock' = htif_lock
    BY <1>1, <1>2, <2>1 DEF Locked
  <2>3. QED  BY <1>1, <1>3, <2>1, <2>2, LockKept
<1>7. HartsPlaced'
  <2>1. Placed(h)'
    BY <1>3, <1>4 DEF Placed
  <2>2. QED  BY <1>1, <1>3, <2>1, PlacedKept
<1>8. HostTypes'
  BY <1>1, <1>2 DEF HostTypes, Answers, SysCalls, Keys, Message
<1>9. MailTypes'
  <2>1. fh[h] \in Answers \cup {Empty}
    BY <1>1 DEF HartTypes
  <2>2. fh[h].dev = 1 => fh[h] \in Keys
    BY <2>1, MessageFacts DEF Answers
  <2>3. fh[h] \in Keys => fh[h].data[1] \in Nat
    <3> SUFFICES ASSUME fh[h] \in Keys  PROVE fh[h].data[1] \in Nat
      OBVIOUS
    <3>1. PICK k \in Nat : fh[h].data = <<k>>
      BY MessageFacts
    <3>2. QED  BY <3>1
  <2>4. htif_console_buf' = -1 \/ htif_console_buf' \in Nat
    BY <1>1, <1>2, <2>2, <2>3 DEF MailTypes
  <2>5. QED  BY <1>1, <1>2, <2>4 DEF MailTypes, Requests, Answers, SysCalls, Shows, Keys, Read,
                                     Empty, Exit, Message
<1>10. ASSUME ~Stopping'  PROVE Console'
  <2>1. Console
    BY <1>1, <1>2, <1>3, <1>10, StopsForGood
  <2>2. (Waiting(h)' <=> Waiting(h)) /\ (Sending(h)' <=> Sending(h))
    BY <1>2, <1>3, <1>4 DEF Waiting, Sending
  <2>3. fh[h] = fromhost /\ fromhost # Empty
    BY <1>2, <2>1 DEF Console, Reading
  <2>4. fromhost \in Keys
    <3> SUFFICES ASSUME fromhost \in SysCalls  PROVE FALSE
      BY <1>1, <2>3 DEF MailTypes, Answers
    <3>1. Awaited(fromhost)
      BY <2>1 DEF Console, OneAnswer, AnswerIs
    <3>2. PICK g \in Harts : Waiting(g)
      BY <3>1 DEF Awaited
    <3>3. at[g] \in Inside /\ at[h] \in Inside
      BY <1>2, <3>2 DEF Waiting, Inside
    <3>4. g = h
      BY <1>1, <3>3 DEF Locked
    <3>5. fromhost \in Keys
      BY <1>2, <2>1, <3>2, <3>4 DEF Waiting, Console, Reading
    <3>6. QED  BY <3>5, MessageFacts
  <2>5. PICK k \in Nat : fromhost.data = <<k>>
    BY <2>4, MessageFacts
  <2>6. ~confused' /\ htif_console_buf' = 1 + k
    <3>1. fh[h].dev = 1 /\ fh[h].cmd = 0 /\ fh[h].data = <<k>>
      BY <2>3, <2>4, <2>5, MessageFacts
    <3>2. ~confused
      BY <2>1 DEF Console, Reading
    <3>3. <<k>>[1] = k
      OBVIOUS
    <3>4. htif_console_buf' = 1 + k
      BY <1>2, <3>1, <3>3
    <3>5. ~confused'
      BY <1>2, <3>1, <3>2
    <3>6. QED  BY <3>4, <3>5
  <2>7. fromhost' \notin Keys /\ fromhost' \notin SysCalls
    BY <1>2, MessageFacts
  <2>8. Reading'
    <3>1. at[h] \in Inside /\ at'[h] \notin {"check", "take"}
      BY <1>2, <1>3, <1>4 DEF Inside
    <3>2. QED  BY <1>1, <1>3, <2>1, <2>6, <3>1, ReadingKept DEF Console
  <2>9. OneAnswer'
    <3>1. spike'.answers = spike.answers /\ tohost' = tohost
      BY <1>2
    <3>2. \A g \in Harts : Waiting(g) => Waiting(g)'
      BY <1>3, <2>2, WaitingKept
    <3>3. QED  BY <2>1, <2>7, <3>1, <3>2, AnswerKept DEF Console
  <2>10. htif_console_buf = -1 /\ ~Asking /\ tohost # Read /\ spike.reads = 0
         /\ \A n \in DOMAIN spike.answers : spike.answers[n] \notin Keys
    <3>1. PICK w : KeyIs(w)
      BY <2>1 DEF Console, OneKey
    <3>2. w = "fromhost"
      BY <2>4, <3>1 DEF KeyIs
    <3>3. QED  BY <3>1, <3>2 DEF KeyIs
  <2>11. OneKey'
    <3>1. ~Asking'
      BY <1>3, <2>2, <2>10, AskingKept
    <3>2. KeyIs("nowhere")'
      BY <1>2, <2>7, <2>10, <3>1 DEF KeyIs, Keys, Read, Message
    <3>3. QED  BY <3>2 DEF OneKey
  <2>12. Shown'
    <3>1. put' = put /\ screen' = screen /\ Showing' = Showing
      BY <1>2 DEF Showing
    <3>2. QED  BY <1>3, <2>1, <2>2, <3>1, ShownKept DEF Console
  <2>13. InOrder'
    <3>1. KeyInBuffer = <<>> /\ KeyInBuffer' = <<k>>
      <4>1. htif_console_buf' > 0 /\ htif_console_buf' - 1 = k /\ ~(htif_console_buf > 0)
        BY <2>6, <2>10
      <4>2. QED  BY <4>1 DEF KeyInBuffer
    <3>2. KeyIn({fromhost}) = <<k>>
      BY <1>1, <2>4, <2>5, KeyOfFromhost
    <3>3. KeyIn({fromhost})' = <<>>
      <4>1. \A m \in {Empty} : m.dev # 1
        BY MessageFacts
      <4>2. KeyIn({Empty}) = <<>>
        BY <4>1, NoKeyIn
      <4>3. QED  BY <1>2, <4>2 DEF KeyIn
    <3>4. KeyIn(Range(spike.answers)) = <<>>
      BY <1>1, <2>10, KeyOfAnswers DEF HostTypes
    <3>5. KeyIn(Range(spike.answers))' = KeyIn(Range(spike.answers))
      BY <1>2 DEF KeyIn, Range
    <3>6. got \in Seq(Nat) /\ spike.unread \in Seq(Nat)
      BY <1>1 DEF HartTypes, HostTypes
    <3>7. got \o <<>> \o <<k>> \o <<>> \o spike.unread = [n \in 1 .. spike.typed |-> n]
      BY <2>1, <3>1, <3>2, <3>4 DEF Console, InOrder
    <3>8. got \o <<k>> \o <<>> \o <<>> \o spike.unread = [n \in 1 .. spike.typed |-> n]
      BY <3>6, <3>7, KeyMoves
    <3>9. QED  BY <1>2, <3>1, <3>3, <3>4, <3>5, <3>8 DEF InOrder
  <2>14. QED  BY <2>8, <2>9, <2>11, <2>12, <2>13 DEF Console
<1>11. QED  BY <1>5, <1>6, <1>7, <1>8, <1>9, <1>10 DEF HtifInv

\* What is sent is a request.
LEMMA SentFacts ==
  ASSUME HartTypes, NEW h \in Harts, call[h] \in {"getchar", "putchar", "syscall"}
  PROVE  /\ Sent(h) \in Requests
         /\ call[h] = "getchar" => Sent(h) = Read
         /\ call[h] = "putchar" => Sent(h) = Message(1, 1, <<h, calls[h]>>) /\ Sent(h) \in Shows
         /\ call[h] = "syscall" => Sent(h) = Message(0, 0, <<h>>) /\ Sent(h) \in SysCalls
<1>1. <<h, calls[h]>> \in Harts \X Nat
  BY DEF HartTypes
<1>2. CASE call[h] = "getchar"
  BY <1>2 DEF Sent, Requests, Read
<1>3. CASE call[h] = "putchar"
  BY <1>1, <1>3 DEF Sent, Requests, Shows
<1>4. CASE call[h] = "syscall"
  BY <1>4 DEF Sent, Requests, SysCalls
<1>5. QED  BY <1>2, <1>3, <1>4

\* Who has the lock sends when the host has taken the message before, and
\* takes what the host sends meanwhile.
LEMMA SetTohostKeeps ==
  ASSUME HtifInv, NEW h \in Harts, __set_tohost(h)
  PROVE  HtifInv'
<1>1. /\ HartTypes /\ MailTypes /\ HostTypes /\ Locked /\ HartsPlaced /\ Placed(h)
      /\ ~Stopping => Console
  BY HartFacts
<1>2. /\ at[h] = "set_tohost" /\ UNCHANGED <<call, fh, calls, put, got, confused>>
      /\ UNCHANGED <<htif_lock, fromhost, htif_console_buf, spike, screen>>
  BY DEF __set_tohost
<1>3. at[h] \in Inside /\ htif_lock # 0 /\ htif_lock' = htif_lock /\ Sending(h) /\ ~Waiting(h)
  BY <1>1, <1>2 DEF Locked, Inside, Sending, Waiting
<1>4. HostTypes' /\ htif_lock' \in {0, -1}
  BY <1>1, <1>2 DEF HostTypes, MailTypes, Answers, SysCalls, Keys, Message
<1>5. CASE tohost # Empty
  <2>1. at' = [at EXCEPT ![h] = "check"] /\ back' = [back EXCEPT ![h] = "set_tohost"] /\ tohost' = tohost
    BY <1>5 DEF __set_tohost, HGoto, TohostFree
  <2>2. at'[h] = "check" /\ back'[h] = "set_tohost" /\ call'[h] = call[h] /\ Others(h)
    BY <1>1, <1>2, <2>1 DEF HartTypes, Others
  <2>3. HartTypes'
    BY <1>1, <1>2, <2>1 DEF HartTypes, Inside
  <2>4. Locked'
    BY <1>1, <1>3, <2>2, LockKept
  <2>5. HartsPlaced'
    <3>1. call[h] \in {"getchar", "putchar", "syscall"}
      BY <1>1, <1>2 DEF Placed, HartTypes
    <3>2. Placed(h)'
      BY <2>2, <3>1 DEF Placed
    <3>3. QED  BY <1>1, <2>2, <3>2, PlacedKept
  <2>6. ASSUME ~Stopping'  PROVE Console'
    <3>1. Console
      BY <1>1, <1>2, <2>2, <2>6, StopsForGood
    <3>2. Sending(h)' /\ at'[h] # "take" /\ back'[h] # "await"
      BY <2>2 DEF Sending
    <3>3. QED  BY <1>1, <1>2, <1>3, <2>1, <2>2, <3>1, <3>2, ConsoleKept
  <2>7. MailTypes'
    BY <1>1, <1>2, <1>4, <2>1, MailKept
  <2>8. QED  BY <1>4, <2>3, <2>4, <2>5, <2>6, <2>7 DEF HtifInv
<1>6. CASE tohost = Empty
  <2> DEFINE place == IF call[h] = "syscall" THEN "await" ELSE "unlock"
  <2>1. at' = [at EXCEPT ![h] = place] /\ back' = back /\ tohost' = Sent(h)
    BY <1>6 DEF __set_tohost, HGoto, TohostFree
  <2>2. at'[h] = place /\ back'[h] = back[h] /\ call'[h] = call[h] /\ calls'[h] = calls[h] /\ Others(h)
    BY <1>1, <1>2, <2>1 DEF HartTypes, Others
  <2>3. HartTypes'
    BY <1>1, <1>2, <2>1 DEF HartTypes, Inside
  <2>4. call[h] \in {"getchar", "putchar", "syscall"}
    BY <1>1, <1>2 DEF Placed, HartTypes
  <2>5. /\ Sent(h) \in Requests
        /\ call[h] = "getchar" => Sent(h) = Read
        /\ call[h] = "putchar" => Sent(h) = Message(1, 1, <<h, calls[h]>>) /\ Sent(h) \in Shows
        /\ call[h] = "syscall" => Sent(h) = Message(0, 0, <<h>>) /\ Sent(h) \in SysCalls
    BY <1>1, <2>4, SentFacts
  <2>6. MailTypes'
    BY <1>1, <1>2, <1>4, <2>1, <2>5
       DEF MailTypes, Requests, Answers, SysCalls, Shows, Keys, Read, Empty, Exit, Message
  <2>7. Locked'
    BY <1>1, <1>3, <2>2, LockKept
  <2>8. HartsPlaced'
    <3>1. Placed(h)'
      BY <2>2, <2>4 DEF Placed
    <3>2. QED  BY <1>1, <2>2, <3>1, PlacedKept
  <2>9. ASSUME ~Stopping'  PROVE Console'
    <3>1. Console
      BY <1>1, <1>2, <2>2, <2>9, StopsForGood
    <3>2. ~Sending(h)' /\ (Waiting(h)' <=> call[h] = "syscall")
      BY <2>2 DEF Sending, Waiting
    <3>3. \A g \in Harts : g # h => ~Sending(g) /\ ~Sending(g)' /\ ~Waiting(g)
      BY <1>1, <1>3, <2>2 DEF Locked, Sending, Waiting, Inside, Others
    <3>4. \A g \in Harts : ~Waiting(g) /\ ~Sending(g)'
      BY <1>3, <3>2, <3>3
    <3>5. Reading'
      <4>1. at'[h] \notin {"take", "check"}
        BY <2>2
      <4>2. QED  BY <1>1, <1>2, <2>2, <3>1, <4>1, ReadingKept DEF Console, Reading
    <3>6. \A m : ~Awaited(m)
      BY <3>4 DEF Awaited
    <3>7. /\ fromhost \notin SysCalls
          /\ \A n \in DOMAIN spike.answers : spike.answers[n] \notin SysCalls
      BY <3>1, <3>6 DEF Console, OneAnswer, AnswerIs
    <3>8. OneAnswer'
      <4>1. Sent(h) \in SysCalls => call[h] = "syscall"
        BY <2>4, <2>5, MessageFacts
      <4>2. call[h] = "syscall" => Awaited(tohost)'
        BY <2>1, <2>5, <3>2 DEF Awaited, Message
      <4>3. AnswerIs("tohost")'
        BY <1>2, <2>1, <3>7, <4>1, <4>2 DEF AnswerIs, SysCalls, Message
      <4>4. QED  BY <4>3 DEF OneAnswer
    <3>9. ~Asking' /\ ~Unsent'
      BY <3>4 DEF Asking, Unsent
    <3>10. OneKey'
      <4>1. PICK w \in {"nowhere", "asking", "tohost", "reads", "answers", "fromhost"} : KeyIs(w)
        BY <3>1 DEF Console, OneKey
      <4>2. CASE call[h] = "getchar"
        <5>1. Asking
          BY <1>3, <4>2 DEF Asking
        <5>2. w = "asking"
          BY <4>1, <5>1 DEF KeyIs
        <5>3. KeyIs("tohost")'
          BY <1>2, <3>9, <4>1, <5>2 DEF KeyIs, Keys, Read, Message
        <5>4. QED  BY <5>3 DEF OneKey
      <4>3. CASE call[h] # "getchar"
        <5>1. tohost' # Read
          BY <2>1, <2>4, <2>5, <4>3, MessageFacts
        <5>2. KeyIs(w)'
          BY <1>2, <3>9, <4>1, <5>1 DEF KeyIs, Keys, Read, Message
        <5>3. QED  BY <5>2 DEF OneKey
      <4>4. QED  BY <4>2, <4>3
    <3>11. Shown'
      <4>1. Showing = <<>>
        BY <1>6, MessageFacts DEF Showing
      <4>2. screen \in Seq(Harts \X Nat) /\ put \in Seq(Harts \X Nat)
        BY <1>1 DEF HostTypes, HartTypes
      <4>3. screen = IF Unsent THEN Front(put) ELSE put
        BY <3>1, <4>1, <4>2, ConcatEmptySeq DEF Console, Shown
      <4>4. CASE call[h] = "putchar"
        <5>1. put # <<>> /\ Last(put) = <<h, calls[h]>> /\ Unsent
          BY <1>3, <3>1, <4>4 DEF Console, Shown, Unsent
        <5>2. Showing' = <<Last(put)>>
          <6>1. tohost' = Message(1, 1, Last(put))
            BY <2>1, <2>5, <4>4, <5>1
          <6>2. QED  BY <6>1 DEF Showing, Message
        <5>3. Front(put) \o <<Last(put)>> = put
          <6>1. Len(put) \in Nat \ {0} /\ SubSeq(put, 1, Len(put) - 1) \o <<put[Len(put)]>> = put
            BY <4>2, <5>1
          <6>2. QED  BY <6>1 DEF Front, Last
        <5>4. screen' \o Showing' = put'
          BY <1>2, <4>3, <5>1, <5>2, <5>3
        <5>5. QED  BY <3>4, <3>9, <5>4 DEF Shown
      <4>5. CASE call[h] # "putchar"
        <5>1. ~Unsent
          BY <3>3, <4>5 DEF Unsent
        <5>2. Showing' = <<>>
          BY <2>1, <2>4, <2>5, <4>5, MessageFacts DEF Showing
        <5>3. screen' \o Showing' = put'
          BY <1>2, <4>2, <4>3, <5>1, <5>2, ConcatEmptySeq
        <5>4. QED  BY <3>4, <3>9, <5>3 DEF Shown
      <4>6. QED  BY <4>4, <4>5
    <3>12. InOrder'
      <4>1. KeyIn({fromhost})' = KeyIn({fromhost})
        BY <1>2 DEF KeyIn
      <4>2. QED  BY <1>2, <3>1, <4>1, OrderKept DEF Console
    <3>13. QED  BY <3>5, <3>8, <3>10, <3>11, <3>12 DEF Console
  <2>10. QED  BY <1>4, <2>3, <2>6, <2>7, <2>8, <2>9 DEF HtifInv
<1>7. QED  BY <1>5, <1>6

\* The buffered key is returned and the next one asked for.
LEMMA GetcharKeeps ==
  ASSUME HtifInv, NEW h \in Harts, htif_console_getchar(h)
  PROVE  HtifInv'
<1>1. /\ HartTypes /\ MailTypes /\ HostTypes /\ Locked /\ HartsPlaced /\ Placed(h)
      /\ ~Stopping => Console
  BY HartFacts
<1> DEFINE ch == htif_console_buf
           place == IF ch >= 0 THEN "set_tohost" ELSE "unlock"
<1>2. /\ at[h] = "getchar" /\ at' = [at EXCEPT ![h] = place]
      /\ got' = IF ch > 0 THEN Append(got, ch - 1) ELSE got
      /\ htif_console_buf' = IF ch >= 0 THEN -1 ELSE ch
      /\ UNCHANGED <<call, back, fh, calls, put, confused, htif_lock, tohost, fromhost, spike, screen>>
  BY DEF htif_console_getchar, HGoto
<1>3. at'[h] = place /\ call[h] = "getchar" /\ call'[h] = "getchar" /\ Others(h)
  BY <1>1, <1>2 DEF HartTypes, Others, Placed
<1>4. at[h] \in Inside /\ htif_lock # 0 /\ htif_lock' = htif_lock /\ ~Sending(h) /\ ~Waiting(h)
  BY <1>1, <1>2 DEF Locked, Inside, Sending, Waiting
<1>5. ch = -1 \/ ch \in Nat
  BY <1>1 DEF MailTypes
<1>6. HartTypes'
  <2>1. got' \in Seq(Nat)
    <3>1. ch > 0 => ch - 1 \in Nat
      BY <1>5
    <3>2. QED  BY <1>1, <1>2, <3>1 DEF HartTypes
  <2>2. place \in Inside
    BY DEF Inside
  <2>3. QED  BY <1>1, <1>2, <2>1, <2>2 DEF HartTypes
<1>7. MailTypes' /\ HostTypes'
  <2>1. htif_console_buf' = -1 \/ htif_console_buf' \in Nat
    BY <1>2, <1>5
  <2>2. MailTypes'
    BY <1>1, <1>2, <2>1 DEF MailTypes, Requests, Answers, SysCalls, Shows, Keys, Read, Empty, Exit, Message
  <2>3. HostTypes'
    BY <1>1, <1>2 DEF HostTypes, Answers, SysCalls, Keys, Message
  <2>4. QED  BY <2>2, <2>3
<1>8. Locked'
  BY <1>1, <1>3, <1>4, LockKept
<1>9. HartsPlaced'
  <2>1. Placed(h)'
    BY <1>3 DEF Placed
  <2>2. QED  BY <1>1, <1>3, <2>1, PlacedKept
<1>10. ASSUME ~Stopping'  PROVE Console'
  <2>1. Console
    BY <1>1, <1>2, <1>3, <1>10, StopsForGood
  <2>2. Reading'
    <3>1. at'[h] \notin {"take", "check"}
      BY <1>3
    <3>2. QED  BY <1>1, <1>2, <1>3, <2>1, <3>1, ReadingKept DEF Console, Reading
  <2>3. OneAnswer'
    BY <1>2, <1>3, <1>4, <2>1, AnswerKept, WaitingKept DEF Console
  <2>4. Shown'
    <3>1. put' = put /\ screen' = screen /\ Showing' = Showing
      BY <1>2 DEF Showing
    <3>2. QED  BY <1>3, <2>1, <3>1, ShownKept DEF Console
  <2>5. KeyIn({fromhost})' = KeyIn({fromhost})
    BY <1>2 DEF KeyIn
  <2>6. CASE ch = -1
    <3>1. got' = got /\ htif_console_buf' = htif_console_buf /\ at'[h] = "unlock"
      BY <1>2, <1>3, <2>6
    <3>2. ~Sending(h)'
      BY <3>1 DEF Sending
    <3>3. OneKey'
      BY <1>2, <1>3, <2>1, <3>1, <3>2, KeyKept, AskingKept DEF Console
    <3>4. InOrder'
      BY <1>2, <2>1, <2>5, <3>1, OrderKept DEF Console
    <3>5. QED  BY <2>2, <2>3, <2>4, <3>3, <3>4 DEF Console
  <2>7. CASE ch \in Nat
    <3>1. htif_console_buf' = -1 /\ ch # -1
      BY <1>2, <2>7
    <3>2. PICK w \in {"nowhere", "asking", "tohost", "reads", "answers", "fromhost"} : KeyIs(w)
      BY <2>1 DEF Console, OneKey
    <3>3. w = "nowhere"
      BY <3>1, <3>2 DEF KeyIs
    <3>4. /\ tohost # Read /\ spike.reads = 0 /\ fromhost \notin Keys
          /\ \A n \in DOMAIN spike.answers : spike.answers[n] \notin Keys
      BY <3>2, <3>3 DEF KeyIs
    <3>5. OneKey'
      <4>1. KeyIs("asking")'
        BY <1>2, <3>1, <3>4 DEF KeyIs, Keys, Read, Message
      <4>2. QED  BY <4>1 DEF OneKey
    <3>6. InOrder'
      <4>1. KeyInBuffer' = <<>>
        BY <3>1 DEF KeyInBuffer
      <4>2. KeyIn({fromhost}) = <<>> /\ KeyIn(Range(spike.answers)) = <<>>
        BY <1>1, <3>4, KeyOfFromhost, KeyOfAnswers DEF HostTypes
      <4>3. KeyIn(Range(spike.answers))' = KeyIn(Range(spike.answers))
        BY <1>2 DEF KeyIn, Range
      <4>4. got \in Seq(Nat) /\ spike.unread \in Seq(Nat)
        BY <1>1 DEF HartTypes, HostTypes
      <4>5. got \o KeyInBuffer \o <<>> \o <<>> \o spike.unread = [n \in 1 .. spike.typed |-> n]
        BY <2>1, <4>2 DEF Console, InOrder
      <4>6. CASE ch > 0
        <5>1. ch - 1 \in Nat /\ KeyInBuffer = <<ch - 1>> /\ got' = Append(got, ch - 1)
          BY <1>2, <2>7, <4>6 DEF KeyInBuffer
        <5>2. got' \o <<>> \o <<>> \o <<>> \o spike.unread = [n \in 1 .. spike.typed |-> n]
          BY <4>4, <4>5, <5>1, KeyMoves
        <5>3. QED  BY <1>2, <2>5, <4>1, <4>2, <4>3, <5>2 DEF InOrder
      <4>7. CASE ~(ch > 0)
        <5>1. KeyInBuffer = <<>> /\ got' = got
          BY <1>2, <4>7 DEF KeyInBuffer
        <5>2. QED  BY <1>2, <2>5, <4>1, <4>2, <4>3, <4>5, <5>1 DEF InOrder
      <4>8. QED  BY <4>6, <4>7
    <3>7. QED  BY <2>2, <2>3, <2>4, <3>5, <3>6 DEF Console
  <2>8. QED  BY <1>5, <2>6, <2>7
<1>11. QED  BY <1>6, <1>7, <1>8, <1>9, <1>10 DEF HtifInv

\* Who waits takes its own answer, and leaves a key to the check.
LEMMA AnswerKeeps ==
  ASSUME HtifInv, NEW h \in Harts, do_tohost_fromhost(h)
  PROVE  HtifInv'
<1>1. /\ HartTypes /\ MailTypes /\ HostTypes /\ Locked /\ HartsPlaced /\ Placed(h)
      /\ ~Stopping => Console
  BY HartFacts
<1>2. /\ at[h] = "await" /\ fromhost # Empty /\ UNCHANGED <<call, fh, calls, put, got>>
      /\ UNCHANGED <<htif_lock, tohost, htif_console_buf, spike, screen>>
  BY DEF do_tohost_fromhost
<1>3. /\ at[h] \in Inside /\ htif_lock # 0 /\ htif_lock' = htif_lock /\ ~Sending(h) /\ Waiting(h)
      /\ call[h] = "syscall"
  BY <1>1, <1>2 DEF Locked, Inside, Sending, Waiting, Placed
<1>4. /\ fromhost \in SysCalls \/ fromhost \in Keys
      /\ (fromhost.dev = 0 /\ fromhost.cmd = 0) <=> fromhost \in SysCalls
      /\ fromhost \in Keys <=> fromhost \notin SysCalls
  BY <1>1, <1>2, MessageFacts DEF MailTypes, Answers
<1>5. HostTypes' /\ htif_lock' \in {0, -1}
  BY <1>1, <1>2 DEF HostTypes, MailTypes, Answers, SysCalls, Keys, Message
<1>6. CASE fromhost \notin SysCalls
  <2>1. /\ at' = [at EXCEPT ![h] = "check"] /\ back' = [back EXCEPT ![h] = "await"]
        /\ fromhost' = fromhost /\ confused' = confused
    BY <1>4, <1>6 DEF do_tohost_fromhost, HGoto, AwaitOther
  <2>2. at'[h] = "check" /\ back'[h] = "await" /\ call'[h] = "syscall" /\ Others(h)
    BY <1>1, <1>2, <1>3, <2>1 DEF HartTypes, Others
  <2>3. HartTypes'
    BY <1>1, <1>2, <2>1 DEF HartTypes, Inside
  <2>4. MailTypes'
    BY <1>1, <1>2, <1>5, <2>1, MailKept
  <2>5. Locked'
    BY <1>1, <1>3, <2>2, LockKept
  <2>6. HartsPlaced'
    <3>1. Placed(h)'
      BY <2>2 DEF Placed
    <3>2. QED  BY <1>1, <2>2, <3>1, PlacedKept
  <2>7. ASSUME ~Stopping'  PROVE Console'
    <3>1. Console
      BY <1>1, <1>2, <2>2, <2>7, StopsForGood
    <3>2. Waiting(h)' /\ ~Sending(h)' /\ at'[h] # "take"
      BY <2>2 DEF Waiting, Sending
    <3>3. QED  BY <1>1, <1>2, <1>3, <1>4, <1>6, <2>1, <2>2, <3>1, <3>2, ConsoleKept
  <2>8. QED  BY <1>5, <2>3, <2>4, <2>5, <2>6, <2>7 DEF HtifInv
<1>7. CASE fromhost \in SysCalls
  <2>1. /\ at' = [at EXCEPT ![h] = "unlock"] /\ back' = back /\ fromhost' = Empty
        /\ confused' = (confused \/ fromhost.data # <<h>>)
    BY <1>4, <1>7 DEF do_tohost_fromhost, HGoto
  <2>2. at'[h] = "unlock" /\ back'[h] = back[h] /\ call'[h] = "syscall" /\ Others(h)
    BY <1>1, <1>2, <1>3, <2>1 DEF HartTypes, Others
  <2>3. HartTypes'
    BY <1>1, <1>2, <2>1 DEF HartTypes, Inside
  <2>4. MailTypes'
    BY <1>1, <1>2, <1>5, <2>1 DEF MailTypes, Requests, Answers, SysCalls, Shows, Keys, Read, Empty, Exit, Message
  <2>5. Locked'
    BY <1>1, <1>3, <2>2, LockKept
  <2>6. HartsPlaced'
    <3>1. Placed(h)'
      BY <2>2 DEF Placed
    <3>2. QED  BY <1>1, <2>2, <3>1, PlacedKept
  <2>7. ASSUME ~Stopping'  PROVE Console'
    <3>1. Console
      BY <1>1, <1>2, <2>2, <2>7, StopsForGood
    <3>2. PICK w \in {"tohost", "answers", "fromhost"} : AnswerIs(w)
      BY <3>1 DEF Console, OneAnswer
    <3>3. w = "fromhost" /\ Awaited(fromhost)
      BY <1>7, <3>2 DEF AnswerIs
    <3>4. fromhost = Message(0, 0, <<h>>)
      <4>1. PICK g \in Harts : fromhost = Message(0, 0, <<g>>) /\ Waiting(g)
        BY <3>3 DEF Awaited
      <4>2. at[g] \in Inside
        BY <4>1 DEF Waiting, Inside
      <4>3. QED  BY <1>1, <1>3, <4>1, <4>2 DEF Locked
    <3>5. ~confused'
      <4>1. fromhost.data = <<h>>
        BY <3>4 DEF Message
      <4>2. QED  BY <2>1, <3>1, <4>1 DEF Console, Reading
    <3>6. fromhost' \notin Keys /\ fromhost' \notin SysCalls
      BY <2>1, MessageFacts
    <3>7. Reading'
      <4>1. at'[h] \notin {"take", "check"}
        BY <2>2
      <4>2. QED  BY <1>1, <1>3, <2>2, <3>1, <3>5, <4>1, ReadingKept DEF Console
    <3>8. OneAnswer'
      <4>1. tohost \notin SysCalls /\ \A n \in DOMAIN spike.answers : spike.answers[n] \notin SysCalls
        BY <3>2, <3>3 DEF AnswerIs
      <4>2. AnswerIs("fromhost")'
        BY <1>2, <3>6, <4>1 DEF AnswerIs, SysCalls, Message
      <4>3. QED  BY <4>2 DEF OneAnswer
    <3>9. ~Sending(h)'
      BY <2>2 DEF Sending
    <3>10. OneKey'
      BY <1>2, <2>2, <3>1, <3>6, <3>9, KeyKept, AskingKept DEF Console
    <3>11. Shown'
      <4>1. put' = put /\ screen' = screen /\ Showing' = Showing
        BY <1>2 DEF Showing
      <4>2. QED  BY <1>3, <2>2, <3>1, <3>9, <4>1, ShownKept DEF Console
    <3>12. InOrder'
      <4>1. KeyIn({fromhost}) = <<>>
        <5>1. fromhost \notin Keys
          BY <1>4, <1>7
        <5>2. QED  BY <1>1, <5>1, KeyOfFromhost
      <4>2. KeyIn({fromhost})' = <<>>
        <5>1. \A m \in {Empty} : m.dev # 1
          BY MessageFacts
        <5>2. KeyIn({Empty}) = <<>>
          BY <5>1, NoKeyIn
        <5>3. QED  BY <2>1, <5>2 DEF KeyIn
      <4>3. QED  BY <1>2, <3>1, <4>1, <4>2, OrderKept DEF Console
    <3>13. QED  BY <3>7, <3>8, <3>10, <3>11, <3>12 DEF Console
  <2>8. QED  BY <1>5, <2>3, <2>4, <2>5, <2>6, <2>7 DEF HtifInv
<1>8. QED  BY <1>6, <1>7

\* A hart that powers off asks for no lock.
LEMMA CallPoweroffKeeps ==
  ASSUME HtifInv, NEW h \in Harts, CallPoweroff(h)
  PROVE  HtifInv'
<1>1. /\ HartTypes /\ MailTypes /\ HostTypes /\ Locked /\ HartsPlaced /\ Placed(h)
      /\ ~Stopping => Console
  BY HartFacts
<1>2. /\ at[h] = "idle" /\ at' = [at EXCEPT ![h] = "poweroff"]
      /\ call' = [call EXCEPT ![h] = "poweroff"] /\ UNCHANGED <<back, fh, calls>>
      /\ UNCHANGED <<tohost, fromhost, htif_console_buf, spike, screen, put, got, confused>>
      /\ htif_lock' = htif_lock
  BY DEF CallPoweroff, HGoto, mailVars
<1>3. at'[h] = "poweroff" /\ call'[h] = "poweroff" /\ Others(h)
  BY <1>1, <1>2 DEF HartTypes, Others
<1>4. HartTypes'
  BY <1>1, <1>2 DEF HartTypes, Outside
<1>5. MailTypes' /\ HostTypes'
  <2>1. htif_lock' \in {0, -1}
    BY <1>1, <1>2 DEF MailTypes
  <2>2. QED  BY <1>1, <1>2, <2>1, MailKept
<1>6. Locked'
  <2>1. at'[h] \notin Inside
    BY <1>3 DEF Inside
  <2>2. htif_lock' = htif_lock
    BY <1>2
  <2>3. QED  BY <1>1, <1>3, <2>1, <2>2, LockKept
<1>7. HartsPlaced'
  <2>1. Placed(h)'
    BY <1>3 DEF Placed
  <2>2. QED  BY <1>1, <1>3, <2>1, PlacedKept
<1>8. Stopping'
  BY <1>3 DEF Stopping
<1>9. QED  BY <1>4, <1>5, <1>6, <1>7, <1>8 DEF HtifInv

LEMMA PoweroffKeeps ==
  ASSUME HtifInv, NEW h \in Harts, htif_poweroff(h)
  PROVE  HtifInv'
<1>1. /\ HartTypes /\ MailTypes /\ HostTypes /\ Locked /\ HartsPlaced /\ Placed(h)
      /\ ~Stopping => Console
  BY HartFacts
<1>2. /\ at[h] = "poweroff" /\ fromhost' = Empty /\ tohost' = Exit
      /\ UNCHANGED <<at, call, back, fh, calls, put, got, confused>>
      /\ UNCHANGED <<htif_lock, htif_console_buf, spike, screen>>
  BY DEF htif_poweroff, hartVars
<1>3. HartTypes' /\ Locked' /\ HartsPlaced'
  BY <1>1, <1>2 DEF HartTypes, Locked, HartsPlaced, Placed
<1>4. MailTypes' /\ HostTypes'
  BY <1>1, <1>2 DEF MailTypes, HostTypes, Requests, Answers, SysCalls, Shows, Keys, Read, Empty,
                    Exit, Message
<1>5. Stopping'
  BY <1>1, <1>2 DEF Stopping, Placed
<1>6. QED  BY <1>3, <1>4, <1>5 DEF HtifInv
-----------------------------------------------------------------------------
\* While the host works the harts are where they are.
LEMMA HartsRest ==
  ASSUME HtifInv, UNCHANGED <<at, call, back, fh, calls, put, got, confused, htif_lock>>
  PROVE  /\ HartTypes' /\ Locked' /\ HartsPlaced' /\ (~Stopping' => ~Stopping)
         /\ Asking' <=> Asking
         /\ Unsent' <=> Unsent
         /\ \A g \in Harts : Waiting(g) => Waiting(g)'
         /\ \A g \in Harts : Sending(g)' <=> Sending(g)
<1>1. \A g \in Harts : /\ Sending(g)' <=> Sending(g)
                       /\ Waiting(g) => Waiting(g)'
  BY DEF Sending, Waiting
<1>2. Asking' <=> Asking
  BY <1>1 DEF Asking
<1>3. Unsent' <=> Unsent
  BY <1>1 DEF Unsent
<1>4. HartTypes'
  BY DEF HtifInv, HartTypes
<1>5. Locked' /\ HartsPlaced' /\ (~Stopping' => ~Stopping)
  BY DEF HtifInv, Locked, HartsPlaced, Placed, Stopping
<1>6. QED  BY <1>1, <1>2, <1>3, <1>4, <1>5

\* The host's queue when a message is put behind it, and when the first is gone.
LEMMA QueueGrows ==
  ASSUME NEW q \in Seq(Answers), NEW x \in Answers
  PROVE  /\ Append(q, x) \in Seq(Answers)
         /\ \A n \in DOMAIN q : n \in DOMAIN Append(q, x) /\ Append(q, x)[n] = q[n]
         /\ Len(q) + 1 \in DOMAIN Append(q, x) /\ Append(q, x)[Len(q) + 1] = x
         /\ \A n \in DOMAIN Append(q, x) : n \in DOMAIN q \/ n = Len(q) + 1
  OBVIOUS
LEMMA QueueShrinks ==
  ASSUME NEW q \in Seq(Answers), q # <<>>
  PROVE  /\ Tail(q) \in Seq(Answers) /\ 1 \in DOMAIN q /\ Head(q) = q[1]
         /\ \A n \in DOMAIN Tail(q) : n + 1 \in DOMAIN q /\ Tail(q)[n] = q[n + 1] /\ n \in Nat \ {0}
         /\ \A n \in DOMAIN q : n # 1 => n - 1 \in DOMAIN Tail(q) /\ Tail(q)[n - 1] = q[n]
  OBVIOUS

\* Two queues with the same key.
LEMMA SameKey ==
  ASSUME NEW q \in Seq(Answers), NEW r \in Seq(Answers),
         \A m, n \in DOMAIN q : q[m] \in Keys /\ q[n] \in Keys => m = n,
         \A m, n \in DOMAIN r : r[m] \in Keys /\ r[n] \in Keys => m = n,
         \A n \in DOMAIN q : q[n] \in Keys => \E m \in DOMAIN r : r[m] = q[n],
         \A n \in DOMAIN r : r[n] \in Keys => \E m \in DOMAIN q : q[m] = r[n]
  PROVE  KeyIn(Range(r)) = KeyIn(Range(q))
<1>1. CASE \A n \in DOMAIN q : q[n] \notin Keys
  <2>1. \A n \in DOMAIN r : r[n] \notin Keys
    BY <1>1
  <2>2. KeyIn(Range(q)) = <<>> /\ KeyIn(Range(r)) = <<>>
    BY <1>1, <2>1, KeyOfAnswers
  <2>3. QED  BY <2>2
<1>2. ASSUME NEW n \in DOMAIN q, q[n] \in Keys  PROVE KeyIn(Range(r)) = KeyIn(Range(q))
  <2>1. PICK m \in DOMAIN r : r[m] = q[n]
    BY <1>2
  <2>2. (\A k \in DOMAIN q : q[k] \in Keys => k = n) /\ (\A k \in DOMAIN r : r[k] \in Keys => k = m)
    BY <1>2, <2>1
  <2>3. KeyIn(Range(q)) = q[n].data
    BY <1>2, <2>2, KeyOfAnswers
  <2>4. KeyIn(Range(r)) = r[m].data
    BY <1>2, <2>1, <2>2, KeyOfAnswers
  <2>5. QED  BY <2>1, <2>3, <2>4
<1>3. QED  BY <1>1, <1>2

\* The host takes a message: a character is shown, a key will be given, a
\* system call will be answered.
LEMMA HostTakesKeeps == HtifInv /\ HostTakes => HtifInv'
<1> SUFFICES ASSUME HtifInv, HostTakes  PROVE HtifInv'
  OBVIOUS
<1>0. /\ UNCHANGED <<at, call, back, fh, calls, put, got, confused, htif_lock, fromhost, htif_console_buf>>
      /\ tohost # Empty /\ tohost' = Empty
      /\ screen' = IF tohost.dev = 1 /\ tohost.cmd = 1 THEN Append(screen, tohost.data) ELSE screen
  BY DEF HostTakes, hartVars
<1>1. /\ MailTypes /\ HostTypes /\ (~Stopping => Console)
      /\ HartTypes' /\ Locked' /\ HartsPlaced' /\ (~Stopping' => ~Stopping)
      /\ Asking' <=> Asking
      /\ Unsent' <=> Unsent
      /\ \A g \in Harts : Waiting(g) => Waiting(g)'
      /\ \A g \in Harts : Sending(g)' <=> Sending(g)
  BY <1>0, HartsRest DEF HtifInv
<1>2. /\ spike.reads \in Nat /\ spike.answers \in Seq(Answers)
      /\ tohost = Exit \/ tohost \in Requests
  BY <1>0, <1>1 DEF HostTypes, MailTypes
<1>3. \/ tohost = Exit /\ spike' = [spike EXCEPT !.on = FALSE]
      \/ tohost \in SysCalls /\ spike' = [spike EXCEPT !.answers = Append(@, tohost)]
      \/ tohost = Read /\ spike' = [spike EXCEPT !.reads = @ + 1]
      \/ tohost \in Shows /\ spike' = spike
  BY <1>2, MessageFacts DEF HostTakes, Requests
<1>4. tohost' \notin SysCalls /\ tohost' # Read
  BY <1>0, MessageFacts
<1>5. /\ tohost \in Shows <=> (tohost.dev = 1 /\ tohost.cmd = 1)
      /\ tohost \in Shows => tohost.data \in Harts \X Nat
  BY <1>2, MessageFacts DEF Requests
<1>6. HostTypes'
  <2>1. tohost \in SysCalls => Append(spike.answers, tohost) \in Seq(Answers)
    BY <1>2 DEF Answers
  <2>2. spike' \in [reads : Nat, answers : Seq(Answers), typed : Nat, unread : Seq(Nat), on : BOOLEAN]
    <3>1. spike \in [reads : Nat, answers : Seq(Answers), typed : Nat, unread : Seq(Nat), on : BOOLEAN]
      BY <1>1 DEF HostTypes
    <3>2. CASE tohost = Exit /\ spike' = [spike EXCEPT !.on = FALSE]
      BY <3>1, <3>2
    <3>3. CASE tohost \in SysCalls /\ spike' = [spike EXCEPT !.answers = Append(@, tohost)]
      BY <2>1, <3>1, <3>3
    <3>4. CASE tohost = Read /\ spike' = [spike EXCEPT !.reads = @ + 1]
      <4> DEFINE k == spike.reads + 1
      <4>1. k \in Nat
        BY <1>2
      <4>2. spike' = [spike EXCEPT !.reads = k]
        BY <3>4
      <4> HIDE DEF k
      <4>3. QED  BY <3>1, <4>1, <4>2
    <3>5. QED  BY <1>3, <3>1, <3>2, <3>3, <3>4
  <2>3. screen' \in Seq(Harts \X Nat)
    BY <1>0, <1>1, <1>5 DEF HostTypes
  <2>4. QED  BY <2>2, <2>3 DEF HostTypes, Answers, SysCalls, Keys, Message
<1>7. MailTypes'
  BY <1>0, <1>1 DEF MailTypes, Requests, Answers, SysCalls, Shows, Keys, Read, Empty, Exit, Message
<1>8. ASSUME ~Stopping'  PROVE Console'
  <2>1. Console
    BY <1>1, <1>8
  <2>2. Reading'
    BY <1>0, <2>1 DEF Console, Reading, Empty, Keys, Message
  <2>3. Shown'
    <3>1. Showing' = <<>>
      BY <1>0, MessageFacts DEF Showing
    <3>2. screen' = screen \o Showing
      <4>1. screen \in Seq(Harts \X Nat)
        BY <1>1 DEF HostTypes
      <4>2. CASE tohost \in Shows
        <5>1. screen' = Append(screen, tohost.data) /\ Showing = <<tohost.data>>
          BY <1>0, <1>5, <4>2 DEF Showing
        <5>2. QED  BY <1>5, <4>1, <4>2, <5>1, AppendIsConcat
      <4>3. CASE tohost \notin Shows
        <5>1. screen' = screen /\ Showing = <<>>
          BY <1>0, <1>5, <4>3 DEF Showing
        <5>2. QED  BY <4>1, <5>1, ConcatEmptySeq
      <4>4. QED  BY <4>2, <4>3
    <3>3. screen' \o Showing' = screen \o Showing
      <4>1. screen' \in Seq(Harts \X Nat)
        BY <1>6 DEF HostTypes
      <4>2. QED  BY <3>1, <3>2, <4>1, ConcatEmptySeq
    <3>4. QED  BY <1>0, <1>1, <2>1, <3>3 DEF Console, Shown
  <2>4. CASE tohost \in SysCalls /\ spike' = [spike EXCEPT !.answers = Append(@, tohost)]
    <3>1. /\ spike'.answers = Append(spike.answers, tohost) /\ spike'.reads = spike.reads
          /\ spike'.unread = spike.unread /\ spike'.typed = spike.typed
      BY <1>1, <2>4 DEF HostTypes
    <3> DEFINE q == spike.answers
               r == Append(spike.answers, tohost)
    <3>2. tohost \in Answers /\ tohost \notin Keys
      BY <2>4, MessageFacts DEF Answers
    <3>3. /\ r \in Seq(Answers)
          /\ \A n \in DOMAIN q : n \in DOMAIN r /\ r[n] = q[n]
          /\ r[Len(q) + 1] = tohost
          /\ \A n \in DOMAIN r : n \in DOMAIN q \/ n = Len(q) + 1
      BY <1>2, <3>2, QueueGrows
    <3>4. PICK w \in {"tohost", "answers", "fromhost"} : AnswerIs(w)
      BY <2>1 DEF Console, OneAnswer
    <3>5. w = "tohost" /\ Awaited(tohost)
      BY <2>4, <3>4 DEF AnswerIs
    <3>6. fromhost \notin SysCalls /\ \A n \in DOMAIN q : q[n] \notin SysCalls
      BY <3>4, <3>5 DEF AnswerIs
    <3>7. PICK v \in {"nowhere", "asking", "tohost", "reads", "answers", "fromhost"} : KeyIs(v)
      BY <2>1 DEF Console, OneKey
    <3> HIDE DEF q, r
    <3>8. \A n \in DOMAIN r : r[n] \in SysCalls => n = Len(q) + 1
      BY <3>3, <3>6
    <3>9. \A n \in DOMAIN r : r[n] \in Keys => n \in DOMAIN q /\ r[n] = q[n]
      BY <3>2, <3>3
    <3>10. q = spike.answers /\ r = spike'.answers
      BY <3>1 DEF q, r
    <3>11. OneAnswer'
      <4>1. \A m : Awaited(m) => Awaited(m)'
        BY <1>1 DEF Awaited, Message
      <4>2. AnswerIs("answers")'
        BY <1>0, <1>4, <3>3, <3>5, <3>6, <3>8, <3>10, <4>1 DEF AnswerIs, SysCalls, Message
      <4>3. QED  BY <4>2 DEF OneAnswer
    <3>12. OneKey'
      <4>1. KeyIs(v)'
        BY <1>0, <1>1, <1>4, <3>1, <3>7, <3>9, <3>10 DEF KeyIs, Keys, Read, Message
      <4>2. QED  BY <4>1 DEF OneKey
    <3>13. InOrder'
      <4>1. \A m, n \in DOMAIN q : q[m] \in Keys /\ q[n] \in Keys => m = n
        BY <3>7, <3>10 DEF KeyIs
      <4>2. \A m, n \in DOMAIN r : r[m] \in Keys /\ r[n] \in Keys => m = n
        BY <3>9, <4>1
      <4>3. KeyIn(Range(r)) = KeyIn(Range(q))
        BY <1>2, <3>3, <3>9, <3>10, <4>1, <4>2, SameKey
      <4>4. KeyIn(Range(spike.answers))' = KeyIn(Range(spike.answers))
        BY <3>10, <4>3 DEF KeyIn, Range
      <4>5. KeyIn({fromhost})' = KeyIn({fromhost}) /\ KeyInBuffer' = KeyInBuffer
        BY <1>0 DEF KeyIn, KeyInBuffer
      <4>6. QED  BY <1>0, <2>1, <3>1, <4>4, <4>5 DEF Console, InOrder
    <3>14. QED  BY <2>2, <2>3, <3>11, <3>12, <3>13 DEF Console
  <2>5. CASE /\ tohost \notin SysCalls \/ tohost = Exit
             /\ spike'.answers = spike.answers /\ spike'.unread = spike.unread
             /\ spike'.typed = spike.typed
             /\ spike'.reads = IF tohost = Read THEN spike.reads + 1 ELSE spike.reads
    <3>1. OneAnswer'
      BY <1>0, <1>1, <1>4, <2>1, <2>5, AnswerKept DEF Console
    <3>2. InOrder'
      <4>1. KeyIn({fromhost})' = KeyIn({fromhost})
        BY <1>0 DEF KeyIn
      <4>2. QED  BY <1>0, <2>1, <2>5, <4>1, OrderKept DEF Console
    <3>3. OneKey'
      <4>1. CASE tohost # Read
        BY <1>0, <1>1, <1>4, <2>1, <2>5, <4>1, KeyKept DEF Console
      <4>2. CASE tohost = Read
        <5>1. PICK w \in {"nowhere", "asking", "tohost", "reads", "answers", "fromhost"} : KeyIs(w)
          BY <2>1 DEF Console, OneKey
        <5>2. w = "tohost"
          BY <4>2, <5>1 DEF KeyIs
        <5>3. spike.reads = 0 /\ spike'.reads = 1
          BY <2>5, <4>2, <5>1, <5>2 DEF KeyIs
        <5>4. KeyIs("reads")'
          BY <1>0, <1>1, <1>4, <2>5, <5>1, <5>2, <5>3 DEF KeyIs, Keys, Read, Message
        <5>5. QED  BY <5>4 DEF OneKey
      <4>3. QED  BY <4>1, <4>2
    <3>4. QED  BY <2>2, <2>3, <3>1, <3>2, <3>3 DEF Console
  <2>6. QED
    <3>1. Exit # Read /\ \A m \in Shows : m # Read /\ m \notin SysCalls
      BY MessageFacts
    <3>2. Read \notin SysCalls
      BY MessageFacts
    <3>3. CASE tohost = Exit /\ spike' = [spike EXCEPT !.on = FALSE]
      BY <1>1, <2>5, <3>1, <3>3 DEF HostTypes
    <3>4. CASE tohost = Read /\ spike' = [spike EXCEPT !.reads = @ + 1]
      BY <1>1, <2>5, <3>2, <3>4 DEF HostTypes
    <3>5. CASE tohost \in Shows /\ spike' = spike
      BY <1>1, <2>5, <3>1, <3>5
    <3>6. QED  BY <1>3, <2>4, <3>3, <3>4, <3>5
<1>9. QED  BY <1>1, <1>6, <1>7, <1>8 DEF HtifInv

\* The key that was asked for joins the answers.
LEMMA HostGivesKeyKeeps == HtifInv /\ HostGivesKey => HtifInv'
<1> SUFFICES ASSUME HtifInv, HostGivesKey  PROVE HtifInv'
  OBVIOUS
<1> DEFINE q == spike.answers
           k == Head(spike.unread)
           x == Message(1, 0, <<k>>)
           r == Append(q, x)
<1>0. /\ UNCHANGED <<at, call, back, fh, calls, put, got, confused>>
      /\ UNCHANGED <<htif_lock, tohost, fromhost, htif_console_buf, screen>>
      /\ spike.reads > 0 /\ spike.unread # <<>>
      /\ spike' = [spike EXCEPT !.reads = @ - 1, !.unread = Tail(@), !.answers = r]
  BY DEF HostGivesKey, hartVars, mailVars
<1>1. /\ MailTypes /\ HostTypes /\ (~Stopping => Console)
      /\ HartTypes' /\ Locked' /\ HartsPlaced' /\ (~Stopping' => ~Stopping)
      /\ Asking' <=> Asking
      /\ Unsent' <=> Unsent
      /\ \A g \in Harts : Waiting(g) => Waiting(g)'
      /\ \A g \in Harts : Sending(g)' <=> Sending(g)
  BY <1>0, HartsRest DEF HtifInv
<1>2. /\ spike.reads \in Nat /\ q \in Seq(Answers) /\ spike.unread \in Seq(Nat)
      /\ spike.typed \in Nat /\ spike.on \in BOOLEAN
  BY <1>1 DEF HostTypes
<1>3. k \in Nat /\ Tail(spike.unread) \in Seq(Nat)
  BY <1>0, <1>2, HeadTailProperties
<1>4. x \in Keys /\ x \in Answers /\ x \notin SysCalls /\ x.data = <<k>>
  <2>1. x \in Keys
    BY <1>3 DEF Keys
  <2>2. QED  BY <2>1, MessageFacts DEF Answers, Message
<1>5. /\ r \in Seq(Answers)
      /\ \A n \in DOMAIN q : n \in DOMAIN r /\ r[n] = q[n]
      /\ Len(q) + 1 \in DOMAIN r /\ r[Len(q) + 1] = x
      /\ \A n \in DOMAIN r : n \in DOMAIN q \/ n = Len(q) + 1
  BY <1>2, <1>4, QueueGrows
<1>6. /\ spike'.reads = spike.reads - 1 /\ spike'.answers = r /\ spike'.unread = Tail(spike.unread)
      /\ spike'.typed = spike.typed
  BY <1>0, <1>1 DEF HostTypes
<1>7. MailTypes' /\ HostTypes'
  <2>1. spike' \in [reads : Nat, answers : Seq(Answers), typed : Nat, unread : Seq(Nat), on : BOOLEAN]
    <3> DEFINE j == spike.reads - 1
    <3>1. j \in Nat /\ spike' = [spike EXCEPT !.reads = j, !.unread = Tail(@), !.answers = r]
      BY <1>0, <1>2
    <3> HIDE DEF j, r
    <3>2. QED  BY <1>1, <1>3, <1>5, <3>1 DEF HostTypes
  <2>2. HostTypes'
    BY <1>0, <1>1, <2>1 DEF HostTypes, Answers, SysCalls, Keys, Message
  <2>3. MailTypes'
    BY <1>0, <1>1 DEF MailTypes, Requests, Answers, SysCalls, Shows, Keys, Read, Empty, Exit, Message
  <2>4. QED  BY <2>2, <2>3
<1> HIDE DEF q, k, x, r
<1>8. ASSUME ~Stopping'  PROVE Console'
  <2>1. Console
    BY <1>1, <1>8
  <2>2. Reading'
    BY <1>0, <2>1 DEF Console, Reading, Empty, Keys, Message
  <2>3. Shown'
    <3>1. Showing' = Showing
      BY <1>0 DEF Showing
    <3>2. QED  BY <1>0, <1>1, <2>1, <3>1 DEF Console, Shown
  <2>4. q = spike.answers /\ r = spike'.answers
    BY <1>6 DEF q
  <2>5. OneAnswer'
    <3>1. PICK w \in {"tohost", "answers", "fromhost"} : AnswerIs(w)
      BY <2>1 DEF Console, OneAnswer
    <3>2. \A n \in DOMAIN r : r[n] \in SysCalls => n \in DOMAIN q /\ r[n] = q[n]
      BY <1>4, <1>5
    <3>3. \A m : Awaited(m) => Awaited(m)'
      BY <1>1 DEF Awaited, Message
    <3>4. AnswerIs(w)'
      BY <1>0, <2>4, <3>1, <3>2, <3>3 DEF AnswerIs, SysCalls, Message
    <3>5. QED  BY <3>4 DEF OneAnswer
  <2>6. PICK v \in {"nowhere", "asking", "tohost", "reads", "answers", "fromhost"} : KeyIs(v)
    BY <2>1 DEF Console, OneKey
  <2>7. v = "reads" /\ spike'.reads = 0
    BY <1>0, <1>6, <2>6 DEF KeyIs
  <2>8. /\ ~Asking /\ tohost # Read /\ fromhost \notin Keys /\ htif_console_buf = -1
        /\ \A n \in DOMAIN q : q[n] \notin Keys
    BY <2>4, <2>6, <2>7 DEF KeyIs
  <2>9. \A n \in DOMAIN r : r[n] \in Keys => n = Len(q) + 1
    BY <1>5, <2>8
  <2>10. OneKey'
    <3>1. KeyIs("answers")'
      BY <1>0, <1>1, <2>4, <2>7, <2>8, <2>9 DEF KeyIs, Keys, Read, Message
    <3>2. QED  BY <3>1 DEF OneKey
  <2>11. InOrder'
    <3>1. KeyIn({fromhost}) = <<>> /\ KeyIn({fromhost})' = KeyIn({fromhost})
      BY <1>0, <1>1, <2>8, KeyOfFromhost DEF KeyIn
    <3>2. KeyInBuffer = <<>> /\ KeyInBuffer' = KeyInBuffer
      BY <1>0, <2>8 DEF KeyInBuffer
    <3>3. KeyIn(Range(q)) = <<>>
      BY <1>2, <2>8, KeyOfAnswers
    <3>4. KeyIn(Range(r)) = <<k>>
      BY <1>4, <1>5, <2>9, KeyOfAnswers
    <3>5. KeyIn(Range(spike.answers))' = <<k>>
      BY <2>4, <3>4 DEF KeyIn, Range
    <3>6. got \in Seq(Nat)
      BY DEF HtifInv, HartTypes
    <3>7. got \o <<>> \o <<>> \o <<>> \o spike.unread = [n \in 1 .. spike.typed |-> n]
      BY <2>1, <2>4, <3>1, <3>2, <3>3 DEF Console, InOrder
    <3>8. got \o <<>> \o <<>> \o <<k>> \o Tail(spike.unread) = [n \in 1 .. spike.typed |-> n]
      BY <1>0, <1>2, <3>6, <3>7, KeyGiven DEF k
    <3>9. QED  BY <1>0, <1>6, <3>1, <3>2, <3>5, <3>8 DEF InOrder
  <2>12. QED  BY <2>2, <2>3, <2>5, <2>10, <2>11 DEF Console
<1>9. QED  BY <1>1, <1>7, <1>8 DEF HtifInv

\* The first answer moves into the mailbox.
LEMMA HostAnswersKeeps == HtifInv /\ HostAnswers => HtifInv'
<1> SUFFICES ASSUME HtifInv, HostAnswers  PROVE HtifInv'
  OBVIOUS
<1> DEFINE q == spike.answers
           r == Tail(spike.answers)
<1>0. /\ UNCHANGED <<at, call, back, fh, calls, put, got, confused>>
      /\ UNCHANGED <<htif_lock, tohost, htif_console_buf, screen>>
      /\ q # <<>> /\ fromhost = Empty /\ fromhost' = Head(q)
      /\ spike' = [spike EXCEPT !.answers = r]
  BY DEF HostAnswers, hartVars
<1>1. /\ MailTypes /\ HostTypes /\ (~Stopping => Console)
      /\ HartTypes' /\ Locked' /\ HartsPlaced' /\ (~Stopping' => ~Stopping)
      /\ Asking' <=> Asking
      /\ Unsent' <=> Unsent
      /\ \A g \in Harts : Waiting(g) => Waiting(g)'
      /\ \A g \in Harts : Sending(g)' <=> Sending(g)
  BY <1>0, HartsRest DEF HtifInv
<1>2. q \in Seq(Answers)
  BY <1>1 DEF HostTypes
<1>3. /\ r \in Seq(Answers) /\ 1 \in DOMAIN q /\ Head(q) = q[1]
      /\ \A n \in DOMAIN r : n + 1 \in DOMAIN q /\ r[n] = q[n + 1] /\ n \in Nat \ {0}
      /\ \A n \in DOMAIN q : n # 1 => n - 1 \in DOMAIN r /\ r[n - 1] = q[n]
  BY <1>0, <1>2, QueueShrinks
<1>4. /\ spike'.reads = spike.reads /\ spike'.answers = r /\ spike'.unread = spike.unread
      /\ spike'.typed = spike.typed
  BY <1>0, <1>1 DEF HostTypes
<1> HIDE DEF q, r
<1>5. fromhost' = q[1] /\ q[1] \in Answers
  BY <1>0, <1>2, <1>3
<1>6. MailTypes' /\ HostTypes'
  <2>1. HostTypes'
    <3>1. spike' \in [reads : Nat, answers : Seq(Answers), typed : Nat, unread : Seq(Nat), on : BOOLEAN]
      BY <1>0, <1>1, <1>3 DEF HostTypes
    <3>2. QED  BY <1>0, <1>1, <3>1 DEF HostTypes, Answers, SysCalls, Keys, Message
  <2>2. MailTypes'
    BY <1>0, <1>1, <1>5 DEF MailTypes, Requests, Answers, SysCalls, Shows, Keys, Read, Empty, Exit, Message
  <2>3. QED  BY <2>1, <2>2
<1>7. ASSUME ~Stopping'  PROVE Console'
  <2>1. Console
    BY <1>1, <1>7
  <2>2. Reading'
    <3>1. fromhost \notin Keys
      BY <1>0, MessageFacts
    <3>2. QED  BY <1>0, <2>1, <3>1 DEF Console, Reading
  <2>3. Shown'
    <3>1. Showing' = Showing
      BY <1>0 DEF Showing
    <3>2. QED  BY <1>0, <1>1, <2>1, <3>1 DEF Console, Shown
  <2>4. q = spike.answers /\ r = spike'.answers
    BY <1>4 DEF q
  <2>5. \A n \in DOMAIN r : n + 1 # 1 /\ n + 1 \in DOMAIN q /\ r[n] = q[n + 1]
    BY <1>3
  <2>6. \A m \in DOMAIN r, n \in DOMAIN r : m + 1 = n + 1 => m = n
    BY <1>3
  <2>7. OneAnswer'
    <3>1. PICK w \in {"tohost", "answers", "fromhost"} : AnswerIs(w)
      BY <2>1 DEF Console, OneAnswer
    <3>2. \A m : Awaited(m) => Awaited(m)'
      BY <1>1 DEF Awaited, Message
    <3>3. \A m, n \in DOMAIN r : r[m] \in SysCalls /\ r[n] \in SysCalls => m = n
      <4> SUFFICES ASSUME NEW m \in DOMAIN r, NEW n \in DOMAIN r, r[m] \in SysCalls, r[n] \in SysCalls
                   PROVE  m = n
        OBVIOUS
      <4>1. m + 1 \in DOMAIN q /\ n + 1 \in DOMAIN q /\ q[m + 1] \in SysCalls /\ q[n + 1] \in SysCalls
        BY <2>5
      <4>2. m + 1 = n + 1
        BY <2>4, <3>1, <4>1 DEF AnswerIs
      <4>3. QED  BY <2>6, <4>2
    <3>4. \A n \in DOMAIN r : r[n] \in SysCalls => w = "answers" /\ Awaited(r[n])
      BY <2>4, <2>5, <3>1 DEF AnswerIs
    <3>5. CASE q[1] \in SysCalls
      <4>1. w = "answers" /\ Awaited(q[1])
        BY <1>3, <2>4, <3>1, <3>5 DEF AnswerIs
      <4>2. \A n \in DOMAIN r : r[n] \notin SysCalls
        BY <1>3, <2>4, <2>5, <3>1, <3>5 DEF AnswerIs
      <4>3. tohost \notin SysCalls
        BY <3>1, <4>1 DEF AnswerIs
      <4>4. AnswerIs("fromhost")'
        BY <1>0, <1>5, <2>4, <3>2, <4>1, <4>2, <4>3 DEF AnswerIs, SysCalls, Message
      <4>5. QED  BY <4>4 DEF OneAnswer
    <3>6. CASE q[1] \notin SysCalls
      <4>1. tohost \in SysCalls => w = "tohost" /\ Awaited(tohost)
        BY <3>1 DEF AnswerIs
      <4>2. AnswerIs(w)'
        BY <1>0, <1>5, <2>4, <3>2, <3>3, <3>4, <3>6, <4>1 DEF AnswerIs, SysCalls, Message
      <4>3. QED  BY <4>2 DEF OneAnswer
    <3>7. QED  BY <3>5, <3>6
  <2>8. PICK v \in {"nowhere", "asking", "tohost", "reads", "answers", "fromhost"} : KeyIs(v)
    BY <2>1 DEF Console, OneKey
  <2>9. \A m, n \in DOMAIN q : q[m] \in Keys /\ q[n] \in Keys => m = n
    BY <2>4, <2>8 DEF KeyIs
  <2>10. \A m, n \in DOMAIN r : r[m] \in Keys /\ r[n] \in Keys => m = n
    <3> SUFFICES ASSUME NEW m \in DOMAIN r, NEW n \in DOMAIN r, r[m] \in Keys, r[n] \in Keys
                 PROVE  m = n
      OBVIOUS
    <3>1. m + 1 \in DOMAIN q /\ n + 1 \in DOMAIN q /\ q[m + 1] \in Keys /\ q[n + 1] \in Keys
      BY <2>5
    <3>2. QED  BY <2>6, <2>9, <3>1
  <2>11. CASE q[1] \in Keys
    <3>1. v = "answers" /\ \A n \in DOMAIN r : r[n] \notin Keys
      BY <1>3, <2>4, <2>5, <2>8, <2>9, <2>11 DEF KeyIs
    <3>2. OneKey'
      <4>1. ~Asking /\ tohost # Read /\ spike.reads = 0 /\ htif_console_buf = -1
        BY <2>8, <3>1 DEF KeyIs
      <4>2. KeyIs("fromhost")'
        BY <1>0, <1>1, <1>4, <2>4, <3>1, <4>1 DEF KeyIs, Keys, Read, Message
      <4>3. QED  BY <4>2 DEF OneKey
    <3>3. InOrder'
      <4>1. htif_console_buf = -1
        BY <2>8, <3>1 DEF KeyIs
      <4>2. KeyInBuffer = <<>> /\ KeyInBuffer' = <<>>
        BY <1>0, <4>1 DEF KeyInBuffer
      <4>3. PICK k \in Nat : q[1].data = <<k>>
        BY <2>11, MessageFacts
      <4>4. KeyIn({fromhost}) = <<>>
        <5>1. fromhost \notin Keys
          BY <1>0, MessageFacts
        <5>2. QED  BY <1>1, <5>1, KeyOfFromhost
      <4>5. KeyIn({fromhost})' = <<k>>
        <5>1. q[1].dev = 1 /\ q[1] \in {q[1]} /\ \A m \in {q[1]} : m.dev = 1 => m = q[1]
          BY <2>11, MessageFacts
        <5>2. KeyIn({q[1]}) = <<k>>
          <6> DEFINE m == q[1]
                     M == {q[1]}
          <6>1. m \in M /\ m.dev = 1 /\ \A x \in M : x.dev = 1 => x = m
            BY <5>1
          <6> HIDE DEF m, M
          <6>2. KeyIn(M) = m.data
            BY <6>1, TheKeyIn
          <6>3. QED  BY <4>3, <6>2 DEF m, M
        <5>3. QED  BY <1>5, <5>2 DEF KeyIn
      <4>6. KeyIn(Range(q)) = <<k>>
        BY <1>2, <1>3, <2>9, <2>11, <4>3, KeyOfAnswers
      <4>7. KeyIn(Range(r)) = <<>>
        BY <1>3, <3>1, KeyOfAnswers
      <4>8. KeyIn(Range(spike.answers))' = <<>>
        BY <2>4, <4>7 DEF KeyIn, Range
      <4>9. got \in Seq(Nat) /\ spike.unread \in Seq(Nat)
        BY <1>1 DEF HtifInv, HartTypes, HostTypes
      <4>10. got \o <<>> \o <<>> \o <<k>> \o spike.unread = [n \in 1 .. spike.typed |-> n]
        BY <2>1, <2>4, <4>2, <4>4, <4>6 DEF Console, InOrder
      <4>11. got \o <<>> \o <<k>> \o <<>> \o spike.unread = [n \in 1 .. spike.typed |-> n]
        BY <4>9, <4>10, KeyMoves
      <4>12. QED  BY <1>0, <1>4, <4>2, <4>5, <4>8, <4>11 DEF InOrder
    <3>4. QED  BY <2>2, <2>3, <2>7, <3>2, <3>3 DEF Console
  <2>12. CASE q[1] \notin Keys
    <3>1. fromhost' \notin Keys /\ fromhost \notin Keys
      BY <1>0, <1>5, <2>12, MessageFacts
    <3>2. OneKey'
      <4>1. \A n \in DOMAIN r : r[n] \in Keys => v = "answers"
        BY <2>4, <2>5, <2>8 DEF KeyIs
      <4>2. KeyIs(v)'
        BY <1>0, <1>1, <1>4, <2>4, <2>8, <2>10, <3>1, <4>1 DEF KeyIs, Keys, Read, Message
      <4>3. QED  BY <4>2 DEF OneKey
    <3>3. InOrder'
      <4>1. KeyIn({fromhost}) = <<>>
        BY <1>1, <3>1, KeyOfFromhost
      <4>2. KeyIn({fromhost})' = <<>>
        <5>1. \A m \in {q[1]} : m.dev # 1
          BY <1>5, <2>12, MessageFacts DEF Answers
        <5>2. KeyIn({q[1]}) = <<>>
          BY <5>1, NoKeyIn
        <5>3. QED  BY <1>5, <5>2 DEF KeyIn
      <4>3. \A n \in DOMAIN q : q[n] \in Keys => \E m \in DOMAIN r : r[m] = q[n]
        BY <1>3, <2>12
      <4>4. \A n \in DOMAIN r : r[n] \in Keys => \E m \in DOMAIN q : q[m] = r[n]
        BY <2>5
      <4>5. KeyIn(Range(r)) = KeyIn(Range(q))
        BY <1>2, <1>3, <2>9, <2>10, <4>3, <4>4, SameKey
      <4>6. KeyIn(Range(spike.answers))' = KeyIn(Range(spike.answers))
        BY <2>4, <4>5 DEF KeyIn, Range
      <4>7. KeyInBuffer' = KeyInBuffer
        BY <1>0 DEF KeyInBuffer
      <4>8. QED  BY <1>0, <1>4, <2>1, <4>1, <4>2, <4>6, <4>7 DEF Console, InOrder
    <3>4. QED  BY <2>2, <2>3, <2>7, <3>2, <3>3 DEF Console
  <2>13. QED  BY <2>11, <2>12
<1>8. QED  BY <1>1, <1>6, <1>7 DEF HtifInv

\* A key typed is the last of those unread.
LEMMA TypeKeeps == HtifInv /\ Type => HtifInv'
<1> SUFFICES ASSUME HtifInv, Type  PROVE HtifInv'
  OBVIOUS
<1>0. /\ UNCHANGED <<at, call, back, fh, calls, put, got, confused>>
      /\ UNCHANGED <<htif_lock, tohost, fromhost, htif_console_buf, screen>>
      /\ spike' = [spike EXCEPT !.typed = @ + 1, !.unread = Append(@, spike.typed + 1)]
  BY DEF Type, hartVars, mailVars
<1>1. /\ MailTypes /\ HostTypes /\ (~Stopping => Console)
      /\ HartTypes' /\ Locked' /\ HartsPlaced' /\ (~Stopping' => ~Stopping)
      /\ Asking' <=> Asking
      /\ Unsent' <=> Unsent
      /\ \A g \in Harts : Waiting(g) => Waiting(g)'
      /\ \A g \in Harts : Sending(g)' <=> Sending(g)
  BY <1>0, HartsRest DEF HtifInv
<1>2. spike.typed \in Nat /\ spike.unread \in Seq(Nat)
  BY <1>1 DEF HostTypes
<1>3. /\ spike'.reads = spike.reads /\ spike'.answers = spike.answers
      /\ spike'.unread = Append(spike.unread, spike.typed + 1) /\ spike'.typed = spike.typed + 1
  BY <1>0, <1>1 DEF HostTypes
<1>4. MailTypes' /\ HostTypes'
  <2>1. spike' \in [reads : Nat, answers : Seq(Answers), typed : Nat, unread : Seq(Nat), on : BOOLEAN]
    <3> DEFINE j == spike.typed + 1
               u == Append(spike.unread, j)
    <3>1. j \in Nat /\ u \in Seq(Nat) /\ spike' = [spike EXCEPT !.typed = j, !.unread = u]
      BY <1>0, <1>2
    <3> HIDE DEF j, u
    <3>2. QED  BY <1>1, <3>1 DEF HostTypes
  <2>2. HostTypes'
    BY <1>0, <1>1, <2>1 DEF HostTypes, Answers, SysCalls, Keys, Message
  <2>3. MailTypes'
    BY <1>0, <1>1 DEF MailTypes, Requests, Answers, SysCalls, Shows, Keys, Read, Empty, Exit, Message
  <2>4. QED  BY <2>2, <2>3
<1>5. ASSUME ~Stopping'  PROVE Console'
  <2>1. Console
    BY <1>1, <1>5
  <2>2. Reading'
    BY <1>0, <2>1 DEF Console, Reading, Empty, Keys, Message
  <2>3. Shown'
    <3>1. Showing' = Showing
      BY <1>0 DEF Showing
    <3>2. QED  BY <1>0, <1>1, <2>1, <3>1 DEF Console, Shown
  <2>4. OneAnswer'
    BY <1>0, <1>1, <1>3, <2>1, AnswerKept DEF Console
  <2>5. OneKey'
    BY <1>0, <1>1, <1>3, <2>1, KeyKept DEF Console
  <2>6. InOrder'
    <3> DEFINE line == got \o KeyInBuffer \o KeyIn({fromhost}) \o KeyIn(Range(spike.answers))
    <3>1. KeyIn({fromhost})' = KeyIn({fromhost}) /\ KeyInBuffer' = KeyInBuffer
      BY <1>0 DEF KeyIn, KeyInBuffer
    <3>2. KeyIn(Range(spike.answers))' = KeyIn(Range(spike.answers))
      BY <1>3 DEF KeyIn, Range
    <3>3. line \in Seq(Nat)
      <4>1. got \in Seq(Nat)
        BY DEF HtifInv, HartTypes
      <4>2. KeyInBuffer \in Seq(Nat)
        <5>1. htif_console_buf > 0 => htif_console_buf - 1 \in Nat
          BY <1>1 DEF MailTypes
        <5>2. QED  BY <5>1 DEF KeyInBuffer
      <4>3. \A m \in Keys : m.data \in Seq(Nat)
        <5>1. \A n \in Nat : <<n>> \in Seq(Nat)
          OBVIOUS
        <5>2. QED  BY <5>1, MessageFacts
      <4>4. KeyIn({fromhost}) \in Seq(Nat)
        <5>1. <<>> \in Seq(Nat)
          OBVIOUS
        <5>2. QED  BY <1>1, <4>3, <5>1, KeyOfFromhost
      <4>5. KeyIn(Range(spike.answers)) \in Seq(Nat)
        <5>1. spike.answers \in Seq(Answers) /\ <<>> \in Seq(Nat)
          BY <1>1 DEF HostTypes
        <5>2. \A m, n \in DOMAIN spike.answers :
                spike.answers[m] \in Keys /\ spike.answers[n] \in Keys => m = n
          BY <2>1 DEF Console, OneKey, KeyIs
        <5>3. CASE \A n \in DOMAIN spike.answers : spike.answers[n] \notin Keys
          BY <5>1, <5>3, KeyOfAnswers
        <5>4. ASSUME NEW n \in DOMAIN spike.answers, spike.answers[n] \in Keys
              PROVE  KeyIn(Range(spike.answers)) \in Seq(Nat)
          <6>1. KeyIn(Range(spike.answers)) = spike.answers[n].data
            BY <5>1, <5>2, <5>4, KeyOfAnswers
          <6>2. QED  BY <4>3, <5>4, <6>1
        <5>5. QED  BY <5>3, <5>4
      <4>6. QED  BY <4>1, <4>2, <4>4, <4>5
    <3>4. line \o spike.unread = [n \in 1 .. spike.typed |-> n]
      BY <2>1 DEF Console, InOrder
    <3>5. line' = line
      BY <1>0, <3>1, <3>2
    <3> HIDE DEF line
    <3>6. line \o Append(spike.unread, spike.typed + 1) = [n \in 1 .. spike.typed + 1 |-> n]
      <4>1. line \o spike.unread = FirstKeys(spike.typed)
        BY <3>4 DEF FirstKeys
      <4>2. line \o Append(spike.unread, spike.typed + 1) = FirstKeys(spike.typed + 1)
        BY <1>2, <3>3, <4>1, KeyTyped
      <4>3. QED  BY <4>2 DEF FirstKeys
    <3>7. line' \o spike'.unread = [n \in 1 .. spike'.typed |-> n]
      BY <1>3, <3>5, <3>6
    <3>8. QED  BY <3>7 DEF InOrder, line
  <2>7. QED  BY <2>2, <2>3, <2>4, <2>5, <2>6 DEF Console
<1>6. QED  BY <1>1, <1>4, <1>5 DEF HtifInv

\* At power on nobody is inside and nothing is on its way.
LEMMA HtifStarts == HtifInit => HtifInv
<1> SUFFICES ASSUME HtifInit  PROVE HtifInv
  OBVIOUS
<1>1. /\ at = [h \in Harts |-> "idle"] /\ call = at /\ back = at
      /\ fh = [h \in Harts |-> Empty] /\ calls = [h \in Harts |-> 0]
      /\ htif_lock = 0 /\ tohost = Empty /\ fromhost = Empty /\ htif_console_buf = 0
      /\ spike = [reads |-> 0, answers |-> <<>>, typed |-> 0, unread |-> <<>>, on |-> TRUE]
      /\ screen = <<>> /\ put = <<>> /\ got = <<>> /\ confused = FALSE
  BY DEF HtifInit
<1>2. HartTypes
  BY <1>1 DEF HartTypes, Outside
<1>3. MailTypes /\ HostTypes
  BY <1>1 DEF MailTypes, HostTypes
<1>4. Locked /\ HartsPlaced
  BY <1>1 DEF Locked, HartsPlaced, Placed, Inside
<1>5. \A h \in Harts : ~Sending(h)
  BY <1>1 DEF Sending
<1>6. /\ fromhost \notin SysCalls /\ fromhost \notin Keys
      /\ tohost \notin SysCalls /\ tohost # Read
  BY <1>1, MessageFacts
<1>7. /\ spike.answers = <<>> /\ DOMAIN spike.answers = {} /\ spike.reads = 0
      /\ spike.unread = <<>> /\ spike.typed = 0
  BY <1>1
<1>8. Reading
  BY <1>1 DEF Reading
<1>9. OneAnswer
  <2>1. AnswerIs("tohost")
    BY <1>6, <1>7 DEF AnswerIs
  <2>2. QED  BY <2>1 DEF OneAnswer
<1>10. OneKey
  <2>1. KeyIs("nowhere")
    BY <1>5, <1>6, <1>7 DEF KeyIs, Asking
  <2>2. QED  BY <2>1 DEF OneKey
<1>11. Shown
  <2>1. Showing = <<>>
    BY <1>1, MessageFacts DEF Showing
  <2>2. <<>> \o <<>> = <<>>
    OBVIOUS
  <2>3. QED  BY <1>1, <1>5, <2>1, <2>2 DEF Shown, Unsent
<1>12. InOrder
  <2>1. KeyInBuffer = <<>>
    BY <1>1 DEF KeyInBuffer
  <2>2. KeyIn({fromhost}) = <<>>
    BY <1>3, <1>6, KeyOfFromhost
  <2>3. KeyIn(Range(spike.answers)) = <<>>
    BY <1>3, <1>7, KeyOfAnswers DEF HostTypes
  <2>4. <<>> \o <<>> \o <<>> \o <<>> \o <<>> = [n \in 1 .. 0 |-> n]
    OBVIOUS
  <2>5. QED  BY <1>1, <1>7, <2>1, <2>2, <2>3, <2>4 DEF InOrder
<1>13. QED  BY <1>2, <1>3, <1>4, <1>8, <1>9, <1>10, <1>11, <1>12 DEF HtifInv, Console

\* Every step of a hart, of the host and of the one who types keeps the order.
LEMMA HtifKeeps == HtifInv /\ [HtifNext]_htifVars => HtifInv'
<1> SUFFICES ASSUME HtifInv, [HtifNext]_htifVars  PROVE HtifInv'
  OBVIOUS
<1>1. ASSUME NEW h \in Harts, HartStep(h)  PROVE HtifInv'
  BY <1>1, ReadKeeps, TrylockKeeps, UnlockKeeps, CheckKeeps, TakeKeeps, SetTohostKeeps,
     GetcharKeeps, AnswerKeeps, PoweroffKeeps DEF HartStep
<1>2. ASSUME NEW h \in Harts, CallPoweroff(h)  PROVE HtifInv'
  BY <1>2, CallPoweroffKeeps
<1>3. ASSUME NEW h \in Harts, NEW f \in {"getchar", "putchar", "syscall"}, Begin(h, f)
      PROVE  HtifInv'
  BY <1>3, BeginKeeps
<1>4. CASE Host
  BY <1>4, HostTakesKeeps, HostGivesKeyKeeps, HostAnswersKeeps DEF Host
<1>5. CASE Type
  BY <1>5, TypeKeeps
<1>6. CASE UNCHANGED htifVars
  <2>1. /\ UNCHANGED <<at, call, back, fh, calls, put, got, confused, htif_lock>>
        /\ UNCHANGED <<tohost, fromhost, htif_console_buf, spike, screen>>
    BY <1>6 DEF htifVars
  <2>2. HartTypes' /\ Locked' /\ HartsPlaced' /\ (~Stopping' => ~Stopping)
        /\ (Asking' <=> Asking) /\ (Unsent' <=> Unsent)
        /\ (\A g \in Harts : Waiting(g) => Waiting(g)')
        /\ (\A g \in Harts : Sending(g)' <=> Sending(g))
    BY <2>1, HartsRest
  <2>3. htif_lock' \in {0, -1} /\ MailTypes /\ HostTypes
    BY <2>1 DEF HtifInv, MailTypes
  <2>4. MailTypes' /\ HostTypes'
    BY <2>1, <2>3, MailKept
  <2>5. ASSUME ~Stopping'  PROVE Console'
    <3>1. Console
      BY <2>2, <2>5 DEF HtifInv
    <3>2. Reading'
      BY <2>1, <3>1 DEF Console, Reading, Empty, Keys, Message
    <3>3. OneAnswer' /\ OneKey'
      BY <2>1, <2>2, <3>1, AnswerKept, KeyKept DEF Console
    <3>4. Shown'
      <4>1. Showing' = Showing
        BY <2>1 DEF Showing
      <4>2. QED  BY <2>1, <2>2, <3>1, <4>1 DEF Console, Shown
    <3>5. InOrder'
      <4>1. KeyIn({fromhost})' = KeyIn({fromhost})
        BY <2>1 DEF KeyIn
      <4>2. QED  BY <2>1, <3>1, <4>1, OrderKept DEF Console
    <3>6. QED  BY <3>2, <3>3, <3>4, <3>5 DEF Console
  <2>6. QED  BY <2>2, <2>4, <2>5 DEF HtifInv
<1>7. QED  BY <1>1, <1>2, <1>3, <1>4, <1>5, <1>6 DEF HtifNext

\* For any number of harts: no character and no key is lost, doubled or out of
\* order, and no answer goes to another than the one who waits for it, until a
\* hart powers off (htif.c:19, htif.c:53).
THEOREM ConsoleIsExact == HtifSpec => []HtifExact
<1>1. HtifInv => HtifExact
  BY DEF HtifInv, Console, Reading, Shown, Showing, InOrder, HtifExact
<1>2. QED  BY <1>1, HtifStarts, HtifKeeps, PTL DEF HtifSpec

-----------------------------------------------------------------------------
(* The memory of the simulated guest (GuestMemory).                          *)

\* The cells of the array and those behind it that a wide read reaches.
Array == 0 .. CONFIG_MSIZE + Wide - 2
\* The array holds what was put at an address.
Holds(content, marks, a) == marks[a] # -1 => content[a - CONFIG_MBASE] = marks[a]

\* What a load returns is right because of what memory holds.
GuestInv ==
  /\ pmem \in [Array -> Byte]
  /\ stored \in [Guest -> Byte \cup {-1}]
  /\ \A a \in Guest : Holds(pmem, stored, a)
  /\ GuestMemoryExact

LEMMA GuestSizes ==
  /\ Base \in Nat /\ Base >= 2 /\ Wide \in Nat /\ Wide >= 2
  /\ CONFIG_MBASE \in Nat /\ CONFIG_MBASE > 0 /\ CONFIG_MSIZE \in Nat /\ CONFIG_MSIZE > 0
  /\ \A len \in Lengths : len \in Nat /\ 1 <= len /\ len <= Wide
  /\ Wide \div 2 \in Nat /\ 1 <= Wide \div 2 /\ Wide \div 2 <= Wide
<1>1. /\ Base \in Nat /\ Base >= 2 /\ Wide \in Nat /\ Wide >= 2
      /\ CONFIG_MBASE \in Nat /\ CONFIG_MBASE > 0 /\ CONFIG_MSIZE \in Nat /\ CONFIG_MSIZE > 0
  BY GuestMemoryAssumption
<1>2. Wide \div 2 \in Nat /\ 1 <= Wide \div 2 /\ Wide \div 2 <= Wide
  BY <1>1
<1>3. QED  BY <1>1, <1>2 DEF Lengths

\* An address of the guest has its byte in the array, and so have the bytes
\* a read from there takes beyond it.
LEMMA InTheArray ==
  ASSUME NEW a \in Guest, NEW i \in 0 .. Wide - 1
  PROVE  a \in Nat /\ a > 0 /\ (a - CONFIG_MBASE) + i \in Array
  BY GuestSizes DEF Guest, Array

\* Of what is read at an address each byte is the one that was put there.
LEMMA ReadsWhatWasPut ==
  ASSUME GuestInv, NEW addr \in Guest, NEW len \in 0 .. Wide, NEW i \in 0 .. Wide - 1, i < len
  PROVE  Agrees(addr + i, pmem_read(addr, len)[i])
<1>1. pmem_read(addr, len)[i] = pmem[(addr - CONFIG_MBASE) + i]
  BY DEF pmem_read, host_read, guest_to_host
<1>2. ASSUME addr + i \in Guest  PROVE Holds(pmem, stored, addr + i)
  BY <1>2 DEF GuestInv
<1>3. (addr - CONFIG_MBASE) + i = (addr + i) - CONFIG_MBASE
  BY InTheArray, GuestSizes
<1>4. QED  BY <1>1, <1>2, <1>3 DEF Agrees, Holds

LEMMA GuestStarts == GuestInit => GuestInv
<1> SUFFICES ASSUME GuestInit  PROVE GuestInv
  OBVIOUS
<1>1. PICK filled, behind \in Byte :
        pmem = [c \in 0 .. CONFIG_MSIZE + Wide - 2 |-> IF c \in Cells THEN filled ELSE behind]
  BY DEF GuestInit, init_mem
<1>2. pmem \in [Array -> Byte]
  BY <1>1 DEF Array
<1>3. stored \in [Guest -> Byte \cup {-1}] /\ \A a \in Guest : Holds(pmem, stored, a)
  BY DEF GuestInit, Holds
<1>4. GuestMemoryExact
  BY DEF GuestInit, NoAccess, GuestMemoryExact
<1>5. QED  BY <1>2, <1>3, <1>4 DEF GuestInv

\* What an image of bytes leaves where it is put, over whatever was there.
LEMMA OverKeeps ==
  ASSUME NEW bytes, NEW content, NEW c \in DOMAIN content
  PROVE  Over(bytes, content)[c] = IF c + 1 \in DOMAIN bytes THEN bytes[c + 1] ELSE content[c]
  BY DEF Over

LEMMA ImageLoaded ==
  ASSUME GuestInv, NEW file \in Files, load_img(file)
  PROVE  GuestInv'
<1> DEFINE blank == [c \in Cells |-> -1]
           array1 == Over(img, pmem)
           marks1 == Over(img, blank)
<1>1. pmem' = Over(file, array1) /\ stored' = [a \in Guest |-> Over(file, marks1)[a - CONFIG_MBASE]]
  BY DEF load_img
<1>2. \A f \in {file, img} : \A n \in DOMAIN f : f[n] \in Byte
  BY GuestMemoryAssumption DEF Byte
<1>3. array1 \in [Array -> Byte] /\ marks1 \in [Cells -> Byte \cup {-1}]
  <2>1. DOMAIN pmem = Array /\ \A c \in Array : pmem[c] \in Byte
    BY DEF GuestInv
  <2>2. QED  BY <1>2, <2>1 DEF Over
<1>4. \A c \in Cells : c \in Array
  BY GuestSizes DEF Cells, Array
<1>5. \A c \in Cells : marks1[c] = -1 \/ marks1[c] = array1[c]
  <2>1. DOMAIN pmem = Array
    BY DEF GuestInv
  <2>2. QED  BY <1>4, <2>1 DEF Over
<1> HIDE DEF array1, marks1
<1>6. pmem' \in [Array -> Byte]
  BY <1>1, <1>2, <1>3 DEF Over
<1>7. \A c \in Cells : /\ Over(file, marks1)[c] \in Byte \cup {-1}
                       /\ Over(file, marks1)[c] = -1 \/ Over(file, marks1)[c] = Over(file, array1)[c]
  BY <1>2, <1>3, <1>4, <1>5 DEF Over
<1>8. \A a \in Guest : a - CONFIG_MBASE \in Cells
  BY GuestSizes DEF Guest, Cells
<1>9. stored' \in [Guest -> Byte \cup {-1}]
  BY <1>1, <1>7, <1>8
<1>10. \A a \in Guest : Holds(pmem', stored', a)
  BY <1>1, <1>7, <1>8 DEF Holds
<1>11. GuestMemoryExact'
  BY DEF load_img, GuestMemoryExact
<1>12. QED  BY <1>6, <1>9, <1>10, <1>11 DEF GuestInv, Holds

LEMMA FetchReturns ==
  ASSUME GuestInv, NEW addr, dpi_instr_mem_read(addr)
  PROVE  GuestInv'
<1>1. /\ access' = [did |-> "fetch", addr |-> addr,
                    value |-> IF addr \in Guest THEN pmem_read(addr, Wide \div 2) ELSE Zero]
      /\ pmem' = pmem /\ stored' = stored
  BY DEF dpi_instr_mem_read
<1>2. ASSUME addr \in Guest, NEW i \in 0 .. Wide \div 2 - 1
      PROVE  Agrees(addr + i, pmem_read(addr, Wide \div 2)[i])
  <2>1. Wide \div 2 \in 0 .. Wide /\ i \in 0 .. Wide - 1 /\ i < Wide \div 2
    BY GuestSizes
  <2>2. QED  BY <1>2, <2>1, ReadsWhatWasPut
<1>3. GuestMemoryExact'
  BY <1>1, <1>2 DEF GuestMemoryExact, Agrees
<1>4. QED  BY <1>1, <1>3 DEF GuestInv, Holds

LEMMA LoadReturns ==
  ASSUME GuestInv, NEW addr \in Guest, NEW len \in Lengths, NEW signed \in BOOLEAN,
         Load(addr, len, signed)
  PROVE  GuestInv'
<1> DEFINE rdata == pmem_read(addr, Wide)
           value == memory_o_memdata(rdata, len, signed)
<1>1. /\ access' = [did |-> "load", addr |-> addr, len |-> len, signed |-> signed, value |-> value]
      /\ pmem' = pmem /\ stored' = stored
  <2>1. addr # 0
    BY GuestSizes DEF Guest
  <2>2. QED  BY <2>1 DEF Load, dpi_mem_read
<1>2. len \in Nat /\ 1 <= len /\ len <= Wide /\ Wide \in Nat
  BY GuestSizes
<1>3. \A i \in 0 .. Wide - 1 : Agrees(addr + i, rdata[i])
  BY <1>2, ReadsWhatWasPut
<1> HIDE DEF rdata
<1>4. \A i \in 0 .. Wide - 1 :
        value[i] = IF i < len THEN rdata[i]
                   ELSE IF signed /\ 2 * rdata[len - 1] >= Base THEN Base - 1 ELSE 0
  BY DEF memory_o_memdata
<1>5. value[len - 1] = rdata[len - 1]
  BY <1>2, <1>4
<1> HIDE DEF value
<1>6. GuestMemoryExact'
  BY <1>1, <1>3, <1>4, <1>5 DEF GuestMemoryExact, Agrees
<1>7. QED  BY <1>1, <1>6 DEF GuestInv, Holds

LEMMA StoreKeeps ==
  ASSUME GuestInv, NEW addr \in Guest \cup {CONFIG_SERIAL_MMIO}, NEW len \in Lengths,
         NEW data \in Values, dpi_mem_write(addr, len, data)
  PROVE  GuestInv'
<1>1. access' = [did |-> "store"]
  BY DEF dpi_mem_write
<1>2. GuestMemoryExact'
  BY <1>1 DEF GuestMemoryExact
<1>3. CASE addr = CONFIG_SERIAL_MMIO
  BY <1>2, <1>3 DEF dpi_mem_write, GuestInv, Holds
<1>4. CASE addr # CONFIG_SERIAL_MMIO
  <2> DEFINE cell == addr - CONFIG_MBASE
  <2>1. addr \in Guest
    BY <1>4
  <2>2. /\ pmem' = [c \in DOMAIN pmem |-> IF c \in cell .. cell + len - 1 THEN data[c - cell] ELSE pmem[c]]
        /\ stored' = [a \in Guest |-> IF a \in addr .. addr + len - 1 THEN data[a - addr] ELSE stored[a]]
    BY <1>4 DEF dpi_mem_write, pmem_write, host_write, guest_to_host
  <2>3. len \in Nat /\ 1 <= len /\ len <= Wide /\ addr \in Nat /\ CONFIG_MBASE \in Nat
    BY <2>1, GuestSizes DEF Guest
  <2>4. \A i \in 0 .. Wide - 1 : data[i] \in Byte
    BY GuestMemoryAssumption DEF Byte
  <2>5. \A c \in Int : c \in cell .. cell + len - 1 => c - cell \in 0 .. Wide - 1
    BY <2>3, GuestSizes
  <2>6. \A a \in Int : a \in addr .. addr + len - 1 => a - addr \in 0 .. Wide - 1
    BY <2>3, GuestSizes
  <2>7. \A a \in Guest : /\ a - CONFIG_MBASE \in Array
                         /\ a \in addr .. addr + len - 1 <=> a - CONFIG_MBASE \in cell .. cell + len - 1
                         /\ a - addr = (a - CONFIG_MBASE) - cell
    BY <2>3, GuestSizes DEF Guest, Array
  <2> HIDE DEF cell
  <2>8. DOMAIN pmem = Array /\ \A c \in Array : c \in Int /\ pmem[c] \in Byte
    BY DEF GuestInv, Array
  <2>9. pmem' \in [Array -> Byte]
    BY <2>2, <2>4, <2>5, <2>8
  <2>10. \A a \in Guest : a \in Int /\ stored[a] \in Byte \cup {-1}
    BY DEF GuestInv, Guest
  <2>11. stored' \in [Guest -> Byte \cup {-1}]
    BY <2>2, <2>4, <2>6, <2>10
  <2>12. \A a \in Guest : Holds(pmem', stored', a)
    <3>1. SUFFICES ASSUME NEW a \in Guest  PROVE Holds(pmem', stored', a)
      OBVIOUS
    <3>2. Holds(pmem, stored, a)
      BY DEF GuestInv
    <3>3. CASE a \in addr .. addr + len - 1
      BY <2>2, <2>7, <2>8, <3>3 DEF Holds
    <3>4. CASE a \notin addr .. addr + len - 1
      BY <2>2, <2>7, <2>8, <3>2, <3>4 DEF Holds
    <3>5. QED  BY <3>3, <3>4
  <2>13. QED  BY <1>2, <2>9, <2>11, <2>12 DEF GuestInv, Holds
<1>5. QED  BY <1>3, <1>4

LEMMA GuestKeeps == GuestInv /\ [GuestNext]_guestVars => GuestInv'
<1> SUFFICES ASSUME GuestInv, [GuestNext]_guestVars  PROVE GuestInv'
  OBVIOUS
<1>1. ASSUME NEW f \in Files, load_img(f)  PROVE GuestInv'
  BY <1>1, ImageLoaded
<1>2. ASSUME NEW a, dpi_instr_mem_read(a)  PROVE GuestInv'
  BY <1>2, FetchReturns
<1>3. ASSUME NEW a \in Guest, NEW len \in Lengths, NEW signed \in BOOLEAN, Load(a, len, signed)
      PROVE  GuestInv'
  BY <1>3, LoadReturns
<1>4. ASSUME NEW a \in Guest \cup {CONFIG_SERIAL_MMIO}, NEW len \in Lengths, NEW data \in Values,
             dpi_mem_write(a, len, data)
      PROVE  GuestInv'
  BY <1>4, StoreKeeps
<1>5. CASE UNCHANGED guestVars
  BY <1>5 DEF guestVars, GuestInv, Holds, GuestMemoryExact, Agrees
<1>6. QED  BY <1>1, <1>2, <1>3, <1>4, <1>5 DEF GuestNext

\* Byte by byte a load returns what was put there, whatever the widths, the
\* overlaps and the ends of memory (memory.v:34, memory.c:19, dpi.c:13).
THEOREM GuestMemoryIsExact == GuestSpec => []GuestMemoryExact
<1>1. GuestInv => GuestMemoryExact
  BY DEF GuestInv
<1>2. QED  BY <1>1, GuestStarts, GuestKeeps, PTL DEF GuestSpec
=============================================================================
