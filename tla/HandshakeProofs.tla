--------------------------- MODULE HandshakeProofs ---------------------------
(***************************************************************************)
(* Proofs about Handshake, for every set of items.                         *)
(***************************************************************************)
EXTENDS Handshake, SequenceTheorems, TLAPS

\* The wires and registers keep their types, whatever the stages compute.
THEOREM TypeCorrect == Spec => []TypeOK
<1>1. Init => TypeOK
  BY DEF Init, TypeOK
<1>2. TypeOK /\ [Next]_vars => TypeOK'
  <2> SUFFICES ASSUME TypeOK, [Next]_vars PROVE TypeOK'
    OBVIOUS
  <2>1. CASE ResetClock
    <3>1. reg' \in [Stage -> Data]
      BY <2>1 DEF ResetClock, NextReg, TypeOK, Stage
    <3>2. QED
      BY <2>1, <3>1 DEF ResetClock, TypeOK
  <2>2. CASE Clock
    <3>1. reg' \in [Stage -> Data]
      BY <2>2 DEF Clock, NextReg, TypeOK, Stage
    <3>2. valid' \in [Stage -> BOOLEAN]
      BY <2>2, Zenon DEF Clock, NextValid, TypeOK, Stage, x_allow_in, y_allow_in,
         z_allow_in, x_to_y_valid, y_to_z_valid
    <3>3. out' \in Data
      BY <2>2 DEF Clock, TypeOK, Stage
    <3>4. QED
      BY <2>2, <3>1, <3>2, <3>3 DEF Clock, TypeOK
  <2>3. CASE UNCHANGED vars
    BY <2>3 DEF vars, TypeOK
  <2>4. QED
    BY <2>1, <2>2, <2>3 DEF Next
<1>3. QED
  BY <1>1, <1>2, PTL DEF Spec

-----------------------------------------------------------------------------
\* What one edge with reset low does to each stage, in terms of the wires.
LEMMA ClockStages ==
  ASSUME TypeOK, NEW d \in Data, valid' = NextValid, reg' = NextReg(d)
  PROVE  /\ valid'["x"]
         /\ valid'["y"] <=> IF y_allow_in THEN x_to_y_valid ELSE valid["y"]
         /\ valid'["z"] <=> IF z_allow_in THEN y_to_z_valid ELSE valid["z"]
         /\ reg'["x"] = IF x_allow_in THEN d ELSE reg["x"]
         /\ reg'["y"] = IF XLeaves THEN reg["x"] ELSE reg["y"]
         /\ reg'["z"] = IF YLeaves THEN reg["y"] ELSE reg["z"]
<1>1. valid'["x"]
  <2>1. x_allow_in \/ valid["x"]
    BY Zenon DEF x_allow_in
  <2>2. QED
    BY <2>1, Zenon DEF NextValid, Stage
<1>2. valid'["y"] <=> IF y_allow_in THEN x_to_y_valid ELSE valid["y"]
  BY Zenon DEF NextValid, Stage
<1>3. valid'["z"] <=> IF z_allow_in THEN y_to_z_valid ELSE valid["z"]
  BY Zenon DEF NextValid, Stage
<1>4. reg'["x"] = IF x_allow_in THEN d ELSE reg["x"]
  BY Zenon DEF NextReg, Stage
<1>5. reg'["y"] = IF XLeaves THEN reg["x"] ELSE reg["y"]
  BY Zenon DEF NextReg, Stage, XLeaves
<1>6. reg'["z"] = IF YLeaves THEN reg["y"] ELSE reg["z"]
  BY Zenon DEF NextReg, Stage, YLeaves
<1>7. QED
  BY <1>1, <1>2, <1>3, <1>4, <1>5, <1>6

\* The source never idles and a blocked full pipeline stands still.
THEOREM SourceIsNeverDry == Spec => SourceNeverDry
<1>1. TypeOK /\ [Next]_vars =>
        [~reset => /\ valid'["x"]
                   /\ valid = [s \in Stage |-> TRUE] /\ ~ready_go["z"]
                         => valid' = valid /\ reg' = reg]_vars
  <2> SUFFICES ASSUME TypeOK, Next, ~reset
               PROVE  /\ valid'["x"]
                      /\ valid = [s \in Stage |-> TRUE] /\ ~ready_go["z"]
                           => valid' = valid /\ reg' = reg
    BY DEF vars
  <2>1. PICK d \in Data : valid' = NextValid /\ reg' = NextReg(d)
    BY DEF Next, ResetClock, Clock
  <2>2. valid'["x"]
    BY <2>1, ClockStages
  <2>3. ASSUME valid = [s \in Stage |-> TRUE], ~ready_go["z"]
        PROVE  valid' = valid /\ reg' = reg
    <3>1. valid["x"] /\ valid["y"] /\ valid["z"]
      BY <2>3 DEF Stage
    <3>2. ~z_allow_in /\ ~y_allow_in /\ ~x_allow_in /\ ~XLeaves /\ ~YLeaves
      BY <2>3, <3>1 DEF z_allow_in, y_allow_in, x_allow_in, XLeaves, YLeaves
    <3>3. valid' = valid
      <4>1. valid' = [s \in Stage |-> TRUE]
        BY <2>1, <3>1, <3>2, Zenon DEF NextValid, Stage
      <4>2. QED
        BY <4>1, <2>3
    <3>4. reg' = [s \in Stage |-> reg[s]]
      BY <2>1, <3>2, Zenon DEF NextReg, XLeaves, YLeaves, Stage
    <3>5. QED
      BY <3>3, <3>4 DEF TypeOK
  <2>4. QED
    BY <2>2, <2>3
<1>2. QED
  BY <1>1, TypeCorrect, PTL DEF Spec, SourceNeverDry

-----------------------------------------------------------------------------
\* Short sequences are determined by their elements.
LEMMA AppendToShort ==
  ASSUME NEW a \in Data, NEW b \in Data, NEW c \in Data
  PROVE  /\ Append(<<>>, a) = <<a>>
         /\ Append(<<a>>, b) = <<a, b>>
         /\ Append(<<a, b>>, c) = <<a, b, c>>
<1>1. Append(<<>>, a) = <<a>>
  OBVIOUS
<1>2. Append(<<a>>, b) = <<a, b>>
  <2>1. <<a>> \in Seq(Data) /\ Len(<<a>>) = 1
    OBVIOUS
  <2>2. /\ Append(<<a>>, b) \in Seq(Data) /\ <<a, b>> \in Seq(Data)
        /\ Len(Append(<<a>>, b)) = 2 /\ Len(<<a, b>>) = 2
    BY <2>1, AppendProperties
  <2>3. \A i \in 1 .. 2 : Append(<<a>>, b)[i] = <<a, b>>[i]
    BY <2>1, AppendProperties
  <2>4. QED
    BY <2>2, <2>3, SeqEqual, Zenon
<1>3. Append(<<a, b>>, c) = <<a, b, c>>
  <2>1. <<a, b>> \in Seq(Data) /\ Len(<<a, b>>) = 2
    OBVIOUS
  <2>2. /\ Append(<<a, b>>, c) \in Seq(Data) /\ <<a, b, c>> \in Seq(Data)
        /\ Len(Append(<<a, b>>, c)) = 3 /\ Len(<<a, b, c>>) = 3
    BY <2>1, AppendProperties
  <2>3. ASSUME NEW i \in 1 .. 3
        PROVE  Append(<<a, b>>, c)[i] = <<a, b, c>>[i]
    <3>1. i = 1 \/ i = 2 \/ i = 3
      OBVIOUS
    <3>2. QED
      BY <2>1, <3>1, AppendProperties
  <2>4. QED
    BY <2>2, <2>3, SeqEqual, Zenon
<1>4. QED
  BY <1>1, <1>2, <1>3

\* Joining a sequence and a single item appends the item.
LEMMA JoinOne ==
  ASSUME NEW s \in Seq(Data), NEW a \in Data
  PROVE  s \o <<a>> = Append(s, a)
<1>1. <<a>> \in Seq(Data) /\ Len(<<a>>) = 1 /\ <<a>>[1] = a
  OBVIOUS
<1>2. /\ s \o <<a>> \in Seq(Data) /\ Append(s, a) \in Seq(Data)
      /\ Len(s \o <<a>>) = Len(s) + 1 /\ Len(Append(s, a)) = Len(s) + 1
      /\ Len(s) \in Nat
  BY <1>1, AppendProperties, ConcatProperties, LenProperties
<1>3. ASSUME NEW i \in 1 .. Len(s) + 1
      PROVE  (s \o <<a>>)[i] = Append(s, a)[i]
  <2>1. (s \o <<a>>)[i] = IF i <= Len(s) THEN s[i] ELSE <<a>>[i - Len(s)]
    BY <1>1, ConcatProperties
  <2>2. CASE i \in 1 .. Len(s)
    BY <1>2, <2>1, <2>2, AppendProperties
  <2>3. CASE i = Len(s) + 1
    BY <1>1, <1>2, <2>1, <2>3, AppendProperties
  <2>4. QED
    BY <1>2, <2>2, <2>3
<1>4. QED
  BY <1>2, <1>3, SeqEqual, Zenon

\* Contents written out, for each choice of the valid bits.
LEMMA Joined ==
  ASSUME NEW a \in Data, NEW b \in Data, NEW c \in Data
  PROVE  /\ (<<a>> \o <<b>>) \o <<c>> = <<a, b, c>>
         /\ (<<a>> \o <<b>>) \o <<>> = <<a, b>>
         /\ (<<a>> \o <<>>) \o <<c>> = <<a, c>>
         /\ (<<a>> \o <<>>) \o <<>> = <<a>>
         /\ (<<>> \o <<b>>) \o <<c>> = <<b, c>>
         /\ (<<>> \o <<b>>) \o <<>> = <<b>>
         /\ (<<>> \o <<>>) \o <<c>> = <<c>>
         /\ (<<>> \o <<>>) \o <<>> = <<>>
<1>1. /\ <<>> \in Seq(Data) /\ <<a>> \in Seq(Data) /\ <<b>> \in Seq(Data)
      /\ <<c>> \in Seq(Data) /\ <<a, b>> \in Seq(Data)
  OBVIOUS
<1>2. \A s \in Seq(Data) : s \o <<>> = s /\ <<>> \o s = s
  BY ConcatEmptySeq
<1>3. \A s \in Seq(Data) : s \o <<b>> = Append(s, b) /\ s \o <<c>> = Append(s, c)
  BY JoinOne
<1>4. <<a>> \o <<b>> = <<a, b>>
  BY <1>1, <1>3, AppendToShort, Zenon
<1>5. (<<a>> \o <<b>>) \o <<c>> = <<a, b, c>>
  BY <1>1, <1>3, <1>4, AppendToShort, Zenon
<1>6. (<<a>> \o <<>>) \o <<c>> = <<a, c>>
  BY <1>1, <1>2, <1>3, AppendToShort, Zenon
<1>7. (<<>> \o <<b>>) \o <<c>> = <<b, c>>
  BY <1>1, <1>2, <1>3, AppendToShort, Zenon
<1>8. /\ (<<a>> \o <<b>>) \o <<>> = <<a, b>>
      /\ (<<a>> \o <<>>) \o <<>> = <<a>>
  BY <1>1, <1>2, <1>4, Zenon
<1>9. /\ (<<>> \o <<b>>) \o <<>> = <<b>>
      /\ (<<>> \o <<>>) \o <<c>> = <<c>>
      /\ (<<>> \o <<>>) \o <<>> = <<>>
  BY <1>1, <1>2, Zenon
<1>10. QED
  BY <1>5, <1>6, <1>7, <1>8, <1>9, Zenon

\* Contents as a function of the two registers it reads, so that its value
\* before an edge and after it follow from the same facts.
Items(v, r) ==
    ((IF v["z"] THEN <<r["z"]>> ELSE <<>>) \o (IF v["y"] THEN <<r["y"]>> ELSE <<>>))
      \o (IF v["x"] THEN <<r["x"]>> ELSE <<>>)

\* The queue of held items, written out for each pattern of valid stages.
LEMMA ItemsWrittenOut ==
  ASSUME NEW v, NEW r, r["x"] \in Data, r["y"] \in Data, r["z"] \in Data
  PROVE  /\ v["z"] /\ v["y"] /\ v["x"] => Items(v, r) = <<r["z"], r["y"], r["x"]>>
         /\ v["z"] /\ v["y"] /\ ~v["x"] => Items(v, r) = <<r["z"], r["y"]>>
         /\ v["z"] /\ ~v["y"] /\ v["x"] => Items(v, r) = <<r["z"], r["x"]>>
         /\ v["z"] /\ ~v["y"] /\ ~v["x"] => Items(v, r) = <<r["z"]>>
         /\ ~v["z"] /\ v["y"] /\ v["x"] => Items(v, r) = <<r["y"], r["x"]>>
         /\ ~v["z"] /\ v["y"] /\ ~v["x"] => Items(v, r) = <<r["y"]>>
         /\ ~v["z"] /\ ~v["y"] /\ v["x"] => Items(v, r) = <<r["x"]>>
         /\ ~v["z"] /\ ~v["y"] /\ ~v["x"] => Items(v, r) = <<>>
<1> DEFINE a == r["z"]
           b == r["y"]
           c == r["x"]
<1> a \in Data /\ b \in Data /\ c \in Data
  OBVIOUS
<1>1. Items(v, r) = ((IF v["z"] THEN <<a>> ELSE <<>>) \o (IF v["y"] THEN <<b>> ELSE <<>>))
                      \o (IF v["x"] THEN <<c>> ELSE <<>>)
  BY Zenon DEF Items
<1> HIDE DEF a, b, c
<1>2. v["z"] /\ v["y"] /\ v["x"] => Items(v, r) = <<a, b, c>>
  <2>1. (<<a>> \o <<b>>) \o <<c>> = <<a, b, c>>
    BY Joined
  <2>2. QED
    BY <1>1, <2>1, Zenon
<1>3. v["z"] /\ v["y"] /\ ~v["x"] => Items(v, r) = <<a, b>>
  <2>1. (<<a>> \o <<b>>) \o <<>> = <<a, b>>
    BY Joined
  <2>2. QED
    BY <1>1, <2>1, Zenon
<1>4. v["z"] /\ ~v["y"] /\ v["x"] => Items(v, r) = <<a, c>>
  <2>1. (<<a>> \o <<>>) \o <<c>> = <<a, c>>
    BY Joined
  <2>2. QED
    BY <1>1, <2>1, Zenon
<1>5. v["z"] /\ ~v["y"] /\ ~v["x"] => Items(v, r) = <<a>>
  <2>1. (<<a>> \o <<>>) \o <<>> = <<a>>
    BY Joined
  <2>2. QED
    BY <1>1, <2>1, Zenon
<1>6. ~v["z"] /\ v["y"] /\ v["x"] => Items(v, r) = <<b, c>>
  <2>1. (<<>> \o <<b>>) \o <<c>> = <<b, c>>
    BY Joined
  <2>2. QED
    BY <1>1, <2>1, Zenon
<1>7. ~v["z"] /\ v["y"] /\ ~v["x"] => Items(v, r) = <<b>>
  <2>1. (<<>> \o <<b>>) \o <<>> = <<b>>
    BY Joined
  <2>2. QED
    BY <1>1, <2>1, Zenon
<1>8. ~v["z"] /\ ~v["y"] /\ v["x"] => Items(v, r) = <<c>>
  <2>1. (<<>> \o <<>>) \o <<c>> = <<c>>
    BY Joined
  <2>2. QED
    BY <1>1, <2>1, Zenon
<1>9. ~v["z"] /\ ~v["y"] /\ ~v["x"] => Items(v, r) = <<>>
  <2>1. (<<>> \o <<>>) \o <<>> = <<>>
    BY Joined
  <2>2. QED
    BY <1>1, <2>1, Zenon
<1>10. QED
  BY <1>2, <1>3, <1>4, <1>5, <1>6, <1>7, <1>8, <1>9, Zenon DEF a, b, c

\* What a queue of up to three items does in one step.
LEMMA ShortQueues ==
  ASSUME NEW a \in Data, NEW b \in Data, NEW c \in Data
  PROVE  /\ <<a>> # <<>> /\ Head(<<a>>) = a /\ Tail(<<a>>) = <<>> /\ Len(<<a>>) = 1
         /\ <<a, b>> # <<>> /\ Head(<<a, b>>) = a /\ Tail(<<a, b>>) = <<b>>
         /\ Len(<<a, b>>) = 2
         /\ <<a, b, c>> # <<>> /\ Head(<<a, b, c>>) = a /\ Tail(<<a, b, c>>) = <<b, c>>
  OBVIOUS

\* The queue an edge leaves behind: what leaves stage z is the oldest item,
\* and what stage x produces goes behind all others.
LEMMA ClockContents ==
  ASSUME TypeOK, NEW d \in Data, valid' = NextValid, reg' = NextReg(d)
  PROVE  /\ ZLeaves => Contents # <<>> /\ Head(Contents) = reg["z"]
         /\ ZLeaves /\ x_allow_in => Contents' = Append(Tail(Contents), d)
         /\ ZLeaves /\ ~x_allow_in => Contents' = Tail(Contents)
         /\ ~ZLeaves /\ x_allow_in =>
               Len(Contents) < 3 /\ Contents' = Append(Contents, d)
         /\ ~ZLeaves /\ ~x_allow_in => Contents' = Contents
<1> DEFINE a == reg["z"]
           b == reg["y"]
           c == reg["x"]
<1>1. a \in Data /\ b \in Data /\ c \in Data
  BY DEF TypeOK, Stage
<1>2. reg'["x"] \in Data /\ reg'["y"] \in Data /\ reg'["z"] \in Data
  BY <1>1, ClockStages, Zenon
<1>3. Contents = Items(valid, reg) /\ Contents' = Items(valid', reg')
  BY Zenon DEF Contents, Held, Items
<1>4. /\ valid["z"] /\ valid["y"] /\ valid["x"] => Contents = <<a, b, c>>
      /\ valid["z"] /\ valid["y"] /\ ~valid["x"] => Contents = <<a, b>>
      /\ valid["z"] /\ ~valid["y"] /\ valid["x"] => Contents = <<a, c>>
      /\ valid["z"] /\ ~valid["y"] /\ ~valid["x"] => Contents = <<a>>
      /\ ~valid["z"] /\ valid["y"] /\ valid["x"] => Contents = <<b, c>>
      /\ ~valid["z"] /\ valid["y"] /\ ~valid["x"] => Contents = <<b>>
      /\ ~valid["z"] /\ ~valid["y"] /\ valid["x"] => Contents = <<c>>
      /\ ~valid["z"] /\ ~valid["y"] /\ ~valid["x"] => Contents = <<>>
  BY <1>1, <1>3, ItemsWrittenOut, Zenon
<1>5. /\ valid'["z"] /\ valid'["y"] /\ valid'["x"] => Contents' = <<reg'["z"], reg'["y"], reg'["x"]>>
      /\ valid'["z"] /\ valid'["y"] /\ ~valid'["x"] => Contents' = <<reg'["z"], reg'["y"]>>
      /\ valid'["z"] /\ ~valid'["y"] /\ valid'["x"] => Contents' = <<reg'["z"], reg'["x"]>>
      /\ valid'["z"] /\ ~valid'["y"] /\ ~valid'["x"] => Contents' = <<reg'["z"]>>
      /\ ~valid'["z"] /\ valid'["y"] /\ valid'["x"] => Contents' = <<reg'["y"], reg'["x"]>>
      /\ ~valid'["z"] /\ valid'["y"] /\ ~valid'["x"] => Contents' = <<reg'["y"]>>
      /\ ~valid'["z"] /\ ~valid'["y"] /\ valid'["x"] => Contents' = <<reg'["x"]>>
      /\ ~valid'["z"] /\ ~valid'["y"] /\ ~valid'["x"] => Contents' = <<>>
  BY <1>2, <1>3, ItemsWrittenOut, Zenon
<1> HIDE DEF a, b, c
<1> USE DEF ZLeaves, XLeaves, YLeaves, x_to_y_valid, y_to_z_valid, x_allow_in,
            y_allow_in, z_allow_in
<1>6. CASE ZLeaves /\ x_allow_in
  <2>1. CASE valid["z"] /\ valid["y"] /\ valid["x"]
    <3>1. Contents = <<a, b, c>>
      BY <1>4, <2>1
    <3>2. Contents' = <<b, c, d>>
      BY <1>5, <1>6, <2>1, ClockStages DEF a, b, c
    <3>3. QED
      BY <1>1, <1>6, <3>1, <3>2, ShortQueues, AppendToShort DEF a
  <2>2. CASE valid["z"] /\ valid["y"] /\ ~valid["x"]
    <3>1. Contents = <<a, b>>
      BY <1>4, <2>2
    <3>2. Contents' = <<b, d>>
      BY <1>5, <1>6, <2>2, ClockStages DEF a, b, c
    <3>3. QED
      BY <1>1, <1>6, <3>1, <3>2, ShortQueues, AppendToShort DEF a
  <2>3. CASE valid["z"] /\ ~valid["y"] /\ valid["x"]
    <3>1. Contents = <<a, c>>
      BY <1>4, <2>3
    <3>2. Contents' = <<c, d>>
      BY <1>5, <1>6, <2>3, ClockStages DEF a, b, c
    <3>3. QED
      BY <1>1, <1>6, <3>1, <3>2, ShortQueues, AppendToShort DEF a
  <2>4. CASE valid["z"] /\ ~valid["y"] /\ ~valid["x"]
    <3>1. Contents = <<a>>
      BY <1>4, <2>4
    <3>2. Contents' = <<d>>
      BY <1>5, <1>6, <2>4, ClockStages DEF a, b, c
    <3>3. QED
      BY <1>1, <1>6, <3>1, <3>2, ShortQueues, AppendToShort DEF a
  <2>5. QED
    BY <1>6, <2>1, <2>2, <2>3, <2>4
<1>7. CASE ZLeaves /\ ~x_allow_in
  <2>1. CASE valid["z"] /\ valid["y"] /\ valid["x"]
    <3>1. Contents = <<a, b, c>>
      BY <1>4, <2>1
    <3>2. Contents' = <<b, c>>
      BY <1>5, <1>7, <2>1, ClockStages DEF a, b, c
    <3>3. QED
      BY <1>1, <1>7, <3>1, <3>2, ShortQueues, AppendToShort DEF a
  <2>2. CASE valid["z"] /\ ~valid["y"] /\ valid["x"]
    <3>1. Contents = <<a, c>>
      BY <1>4, <2>2
    <3>2. Contents' = <<c>>
      BY <1>5, <1>7, <2>2, ClockStages DEF a, b, c
    <3>3. QED
      BY <1>1, <1>7, <3>1, <3>2, ShortQueues, AppendToShort DEF a
  <2>3. QED
    BY <1>7, <2>1, <2>2
<1>8. CASE ~ZLeaves /\ x_allow_in
  <2>1. CASE valid["z"] /\ valid["y"] /\ ~valid["x"]
    <3>1. Contents = <<a, b>>
      BY <1>4, <2>1
    <3>2. Contents' = <<a, b, d>>
      BY <1>5, <1>8, <2>1, ClockStages DEF a, b, c
    <3>3. QED
      BY <1>1, <1>8, <3>1, <3>2, ShortQueues, AppendToShort DEF a
  <2>2. CASE valid["z"] /\ ~valid["y"] /\ valid["x"]
    <3>1. Contents = <<a, c>>
      BY <1>4, <2>2
    <3>2. Contents' = <<a, c, d>>
      BY <1>5, <1>8, <2>2, ClockStages DEF a, b, c
    <3>3. QED
      BY <1>1, <1>8, <3>1, <3>2, ShortQueues, AppendToShort DEF a
  <2>3. CASE valid["z"] /\ ~valid["y"] /\ ~valid["x"]
    <3>1. Contents = <<a>>
      BY <1>4, <2>3
    <3>2. Contents' = <<a, d>>
      BY <1>5, <1>8, <2>3, ClockStages DEF a, b, c
    <3>3. QED
      BY <1>1, <1>8, <3>1, <3>2, ShortQueues, AppendToShort DEF a
  <2>4. CASE ~valid["z"] /\ valid["y"] /\ valid["x"]
    <3>1. Contents = <<b, c>>
      BY <1>4, <2>4
    <3>2. Contents' = <<b, c, d>>
      BY <1>5, <1>8, <2>4, ClockStages DEF a, b, c
    <3>3. QED
      BY <1>1, <1>8, <3>1, <3>2, ShortQueues, AppendToShort DEF a
  <2>5. CASE ~valid["z"] /\ valid["y"] /\ ~valid["x"]
    <3>1. Contents = <<b>>
      BY <1>4, <2>5
    <3>2. Contents' = <<b, d>>
      BY <1>5, <1>8, <2>5, ClockStages DEF a, b, c
    <3>3. QED
      BY <1>1, <1>8, <3>1, <3>2, ShortQueues, AppendToShort DEF a
  <2>6. CASE ~valid["z"] /\ ~valid["y"] /\ valid["x"]
    <3>1. Contents = <<c>>
      BY <1>4, <2>6
    <3>2. Contents' = <<c, d>>
      BY <1>5, <1>8, <2>6, ClockStages DEF a, b, c
    <3>3. QED
      BY <1>1, <1>8, <3>1, <3>2, ShortQueues, AppendToShort DEF a
  <2>7. CASE ~valid["z"] /\ ~valid["y"] /\ ~valid["x"]
    <3>1. Contents = <<>>
      BY <1>4, <2>7
    <3>2. Contents' = <<d>>
      BY <1>5, <1>8, <2>7, ClockStages DEF a, b, c
    <3>3. QED
      BY <1>1, <1>8, <3>1, <3>2, ShortQueues, AppendToShort DEF a
  <2>8. QED
    BY <1>8, <2>1, <2>2, <2>3, <2>4, <2>5, <2>6, <2>7
<1>9. CASE ~ZLeaves /\ ~x_allow_in
  <2>1. CASE valid["z"] /\ valid["y"] /\ valid["x"]
    <3>1. Contents = <<a, b, c>>
      BY <1>4, <2>1
    <3>2. Contents' = <<a, b, c>>
      BY <1>5, <1>9, <2>1, ClockStages DEF a, b, c
    <3>3. QED
      BY <1>1, <1>9, <3>1, <3>2, ShortQueues, AppendToShort DEF a
  <2>2. CASE valid["z"] /\ ~valid["y"] /\ valid["x"]
    <3>1. Contents = <<a, c>>
      BY <1>4, <2>2
    <3>2. Contents' = <<a, c>>
      BY <1>5, <1>9, <2>2, ClockStages DEF a, b, c
    <3>3. QED
      BY <1>1, <1>9, <3>1, <3>2, ShortQueues, AppendToShort DEF a
  <2>3. CASE ~valid["z"] /\ valid["y"] /\ valid["x"]
    <3>1. Contents = <<b, c>>
      BY <1>4, <2>3
    <3>2. Contents' = <<b, c>>
      BY <1>5, <1>9, <2>3, ClockStages DEF a, b, c
    <3>3. QED
      BY <1>1, <1>9, <3>1, <3>2, ShortQueues, AppendToShort DEF a
  <2>4. CASE ~valid["z"] /\ ~valid["y"] /\ valid["x"]
    <3>1. Contents = <<c>>
      BY <1>4, <2>4
    <3>2. Contents' = <<c>>
      BY <1>5, <1>9, <2>4, ClockStages DEF a, b, c
    <3>3. QED
      BY <1>1, <1>9, <3>1, <3>2, ShortQueues, AppendToShort DEF a
  <2>5. QED
    BY <1>9, <2>1, <2>2, <2>3, <2>4
<1>10. QED
  BY <1>6, <1>7, <1>8, <1>9

\* No item is lost, doubled or overtaken, whatever the stages do.
THEOREM Refinement == Spec => RefinesFifo
<1>1. Init => Queue!Init
  <2> SUFFICES ASSUME Init PROVE Queue!Init
    OBVIOUS
  <2>1. Contents = (<<>> \o <<>>) \o <<>>
    BY Zenon DEF Init, Contents, Held, Stage
  <2>2. <<>> \o <<>> = <<>>
    OBVIOUS
  <2>3. QED
    BY <2>1, <2>2 DEF Init, Queue!Init
<1>2. TypeOK /\ TypeOK' /\ [Next]_vars => [Queue!Next]_<<Contents, out>>
  <2> SUFFICES ASSUME TypeOK, TypeOK', [Next]_vars
               PROVE  Queue!Next \/ UNCHANGED <<Contents, out>>
    OBVIOUS
  <2>1. CASE ResetClock
    <3>1. Contents' = (<<>> \o <<>>) \o <<>>
      BY <2>1, Zenon DEF ResetClock, Contents, Held, Stage
    <3>2. <<>> \o <<>> = <<>>
      OBVIOUS
    <3>3. Queue!Clear
      BY <2>1, <3>1, <3>2 DEF ResetClock, Queue!Clear
    <3>4. QED
      BY <3>3 DEF Queue!Next
  <2>2. CASE Clock
    <3>1. PICK d \in Data : valid' = NextValid /\ reg' = NextReg(d)
      BY <2>2 DEF Clock
    <3>2. out' = IF ZLeaves THEN reg["z"] ELSE out
      BY <2>2 DEF Clock
    <3>3. CASE ZLeaves /\ x_allow_in
      BY <3>1, <3>2, <3>3, ClockContents DEF Queue!Next, Queue!GetAndPut
    <3>4. CASE ZLeaves /\ ~x_allow_in
      BY <3>1, <3>2, <3>4, ClockContents DEF Queue!Next, Queue!Get
    <3>5. CASE ~ZLeaves /\ x_allow_in
      BY <3>1, <3>2, <3>5, ClockContents DEF Queue!Next, Queue!Put
    <3>6. CASE ~ZLeaves /\ ~x_allow_in
      BY <3>1, <3>2, <3>6, ClockContents
    <3>7. QED
      BY <3>3, <3>4, <3>5, <3>6
  <2>3. CASE UNCHANGED vars
    BY <2>3 DEF vars, Contents, Held
  <2>4. QED
    BY <2>1, <2>2, <2>3 DEF Next
<1>3. QED
  BY <1>1, <1>2, TypeCorrect, PTL DEF Spec, RefinesFifo, Queue!Spec
=============================================================================
