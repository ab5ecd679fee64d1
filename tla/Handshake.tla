------------------------------ MODULE Handshake ------------------------------
(***************************************************************************)
(* The valid / ready_go / allow_in protocol of src/IP/rv64/ready-valid     *)
(* (stage_x.v, stage_y.v, stage_z.v and the notes of tmp.v), which the     *)
(* pipeline_cpu is being moved to: a source stage x, a stage y in the      *)
(* middle and a last stage z.                                              *)
(*                                                                         *)
(* What the stages compute is left open in the code (ready_go = xxx): a    *)
(* stage takes any time for an item, and once it is done with the item it  *)
(* stays done until the item moves on, which is tmp.v's ready_go.          *)
(***************************************************************************)
EXTENDS Naturals, Sequences

CONSTANT Data

ASSUME DataAssumption == Data # {}

Stage == {"x", "y", "z"}

VARIABLES
    reset,
    valid,      \* x_valid, y_valid, z_valid
    reg,        \* what the stages hold: the bus out of x, y_reg, z_reg
    ready_go,   \* x_ready_go, y_ready_go, z_ready_go
    out         \* the item that left stage z last

vars == <<reset, valid, reg, ready_go, out>>

-----------------------------------------------------------------------------
\* (Mutants: z and x take nothing while they are empty; y passes its item on
\* although z does not take it.)
z_allow_in_busy == valid["z"] /\ ready_go["z"]
\* A stage takes an item when it is empty or passes its own on.
z_allow_in == ~valid["z"] \/ ready_go["z"]
y_allow_in_early == ~valid["y"] \/ ready_go["y"]
y_allow_in == ~valid["y"] \/ (ready_go["y"] /\ z_allow_in)
x_allow_in == ~valid["x"] \/ (ready_go["x"] /\ y_allow_in)

x_to_y_valid == valid["x"] /\ ready_go["x"]
y_to_z_valid == valid["y"] /\ ready_go["y"]

\* An item leaves a stage when the stage is done with it and the next one
\* takes it; there is always room behind z.
XLeaves == x_to_y_valid /\ y_allow_in
YLeaves == y_to_z_valid /\ z_allow_in
ZLeaves == valid["z"] /\ ready_go["z"]

Init ==
    /\ reset = TRUE
    /\ valid = [s \in Stage |-> FALSE]
    /\ reg \in [Stage -> Data]
    /\ ready_go \in [Stage -> BOOLEAN]
    /\ out \in Data

\* The valid bits: stage x refills itself as soon as it can.
NextValid ==
    [s \in Stage |->
        CASE s = "x" -> x_allow_in \/ valid["x"]
          [] s = "y" -> IF y_allow_in THEN x_to_y_valid ELSE valid["y"]
          [] s = "z" -> IF z_allow_in THEN y_to_z_valid ELSE valid["z"]]

\* The data registers, which a reset does not touch; d is the item that
\* stage x produces.
NextReg(d) ==
    [s \in Stage |->
        CASE s = "x" -> IF x_allow_in THEN d ELSE reg["x"]
          [] s = "y" -> IF y_allow_in /\ x_to_y_valid THEN reg["x"] ELSE reg["y"]
          [] s = "z" -> IF z_allow_in /\ y_to_z_valid THEN reg["y"] ELSE reg["z"]]

\* A stage that is done with an item it keeps stays done.
StaysDone ==
    /\ valid["x"] /\ ready_go["x"] /\ ~XLeaves => ready_go'["x"]
    /\ valid["y"] /\ ready_go["y"] /\ ~YLeaves => ready_go'["y"]
    /\ valid["z"] /\ ready_go["z"] /\ ~ZLeaves => ready_go'["z"]

\* An edge with reset high empties the stages.
ResetClock ==
    /\ reset
    /\ valid' = [s \in Stage |-> FALSE]
    /\ \E d \in Data : reg' = NextReg(d)
    /\ out' = out
    /\ ready_go' \in [Stage -> BOOLEAN]
    /\ reset' \in BOOLEAN

\* An edge with reset low.
Clock ==
    /\ ~reset
    /\ valid' = NextValid
    /\ \E d \in Data : reg' = NextReg(d)
    /\ out' = IF ZLeaves THEN reg["z"] ELSE out
    /\ ready_go' \in [Stage -> BOOLEAN]
    /\ StaysDone
    /\ reset' \in BOOLEAN

Next == ResetClock \/ Clock

Spec == Init /\ [][Next]_vars

\* The clock runs, and no stage works on one item for ever.
Fairness ==
    /\ WF_vars(Next)
    /\ \A s \in Stage : WF_vars(Next /\ ready_go'[s])

FairSpec == Spec /\ Fairness

-----------------------------------------------------------------------------
\* The wires and registers keep their types.
TypeOK ==
    /\ reset \in BOOLEAN
    /\ valid \in [Stage -> BOOLEAN]
    /\ reg \in [Stage -> Data]
    /\ ready_go \in [Stage -> BOOLEAN]
    /\ out \in Data

\* The items inside, the oldest first: those of the valid stages.
Held(s) == IF valid[s] THEN <<reg[s]>> ELSE <<>>
Contents == Held("z") \o Held("y") \o Held("x")

Queue == INSTANCE Fifo WITH q <- Contents, out <- out, Capacity <- 3

\* However the stages block and release one another, no item is lost,
\* doubled or overtaken between the source and the end of stage z.
RefinesFifo == Queue!Spec

\* Once reset is over for good, items keep leaving stage z: no combination
\* of valid and allow_in blocks the pipeline.
KeepsDelivering == (<>[]~reset) => []<><<~reset /\ ZLeaves>>_vars

\* The source never idles (stage_x.v:21-23: valid is only cleared by reset,
\* and once reset is low allow_in sets it): outside reset the pipeline is
\* never empty, and stays full while its last stage blocks it.
SourceNeverDry ==
    [][~reset => /\ valid'["x"]
                 /\ valid = [s \in Stage |-> TRUE] /\ ~ready_go["z"]
                       => valid' = valid /\ reg' = reg]_vars
=============================================================================
