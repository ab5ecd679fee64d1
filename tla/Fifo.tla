-------------------------------- MODULE Fifo --------------------------------
(***************************************************************************)
(* What a handshaking pipeline promises: a queue that takes items in at    *)
(* one end and gives them out at the other, in order, each exactly once,   *)
(* with room for Capacity of them.  Both ends may move in the same step.   *)
(***************************************************************************)
EXTENDS Sequences, Naturals

CONSTANTS Data, Capacity

VARIABLES
    q,      \* the items inside, the oldest first
    out     \* the item given out last

Init == q = <<>> /\ out \in Data

Put(d) ==
    /\ Len(q) < Capacity
    /\ q' = Append(q, d)
    /\ UNCHANGED out

Get ==
    /\ q # <<>>
    /\ out' = Head(q)
    /\ q' = Tail(q)

GetAndPut(d) ==
    /\ q # <<>>
    /\ out' = Head(q)
    /\ q' = Append(Tail(q), d)

\* A reset drops what is inside.
Clear ==
    /\ q' = <<>>
    /\ UNCHANGED out

Next == Get \/ Clear \/ \E d \in Data : Put(d) \/ GetAndPut(d)

Spec == Init /\ [][Next]_<<q, out>>
=============================================================================
