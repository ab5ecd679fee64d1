----------------------------- MODULE MCMachines -----------------------------
(***************************************************************************)
(* Machines with one thread of the kernel and two user threads, each in a  *)
(* space of its own; three processors of which two halt; three processes;  *)
(* two harts that make three calls while two keys are typed; a memory of   *)
(* five bytes of one bit, the widest access four bytes, with images        *)
(* shorter and longer than the built-in one; and three different items, as *)
(* many as the stages hold.                                                *)
(***************************************************************************)
EXTENDS Machines, TLC

CONSTANTS u1, u2, p, q

OwnSpace == u1 :> p @@ u2 :> q
BuiltIn == <<0, 1, 1>>
Words == {[i \in 0 .. 3 |-> bits[i + 1]] : bits \in {<<0, 1, 1, 0>>, <<1, 0, 1, 1>>}}
SomeFiles == {<<>>, <<1, 0>>, <<1, 1, 0, 1>>}
=============================================================================
