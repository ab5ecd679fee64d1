-------------------------- MODULE MCAbstractMachine -------------------------
(***************************************************************************)
(* AbstractMachine: the libraries on words of four bits, with every        *)
(* dividend and divisors on both sides of every boundary the code tests    *)
(* for, and the calls of MCKlib; files of up to two segments; a display of *)
(* four by three pixels, trees of up to two textures; two spaces, of       *)
(* two-level tables of two entries in six frames, and of three native      *)
(* pages; three threads.                                                   *)
(***************************************************************************)
EXTENDS AbstractMachine, MCKlib

AllDWords == 0 .. 255
Boundaries == {1, 2, 3, 7, 8, 13, 15, 16, 17, 30, 32, 48, 80, 96, 112, 113,
               127, 128, 129, 135, 144, 208, 240, 254, 255}

SomeSegments ==
    {s \in [filesz : 0..4, memsz : 1..5, paddr : 6..13, offset : 0..5] : s.filesz <= s.memsz}
      \cup [filesz : {0}, memsz : {0}, paddr : {0}, offset : {0}]

Texture(name, w, h, x1, y1, w1, h1) ==
    [type |-> "texture", name |-> name, w |-> w, h |-> h,
     x1 |-> x1, y1 |-> y1, w1 |-> w1, h1 |-> h1]
Subtree(children, w, h, x1, y1, w1, h1) ==
    [type |-> "subtree", children |-> children, w |-> w, h |-> h,
     x1 |-> x1, y1 |-> y1, w1 |-> w1, h1 |-> h1]
Below == Texture("a", 1, 2, 0, 1, 1, 2)
Invalid == [Below EXCEPT !.type = "invalid"]
Above == {Texture("b", 2, h, x1, y1, 2, 2) : h \in 1 .. 2, x1, y1 \in 0 .. 1}
SomeCanvases ==
    {Texture("a", w, h, x1, y1, w1, 2) : w, h \in 1 .. 2, x1, y1, w1 \in 0 .. 1} \union
    {Subtree(<<Below, t>>, 3, 3, 1, 1, 2, h1) : t \in Above, h1 \in 1 .. 2} \union
    {Subtree(<<t, Subtree(<<Below>>, 2, h, x1, 0, 2, 2)>>, 3, 3, 0, 0, 3, 3) :
        t \in Above, h \in 3 .. 4, x1 \in 0 .. 1} \union
    {Invalid, Subtree(<<Below, Invalid>>, 2, 2, 0, 0, 2, 2)}
=============================================================================
