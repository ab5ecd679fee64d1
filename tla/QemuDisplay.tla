----------------------------- MODULE QemuDisplay -----------------------------
(* The display of the x86 platform of the abstract machine (am/src/x86/qemu/ *)
(* ioe.c): pictures clipped to it and trees of canvases scaled into it, one  *)
(* call at a time on a dark display.                                         *)
EXTENDS Naturals, Sequences, SequencesExt

CONSTANTS Width, Height,\* of the display
          VbufPixels,   \* what the buffer of a gpu_render has room for
          Canvases      \* trees for gpu_render that fit on the display

ASSUME QemuDisplayAssumption == {Width, Height} \subseteq Nat \ {0} /\ VbufPixels \in Nat

VARIABLES shown,    \* the call that has drawn; Nothing before it
          fb        \* the pixels of the display, row after row

displayVars == <<shown, fb>>

Nothing == [fn |-> "none"]
Old == [x |-> "old"]
Dark == [k \in 0 .. Width * Height - 1 |-> Old]

DisplayInit == shown = Nothing /\ fb = Dark

(* The display: pixel i of row j of a picture. *)
Pixel(j, i) == [x |-> i, y |-> j]

Unclipped(x, w) == w
Clipped(x, w) == IF x + w >= Width THEN Width - x ELSE w
gpu_fbdraw(x, y, w, h) ==
  LET Hit(k, j, i) == y + j < Height /\ k = x + (j + y) * Width + i
      Rows == 0 .. h - 1
      Columns == 0 .. Clipped(x, w) - 1
  IN  /\ shown = Nothing
      /\ shown' = [fn |-> "gpu_fbdraw", x |-> x, y |-> y, w |-> w, h |-> h]
      /\ fb' = [k \in DOMAIN fb |->
                  IF \E j \in Rows, i \in Columns : Hit(k, j, i)
                  THEN CHOOSE p \in {Pixel(j, i) : j \in Rows, i \in Columns} : Hit(k, p.y, p.x)
                  ELSE fb[k]]

(* render: the picture of a canvas, a texture or its children drawn in their *)
(* order into a cleared buffer, scaled into px, whose rows have W pixels.    *)
Target(W, y, x) == W * y + x
RECURSIVE render(_, _, _), Children(_, _, _)
Children(cv, n, px) ==
  IF n = 0 THEN px ELSE render(cv.children[n], cv.w, Children(cv, n - 1, px))
render(cv, W, px) ==
  LET local == IF cv.type = "texture"
               THEN [k \in 0 .. cv.w * cv.h - 1 |-> [texture |-> cv.name, at |-> k]]
               ELSE Children(cv, Len(cv.children), [k \in 0 .. cv.w * cv.h - 1 |-> "cleared"])
      Drawn(k) == {p \in (0 .. cv.w1 - 1) \X (0 .. cv.h1 - 1) :
                     k = Target(W, cv.y1 + p[2], cv.x1 + p[1])}
  IN  [k \in DOMAIN px |->
         IF Drawn(k) = {} THEN px[k]
         ELSE LET p == CHOOSE p \in Drawn(k) : TRUE
              IN  local[cv.w * ((p[2] * cv.h) \div cv.h1) + (p[1] * cv.w) \div cv.w1]]

RECURSIVE Nodes(_)
Nodes(cv) ==
  IF cv.type = "subtree" THEN <<cv>> \o FlattenSeq([n \in DOMAIN cv.children |-> Nodes(cv.children[n])])
  ELSE <<cv>>
Valid(cv) == cv.type \in {"texture", "subtree"}

(* vbuf_alloc: the buffers of all subtrees of a call lie one behind the      *)
(* other.                                                                    *)
vbuf_alloc(root) ==
  FoldLeft(LAMBDA head, cv : IF cv.type = "subtree" THEN head + cv.w * cv.h ELSE head, 0, Nodes(root))

(* A node that is neither and a buffer that is full panic, before the root,  *)
(* which comes last, is drawn.                                               *)
RenderPanics(root) == vbuf_alloc(root) > VbufPixels \/ \E cv \in ToSet(Nodes(root)) : ~Valid(cv)
gpu_render(root) ==
  /\ shown = Nothing
  /\ IF RenderPanics(root) THEN shown' = [fn |-> "panic", root |-> root] /\ UNCHANGED fb
     ELSE shown' = [fn |-> "gpu_render", root |-> root] /\ fb' = render(root, Width, fb)

Cleared ==
  /\ shown.fn \notin {"none", "panic"}
  /\ shown' = Nothing /\ fb' = Dark

DisplayNext ==
  \/ \E x, w \in 0 .. Width + 1, y, h \in 0 .. Height + 1 : gpu_fbdraw(x, y, w, h)
  \/ \E root \in Canvases : gpu_render(root)
  \/ Cleared

DisplaySpec == DisplayInit /\ [][DisplayNext]_displayVars
-----------------------------------------------------------------------------
(* What a canvas shows at a point of its own: a texture's pixel, or what the *)
(* topmost of its children there shows.                                      *)
Inside(cv, x, y) == x \in cv.x1 .. cv.x1 + cv.w1 - 1 /\ y \in cv.y1 .. cv.y1 + cv.h1 - 1
RECURSIVE Color(_, _, _)
Color(cv, x, y) ==
  IF cv.type = "texture" THEN [texture |-> cv.name, at |-> y * cv.w + x]
  ELSE LET over == {n \in DOMAIN cv.children : Inside(cv.children[n], x, y)}
           top == cv.children[CHOOSE n \in over : \A other \in over : other <= n]
       IN  IF over = {} THEN "cleared"
           ELSE Color(top, ((x - top.x1) * top.w) \div top.w1, ((y - top.y1) * top.h) \div top.h1)

(* A picture appears where it was asked for, cut off at the right and lower  *)
(* border and never carried over into the next row; a tree of canvases shows *)
(* at each point its topmost canvas there, scaled, or nothing of it is drawn *)
(* (ioe.c:194, ioe.c:225, ioe.c:219).                                        *)
PicturesExact ==
  \A x \in 0 .. Width - 1, y \in 0 .. Height - 1 :
    LET pixel == fb[y * Width + x] IN
    /\ shown.fn = "gpu_fbdraw" =>
         pixel = IF x \in shown.x .. shown.x + shown.w - 1 /\ y \in shown.y .. shown.y + shown.h - 1
                 THEN Pixel(y - shown.y, x - shown.x) ELSE Old
    /\ shown.fn = "gpu_render" =>
         pixel = IF Inside(shown.root, x, y)
                 THEN Color([type |-> "subtree", children |-> <<shown.root>>], x, y) ELSE Old
    /\ shown.fn = "panic" => pixel = Old
=============================================================================
