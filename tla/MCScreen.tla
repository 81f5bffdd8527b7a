------------------------------ MODULE MCScreen -------------------------------
(* A 2x1 screen and one colour; frames that cover it, cover part of it,      *)
(* hang over its edge or lie beside it, with every image and disposal.       *)
EXTENDS Screen

RectsMC ==
  {[left |-> 0, top |-> 0, width |-> 2, height |-> 1],
   [left |-> 0, top |-> 0, width |-> 1, height |-> 1],
   [left |-> 1, top |-> 0, width |-> 2, height |-> 1],
   [left |-> 3, top |-> 0, width |-> 1, height |-> 1]}

\* Off the canvas an image is never looked at, so one image stands for all;
\* the code treats Unspecified as Keep, so one rectangle stands for all.
FramesMC ==
  {f \in UNION {[rect : {r}, dispose : Methods,
                 image : [Area(r) -> Pixel \cup {Skip}]] : r \in RectsMC} :
     /\ \A p \in Area(f.rect) \ Points : f.image[p] = Skip
     /\ f.dispose = "unspecified" => f.rect.width = 1}
=============================================================================
