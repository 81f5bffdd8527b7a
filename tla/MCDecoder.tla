------------------------------ MODULE MCDecoder ------------------------------
(* A 2x1 screen, files of up to three frames: whole and partial ones of      *)
(* every disposal, one with a transparent index, one that hangs over the     *)
(* edge and one without area, ending in each way.                            *)
EXTENDS DecoderClients

CONSTANTS a, b

R(left, width) == [left |-> left, top |-> 0, width |-> width, height |-> 1]

\* The image of a frame: one colour, or the transparent index at the right.
Plain(r, x) == [p \in Area(r) |-> x]
Holed(r, x) == [p \in Area(r) |-> IF p[1] = 1 THEN Skip ELSE x]

F(r, image, dispose, delay) ==
  [rect |-> r, image |-> image, dispose |-> dispose, delay |-> delay]

FramesMC ==
  {F(R(0, 2), Plain(R(0, 2), a), "keep", 1),
   F(R(0, 2), Holed(R(0, 2), b), "previous", 2),
   F(R(1, 1), Plain(R(1, 1), b), "previous", 1),
   F(R(1, 1), Plain(R(1, 1), b), "background", 2),
   F(R(1, 3), Plain(R(1, 3), b), "keep", 1),
   F(R(0, 0), Plain(R(0, 0), b), "unspecified", 1)}

FilesMC ==
  {[frames |-> s, ending |-> e] :
     s \in UNION {[1 .. n -> FramesMC] : n \in 1 .. 3},
     e \in {"trailer", "cut", "header", "broken"}}
=============================================================================
