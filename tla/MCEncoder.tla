------------------------------ MODULE MCEncoder ------------------------------
(* A 2x1 canvas whose points are coloured or transparent, two delays, and    *)
(* configurations that flush by frame count, by byte count, and not at all.  *)
EXTENDS Encoder

AlikeMC == {<<p, p>> : p \in Pixel}

\* An opaque canvas, one that is half and one that is wholly transparent;
\* only the opaque one lasts longer.
InputsMC ==
  {[pixels |-> c, delay |-> IF HasAlpha(c) THEN 1 ELSE 2] :
     c \in {d \in [Points -> Pixel] : d[1, 0] = Transparent => d[0, 0] = Transparent}}

Config(shared, palette, transparency, repeats, n, bytes) ==
  [shared |-> shared, palette |-> palette, transparency |-> transparency,
   repeats |-> repeats, bufferFrames |-> n, bufferBytes |-> bytes]

ConfigsMC ==
  {Config(FALSE, FALSE, TRUE, TRUE, 2, 2),
   Config(TRUE, FALSE, TRUE, TRUE, 3, 9),
   Config(TRUE, FALSE, FALSE, FALSE, 9, 2),
   Config(TRUE, FALSE, TRUE, TRUE, 0, 9),
   Config(TRUE, TRUE, TRUE, TRUE, 9, 9)}
=============================================================================
