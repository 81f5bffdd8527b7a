----------------------------- MODULE Differencing -----------------------------
(***************************************************************************)
(* What the encoder computes from display canvases, src/src/encode/mod.rs  *)
(* and src/src/encode/palette.rs: the region that changed between two      *)
(* canvases, the image that redraws it, and whether a canvas has to be     *)
(* cleared before the next one can be drawn.  An alpha channel is either   *)
(* 0 (Transparent) or 255; the quantizer is taken as exact on the colours  *)
(* of the model, and a transparent pixel becomes the transparent index.    *)
(***************************************************************************)
EXTENDS Canvas, FiniteSetsExt

CONSTANT Alike  \* pairs of pixels within EncoderConfig::lossy_tolerance

\* pixels_similar compares every pixel with itself as similar.
ASSUME AlikeAssumption == \A p \in Pixel : <<p, p>> \in Alike

\* A test that sees only what appears, not what has to go.
Appears(old, new) ==
  \E p \in Points : old[p] = Transparent /\ new[p] # Transparent

\* needs_canvas_clear: the next display could expose retained pixels.
NeedsCanvasClear(old, new) ==
  \E p \in Points : old[p] # Transparent /\ new[p] = Transparent

\* accept_frame's test of the first frame.
HasAlpha(canvas) == \E p \in Points : canvas[p] = Transparent

\* The palette index a pixel is mapped to.
IndexOf(pixel) == IF pixel = Transparent THEN Skip ELSE pixel

Whole == [left |-> 0, top |-> 0, width |-> Width, height |-> Height]

\* The smallest rectangle around a set of points.
Around(points) ==
  LET xs == {p[1] : p \in points}
      ys == {p[2] : p \in points}
  IN [left |-> Min(xs), top |-> Min(ys),
      width |-> Max(xs) - Min(xs) + 1, height |-> Max(ys) - Min(ys) + 1]

Changed(new, old) == {p \in Points : <<new[p], old[p]>> \notin Alike}

\* compute_frame_diff_pooled: where, the 1x1 frame at the origin when nothing
\* has changed.
DiffRect(new, old) ==
  LET changed == Changed(new, old)
  IN IF changed = {} THEN [left |-> 0, top |-> 0, width |-> 1, height |-> 1]
     ELSE Around(changed)

\* ... and what: unchanged pixels are marked transparent.
DiffFrame(new, old) ==
  LET rect == DiffRect(new, old)
  IN [rect |-> rect,
      image |-> [p \in Area(rect) |->
                   IF p \in Changed(new, old) THEN IndexOf(new[p]) ELSE Skip]]

\* It returns None when the whole canvas has changed.
HasDiff(new, old) == Changed(new, old) = {} \/ DiffRect(new, old) # Whole

WholeFrame(new) == [rect |-> Whole, image |-> [p \in Points |-> IndexOf(new[p])]]
=============================================================================
