----------------------------- MODULE MCRoundTrip -----------------------------
(* A 4x1 canvas, wide enough for a diff with an unchanged point between two  *)
(* changed ones, and canvases whose differences are whole, partial at either *)
(* end, with such a hole, empty, and with transparency appearing and going.  *)
EXTENDS RoundTrip

CONSTANTS a, b

Exactly == {<<p, p>> : p \in Pixel}

Row(p0, p1, p2, p3) ==
  [p \in Points |-> CASE p[1] = 0 -> p0 [] p[1] = 1 -> p1 [] p[1] = 2 -> p2
                      [] OTHER -> p3]

T == Transparent

InputsMC ==
  {[pixels |-> r, delay |-> IF HasAlpha(r) THEN 1 ELSE 2] :
     r \in {Row(a, a, a, a), Row(b, a, b, a), Row(a, a, a, b),
            Row(T, T, a, T), Row(b, T, T, a), Row(T, T, T, T)}}

Config(shared, palette, transparency, repeats, n) ==
  [shared |-> shared, palette |-> palette, transparency |-> transparency,
   repeats |-> repeats, bufferFrames |-> n, bufferBytes |-> 9]

\* shared_palette with a global_palette is not among them: see
\* IndexedByItsTable.
ConfigsMC ==
  {Config(FALSE, FALSE, TRUE, TRUE, 9), Config(FALSE, TRUE, FALSE, TRUE, 9),
   Config(TRUE, FALSE, TRUE, TRUE, 2)}
=============================================================================
