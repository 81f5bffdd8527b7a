----------------------------- MODULE MCAnimation -----------------------------
(* A 1x1 canvas, two sizes of which the job may fix one, durations that are  *)
(* whole, rounded up to a centisecond, and thirds; two frames declared or    *)
(* none; palettes per frame or a shared one, built from three frames.        *)
EXTENDS AnimationEncoder

CONSTANTS small, large

AlikeMC == {<<p, p>> : p \in Pixel}

RequestsMC ==
  {[kind |-> "legacy", ticks |-> 12],   \* 4 ms
   [kind |-> "exact", ticks |-> 30],
   [kind |-> "exact", ticks |-> 150],   \* more than MaxDelay
   [kind |-> "timed", ticks |-> 100]}   \* 1/30 s

Delays == {1, 3, 4, 5}

InputsMC == [pixels : [Points -> Pixel \ {Transparent}], delay : Delays]

Config(shared, n) ==
  [shared |-> shared, palette |-> FALSE, transparency |-> FALSE,
   repeats |-> FALSE, bufferFrames |-> n, bufferBytes |-> 9]

ConfigsMC == {Config(FALSE, 9), Config(TRUE, 3), Config(TRUE, 9)}
=============================================================================
