----------------------------- MODULE Compositor ------------------------------
(***************************************************************************)
(* What GIF compositing promises, said without regions or backups: beside  *)
(* the canvas that is shown there is the whole canvas the next frame will  *)
(* be drawn on, decided the moment a frame is drawn by that frame's        *)
(* disposal method.  A canvas given away leaves nothing to draw on.        *)
(***************************************************************************)
EXTENDS Canvas

CONSTANT Frames  \* the frames a file may contain

VARIABLES
  shown,   \* the canvas, no pixels once it has been given away
  base,    \* what the next frame is drawn on, none likewise
  output,  \* the canvas last delivered to the caller
  input    \* history: the frame of the last call, no pixels before the first

vars == <<shown, base, output, input>>

Gone == NoPixels

Init == shown = Blank /\ base = Blank /\ output = Blank /\ input = NoPixels

\* The canvas under the next frame.
After(f, canvas) ==
  CASE f.dispose = "previous" -> base
    [] f.dispose = "background" -> Fill(canvas, Clipped(f))
    [] OTHER -> canvas

\* A frame is drawn, and delivered unless its copy cannot be afforded.
Draw(f) ==
  /\ input' = f
  /\ base # Gone
  /\ shown' = Blit(base, f)
  /\ base' = After(f, shown')
  /\ output' \in {output, shown'}

\* A frame is delivered by giving the canvas away.
GiveAway(f) ==
  /\ input' = f
  /\ base # Gone
  /\ output' = Blit(base, f)
  /\ shown' = Gone /\ base' = Gone

\* The old frame is disposed of, and the new one cannot be afforded.
Undraw(f) ==
  /\ input' = f
  /\ shown' = base
  /\ UNCHANGED <<base, output>>

Clear ==
  /\ base # Gone
  /\ shown' = Blank /\ base' = Blank
  /\ UNCHANGED <<output, input>>

Next == (\E f \in Frames : Draw(f) \/ GiveAway(f) \/ Undraw(f)) \/ Clear

Spec == Init /\ [][Next]_vars
=============================================================================
