-------------------------------- MODULE Canvas --------------------------------
(***************************************************************************)
(* The pure part of compositing (src/src/screen.rs, src/src/disposal.rs):  *)
(* canvases, clipped frame rectangles, blits and disposals.  A canvas maps *)
(* each point to a pixel; a frame's image maps each point of its rectangle *)
(* to a pixel of its palette, or to Skip where it holds the transparent    *)
(* index.  The row loops and the single-memcpy fast paths of the code all  *)
(* compute the same pointwise functions, which is what is written here.    *)
(***************************************************************************)
EXTENDS Integers, FiniteSets

CONSTANTS
  Width, Height,  \* logical screen dimensions
  Colours,        \* opaque colours
  Transparent,    \* Rgba::TRANSPARENT, the background of every canvas
  Skip            \* an index equal to the frame's transparent index

\* check_dimensions refuses a screen without area.
ASSUME CanvasAssumption ==
  /\ Width \in Nat \ {0}
  /\ Height \in Nat \ {0}
  /\ Transparent \notin Colours
  /\ Skip \notin Colours \cup {Transparent}

Methods == {"unspecified", "keep", "background", "previous"}

Points == (0 .. Width - 1) \X (0 .. Height - 1)
Pixel  == Colours \cup {Transparent}
Blank  == [p \in Points |-> Transparent]

Rects == [left : Nat, top : Nat, width : Nat, height : Nat]

\* Where a rectangle lies, on or off the canvas.
Area(r) == (r.left .. r.left + r.width - 1) \X (r.top .. r.top + r.height - 1)

AtMost(a, b) == IF a <= b THEN a ELSE b

\* Cuts the far edges only, as if every origin were on the canvas.
ClipExtentOnly(r) ==
  [r EXCEPT !.width = AtMost(@, Width), !.height = AtMost(@, Height)]

\* clip_frame_bounds: the origin is moved onto the canvas edge, then the
\* extent is cut to what is left (a saturating_sub that cannot saturate).
ClipFrameBounds(r) ==
  LET left == AtMost(r.left, Width)
      top  == AtMost(r.top, Height)
  IN [left |-> left, top |-> top,
      width |-> AtMost(r.width, Width - left),
      height |-> AtMost(r.height, Height - top)]

Clipped(f) == Area(ClipFrameBounds(f.rect))

\* process_frame_in_place, step 5: expand_palette_row(_transparent).
Blit(canvas, f) ==
  [p \in Points |-> IF p \in Clipped(f) /\ f.image[p] # Skip
                    THEN f.image[p] ELSE canvas[p]]

Fill(canvas, area) ==
  [p \in Points |-> IF p \in area THEN Transparent ELSE canvas[p]]

Saved(canvas, area) == [p \in area |-> canvas[p]]

Restored(canvas, saved) ==
  [p \in Points |-> IF p \in DOMAIN saved THEN saved[p] ELSE canvas[p]]

\* No pixels: no backup, or a canvas that was moved out.
NoPixels == [p \in {} |-> Transparent]

-----------------------------------------------------------------------------
(* Disposal: the method, the region and the backup of one drawn frame.     *)

DefaultDisposal == [method |-> "keep", area |-> {}, saved |-> NoPixels]

\* Disposal::new, before the frame is blitted on `canvas`.
DisposalFor(f, canvas) ==
  [method |-> f.dispose, area |-> Clipped(f),
   saved |-> IF f.dispose = "previous" THEN Saved(canvas, Clipped(f)) ELSE NoPixels]

\* Background disposal of the whole canvas, whatever the frame covered.
DisposedFully(canvas, d) ==
  IF d.method = "background" THEN Blank
  ELSE IF d.method = "previous" THEN Restored(canvas, d.saved) ELSE canvas

\* Disposal::apply.
Disposed(canvas, d) ==
  IF d.method = "background" THEN Fill(canvas, d.area)
  ELSE IF d.method = "previous" THEN Restored(canvas, d.saved) ELSE canvas

\* apply moves the backup out of the Disposal and drops it.
Spent(d) == [d EXCEPT !.saved = NoPixels]
=============================================================================
