-------------------------------- MODULE Screen --------------------------------
(***************************************************************************)
(* The compositing canvas of the decoder, src/src/screen.rs with           *)
(* src/src/disposal.rs: the disposal of a frame is kept lazily, as a       *)
(* region and (for Previous) a backup of that region only, and applied     *)
(* when the next frame arrives; the canvas may be moved out to the caller; *)
(* every buffer is charged to Stats, so any operation may be refused.      *)
(*                                                                         *)
(* An action is one call.  `charged` is Stats::current for one thread:     *)
(* try_alloc(n) refuses when charged + n would pass max_memory.  An        *)
(* allocation that passes the check may still fail in the allocator        *)
(* (try_reserve): then its charge is undone and the call fails alike.      *)
(***************************************************************************)
EXTENDS Canvas

CONSTANTS
  Frames,     \* the frames a file may contain
  MaxMemory   \* Limits::max_memory, in bytes

RgbaBytes   == 4
CanvasBytes == RgbaBytes * (Width * Height)

\* Without room for the canvas Screen::new fails and there is no Screen.
ASSUME ScreenAssumption ==
  /\ MaxMemory \in Nat /\ CanvasBytes <= MaxMemory
  /\ \A f \in Frames :
       /\ f.rect \in Rects
       /\ f.dispose \in Methods
       /\ f.image \in [Area(f.rect) -> Pixel \cup {Skip}]

VARIABLES
  pixels,       \* the canvas, empty once taken
  disposal,     \* how the last frame is to be disposed of
  canvasTaken,  \* canvas_taken
  charged,      \* Stats::current
  output,       \* the canvas last delivered to the caller
  input         \* history: the frame of the last call

vars == <<pixels, disposal, canvasTaken, charged, output, input>>

BackupBytes(d) == RgbaBytes * Cardinality(DOMAIN d.saved)

Init ==
  /\ pixels = Blank
  /\ disposal = DefaultDisposal
  /\ canvasTaken = FALSE
  /\ charged = CanvasBytes
  /\ output = Blank
  /\ input = NoPixels

-----------------------------------------------------------------------------
(* process_frame_in_place *)

\* Step 1: the canvas once the previous frame is disposed of, and the charge
\* once its backup is dropped.
Undone   == Disposed(pixels, disposal)
Released == charged - BackupBytes(disposal)

\* A backup that is taken without a charge.
ChargeForgottenFor(f) == Released

\* Step 4: the charge with the backup of the new frame.
ChargeFor(f) == Released + BackupBytes(DisposalFor(f, Undone))

\* Steps 1 to 5 succeed: every buffer they need fits.
Composites(f) == ~canvasTaken /\ ChargeFor(f) <= MaxMemory

Draw(f) ==
  /\ Composites(f)
  /\ input' = f
  /\ pixels' = Blit(Undone, f)
  /\ disposal' = DisposalFor(f, Undone)
  /\ charged' = ChargeFor(f)
  /\ UNCHANGED canvasTaken

\* with_next_frame lends the canvas to the caller.
ProcessFrameInPlace(f) == Draw(f) /\ output' = pixels'

\* Disposal::new fails: the old disposal was applied, the new frame is lost.
BackupFails(f) ==
  /\ ~canvasTaken
  /\ f.dispose = "previous" /\ Clipped(f) # {}
  /\ input' = f
  /\ pixels' = Undone
  /\ disposal' = Spent(disposal)
  /\ charged' = Released
  /\ UNCHANGED <<canvasTaken, output>>

-----------------------------------------------------------------------------
(* process_frame: a copy of the canvas, charged only while it is made *)

ProcessFrame(f) ==
  /\ Draw(f)
  /\ charged' + CanvasBytes <= MaxMemory
  /\ output' = pixels'

\* The frame is on the canvas, but its copy is refused: an error.
CopyFails(f) == Draw(f) /\ UNCHANGED output

-----------------------------------------------------------------------------
(* process_frame_take: the canvas itself is moved out *)

ProcessFrameTake(f) ==
  /\ Composites(f)
  /\ input' = f
  /\ output' = Blit(Undone, f)
  /\ pixels' = NoPixels
  /\ disposal' = DisposalFor(f, Undone)
  /\ canvasTaken' = TRUE
  /\ charged' = ChargeFor(f) - CanvasBytes

-----------------------------------------------------------------------------
(* reset: the canvas is cleared where it still is, and the disposal goes    *)

\* A reset that makes a new canvas in place of one that was moved out.
ResetWithNewCanvas ==
  /\ pixels' = Blank
  /\ disposal' = DefaultDisposal
  /\ UNCHANGED <<canvasTaken, charged, output, input>>

Reset ==
  /\ pixels' = IF canvasTaken THEN pixels ELSE Blank
  /\ disposal' = DefaultDisposal
  /\ UNCHANGED <<canvasTaken, charged, output, input>>

Next ==
  \/ \E f \in Frames :
       \/ ProcessFrameInPlace(f) \/ BackupFails(f)
       \/ ProcessFrame(f) \/ CopyFails(f)
       \/ ProcessFrameTake(f)
  \/ Reset

Spec == Init /\ [][Next]_vars

-----------------------------------------------------------------------------
(* memory_usage, with the canvas counted only while the screen owns it. *)
Held == (IF canvasTaken THEN 0 ELSE CanvasBytes) + BackupBytes(disposal)

(* A canvas is total or gone, and a backup lies inside the region of its   *)
(* Previous disposal.                                                      *)
TypeOK ==
  /\ pixels \in (IF canvasTaken THEN {NoPixels} ELSE [Points -> Pixel])
  /\ disposal.method \in Methods
  /\ disposal.area \in SUBSET Points
  /\ disposal.saved \in UNION {[a -> Pixel] : a \in {{}, disposal.area}}
  /\ disposal.method # "previous" => disposal.saved = NoPixels
  /\ canvasTaken \in BOOLEAN
  /\ charged \in Nat
  /\ output \in [Points -> Pixel]
  /\ input \in Frames \cup {NoPixels}

(* max_memory caps what is really held, not only what is counted: no       *)
(* buffer of the screen is ever uncharged, through failed calls, a moved   *)
(* canvas and resets, and the charge itself stays within the limit.        *)
HeldWithinCap == Held <= charged /\ charged <= MaxMemory

(* The lazy scheme (one region, one backup, applied a frame late) shows    *)
(* exactly the canvases of the eager whole-canvas semantics, for every     *)
(* sequence of calls, failures included.                                   *)
Abstract == INSTANCE Compositor WITH
  shown <- pixels,
  base <- IF canvasTaken THEN NoPixels ELSE Disposed(pixels, disposal),
  output <- output,
  input <- input

ImplementsCompositor == Abstract!Spec

(* A canvas moved out by process_frame_take is never drawn on or delivered *)
(* again: every later call is refused (screen.rs:259-275).                 *)
TakenIsFinal == [][canvasTaken => UNCHANGED <<pixels, output, canvasTaken>>]_vars
=============================================================================
