----------------------------- MODULE BlockStream ------------------------------
(***************************************************************************)
(* A GIF file as a sequence of blocks, and what decoding it consumes.      *)
(* The grammar is that of the gif crate's StreamingDecoder as              *)
(* src/src/inventory.rs describes it and src/src/decode/mod.rs drives it:  *)
(* application extensions count only until the first block that is not an  *)
(* extension, a control extension has the four bytes of its last           *)
(* sub-block, an unknown introducer swallows the sub-blocks behind it.     *)
(* Bytes are abstract: what a block says is in its fields.                 *)
(***************************************************************************)
EXTENDS Integers, Sequences, FiniteSets

CONSTANTS
  Blocks,       \* the blocks a file may contain, see BlockOK
  Files,        \* the files: [screen, colours, entries, blocks], see FileOK
  Points,       \* the points of the logical screen
  MaxFrames,    \* Limits::max_frame_count
  MaxDuration   \* Limits::max_animation_ms, in hundredths of a second

NoControl == [delay |-> 0, transparent |-> FALSE, dispose |-> "malformed"]

Controls == [delay : Nat, transparent : BOOLEAN,
             dispose : {"keep", "background", "previous"}]

\* What a block may be.  An image owns a colour table or not; `reads` says
\* how far its data can be read; `code` is its LZW minimum code size; on the
\* points of `beyond` its index, not the transparent one, is beyond the table.
ImageOK(b) ==
  /\ b.kind = "image"
  /\ b.own \in BOOLEAN /\ b.inside \in BOOLEAN /\ b.code \in 1 .. 8
  /\ b.reads \in {"whole", "fails", "cut", "table", "descriptor"}
  /\ b.area \subseteq Points /\ b.beyond \subseteq b.area

OtherOK(b) ==
  \/ b.kind = "trailer"
  \/ b.kind = "control" /\ b.whole \in BOOLEAN
     /\ {b.first, b.last} \subseteq Controls \cup {NoControl}
  \/ b.kind = "loop" /\ b.whole \in BOOLEAN /\ b.counts \in BOOLEAN
  \/ b.kind = "other" /\ b.whole \in BOOLEAN /\ b.children \in Nat
  \/ b.kind = "unknown" /\ b.whole \in BOOLEAN /\ b.hides \in Seq(Blocks)

BlockOK(b) == ImageOK(b) \/ OtherOK(b)

\* The end of the input cuts this block off.
CutOff(b) ==
  \/ b.kind \in {"control", "loop", "other", "unknown"} /\ ~b.whole
  \/ b.kind = "image" /\ b.reads \in {"cut", "table", "descriptor"}

\* No index is beyond the global table unless the code size reaches there.
InReach(f, b) ==
  b.kind = "image" /\ ~b.own /\ f.colours = "whole" /\ b.beyond # {} => f.entries < 2 ^ b.code

\* Nothing follows a block that is cut off, or a table that is.
FileOK(f) ==
  /\ f.screen \in {"ok", "dims", "memory", "short"}
  /\ f.colours \in {"none", "whole", "cut"} /\ f.entries \in Nat
  /\ f.blocks \in Seq(Blocks)
  /\ \A i \in DOMAIN f.blocks :
       InReach(f, f.blocks[i]) /\ (CutOff(f.blocks[i]) => i = Len(f.blocks))

ASSUME BlockAssumption ==
  /\ \A b \in Blocks : BlockOK(b)
  /\ \A f \in Files : FileOK(f)
  /\ MaxFrames \in Nat /\ MaxDuration \in Nat

-----------------------------------------------------------------------------
(* The decoder's reading.  open: Decoder::new succeeded or may still;      *)
(* going: neither failed nor at the trailer; base: the transparent points  *)
(* the next frame is drawn on; clear: those of the delivered canvases.     *)

ReaderInit(f) ==
  [open |-> f.screen = "ok" /\ f.colours # "cut",
   going |-> f.screen = "ok" /\ f.colours # "cut",
   header |-> TRUE, control |-> 0, pending |-> NoControl, elapsed |-> 0,
   images |-> 0, applied |-> {}, delivered |-> {}, loopAt |-> 0,
   base |-> Points, clear |-> {}]

ReadFailure(r) == [r EXCEPT !.going = FALSE, !.open = @ /\ ~r.header]

\* read_control_extension
ReadControl(r, i, b) ==
  IF b.whole /\ b.last # NoControl
  THEN [r EXCEPT !.control = i, !.pending = b.last]
  ELSE ReadFailure(r)

\* A loop count is taken while the header is read.
ReadLoop(r, i, b) ==
  IF ~b.whole THEN ReadFailure(r)
  ELSE IF b.counts /\ r.header THEN [r EXCEPT !.loopAt = i] ELSE r

\* An image the decoder never starts on: over the limit, without area or off
\* the screen, or without any colours.
Refused(f, r, b) ==
  \/ b.reads = "descriptor" \/ r.images >= MaxFrames
  \/ ~b.inside \/ (~b.own /\ f.colours = "none")

\* The transparent points of the canvas a frame makes, and of the one the
\* next frame is drawn on.  lookup_table is transparent beyond the palette.
Shown(r, b) ==
  (IF r.pending.transparent THEN r.base ELSE r.base \ b.area) \cup b.beyond

Under(r, b) ==
  CASE r.pending.dispose = "background" -> Shown(r, b) \cup b.area
    [] r.pending.dispose = "previous" -> r.base
    [] OTHER -> Shown(r, b)

\* next_frame: what is begun applies its control; it is delivered when its
\* data is whole and the animation not too long.
ReadImage(f, r, i, b) ==
  LET begun == [r EXCEPT !.header = FALSE, !.images = @ + 1,
                  !.applied = IF r.control = 0 THEN @ ELSE @ \cup {r.control},
                  !.control = 0, !.pending = NoControl,
                  !.elapsed = @ + r.pending.delay]
  IN IF Refused(f, r, b) THEN [r EXCEPT !.going = FALSE, !.header = FALSE]
     ELSE IF b.reads # "whole" \/ begun.elapsed > MaxDuration
     THEN [begun EXCEPT !.going = FALSE]
     ELSE [begun EXCEPT !.delivered = @ \cup {i}, !.base = Under(r, b),
                        !.clear = @ \cup Shown(r, b)]

Read(f, r, i) ==
  LET b == f.blocks[i]
  IN CASE ~r.going -> r
       [] r.going /\ b.kind = "image" -> ReadImage(f, r, i, b)
       [] r.going /\ b.kind = "control" -> ReadControl(r, i, b)
       [] r.going /\ b.kind = "loop" -> ReadLoop(r, i, b)
       [] r.going /\ b.kind = "other" -> IF b.whole THEN r ELSE ReadFailure(r)
       [] r.going /\ b.kind = "unknown" ->
            [r EXCEPT !.header = FALSE, !.going = b.whole]
       [] OTHER -> [r EXCEPT !.going = FALSE, !.header = FALSE]
=============================================================================
