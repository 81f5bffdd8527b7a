---------------------------- MODULE ScreenProofs -----------------------------
(***************************************************************************)
(* What holds of the screen for every size of canvas, every set of frames  *)
(* and every memory limit: clipping is intersection with the canvas, the   *)
(* regional backup of one frame undoes exactly that frame, the screen      *)
(* implements the whole-canvas compositor, and what it holds is within     *)
(* the limit.                                                              *)
(***************************************************************************)
EXTENDS Screen, FiniteSetTheorems, TLAPS

Canvases == [Points -> Pixel]

(* clip_frame_bounds keeps exactly the part of the rectangle that is on    *)
(* the canvas, wherever the rectangle is.                                  *)
THEOREM ClipIsIntersection ==
  ASSUME NEW r \in Rects
  PROVE  Area(ClipFrameBounds(r)) = Area(r) \cap Points
<1> DEFINE c == ClipFrameBounds(r)
<1>1. r.left \in Nat /\ r.top \in Nat /\ r.width \in Nat /\ r.height \in Nat
  BY DEF Rects
<1>2. Width \in Nat /\ Height \in Nat
  BY CanvasAssumption
<1>3. c.left .. c.left + c.width - 1
        = (r.left .. r.left + r.width - 1) \cap (0 .. Width - 1)
  BY <1>1, <1>2 DEF ClipFrameBounds, AtMost
<1>4. c.top .. c.top + c.height - 1
        = (r.top .. r.top + r.height - 1) \cap (0 .. Height - 1)
  BY <1>1, <1>2 DEF ClipFrameBounds, AtMost
<1> HIDE DEF c
<1>5. QED
  BY <1>3, <1>4 DEF Area, Points, c

(* The visible part of a frame is on the canvas and has an image there.    *)
LEMMA ClippedVisible ==
  ASSUME NEW f \in Frames
  PROVE  /\ Clipped(f) \subseteq Points
         /\ \A p \in Clipped(f) : f.image[p] \in Pixel \cup {Skip}
         /\ f.dispose \in Methods
BY ClipIsIntersection, ScreenAssumption DEF Clipped

LEMMA SkipIsNoPixel == Skip \notin Pixel
BY CanvasAssumption DEF Pixel

LEMMA PointsNonEmpty == <<0, 0>> \in Points
BY CanvasAssumption DEF Points

LEMMA CanvasIsNotGone == \A c \in Canvases : c # NoPixels
<1> SUFFICES ASSUME NEW c \in Canvases, c = NoPixels PROVE FALSE
  OBVIOUS
<1>1. DOMAIN c = Points
  BY DEF Canvases
<1>2. DOMAIN c = {}
  BY DEF NoPixels
<1>3. QED
  BY <1>1, <1>2, PointsNonEmpty

LEMMA BlitType ==
  ASSUME NEW c \in Canvases, NEW f \in Frames
  PROVE  Blit(c, f) \in Canvases
BY ClippedVisible DEF Blit, Canvases

LEMMA DisposedType ==
  ASSUME NEW c \in Canvases, NEW d,
         d.saved \in UNION {[a -> Pixel] : a \in SUBSET Points}
  PROVE  Disposed(c, d) \in Canvases
BY DEF Disposed, Fill, Restored, Canvases, Pixel

(* A backup of the region of a frame, taken before the frame is drawn,     *)
(* undoes the frame on the whole canvas.                                   *)
LEMMA BackupUndoesFrame ==
  ASSUME NEW c \in Canvases, NEW f \in Frames
  PROVE  Restored(Blit(c, f), Saved(c, Clipped(f))) = c
BY ClippedVisible DEF Restored, Blit, Saved, Canvases

(* Disposing twice is disposing once, whether or not the backup was spent. *)
LEMMA DisposedOnce ==
  ASSUME NEW c \in Canvases, NEW d,
         d = [method |-> d.method, area |-> d.area, saved |-> d.saved],
         d.saved \in UNION {[a -> Pixel] : a \in SUBSET Points}
  PROVE  Disposed(Disposed(c, d), Spent(d)) = Disposed(c, d)
<1>1. Disposed(c, d) \in Canvases
  BY DisposedType
<1>2. Spent(d).method = d.method /\ Spent(d).area = d.area /\ Spent(d).saved = NoPixels
  BY DEF Spent
<1>3. CASE d.method = "background"
  BY <1>1, <1>2, <1>3 DEF Disposed, Fill, Canvases
<1>4. CASE d.method = "previous"
  BY <1>1, <1>2, <1>4 DEF Disposed, Restored, NoPixels, Canvases
<1>5. CASE d.method \notin {"background", "previous"}
  BY <1>1, <1>2, <1>5 DEF Disposed
<1>6. QED
  BY <1>3, <1>4, <1>5

-----------------------------------------------------------------------------
(* The type invariant.                                                      *)

Disposals ==
  {d \in [method : Methods, area : SUBSET Points,
          saved : UNION {[a -> Pixel] : a \in SUBSET Points}] :
     /\ d.saved \in UNION {[a -> Pixel] : a \in {{}, d.area}}
     /\ d.method # "previous" => d.saved = NoPixels}

TypeInv == TypeOK /\ disposal \in Disposals

LEMMA NoPixelsType == NoPixels \in [{} -> Pixel]
BY DEF NoPixels

LEMMA DefaultDisposalType == DefaultDisposal \in Disposals
<1>1. DefaultDisposal.saved \in [{} -> Pixel]
  BY NoPixelsType DEF DefaultDisposal
<1>2. QED
  BY <1>1 DEF DefaultDisposal, Disposals, Methods

LEMMA SpentType == ASSUME NEW d \in Disposals PROVE Spent(d) \in Disposals
BY NoPixelsType DEF Spent, Disposals

LEMMA DisposalForType ==
  ASSUME NEW c \in Canvases, NEW f \in Frames
  PROVE  DisposalFor(f, c) \in Disposals
<1>1. Clipped(f) \subseteq Points /\ f.dispose \in Methods
  BY ClippedVisible
<1>2. Saved(c, Clipped(f)) \in [Clipped(f) -> Pixel]
  BY <1>1 DEF Saved, Canvases
<1>3. QED
  BY <1>1, <1>2, NoPixelsType DEF DisposalFor, Disposals

LEMMA UndoneType ==
  TypeInv /\ ~canvasTaken => pixels \in Canvases /\ Undone \in Canvases
BY DisposedType DEF TypeInv, TypeOK, Disposals, Undone, Canvases

LEMMA BytesType ==
  /\ CanvasBytes \in Nat
  /\ \A d \in Disposals : BackupBytes(d) \in Nat
<1>1. IsFiniteSet(Points) /\ Cardinality(Points) = Width * Height
  <2>1. ASSUME NEW n \in Nat \ {0}
        PROVE  IsFiniteSet(0 .. n - 1) /\ Cardinality(0 .. n - 1) = n
    <3>1. 0 \in Int /\ n - 1 \in Int /\ ~(0 > n - 1) /\ (n - 1) - 0 + 1 = n
      OBVIOUS
    <3> DEFINE last == n - 1
    <3> HIDE DEF last
    <3>2. IsFiniteSet(0 .. last)
      BY <3>1, FS_Interval, Zenon DEF last
    <3>3. Cardinality(0 .. last) = IF 0 > last THEN 0 ELSE last - 0 + 1
      BY <3>1, FS_Interval, Zenon DEF last
    <3>4. QED
      BY <3>1, <3>2, <3>3 DEF last
  <2>2. /\ IsFiniteSet(0 .. Width - 1) /\ Cardinality(0 .. Width - 1) = Width
        /\ IsFiniteSet(0 .. Height - 1) /\ Cardinality(0 .. Height - 1) = Height
    BY <2>1, CanvasAssumption
  <2> DEFINE xs == 0 .. Width - 1
             ys == 0 .. Height - 1
             product == xs \X ys
  <2>3. IsFiniteSet(xs) /\ IsFiniteSet(ys)
    BY <2>2
  <2>4. Cardinality(xs) = Width /\ Cardinality(ys) = Height
    BY <2>2
  <2>5. Points = product
    BY DEF Points
  <2> HIDE DEF xs, ys
  <2>6. /\ IsFiniteSet(product)
        /\ Cardinality(product) = Cardinality(xs) * Cardinality(ys)
    BY <2>3, FS_Product, Zenon
  <2> HIDE DEF product
  <2>7. Cardinality(product) = Width * Height
    BY <2>4, <2>6, Zenon
  <2>8. QED
    BY <2>5, <2>6, <2>7, Zenon
<1>2. CanvasBytes \in Nat
  <2>1. Cardinality(Points) \in Nat
    BY <1>1, FS_CardinalityType
  <2>2. CanvasBytes = RgbaBytes * Cardinality(Points)
    BY <1>1 DEF CanvasBytes
  <2>3. QED
    BY <2>1, <2>2 DEF RgbaBytes
<1>3. ASSUME NEW d \in Disposals PROVE BackupBytes(d) \in Nat
  <2>1. DOMAIN d.saved \subseteq Points
    BY DEF Disposals
  <2>2. Cardinality(DOMAIN d.saved) \in Nat
    BY <2>1, <1>1, FS_Subset, FS_CardinalityType
  <2>3. QED
    BY <2>2 DEF BackupBytes, RgbaBytes
<1>4. QED
  BY <1>2, <1>3

LEMMA NoBackupIsFree ==
  /\ BackupBytes(DefaultDisposal) = 0
  /\ \A d \in Disposals : BackupBytes(Spent(d)) = 0
<1>1. Cardinality(DOMAIN NoPixels) = 0
  BY FS_EmptySet DEF NoPixels
<1>2. DefaultDisposal.saved = NoPixels /\ \A d \in Disposals : Spent(d).saved = NoPixels
  BY DEF DefaultDisposal, Spent, Disposals
<1>3. QED
  BY <1>1, <1>2 DEF BackupBytes, RgbaBytes

LEMMA InitTypeInv == Init => TypeInv
<1> SUFFICES ASSUME Init PROVE TypeInv
  OBVIOUS
<1>1. disposal \in Disposals
  BY DefaultDisposalType DEF Init
<1>2. Blank \in Canvases
  BY DEF Blank, Canvases, Pixel
<1>3. TypeOK
  BY <1>1, <1>2, BytesType DEF Init, TypeOK, Disposals, Canvases
<1>4. QED
  BY <1>1, <1>3 DEF TypeInv

LEMMA NextTypeInv == TypeInv /\ Held <= charged /\ [Next]_vars => TypeInv'
<1> SUFFICES ASSUME TypeInv, Held <= charged, [Next]_vars PROVE TypeInv'
  OBVIOUS
<1>1. disposal \in Disposals /\ charged \in Nat /\ TypeOK
  BY DEF TypeInv, TypeOK
<1>2. ASSUME ~canvasTaken PROVE pixels \in Canvases /\ Undone \in Canvases
  BY <1>2, UndoneType
<1>3. Released \in Nat /\ (~canvasTaken => Released - CanvasBytes \in Nat)
  BY <1>1, BytesType DEF Released, Held
<1>4. ASSUME NEW f \in Frames, ~canvasTaken
      PROVE  /\ DisposalFor(f, Undone) \in Disposals
             /\ ChargeFor(f) \in Nat
             /\ ChargeFor(f) - CanvasBytes \in Nat
             /\ Blit(Undone, f) \in Canvases
  <2>1. DisposalFor(f, Undone) \in Disposals /\ Blit(Undone, f) \in Canvases
    BY <1>2, <1>4, DisposalForType, BlitType
  <2>2. QED
    BY <2>1, <1>3, <1>4, BytesType DEF ChargeFor
<1>5. ASSUME NEW f \in Frames, Draw(f), output' \in {output, pixels'}
      PROVE  TypeInv'
  <2>1. ~canvasTaken /\ ~canvasTaken'
    BY <1>5, <1>1 DEF Draw, Composites, TypeOK
  <2>2. pixels' \in Canvases /\ disposal' \in Disposals /\ charged' \in Nat
    BY <1>5, <2>1, <1>4 DEF Draw
  <2>3. QED
    BY <2>1, <2>2, <1>1, <1>5 DEF TypeInv, TypeOK, Disposals, Canvases, Draw
<1>6. ASSUME NEW f \in Frames, BackupFails(f) PROVE TypeInv'
  <2>1. disposal' \in Disposals
    BY <1>1, <1>6, SpentType DEF BackupFails
  <2>2. pixels' \in Canvases /\ charged' \in Nat
    BY <1>2, <1>3, <1>6 DEF BackupFails
  <2>3. QED
    BY <2>1, <2>2, <1>1, <1>6 DEF TypeInv, TypeOK, Disposals, Canvases, BackupFails
<1>7. ASSUME NEW f \in Frames, ProcessFrameTake(f) PROVE TypeInv'
  <2>1. ~canvasTaken
    BY <1>7 DEF ProcessFrameTake, Composites
  <2>2. disposal' \in Disposals /\ output' \in Canvases /\ charged' \in Nat
    BY <2>1, <1>4, <1>7 DEF ProcessFrameTake
  <2>3. QED
    BY <2>2, <1>1, <1>7 DEF TypeInv, TypeOK, Disposals, Canvases, ProcessFrameTake
<1>8. CASE Reset
  <2>1. disposal' \in Disposals
    BY <1>8, DefaultDisposalType DEF Reset
  <2>2. Blank \in Canvases
    BY DEF Blank, Canvases, Pixel
  <2>3. QED
    BY <2>1, <2>2, <1>1, <1>8 DEF TypeInv, TypeOK, Disposals, Canvases, Reset
<1>9. CASE UNCHANGED vars
  BY <1>1, <1>9 DEF TypeInv, TypeOK, vars
<1>10. QED
  BY <1>5, <1>6, <1>7, <1>8, <1>9
     DEF Next, ProcessFrameInPlace, ProcessFrame, CopyFails

-----------------------------------------------------------------------------
(* The charge.                                                              *)

Bytes == /\ CanvasBytes \in Nat /\ MaxMemory \in Nat /\ CanvasBytes <= MaxMemory

LEMMA NextHeldWithinCap ==
  TypeInv /\ HeldWithinCap /\ [Next]_vars => HeldWithinCap'
<1> SUFFICES ASSUME TypeInv, HeldWithinCap, [Next]_vars PROVE HeldWithinCap'
  OBVIOUS
<1>1. /\ disposal \in Disposals /\ charged \in Nat /\ canvasTaken \in BOOLEAN
      /\ Bytes /\ BackupBytes(disposal) \in Nat
  BY BytesType, ScreenAssumption DEF TypeInv, TypeOK, Bytes
<1>2. ASSUME ~canvasTaken
      PROVE  CanvasBytes <= Released /\ Released <= MaxMemory /\ Released \in Nat
  BY <1>1, <1>2 DEF HeldWithinCap, Held, Released, Bytes
<1>3. ASSUME NEW f \in Frames, ~canvasTaken
      PROVE  BackupBytes(DisposalFor(f, Undone)) \in Nat
  BY <1>3, UndoneType, DisposalForType, BytesType
<1>4. ASSUME NEW f \in Frames, Draw(f) PROVE HeldWithinCap'
  <2>1. ~canvasTaken /\ ~canvasTaken' /\ ChargeFor(f) <= MaxMemory
        /\ disposal' = DisposalFor(f, Undone) /\ charged' = ChargeFor(f)
    BY <1>4, <1>1 DEF Draw, Composites
  <2>2. BackupBytes(disposal') \in Nat /\ charged' = Released + BackupBytes(disposal')
    BY <2>1, <1>3 DEF ChargeFor
  <2>3. Held' = CanvasBytes + BackupBytes(disposal')
    BY <2>1 DEF Held
  <2>4. QED
    BY <2>1, <2>2, <2>3, <1>1, <1>2 DEF HeldWithinCap, Bytes
<1>5. ASSUME NEW f \in Frames, BackupFails(f) PROVE HeldWithinCap'
  <2>1. ~canvasTaken /\ ~canvasTaken' /\ disposal' = Spent(disposal) /\ charged' = Released
    BY <1>5, <1>1 DEF BackupFails
  <2>2. BackupBytes(disposal') = 0
    BY <2>1, <1>1, NoBackupIsFree
  <2>3. Held' = CanvasBytes
    BY <2>1, <2>2, <1>1 DEF Held, Bytes
  <2>4. QED
    BY <2>1, <2>3, <1>2 DEF HeldWithinCap
<1>6. ASSUME NEW f \in Frames, ProcessFrameTake(f) PROVE HeldWithinCap'
  <2>1. ~canvasTaken /\ canvasTaken' /\ ChargeFor(f) <= MaxMemory
        /\ disposal' = DisposalFor(f, Undone) /\ charged' = ChargeFor(f) - CanvasBytes
    BY <1>6 DEF ProcessFrameTake, Composites
  <2>2. /\ BackupBytes(disposal') \in Nat
        /\ ChargeFor(f) = Released + BackupBytes(disposal')
    BY <2>1, <1>3 DEF ChargeFor
  <2>3. Held' = BackupBytes(disposal')
    BY <2>1, <2>2 DEF Held
  <2>4. QED
    BY <2>1, <2>2, <2>3, <1>1, <1>2 DEF HeldWithinCap, Bytes
<1>7. CASE Reset
  <2>1. disposal' = DefaultDisposal /\ UNCHANGED <<charged, canvasTaken>>
    BY <1>7 DEF Reset
  <2>2. BackupBytes(disposal') = 0
    BY <2>1, NoBackupIsFree
  <2>3. QED
    BY <2>1, <2>2, <1>1 DEF HeldWithinCap, Held, Bytes
<1>8. CASE UNCHANGED vars
  BY <1>8 DEF HeldWithinCap, Held, BackupBytes, vars
<1>9. QED
  BY <1>4, <1>5, <1>6, <1>7, <1>8
     DEF Next, ProcessFrameInPlace, ProcessFrame, CopyFails

LEMMA InitHeldWithinCap == Init => HeldWithinCap
BY NoBackupIsFree, BytesType, ScreenAssumption DEF Init, HeldWithinCap, Held

(* Neither type can be proved without the charge: it stays a natural       *)
(* number only because what is released was charged.                       *)
LEMMA Invariance == Spec => [](TypeInv /\ HeldWithinCap)
<1>1. Init => TypeInv /\ HeldWithinCap
  BY InitTypeInv, InitHeldWithinCap
<1>2. TypeInv /\ HeldWithinCap /\ [Next]_vars => (TypeInv /\ HeldWithinCap)'
  BY NextTypeInv, NextHeldWithinCap DEF HeldWithinCap
<1>3. QED
  BY <1>1, <1>2, PTL DEF Spec

(* A canvas is whole or gone and a backup lies inside its region, after     *)
(* every sequence of calls.                                                *)
THEOREM ScreenTypeCorrect == Spec => []TypeOK
<1>1. TypeInv => TypeOK
  BY DEF TypeInv
<1>2. QED
  BY <1>1, Invariance, PTL

(* For every limit and every sequence of calls, refused ones and resets    *)
(* included, the screen never holds more than max_memory and never holds   *)
(* an uncharged buffer.                                                    *)
THEOREM MemoryIsCapped == Spec => [](TypeOK /\ HeldWithinCap)
<1>1. TypeInv => TypeOK
  BY DEF TypeInv
<1>2. QED
  BY <1>1, Invariance, PTL

(* Nothing is drawn on, or delivered from, a canvas that was moved out.    *)
THEOREM MovedCanvasIsFinal == Spec => TakenIsFinal
<1>1. TypeInv /\ [Next]_vars
        => [canvasTaken => UNCHANGED <<pixels, output, canvasTaken>>]_vars
  <2> SUFFICES ASSUME TypeInv, canvasTaken, [Next]_vars
               PROVE  UNCHANGED <<pixels, output, canvasTaken>>
    OBVIOUS
  <2>1. QED
    BY DEF Next, ProcessFrameInPlace, ProcessFrame, CopyFails, Draw, BackupFails,
           ProcessFrameTake, Composites, Reset, vars
<1>2. QED
  BY <1>1, Invariance, PTL DEF Spec, TakenIsFinal

-----------------------------------------------------------------------------
(* The refinement.  Compositor instantiates Canvas with the same constants, *)
(* so its operators are those of Screen.                                    *)

Base == IF canvasTaken THEN NoPixels ELSE Undone

LEMMA SameOperators ==
  /\ Abstract!Blank = Blank
  /\ Abstract!Gone = NoPixels
  /\ Abstract!NoPixels = NoPixels
  /\ \A f \in Frames : Abstract!Clipped(f) = Clipped(f)
  /\ \A c, f : Abstract!Blit(c, f) = Blit(c, f)
  /\ \A c, area : Abstract!Fill(c, area) = Fill(c, area)
<1>1. \A a, b : Abstract!AtMost(a, b) = AtMost(a, b)
  BY DEF AtMost, Abstract!AtMost
<1>2. Abstract!Points = Points
  BY DEF Points, Abstract!Points
<1>3. \A r : Abstract!ClipFrameBounds(r) = ClipFrameBounds(r)
  BY <1>1 DEF ClipFrameBounds, Abstract!ClipFrameBounds
<1>4. \A r : Abstract!Area(r) = Area(r)
  BY DEF Area, Abstract!Area
<1>5. \A f : Abstract!Clipped(f) = Clipped(f)
  BY <1>3, <1>4 DEF Clipped, Abstract!Clipped
<1>6. \A c, f : Abstract!Blit(c, f) = Blit(c, f)
  BY <1>2, <1>5 DEF Blit, Abstract!Blit
<1>7. \A c, area : Abstract!Fill(c, area) = Fill(c, area)
  BY <1>2 DEF Fill, Abstract!Fill
<1>8. Abstract!Blank = Blank
  BY <1>2 DEF Blank, Abstract!Blank
<1>9. Abstract!NoPixels = NoPixels /\ Abstract!Gone = NoPixels
  BY DEF NoPixels, Abstract!NoPixels, Abstract!Gone
<1>10. QED
  BY <1>5, <1>6, <1>7, <1>8, <1>9

(* What the lazy disposal of a frame leaves for the next one is what the   *)
(* compositor decided when the frame was drawn.                            *)
LEMMA DisposalIsAfter ==
  ASSUME TypeInv, ~canvasTaken, NEW f \in Frames
  PROVE  Disposed(Blit(Undone, f), DisposalFor(f, Undone))
           = CASE f.dispose = "previous" -> Undone
               [] f.dispose = "background" -> Fill(Blit(Undone, f), Clipped(f))
               [] OTHER -> Blit(Undone, f)
<1> DEFINE d == DisposalFor(f, Undone)
<1>1. Undone \in Canvases
  BY UndoneType
<1>2. d.method = f.dispose /\ d.area = Clipped(f)
      /\ (f.dispose = "previous" => d.saved = Saved(Undone, Clipped(f)))
  BY DEF DisposalFor
<1> HIDE DEF d
<1>3. f.dispose = "previous" => Restored(Blit(Undone, f), d.saved) = Undone
  BY <1>1, <1>2, BackupUndoesFrame
<1>4. Disposed(Blit(Undone, f), d)
           = CASE f.dispose = "previous" -> Undone
               [] f.dispose = "background" -> Fill(Blit(Undone, f), Clipped(f))
               [] OTHER -> Blit(Undone, f)
  <2>1. CASE f.dispose = "previous"
    BY <2>1, <1>2, <1>3 DEF Disposed
  <2>2. CASE f.dispose = "background"
    BY <2>2, <1>2 DEF Disposed
  <2>3. CASE f.dispose \notin {"previous", "background"}
    BY <2>3, <1>2 DEF Disposed
  <2>4. QED
    BY <2>1, <2>2, <2>3
<1>5. QED
  BY <1>4 DEF d

LEMMA DefaultDisposalDoesNothing == \A c : Disposed(c, DefaultDisposal) = c
BY DEF Disposed, DefaultDisposal

LEMMA BaseIsThere == TypeInv /\ ~canvasTaken => Base = Undone /\ Base # NoPixels
BY UndoneType, CanvasIsNotGone DEF Base

LEMMA InitRefines == Init => Abstract!Init
BY SameOperators, DefaultDisposalDoesNothing DEF Init, Abstract!Init

LEMMA StepRefines ==
  TypeInv /\ TypeInv' /\ [Next]_vars => [Abstract!Next]_(Abstract!vars)
<1> SUFFICES ASSUME TypeInv, TypeInv', [Next]_vars
             PROVE  Abstract!Next \/ UNCHANGED Abstract!vars
  OBVIOUS
<1>1. canvasTaken \in BOOLEAN /\ disposal \in Disposals
  BY DEF TypeInv, TypeOK
<1>2. ASSUME NEW f \in Frames, Draw(f), output' \in {output, pixels'}
      PROVE  Abstract!Draw(f)
  <2>1. ~canvasTaken /\ ~canvasTaken' /\ input' = f
        /\ pixels' = Blit(Undone, f) /\ disposal' = DisposalFor(f, Undone)
    BY <1>1, <1>2 DEF Draw, Composites
  <2>2. Base = Undone /\ Base # NoPixels /\ Base' = Disposed(pixels', disposal')
    BY <2>1, BaseIsThere DEF Base, Undone
  <2>3. Base' = CASE f.dispose = "previous" -> Base
                  [] f.dispose = "background" -> Fill(pixels', Clipped(f))
                  [] OTHER -> pixels'
    BY <2>1, <2>2, DisposalIsAfter
  <2>4. QED
    BY <2>1, <2>2, <2>3, <1>2, SameOperators
       DEF Abstract!Draw, Abstract!After, Base, Undone
<1>3. ASSUME NEW f \in Frames, BackupFails(f) PROVE Abstract!Undraw(f)
  <2>1. ~canvasTaken /\ ~canvasTaken' /\ input' = f /\ output' = output
        /\ pixels' = Undone /\ disposal' = Spent(disposal)
    BY <1>1, <1>3 DEF BackupFails
  <2>2. Disposed(Undone, Spent(disposal)) = Undone
    <3>1. pixels \in Canvases
      BY <2>1, UndoneType
    <3>2. QED
      BY <3>1, <1>1, DisposedOnce DEF Undone, Disposals
  <2>3. Base = Undone /\ Base' = Undone
    BY <2>1, <2>2 DEF Base, Undone
  <2>4. QED
    BY <2>1, <2>3 DEF Abstract!Undraw, Base, Undone
<1>4. ASSUME NEW f \in Frames, ProcessFrameTake(f) PROVE Abstract!GiveAway(f)
  <2>1. ~canvasTaken /\ canvasTaken' /\ input' = f
        /\ output' = Blit(Undone, f) /\ pixels' = NoPixels
    BY <1>4 DEF ProcessFrameTake, Composites
  <2>2. Base = Undone /\ Base # NoPixels /\ Base' = NoPixels
    BY <2>1, BaseIsThere DEF Base
  <2>3. QED
    BY <2>1, <2>2, SameOperators DEF Abstract!GiveAway, Base, Undone
<1>5. CASE Reset
  <2>1. CASE canvasTaken
    <3>1. UNCHANGED <<pixels, output, input>> /\ canvasTaken'
      BY <1>5, <2>1 DEF Reset
    <3>2. QED
      BY <2>1, <3>1 DEF Abstract!vars
  <2>2. CASE ~canvasTaken
    <3>1. pixels' = Blank /\ disposal' = DefaultDisposal /\ ~canvasTaken'
          /\ UNCHANGED <<output, input>>
      BY <1>5, <2>2 DEF Reset
    <3>2. Base # NoPixels /\ Base' = Blank
      BY <2>2, <3>1, BaseIsThere, DefaultDisposalDoesNothing DEF Base, Undone
    <3>3. Abstract!Clear
      BY <3>1, <3>2, SameOperators DEF Abstract!Clear, Base, Undone
    <3>4. QED
      BY <3>3 DEF Abstract!Next
  <2>3. QED
    BY <2>1, <2>2
<1>6. CASE UNCHANGED vars
  BY <1>6 DEF Abstract!vars, vars
<1>7. QED
  BY <1>2, <1>3, <1>4, <1>5, <1>6
     DEF Next, ProcessFrameInPlace, ProcessFrame, CopyFails, Abstract!Next

(* The lazy regional disposal implements the eager whole-canvas compositor *)
(* for every canvas size, frame set and memory limit.                      *)
THEOREM Implementation == Spec => ImplementsCompositor
<1>1. TypeInv /\ TypeInv' /\ [Next]_vars => [Abstract!Next]_(Abstract!vars)
  BY StepRefines
<1>2. QED
  BY InitRefines, <1>1, Invariance, PTL DEF Spec, ImplementsCompositor, Abstract!Spec
=============================================================================
