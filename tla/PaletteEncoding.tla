--------------------------- MODULE PaletteEncoding ----------------------------
(***************************************************************************)
(* Both encoders down to palette indices: the loop of the one-shot encoder *)
(* (encode_gif_with_quantizer, src/src/encode/mod.rs), which is a machine  *)
(* of its own, and what the streaming encoder does to a canvas it writes   *)
(* (prepare_frame_quantized, src/src/encode/encoder.rs), which module      *)
(* Encoder takes as exact.  inputs, dispositions and lookahead are those *)
(* of Differencing; quantizers are those of Quantizers.                    *)
(***************************************************************************)
EXTENDS Quantizers

CONSTANTS
  Animations,  \* the sequences of canvases to encode
  Configs,     \* EncoderConfigs with what a caller chooses besides
  MaxFrames    \* Limits::max_frame_count

ASSUME PaletteEncodingAssumption ==
  /\ \A a \in Animations : a # <<>> /\ a \in Seq([Points -> Pixel])
  /\ \A c \in Configs :
       /\ c.oneShot \in BOOLEAN       \* encode_gif_with_quantizer
       /\ c.built \subseteq Backends  \* the cargo features
       /\ c.quantizer \in c.built \cup {"none"}       \* a required choice
       /\ \A i \in DOMAIN c.preference : c.preference[i] \in Seq(Backends)
       /\ c.fallback \in Backends    \* quantizer_backend
       /\ c.transparency \in BOOLEAN  \* use_transparency
       /\ c.buffered \in Nat          \* canvases the shared palette is built
                                      \* from; 0 without shared_palette
       /\ c.lossless \in BOOLEAN      \* quality = 100
       /\ c.strict \in BOOLEAN        \* palette_error_threshold.is_some()
       /\ c.given \in Seq(Pixel)      \* FrameInput::palette, empty for none
  /\ MaxFrames \in Nat

VARIABLES
  config,    \* config, never written
  backend,   \* quantizer, never written
  inputs,    \* frames, never written
  palette,   \* the shared palette, as a sequence of at most one
  at,        \* frame_index
  previous,  \* previous_frame, likewise
  out,       \* the gif::Frames written
  pc, result

vars == <<config, backend, inputs, palette, at, previous, out, pc, result>>

\* What a build without a preferred backend uses.
Priority == <<"zenquant", "quantette", "imagequant", "quantizr", "color_quant">>

FirstAvailable(series, built) ==
  LET i == SelectInSeq(series, LAMBDA b : b \in built)
  IN IF i = 0 THEN "none" ELSE series[i]

\* The quantizer: required, the first available of a preference, or the
\* build's own.  The one-shot encoder knows the first and the last.
Chosen(c) ==
  IF c.quantizer # "none" THEN c.quantizer
  ELSE IF c.oneShot THEN FirstAvailable(Priority, c.built)
  ELSE IF c.preference # <<>> THEN FirstAvailable(c.preference[1], c.built)
  ELSE IF c.fallback \in c.built THEN c.fallback
  ELSE FirstAvailable(Priority, c.built)

\* An encoder whose preference is not in the build is never made.
Init ==
  /\ config \in {c \in Configs : Chosen(c) # "none"}
  /\ backend = Chosen(config)
  /\ inputs \in Animations
  /\ palette = <<>> /\ at = 0 /\ previous = <<>> /\ out = <<>>
  /\ pc = IF config.oneShot \/ config.buffered > 0 THEN "build" ELSE "frames"
  /\ result = "none"

-----------------------------------------------------------------------------
(* The shared palette: of all frames, or of those flush_buffer has          *)

Flushed ==
  IF config.oneShot \/ config.buffered > Len(inputs) THEN inputs
  ELSE SubSeq(inputs, 1, config.buffered)

\* flush_buffer tries the gray palette first, when nothing may be lost.
GrayShared ==
  IF config.oneShot \/ ~config.lossless THEN <<>>
  ELSE TryGray(AllValues(Flushed), config.transparency /\ Len(Flushed) > 1)

BuildPalette ==
  /\ pc = "build"
  /\ IF GrayShared # <<>> THEN palette' = GrayShared
     ELSE \E s \in BuildSharedPalette(backend, Flushed, config.transparency, None) :
            palette' = <<s>>
  /\ pc' = "frames"
  /\ UNCHANGED <<config, backend, inputs, at, previous, out, result>>

GlobalTable == IF palette = <<>> THEN <<>> ELSE palette[1].table

-----------------------------------------------------------------------------
(* prepare_frame_quantized                                                  *)

Undiffed(new) == [rect |-> Whole, image |-> new]

\* A diff's unchanged pixels are Rgba::TRANSPARENT.
Marked(new, old) ==
  LET diff == DiffFrame(new, old)
  IN [diff EXCEPT !.image =
        [p \in DOMAIN @ |-> IF @[p] = Skip THEN Transparent ELSE @[p]]]

\* No diff against a palette that cannot mark unchanged pixels.
AllowDiff ==
  /\ config.transparency
  /\ palette # <<>> /\ palette[1].gray => palette[1].slot # None
  /\ config.given # <<>> => Own(config.given) # None

Drawn(new, behind) ==
  IF AllowDiff /\ behind # <<>> /\ HasDiff(new, behind[1])
  THEN Marked(new, behind[1]) ELSE Undiffed(new)

\* compute_remap_rmse is above any threshold only if a visible pixel is wrong.
Inexact(q, image) ==
  \E p \in DOMAIN image :
    /\ image[p] # Transparent
    /\ q.index[p] + 1 \in DOMAIN q.table
    /\ q.table[q.index[p] + 1] # image[p]

\* A quantized frame whose table is written with it, or not.
Tabled(q, local) ==
  [table |-> q.table, index |-> q.index, transparent |-> q.transparent, local |-> local]

Fresh(image, behind) ==
  {Tabled(q, TRUE) : q \in QuantizeFrame(backend, image, behind)}

\* An independent table is never read as the global one.
FromShared(image, behind) ==
  LET gray == palette[1]
      fits == \A v \in Values(image) :
                IF v = Transparent THEN gray.slot # None ELSE v \in Grays
      remapped == IF gray.gray THEN IF fits THEN GrayRemap(gray, image) ELSE {}
                  ELSE RemapFrame(backend, palette[1], image, behind)
  IN {Tabled(q, q.table # palette[1].table) : q \in remapped}
       \cup (IF remapped = {} \/ (config.strict /\ \E q \in remapped : Inexact(q, image))
             THEN Fresh(image, behind) ELSE {})

\* Without a shared palette, gray frames have an exact one of their own.
PerFrame(image, behind) ==
  LET gray == IF config.lossless THEN TryGray(Values(image), FALSE) ELSE <<>>
  IN IF gray # <<>> THEN {Tabled(q, TRUE) : q \in GrayRemap(gray[1], image)}
     ELSE Fresh(image, behind)

\* Transparent pixels without an index for them.
Unmarked(q, image) == Transparent \in Values(image) /\ q.transparent = None

Framed(rect, q) ==
  [rect |-> rect, index |-> q.index, transparent |-> q.transparent,
   table |-> IF palette # <<>> /\ ~q.local THEN <<>> ELSE q.table]

\* The guard against a palette without an entry for what must stay
\* transparent: the whole canvas is quantized on its own.
Redone(new, behind) ==
  {Framed(Whole, q) : q \in {r \in Fresh(new, behind) : ~Unmarked(r, new)}}

\* The writer refuses the frame of a longer table (gif crate).
Writable(table) == Len(table) <= TableSize

PreparedFrames(new, behind) ==
  LET drawn == Drawn(new, behind)
      tried == IF palette # <<>> THEN FromShared(drawn.image, behind)
               ELSE PerFrame(drawn.image, behind)
  IN IF config.given # <<>>
     THEN {Framed(drawn.rect, Tabled(q, TRUE)) :
             q \in IF Writable(config.given) THEN MapPixels(config.given, drawn.image) ELSE {}}
     ELSE {Framed(drawn.rect, q) : q \in {r \in tried : ~Unmarked(r, drawn.image)}}
            \cup (IF \E q \in tried : Unmarked(q, drawn.image) THEN Redone(new, behind) ELSE {})

-----------------------------------------------------------------------------
(* The one-shot encoder's frames: always whole, on the shared palette       *)

OneShotFrames(new, behind) ==
  {[rect |-> Whole, index |-> q.index, transparent |-> q.transparent,
    table |-> IF q.table # GlobalTable THEN q.table ELSE <<>>] :
     q \in RemapFrame(backend, palette[1], new, behind)}

-----------------------------------------------------------------------------
(* clear_disposal: an index is declared transparent, one that nothing uses  *)
(* or the least used one, whose pixels move to the nearest other entry      *)

\* A frame with its disposal.
Disposing(g, dispose) ==
  [rect |-> g.rect, index |-> g.index, transparent |-> g.transparent, table |-> g.table,
   dispose |-> dispose]

TableOf(g) == IF g.table = <<>> THEN GlobalTable ELSE g.table

Uses(g, i) == Cardinality({p \in DOMAIN g.index : g.index[p] = i})

LeastUsed(g) ==
  CHOOSE i \in 0 .. TableSize - 1 :
    \A j \in 0 .. TableSize - 1 : Uses(g, i) < Uses(g, j) \/ (Uses(g, i) = Uses(g, j) /\ i <= j)

Extended(table, n) == [i \in 1 .. n |-> IF i <= Len(table) THEN table[i] ELSE Black]

ClearDisposal(g) ==
  LET slot   == LeastUsed(g)
      table  == TableOf(g)
      others == IF Uses(g, slot) = 0 THEN {slot} ELSE Indices(table) \ {slot}
  IN IF g.transparent # None THEN {Disposing(g, "background")}
     ELSE {[rect |-> g.rect, dispose |-> "background", transparent |-> slot,
            index |-> [p \in DOMAIN g.index |-> IF g.index[p] = slot THEN i ELSE g.index[p]],
            table |-> IF slot >= Len(table) THEN Extended(table, slot + 1) ELSE g.table] :
             i \in others}

-----------------------------------------------------------------------------
(* The loops                                                                *)

\* A loop that leaves the last canvas standing.
ClearsBeforeNext ==
  at + 1 < Len(inputs) /\ NeedsCanvasClear(inputs[at + 1], inputs[at + 2])

\* The lookahead, and for the last frame first_has_alpha.
ClearAfter ==
  IF at + 1 < Len(inputs) THEN NeedsCanvasClear(inputs[at + 1], inputs[at + 2])
  ELSE HasAlpha(inputs[1])

\* A frame that is cleared is not drawn on the one before.
Behind == IF ClearAfter THEN <<>> ELSE previous

FramesNow ==
  LET new  == inputs[at + 1]
      made == IF config.oneShot THEN OneShotFrames(new, Behind)
              ELSE PreparedFrames(new, Behind)
  IN IF ClearAfter THEN UNION {ClearDisposal(g) : g \in made}
     ELSE {Disposing(g, "keep") : g \in made}

\* check_frame_count; the streaming encoder's is in add_frame.
FrameAllowed == config.oneShot => at < MaxFrames

WriteFrame ==
  /\ pc = "frames" /\ at < Len(inputs) /\ FrameAllowed
  /\ \E g \in FramesNow : out' = Append(out, g)
  /\ previous' = IF config.transparency /\ ~ClearAfter THEN <<inputs[at + 1]>> ELSE <<>>
  /\ at' = at + 1
  /\ UNCHANGED <<config, backend, inputs, palette, pc, result>>

\* The stop token, a library's failure, a frame too many, transparent pixels
\* that not even a palette of their own has an index for.
Fail ==
  /\ pc # "done"
  /\ pc' = "done" /\ result' = "failed"
  /\ UNCHANGED <<config, backend, inputs, palette, at, previous, out>>

Seal ==
  /\ pc = "frames" /\ at = Len(inputs)
  /\ pc' = "done" /\ result' = "file"
  /\ UNCHANGED <<config, backend, inputs, palette, at, previous, out>>

Next == BuildPalette \/ WriteFrame \/ Seal \/ Fail

Spec == Init /\ [][Next]_vars

-----------------------------------------------------------------------------
(* A viewer: "Background disposal is transparent only if this frame         *)
(* declares transparency" (encode/mod.rs:98); an index beyond the table     *)
(* shows nothing.                                                           *)

Picture(g) ==
  [p \in DOMAIN g.index |->
     IF g.index[p] = g.transparent \/ g.index[p] + 1 \notin DOMAIN TableOf(g) THEN Skip
     ELSE TableOf(g)[g.index[p] + 1]]

\* What a frame's disposal leaves of a canvas.
Left(canvas, g) ==
  IF g.dispose = "keep" THEN canvas
  ELSE [p \in Points |-> IF p \notin Area(g.rect) THEN canvas[p]
                         ELSE IF g.transparent = None THEN Black ELSE Transparent]

\* The display after n frames, beginning again after the last one.
Displays ==
  LET frame(n) == out[((n - 1) % Len(out)) + 1]
      display[n \in 0 .. 2 * Len(out)] ==
        IF n = 0 THEN Blank
        ELSE Blit(IF n = 1 THEN Blank ELSE Left(display[n - 1], frame(n - 1)),
                  [rect |-> frame(n).rect, image |-> Picture(frame(n))])
  IN display

\* What has been written is watched as it comes, a file over two rounds.
Watched == 1 .. (IF result = "file" THEN 2 * Len(out) ELSE Len(out))

Given(n) == inputs[((n - 1) % Len(out)) + 1]

\* Everything that is drawn with one palette has an entry in it, the RGB of
\* marked pixels too, and one is to spare; a given palette has no opaque entry
\* behind a transparent one of the same RGB, which would be found first.
Fits ==
  LET all == AllValues(inputs)
  IN /\ Cardinality(all \cup {Black}) < TableSize
     /\ palette # <<>> => all \subseteq AllValues(Flushed) \cup {Transparent}
     /\ config.given # <<>> =>
          /\ all \subseteq ToSet(config.given)
          /\ \A i, j \in DOMAIN config.given :
               config.given[i] = Transparent /\ config.given[j] = Black => j < i

\* The backends that promise an entry for transparency, and the streaming
\* encoder, whose guard asks for it.
KeepsTransparency ==
  backend \in {"zenquant", "quantette"} /\ config.given = <<>>

(* When the colours fit, every display is the canvas that was given, on the *)
(* first round and when the animation begins again: palettes, reserved      *)
(* entries, diffs on them and cleared canvases cannot be told from outside. *)
ShownAsGiven ==
  Fits => \A n \in Watched : Displays[n] = Given(n)

(* Even when colours do not fit, what is transparent is what was given as   *)
(* transparent: no opaque pixel is seen through and no transparent one is   *)
(* painted (quantette_impl.rs:65-71, "every dark pixel sharing it became    *)
(* see-through").                                                           *)
SeeThroughAsGiven ==
  KeepsTransparency =>
    \A n \in Watched : \A p \in Points :
      Displays[n][p] = Transparent <=> Given(n)[p] = Transparent

(* Indices of a frame, its transparent one included, lie in its table, and  *)
(* a table holds no more than an index can name: reserved and extended      *)
(* entries do not wrap around to another colour.                            *)
IndicesInTable ==
  \A i \in DOMAIN out :
    /\ Values(out[i].index) \subseteq Indices(TableOf(out[i]))
    /\ out[i].transparent # None => out[i].transparent \in Indices(TableOf(out[i]))
    /\ Len(TableOf(out[i])) <= TableSize
=============================================================================
