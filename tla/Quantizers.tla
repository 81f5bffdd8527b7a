------------------------------ MODULE Quantizers ------------------------------
(***************************************************************************)
(* The quantizer backends, src/src/quantize/: how each finds a palette,    *)
(* keeps an entry free for transparency, maps pixels to indices and says   *)
(* which index is transparent.  The five libraries are outside the         *)
(* repository.  What they are taken to do: a library whose palette has     *)
(* room for every wanted entry has them all, otherwise it has some of      *)
(* them; a pixel that has its own entry is mapped to it, and any other     *)
(* pixel to some entry.                                                    *)
(*                                                                         *)
(* Entries are pixels; a color table holds their RGB only.  An image maps  *)
(* the points of a region to pixels, an index image to indices from 0.     *)
(***************************************************************************)
EXTENDS Differencing, Sequences, SequencesExt

CONSTANTS
  TableSize,  \* 256: what a color table holds, and the values of an index
  Black,      \* the RGB of Rgba::TRANSPARENT and of appended entries
  Grays       \* colours with r = g = b

ASSUME QuantizerAssumption ==
  /\ TableSize \in Nat \ {0}
  /\ Black \in Grays /\ Grays \subseteq Colours

Backends == {"zenquant", "quantette", "imagequant", "quantizr", "color_quant"}

None == -1

Rgb(entry) == IF entry = Transparent THEN Black ELSE entry

\* palette_to_bytes
Bytes(entries) == [i \in DOMAIN entries |-> Rgb(entries[i])]

Values(image) == {image[p] : p \in DOMAIN image}

Indices(entries) == 0 .. Len(entries) - 1

\* find_transparent_index, and the libraries' own.
Own(entries) == SelectInSeq(entries, LAMBDA e : e = Transparent) - 1

Visible(entries) == {i \in Indices(entries) : entries[i + 1] # Transparent}

\* The libraries: the palettes of at most `size` entries for some pixels.
Palettes(values, size) ==
  IF Cardinality(values) <= size THEN {SetToSeq(values)}
  ELSE {SetToSeq(s) : s \in kSubset(size, values)}

\* What an index search may return: the first exact entry, or any at all.
Nearest(entries, values, allowed) ==
  {f \in [values -> allowed] :
     \A v \in values :
       LET exact == {i \in allowed : entries[i + 1] = v}
       IN exact # {} => f[v] = Min(exact)}

\* An index image, with transparent pixels on the index `hole` if there is one.
Mapped(entries, image, allowed, hole) ==
  LET searched == Values(image) \ (IF hole = None THEN {} ELSE {Transparent})
  IN {[p \in DOMAIN image |-> IF image[p] \in searched THEN f[image[p]] ELSE hole] :
        f \in Nearest(entries, searched, allowed)}

\* A QuantizedFrame.
Quantized(table, index, transparent) ==
  [table |-> table, index |-> index, transparent |-> transparent]

-----------------------------------------------------------------------------
(* The shared palette                                                       *)

\* compute_sample_indices; its dedup has nothing to remove.
SampleIndices(total, most) ==
  IF most = None \/ most >= total THEN [i \in 1 .. total |-> i - 1]
  ELSE IF most = 1 THEN <<0>>
  ELSE [i \in 1 .. most |-> ((i - 1) * (total - 1)) \div (most - 1)]

AllValues(canvases) == UNION {Values(canvases[i]) : i \in DOMAIN canvases}

Sampled(canvases, most) ==
  LET at == SampleIndices(Len(canvases), most)
  IN AllValues([i \in DOMAIN at |-> canvases[at[i] + 1]])

\* A backend's memory of the palette it built: the library's entries, the
\* color table with what was appended to it, and the appended index.
Shared(entries, table, slot) ==
  [gray |-> FALSE, entries |-> entries, table |-> table, slot |-> slot]

\* append_transparent_slot, and its twin in zenquant_impl.rs
WithSlot(entries) ==
  Shared(entries, Append(Bytes(entries), Black), Len(entries) % TableSize)

NeedsTransparent(canvases, transparency) ==
  /\ transparency
  /\ Len(canvases) > 1 \/ Transparent \in AllValues(canvases)

\* A palette that leaves no entry free.
WholeTable(needs) == TableSize

ColoursFor(needs) == IF needs THEN TableSize - 1 ELSE TableSize

\* zenquant keeps an entry for a transparent input, and only then.
ZenquantPalettes(values, size) ==
  {e \in Palettes(values, size) : Transparent \in values => Own(e) # None}

ZenquantShared(canvases, transparency, most) ==
  LET needs == NeedsTransparent(canvases, transparency)
  IN {IF needs /\ Own(e) = None THEN WithSlot(e) ELSE Shared(e, Bytes(e), Own(e)) :
        e \in ZenquantPalettes(Sampled(canvases, most), ColoursFor(needs))}

\* quantette sees RGB only.
QuantetteShared(canvases, transparency, most) ==
  LET needs  == NeedsTransparent(canvases, transparency)
      values == {Rgb(v) : v \in Sampled(canvases, most)}
  IN {IF needs THEN WithSlot(e) ELSE Shared(e, Bytes(e), None) :
        e \in Palettes(values, ColoursFor(needs))}

\* quantizr, color_quant, imagequant: the entries as they come.
LibraryShared(canvases, most) ==
  {Shared(e, Bytes(e), None) : e \in Palettes(Sampled(canvases, most), TableSize)}

BuildSharedPalette(backend, canvases, transparency, most) ==
  CASE backend = "zenquant" -> ZenquantShared(canvases, transparency, most)
    [] backend = "quantette" -> QuantetteShared(canvases, transparency, most)
    [] OTHER -> LibraryShared(canvases, most)

-----------------------------------------------------------------------------
(* quantize_frame                                                           *)

ZenquantFrame(image) ==
  UNION {{Quantized(Bytes(e), m, Own(e)) : m \in Mapped(e, image, Visible(e), Own(e))} :
           e \in ZenquantPalettes(Values(image), TableSize)}

QuantetteFrame(image) ==
  LET seeThrough == Transparent \in Values(image)
      colours    == {Rgb(v) : v \in Values(image)}
  IN UNION {LET shared == IF seeThrough THEN WithSlot(e) ELSE Shared(e, Bytes(e), None)
            IN {Quantized(shared.table, m, shared.slot) :
                  m \in Mapped(e, image, Indices(e), shared.slot)} :
              e \in Palettes(colours, ColoursFor(seeThrough))}

\* quantizr, color_quant: transparency is one more dimension of a colour, and
\* the transparent entry is declared whether or not a pixel uses it.
LibraryFrame(image) ==
  UNION {{Quantized(Bytes(e), m, Own(e)) : m \in Mapped(e, image, Indices(e), Own(e))} :
           e \in Palettes(Values(image), TableSize)}

\* imagequant with set_background: what matches the background may become
\* transparent, where the palette has an entry for it.
OnBackground(m, image, behind, own) ==
  LET matching == IF own = None \/ behind = <<>> \/ DOMAIN image # Points THEN {}
                  ELSE {p \in Points : image[p] = behind[1][p]}
  IN {[p \in DOMAIN m |-> IF p \in s THEN own ELSE m[p]] : s \in SUBSET matching}

ImagequantFrame(image, behind) ==
  LET offered == IF behind = <<>> THEN {} ELSE {Transparent}
  IN UNION {UNION {{Quantized(Bytes(e), b, Own(e)) : b \in OnBackground(m, image, behind, Own(e))} :
                     m \in Mapped(e, image, Indices(e), Own(e))} :
              e \in Palettes(Values(image), TableSize)
                      \cup Palettes(Values(image) \cup offered, TableSize)}

QuantizeFrame(backend, image, behind) ==
  CASE backend = "zenquant" -> ZenquantFrame(image)
    [] backend = "quantette" -> QuantetteFrame(image)
    [] backend = "imagequant" -> ImagequantFrame(image, behind)
    [] OTHER -> LibraryFrame(image)

-----------------------------------------------------------------------------
(* quantize_frame_with_palette                                              *)

\* The opaque entry that a transparent pixel was mapped to, declared
\* transparent.
DeclareWhatWasHit(entries, slot, m, image) ==
  LET hit == {m[p] : p \in {q \in DOMAIN image : image[q] = Transparent}}
  IN IF hit = {} THEN None ELSE Min(hit)

\* The reserved slot is declared only where it is used.
DeclaredIfUsed(entries, slot, m, image) ==
  IF slot \in Values(m) THEN slot ELSE None

\* A palette without visible entries cannot be used: the frame gets its own.
ZenquantRemap(shared, image) ==
  LET own  == Own(shared.entries)
      hole == IF own # None THEN own ELSE shared.slot
  IN IF Visible(shared.entries) = {} THEN ZenquantFrame(image)
     ELSE {Quantized(shared.table, m,
                     IF own # None THEN own
                     ELSE DeclaredIfUsed(shared.entries, shared.slot, m, image)) :
             m \in Mapped(shared.entries, image, Visible(shared.entries), hole)}

\* The search is over the real colours: never the slot.
QuantetteRemap(shared, image) ==
  {Quantized(shared.table, m,
             DeclaredIfUsed(shared.entries, shared.slot, m, image)) :
     m \in Mapped(shared.entries, image, Indices(shared.entries), shared.slot)}

LibraryRemap(shared, image) ==
  {Quantized(shared.table, m, Own(shared.entries)) :
     m \in Mapped(shared.entries, image, Indices(shared.entries), Own(shared.entries))}

ImagequantRemap(shared, image, behind) ==
  UNION {{Quantized(shared.table, b, Own(shared.entries)) :
            b \in OnBackground(m, image, behind, Own(shared.entries))} :
           m \in Mapped(shared.entries, image, Indices(shared.entries), Own(shared.entries))}

RemapFrame(backend, shared, image, behind) ==
  CASE backend = "zenquant" -> ZenquantRemap(shared, image)
    [] backend = "quantette" -> QuantetteRemap(shared, image)
    [] backend = "imagequant" -> ImagequantRemap(shared, image, behind)
    [] OTHER -> LibraryRemap(shared, image)

-----------------------------------------------------------------------------
(* The exact palette of gray frames, grayscale.rs                           *)

\* GrayPalette::try_build: none unless everything opaque is gray, something
\* is, and a reserved entry finds room.
TryGray(values, force) ==
  LET grays   == values \ {Transparent}
      reserve == force \/ Transparent \in values
      entries == SetToSeq(grays)
  IN IF grays = {} \/ ~grays \subseteq Grays \/ Cardinality(grays) > ColoursFor(reserve)
     THEN <<>>
     ELSE <<[(IF reserve THEN WithSlot(entries) ELSE Shared(entries, Bytes(entries), None))
             EXCEPT !.gray = TRUE]>>

\* GrayPalette::remap: the slot is declared whether or not it is used.
GrayRemap(gray, image) ==
  {Quantized(gray.table, m, gray.slot) :
     m \in Mapped(gray.entries, image, Indices(gray.entries), gray.slot)}

-----------------------------------------------------------------------------
(* A palette the caller gave with a frame: Palette::map_pixels in types.rs  *)

MapPixels(entries, image) ==
  {Quantized(Bytes(entries), m, Own(entries)) :
     m \in Mapped(Bytes(entries), image, Indices(entries), Own(entries))}
=============================================================================
