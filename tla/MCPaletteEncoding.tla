-------------------------- MODULE MCPaletteEncoding ---------------------------
(* A 3x1 canvas, wide enough for a diff with an unchanged point in its      *)
(* middle, tables of four entries and four opaque colours, two of them gray: *)
(* animations whose colours fit with an entry to spare, fill the table, and  *)
(* do not fit.                                                               *)
EXTENDS EncodeJob

CONSTANTS k, w, r, g

Exactly == {<<p, p>> : p \in Pixel}

Row(p0, p1, p2) ==
  [p \in Points |-> CASE p[1] = 0 -> p0 [] p[1] = 1 -> p1 [] OTHER -> p2]

T == Transparent

Drawings == {Row(k, k, k), Row(k, w, k), Row(w, k, w), Row(T, k, r),
             Row(T, T, T), Row(r, g, w), Row(k, T, g)}

\* One animation is longer than the limit.
AnimationsMC ==
  UNION {[1 .. n -> Drawings] : n \in 1 .. 3}
    \cup {<<Row(k, k, k), Row(k, w, k), Row(T, k, r), Row(k, k, k)>>}

\* A build with one backend, and how a caller comes to it.
Only(b) ==
  [built |-> {b}, quantizer |-> "none", preference |-> <<>>, fallback |-> "quantizr"]

Config(oneShot, choice, transparency, buffered, lossless, strict, given) ==
  [oneShot |-> oneShot, transparency |-> transparency, buffered |-> buffered,
   lossless |-> lossless, strict |-> strict, given |-> given] @@ choice

OneShots ==
  {Config(TRUE, Only(b), t, 0, FALSE, FALSE, <<>>) : b \in Backends, t \in BOOLEAN}

\* What quantette cannot keep transparent with use_transparency off.
Opaque == Config(TRUE, Only("quantette"), FALSE, 0, FALSE, FALSE, <<>>)

OpaqueMC == {Opaque}

Streams ==
  {Config(FALSE, Only(b), t, n, FALSE, FALSE, <<>>) :
     b \in Backends, t \in BOOLEAN, n \in {0, 1, 2}}
    \cup {Config(FALSE, Only(b), TRUE, n, lossless, TRUE, <<>>) :
            b \in {"zenquant", "quantette", "quantizr"}, n \in {0, 1, 2}, lossless \in BOOLEAN}
    \cup {Config(FALSE, Only("quantizr"), t, 0, FALSE, FALSE, e) :
            t \in BOOLEAN, e \in {<<k, w, r, g>>, <<w, k, r, T>>, <<T, w, k>>, <<k, w, r, g, T>>}}

\* A required quantizer, a preference in part and not at all in the build.
Selections ==
  {Config(FALSE, [Only("quantizr") EXCEPT !.built = {"zenquant", "imagequant"}, !.quantizer = q,
                                          !.preference = series], TRUE, 2, FALSE, FALSE, <<>>) :
     q \in {"none", "imagequant"},
     series \in {<<>>, <<<<"quantizr", "imagequant">>>>, <<<<"color_quant">>>>}}

\* Jobs: one limit at, below and above what the canvas needs; claims; plays.
Job(limit, n, metadata, plays) ==
  [limits |-> [x \in Resources |-> IF x = limit THEN n ELSE None],
   metadata |-> metadata, plays |-> plays]

JobsMC ==
  {Job("none", 0, "none", n) : n \in {Unset, None} \cup 0 .. 4}
    \cup {Job("memory", n, "none", Unset) : n \in {11, 12}}
    \cup {Job("pixels", 2, "srgb", Unset), Job("frames", 0, "none", Unset),
          Job("none", 0, "srgb", 2), Job("none", 0, "icc", Unset)}

DefaultsMC == [pixels |-> 3, memory |-> 13, frames |-> 2]

\* The settings of an encoder change; so do those that only a reader sees.
QualitiesMC == {-1, 50, 101}

BundlesMC ==
  {[preference |-> <<<<"imagequant", "color_quant">>>>, quality |-> 0, transparency |-> <<FALSE>>],
   [preference |-> <<>>, quality |-> None, transparency |-> <<>>]}

RepeatsMC == {Once, Infinite, Count(0), Count(2)}

Rgba8 == [supported |-> TRUE, linear |-> FALSE, alpha |-> TRUE]

Source(descriptor, context, finite, row, visible) ==
  [descriptor |-> descriptor, context |-> context, finite |-> finite,
   colours |-> row, visible |-> [p \in Points |-> p[1] \in visible]]

SourcesMC ==
  {Source(Rgba8, "none", TRUE, Row(k, r, w), v) : v \in {0 .. 2, {0, 2}, {}}}
    \cup {Source([Rgba8 EXCEPT !.alpha = FALSE], "srgb", TRUE, Row(k, w, k), {1}),
          Source([Rgba8 EXCEPT !.linear = TRUE], "linear", TRUE, Row(k, w, k), {1}),
          Source([Rgba8 EXCEPT !.linear = TRUE], "none", FALSE, Row(k, w, k), {1}),
          Source(Rgba8, "wide", TRUE, Row(k, w, k), {1})}

ReencodedMC == {<<Row(r, g, w), Row(T, k, r), Row(r, g, w)>>, <<Row(k, T, g), Row(k, k, k)>>}

ConfigsMC == (OneShots \ {Opaque}) \cup Streams \cup Selections
=============================================================================
