------------------------------- MODULE EncodeJob -------------------------------
(***************************************************************************)
(* From settings to an encoder, src/src/codec.rs: a GifEncoderConfig is    *)
(* set up call by call, made a job with limits, metadata and a number of   *)
(* plays, and encodes one image (GifEncoder) or hands its settings to an   *)
(* animation (GifAnimationFrameEncoder); or the settings are those of a    *)
(* decoded file (Encoder::from_metadata).  The encoder is the streaming    *)
(* one of PaletteEncoding, whose variables rest until it is made.          *)
(***************************************************************************)
EXTENDS PaletteEncoding

CONSTANTS
  Build,      \* the quantizers of this build
  Qualities,  \* numbers a caller passes as a quality; out of range ones too
  Bundles,    \* InternalParams; as everywhere, an Option is None or a
              \* sequence of at most one
  Repeats,    \* Repeats a caller sets
  Jobs,       \* what a job adds: [limits, metadata, plays]
  Sources,    \* PixelSlices
  Reencoded,  \* the canvases of decoded files
  Defaults,   \* Limits::default
  MaxRepeat,  \* u16::MAX
  MaxChanges  \* bound of the model: calls that change a setting

Unset == -2   \* plays: with_loop_count was not called; None as its argument

Resources == {"pixels", "memory", "frames"}

ASSUME EncodeJobAssumption ==
  /\ Build \subseteq Backends /\ Build # {}
  /\ Qualities \subseteq Int
  /\ \A b \in Bundles : /\ b.quality \in Nat \cup {None}
                        /\ b.transparency \in Seq(BOOLEAN)
  /\ \A j \in Jobs :
       /\ j.limits \in [Resources -> Nat \cup {None}]  \* ResourceLimits
       /\ j.metadata \in {"none", "icc", "srgb", "linear", "wide"}
       /\ j.plays \in Nat \cup {None, Unset}
  /\ \A s \in Sources :
       /\ s.descriptor.supported \in BOOLEAN  \* in ENCODE_DESCRIPTORS
       /\ s.descriptor.linear \in BOOLEAN     \* or sRGB
       /\ s.descriptor.alpha \in BOOLEAN      \* not Rgb, Gray or an X byte
       /\ s.context \in {"none", "icc", "srgb", "linear", "wide"}
       /\ s.finite \in BOOLEAN                \* floats are in 0..=1
       /\ s.colours \in [Points -> Colours]
       /\ s.visible \in [Points -> BOOLEAN]   \* by the fourth byte
  /\ Reencoded \subseteq Seq([Points -> Pixel]) \ {<<>>}
  /\ Defaults \in [Resources -> Nat]
  /\ MaxRepeat \in Nat /\ MaxChanges \in Nat

VARIABLES
  settings,  \* GifEncoderConfig, its inner EncoderConfig included
  job,       \* GifEncodeJob, as a sequence of at most one
  repeat,    \* the Repeat of the encoder that was made, likewise
  changes    \* bound: calls so far

setup == <<settings, job, repeat, changes>>

-----------------------------------------------------------------------------
(* Settings                                                                 *)

Once == [kind |-> "once", n |-> 0]
Infinite == [kind |-> "infinite", n |-> 0]
Count(n) == [kind |-> "count", n |-> n]

Clamp(x, low, high) == Max({low, Min({x, high})})

\* EncoderConfig::new, with the two fields that only GifEncoderConfig has.
DefaultSettings ==
  [repeat |-> Infinite, transparency |-> TRUE, shared |-> TRUE, strict |-> TRUE,
   quality |-> 80, tolerance |-> 0, quantizer |-> "none", preference |-> <<>>,
   reported |-> None, lossless |-> <<>>]

\* GifEncoderConfig::new: one play, and a required quantizer.
NewSettings ==
  [DefaultSettings EXCEPT !.repeat = Once, !.quantizer = FirstAvailable(Priority, Build)]

WithQuality(s, q) == [s EXCEPT !.quality = Clamp(q, 0, 100)]

WithGenericQuality(s, q) ==
  [WithQuality(s, q) EXCEPT !.reported = Clamp(q, 0, 100)]

\* Lossless intent is for the highest quality; taking it back restores nothing.
WithLossless(s, lossless) ==
  IF lossless
  THEN [s EXCEPT !.lossless = <<TRUE>>, !.tolerance = 0, !.quality = 100, !.reported = 100]
  ELSE [s EXCEPT !.lossless = <<FALSE>>]

\* Fidelity: lossless, or a point on one of three scales.
Dial(target) ==
  IF target.scale = "butteraugli" THEN Clamp(100 - 12 * target.value, 0, 100)
  ELSE target.value

WithFidelity(s, target) ==
  IF target.scale = "lossless" THEN WithLossless(s, TRUE)
  ELSE WithGenericQuality(WithLossless(s, FALSE), Dial(target))

Targets ==
  {[scale |-> c, value |-> q] :
     c \in {"lossless", "codec quality", "ssim2", "butteraugli"}, q \in Qualities}

\* EncoderConfig::with_internal_params, which a caller reaches by inner_mut.
WithInternalParams(s, b) ==
  [s EXCEPT
     !.preference = IF b.preference = <<>> THEN @ ELSE b.preference,
     !.quality = IF b.quality = None THEN @ ELSE Clamp(b.quality, 1, 100),
     !.transparency = IF b.transparency = <<>> THEN @ ELSE b.transparency[1]]

\* The builder methods of EncoderConfig.
Built(s) ==
  {[s EXCEPT !.quantizer = b] : b \in Build}
    \cup {[s EXCEPT !.repeat = r] : r \in Repeats}
    \cup UNION {{[s EXCEPT !.transparency = x], [s EXCEPT !.shared = x],
                 [s EXCEPT !.strict = x], [s EXCEPT !.tolerance = IF x THEN 1 ELSE 0]} :
                x \in BOOLEAN}

\* What a call may make of settings.
Reconfigured(s) ==
  Built(s)
    \cup UNION {{WithQuality(s, q), WithGenericQuality(s, q)} : q \in Qualities}
    \cup {WithLossless(s, x) : x \in BOOLEAN} \cup {WithFidelity(s, f) : f \in Targets}
    \cup {WithInternalParams(s, b) : b \in Bundles}

\* from_metadata: the settings for what has been a GIF before.
RoundTripSettings(r) ==
  [DefaultSettings EXCEPT !.repeat = r, !.shared = FALSE, !.strict = FALSE, !.quality = 100]

\* What PaletteEncoding needs to know of them.  A shared palette of one image
\* is built from that image, whatever the buffer could hold.
AsConfig(s) ==
  [oneShot |-> FALSE, built |-> Build, quantizer |-> s.quantizer,
   preference |-> s.preference, fallback |-> FirstAvailable(Priority, Build),
   transparency |-> s.transparency, buffered |-> IF s.shared THEN 1 ELSE 0,
   lossless |-> s.quality = 100, strict |-> s.strict, given |-> <<>>]

-----------------------------------------------------------------------------
(* Limits                                                                   *)

\* What an image of the canvas takes: 4 bytes a pixel.
Bytes4 == 4 * Cardinality(Points)

\* merge_resource_limits over limits_from_resource: a config has no limits
\* of its own, and a job's override the defaults one by one.
Merged(limits) ==
  [r \in Resources |-> IF limits[r] = None THEN Defaults[r] ELSE limits[r]]

\* check_dimensions, the conversion's and do_encode's look at memory, and
\* check_frame_count of the first frame.
Within(limits) ==
  /\ limits.pixels # None => Cardinality(Points) <= limits.pixels
  /\ limits.memory # None => Bytes4 <= limits.memory
  /\ limits.frames # None => limits.frames > 0

-----------------------------------------------------------------------------
(* One image                                                                *)

Cicp(descriptor) == IF descriptor.linear THEN "linear" ELSE "srgb"

\* resolve_gif_color_emit, validate_gif_metadata and the color context: GIF
\* carries no claim, so none may say what the descriptor does not.
ClaimsAgree(s, metadata) ==
  {metadata, s.context} \subseteq {"none", Cicp(s.descriptor)}

\* pixels_to_gif_rgba
Convertible(s) == s.descriptor.supported /\ (s.descriptor.linear => s.finite)

Converted(s) ==
  [p \in Points |-> IF s.descriptor.alpha /\ ~s.visible[p] THEN Transparent ELSE s.colours[p]]

\* EncodeRequest::encode: an encoder, each frame, finish.
Begin(s, canvases) ==
  /\ config' = AsConfig(s)
  /\ backend' = Chosen(AsConfig(s)) /\ backend' # "none"
  /\ inputs' = canvases
  /\ repeat' = <<s.repeat>>
  /\ pc' = IF s.shared THEN "build" ELSE "frames"
  /\ UNCHANGED <<palette, at, previous, out, result, settings, job, changes>>

EncodeStill(s) ==
  /\ pc = "job"
  /\ Convertible(s) /\ ClaimsAgree(s, job[1].metadata)
  /\ Within(Merged(job[1].limits))
  /\ Begin(settings, <<Converted(s)>>)

\* Pixels, claims or limits that do not allow it, a stop, an allocation.
Refuse ==
  /\ pc = "job"
  /\ pc' = "done" /\ result' = "refused"
  /\ UNCHANGED <<config, backend, inputs, palette, at, previous, out, setup>>

-----------------------------------------------------------------------------
(* An animation                                                             *)

\* Plays taken for repeats.
PlaysAsRepeats(s, plays) ==
  CASE plays = Unset -> s.repeat
    [] plays = 0 -> Infinite
    [] plays \in {None, 1} -> Once
    [] OTHER -> Count(plays)

RepeatFor(s, plays) ==
  CASE plays = Unset -> s.repeat
    [] plays = 0 -> Infinite
    [] plays \in {None, 1} -> Once
    [] OTHER -> Count(plays - 1)

StartAnimation ==
  /\ pc = "job"
  /\ RepeatFor(settings, job[1].plays).n <= MaxRepeat
  /\ job[1].metadata \in {"none", "srgb", "linear"}
  /\ repeat' = <<RepeatFor(settings, job[1].plays)>>
  /\ pc' = "done" /\ result' = "animation"
  /\ UNCHANGED <<config, backend, inputs, palette, at, previous, out, settings, job, changes>>

-----------------------------------------------------------------------------
(* The calls of a caller                                                    *)

Change ==
  /\ pc = "settings" /\ changes < MaxChanges
  /\ \E s \in Reconfigured(settings) : settings' = s
  /\ changes' = changes + 1
  /\ UNCHANGED <<vars, job, repeat>>

MakeJob ==
  /\ pc = "settings"
  /\ \E j \in Jobs : job' = <<j>>
  /\ pc' = "job"
  /\ UNCHANGED <<config, backend, inputs, palette, at, previous, out, result,
                 settings, repeat, changes>>

FromMetadata ==
  /\ pc = "settings" /\ changes = 0
  /\ \E r \in Repeats, a \in Reencoded : Begin(RoundTripSettings(r), a)

JobInit ==
  /\ config = AsConfig(NewSettings) /\ backend = Chosen(config)
  /\ inputs = <<>> /\ palette = <<>> /\ at = 0 /\ previous = <<>> /\ out = <<>>
  /\ pc = "settings" /\ result = "none"

\* Encoders a caller makes directly, and those made from a job.
SetupInit ==
  /\ Init \/ JobInit
  /\ settings = NewSettings /\ job = <<>> /\ repeat = <<>> /\ changes = 0

\* An encoder that is there, of whatever making, encodes.
Encode == pc \in {"build", "frames"} /\ Next /\ UNCHANGED setup

EncodeJobNext ==
  \/ Change \/ MakeJob \/ FromMetadata
  \/ \E s \in Sources : EncodeStill(s)
  \/ Refuse \/ StartAnimation \/ Encode

EncodeJobSpec == SetupInit /\ [][EncodeJobNext]_<<vars, setup>>

-----------------------------------------------------------------------------
(* What becomes of a repeat in a file, and of a file in a decode job        *)

\* write_extension(Repetitions): no extension for one play.
Extension(r) ==
  CASE r.kind = "infinite" -> 0
    [] r.kind = "count" /\ r.n > 0 -> r.n
    [] OTHER -> None

\* gif_total_plays of what the probe reads.
TotalPlays(extension) ==
  IF extension = None THEN 1 ELSE IF extension = 0 THEN 0 ELSE extension + 1

(* "The zencodec adapter instead accepts total plays, including the first"  *)
(* (types.rs:211): the number of plays a decoder would report of the file   *)
(* is the number that was asked for, up to the largest that can be written. *)
PlaysAsAsked ==
  result = "animation" /\ job[1].plays \in Nat =>
    TotalPlays(Extension(repeat[1])) = job[1].plays

(* A still file is made only within the limits that hold for the job: its   *)
(* own, and where it has none the defaults, which it does not lift.         *)
StillWithinLimits ==
  result = "file" /\ job # <<>> =>
    \A r \in Resources :
      LET most == IF job[1].limits[r] = None THEN Defaults[r] ELSE job[1].limits[r]
          need == CASE r = "pixels" -> Cardinality(Points)
                    [] r = "memory" -> Bytes4
                    [] r = "frames" -> Len(out)
      IN need <= most

(* A job does what was asked of it: it plays as often and stays within its  *)
(* limits (animation_frame_encoder, do_encode).                             *)
JobAsAsked == PlaysAsAsked /\ StillWithinLimits
=============================================================================
