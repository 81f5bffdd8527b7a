# zengif verification project

zengif is a GIF codec in Rust: a streaming decoder that composites frames to
RGBA canvases, a streaming and a one-shot encoder that turn canvases into frames,
five quantizer backends, a second parser that lists the parts of a file, and
adapters that put all of it behind a generic codec interface.  This directory holds
TLA+ models of the parts of it that keep state or whose steps interact, the TLC runs
that check them on small instances, and TLAPS proofs of what holds for every
instance.  Paths are relative to the repository; `stats.rs:148` is line 148 of
`src/stats.rs`.

## The system

| Component | State it keeps | Operations |
|---|---|---|
| Accounting, `stats.rs` | six atomic counters: current, peak, totals, calls | `try_alloc`, `track_alloc`, `track_dealloc`, `reset` |
| Screen, `screen.rs`, `disposal.rs` | canvas, pending disposal (method, region, backup), `canvas_taken` | `process_frame_in_place`, `process_frame`, `process_frame_take`, `reset` |
| Decoder, `decode/mod.rs` | gif reader, Screen, pixel buffer, frame index, cumulative duration, `finished` | `next_frame`, `next_frame_take`, `with_next_frame`, `decode_all` |
| Decoder adapters, `codec.rs` | a Decoder, `failed`, skip position | `render_next_frame`, probing, still and animation decode jobs |
| Inventory and detection, `inventory.rs`, `detect.rs` | scanner position, facts of a first pass, latched stop | `walk`, `probe_located` |
| Encoder, `encode/encoder.rs` | gif writer and its bytes, shared-palette buffer, frame held back, previous frame, counters, `failed` | `add_frame`, `consume_output`, `take_output`, `finish`, `from_metadata` |
| Differencing, `encode/palette.rs`, `encode/mod.rs` | none | `compute_frame_diff_pooled`, `needs_canvas_clear`, `clear_disposal` |
| One-shot encoder, `encode/mod.rs` | locals of one call | `encode_gif`, `encode_gif_with_quantizer` |
| Quantizers, `quantize/` | palettes | `build_shared_palette`, `quantize_frame`, `quantize_frame_with_palette` |
| Animation encoder adapter, `codec.rs` | an Encoder made on first use, canvas size, declared and pushed frames, rounding phase | `begin`, `push_frame`, `push_frame_exact`, `push_frame_timed`, `take_output`, `finish` |
| Encoder configuration and jobs, `encode/config.rs`, `codec.rs` | settings, a job's limits, metadata and plays | builder methods, `job`, still encode |
| Limits, `limits.rs` | none | `check_*`, merging |

How they interact.  The decoder owns a Screen and a Stats; every buffer of either
is charged to that Stats before it is made, and the Screen's operations are
called once per frame, after the reader has produced its pixels.  The encoder
owns a Stats too; a canvas the caller adds is charged once and its charge moves
with it from the buffer to the queue, to the place of the canvas held back, to the
canvas kept for differencing, and is released there.  Decoder and encoder are
used through `&mut self`, so two calls never overlap; a Stats is `Sync` and may be
shared.  Cancellation is a token polled at many points of a call.  The inventory
predicts what the decoder and the probe will read, without running either decoder.
The only link between encoder and decoder is the file, whose frames the encoder
disposes of in the way the compositing rules of the Screen will undo.

What is hard.

* Accounting: check-then-act across threads, the peak's compare-and-exchange loop.
* Screen: disposal is lazy, one call late, with a backup of one region; a call that
  fails has already changed the canvas; the canvas can be moved out.
* Decoder: a failed call leaves a decoder that may be called again; the end of the
  input means different things in different places; buffers move into frames and
  come back only on success.  Its adapters may not go on with one that lost its place.
* Inventory: what becomes of a block depends on later blocks, so the file is walked
  twice; three grammars (decoder, inventory, probe) read the same bytes differently; a
  token that fires once must not be forgotten.
* Encoder: the disposal of a frame depends on the next one, and of the last one on
  the first; frames sit in four places; bytes leave while the file is made; a
  failure in the middle has already written some of it.
* Palettes: a full table has no entry to spare for transparency; a palette built from
  some frames is used for others; a frame that must be cleared needs a transparent index.
* Encoder and viewer together: a diff is right only on the canvas that will be there.
* Animation adapter: it counts and times frames beside the encoder that has them; a push
  can be refused before, by, or after the encoder; the encoder is made along the way.

What makes each part correct.

* Accounting: nothing lost or counted twice; `max_memory` is not passed.
* Screen: the canvases shown are those of the GIF rules; what is held is charged.
* Decoder: until something fails, what is delivered is the file; the limits hold,
  also through failures.  Adapters: what is given out is the file even after failures.
* Inventory: it lists as read what the decoder reads.  Jobs: a stop is reported, and the
  headers promise what is decoded.
* Encoder: what a viewer sees is what was added; the charge is exact; a failure is
  final; every call returns; frames are withheld no longer than promised.
* Palettes: what is transparent stays so, and when the colours fit nothing changes.
* Animation adapter: its file has the frames it said it took, as many as were declared;
  rounding does not drift.  Jobs: they play and are limited as asked.

## Modules

| Module | Models | Extends |
|---|---|---|
| `Stats` | `stats.rs`, one action per atomic access | - |
| `Canvas` | the pure part of `screen.rs` and `disposal.rs` | - |
| `Compositor` | abstract: the eager whole-canvas rules of GIF | `Canvas` |
| `Screen` | `screen.rs` with its lazy disposal, one action per call | `Canvas` |
| `Decoder` | `decode/mod.rs`, one action per step of a call | `Screen` |
| `DecoderClients` | `decode_all` and the animation decoder adapter | `Decoder` |
| `BlockStream` | a file as blocks, and what the decoder makes of each | - |
| `Probe` | `detect.rs` | `BlockStream` |
| `Inventory` | `inventory.rs` | `Probe` |
| `DecodeJob` | the operations of a decode job of `codec.rs` | `Inventory` |
| `Differencing` | the pure part of `encode/mod.rs` and `encode/palette.rs` | `Canvas` |
| `Encoder` | `encode/encoder.rs`, one action per step of a call | `Differencing` |
| `Playback` | abstract: what is added is shown, in order, and again | - |
| `RoundTrip` | the encoder with a viewer on its output | `Encoder` |
| `AnimationEncoder` | `GifAnimationFrameEncoder` of `codec.rs` over the encoder | `Encoder` |
| `Quantizers` | `quantize/` and the palettes of `types.rs` | `Differencing` |
| `PaletteEncoding` | frames down to palette indices, in both encoders | `Quantizers` |
| `EncodeJob` | settings, jobs, still images, `from_metadata` | `PaletteEncoding` |
| `MC*` | the instances TLC checks | one each |
| `StatsProofs`, `ScreenProofs` | theorems and proofs about `Stats` and `Screen` | these |
| `DecoderProofs` | about `Decoder` under each client | `DecoderClients` |
| `EncoderProofs` | about `Encoder`, under the adapter and with a viewer | `AnimationEncoder`, `RoundTrip` |
| `DecodeJobProofs` | about a walk; about a job, its walk and its probe | `DecodeJob` |
| `EncodeJobProofs` | about `Quantizers`, `PaletteEncoding`, `EncodeJob` | `EncodeJob` |
| `DifferencingProofs` | about `Differencing`: where a diff lies | `Differencing` |
| `SumProofs` | sums, counting and induction, which the others cite | - |

### Stats

Variables have the names of the atomics.  `pc`, `bytes`, `newCurrent` and
`seenPeak` are each thread's place in an operation and its locals.  `TryAlloc` is
the load and the comparison; `CountAlloc`, `AddCurrent`, `LoadPeak`,
`ExchangePeak` and `ExchangeFails` are the accesses of `track_alloc`;
`TrackDealloc`, `CountDealloc`, `SubCurrent` those of `track_dealloc`;
`ZeroCurrent`, `ZeroPeak`, `ZeroTotals` those of `reset`.  A refused `try_alloc`
changes nothing and is no step.  `Relaxed` orders single atomics only; no
operation reads two of them against each other, so interleaving is enough.  The
pairs `alloc_count`/`total_allocated` and `dealloc_count`/`total_deallocated` are
bumped in one step, and `reset` zeroes the four totals in one step: nothing reads
one against another.  A thread releases only what it charged; the counters `held`,
`high` and `raced` are history.

### Canvas, Compositor, Screen

A canvas is a function from points to pixels, a frame's image a function on its
rectangle with `Skip` for the transparent index.  Row loops and single-copy fast
paths are the same pointwise function.  `Screen` keeps `pixels`, `disposal`,
`canvasTaken` and `charged`; an action is one call with everything it does:
the old disposal (`Undone`, `Released`), the new one (`DisposalFor`), the blit, and
the copy or the move.  `BackupFails` and `CopyFails` are the two error returns after
the canvas has changed.  Allocation may also fail when the limit would allow it, so a
failure is never forced and always possible.  `output` is the canvas last
delivered.

`Compositor` knows no regions and no backups: next to the shown canvas it has
`base`, the whole canvas the next frame is drawn on, decided when a frame is drawn.
`Screen` implements it with `base <- Disposed(pixels, disposal)`.

### Decoder, DecoderClients

`Decoder` adds to the variables of `Screen` the reader (`file`, `rest`), `finished`,
`frameIndex`, `bufferLen` (the length of `pixel_buffer`), `duration`, and the place in
the current call.  A call reads a header (`ReadHeader`, or one of its failures), the
pixels, composes with the Screen action of that call, and is delivered or refused by
the duration limit.  The gif crate is external: it yields the frames of the file and ends at
the trailer, at a cut between frames, in the header of the last frame (its control extension,
descriptor or colour table), or in its pixels.  Behind a delivered frame the decoder takes the
second and the third of these for the end, without a word (`AtEnd`): such a frame is not
delivered and nothing fails (`Headed` is how many frames are left).  In front of the first
frame they are errors, and in the pixels always.  The reader refuses frames outside
the screen because `check_frame_consistency(true)` is set; after a failure it may go
on anywhere in the rest of the file.  File-size and ratio limits are failures that may
happen where the code checks them.  All three calls share the steps; they differ in
`Compose`.

`DecoderClients` puts one of two clients on it.  A caller calls what it likes: the three
calls, and `decode_all` whenever it wants, again after a stop, a failure or the end.  A
`decode_all` begins with an empty vector wherever the decoder stands (`CollectBegin`), and drops
what it has collected when it fails (`CollectFails`), so a later one returns only the rest; on a
decoder of its own, as in `decode_gif`, it returns the file.  The other client is
`GifAnimationFrameDecoder`, whose call marks itself failed (`Begin`), decodes frames in a loop until one is at or behind the start index (`Advance`,
`SkipFrame`, `GiveFrame`), and clears the mark on the two paths where it succeeded.

### BlockStream, Probe, Inventory, DecodeJob

A file is a screen, a global colour table and a sequence of blocks, each of which says
how much of it can be read and what it holds; bytes, labels and details are left out.
An image has the points it covers (`area`) and those where its index is beyond its colour table
(`beyond`): `Palette::lookup_table` draws them transparent, flag or no flag (`Shown`).
`BlockStream` has the decoder's grammar: what each block does to it (`Read`).  `Probe`
is `probe_located` with its own grammar: it takes the first sub-block of a control
extension where the decoder takes the last, a loop count anywhere, and finds blocks
behind an unknown introducer, which the decoder swallows (`hides`).  `Inventory` is
`walk`: the first pass, the probe, the second pass, with the parts it pushes in order, the
cap and every poll of the latched stop.  The decoder reads along in the first pass as a
ghost (`reader`), for the properties to compare with.  `DecodeJob` is the operations of a
`GifDecodeJob`: the refusals by policy and size, the probe that may fail but not be
stopped unnoticed (`EndJobProbe`), the decoder's header (`New`, `ReadInfo`), and the frames to
the end of the file.  There `reader` is the decoder itself.  A stop may fire once at any
poll and be quiet at the next.

### Differencing, Encoder

`Encoder` has the fields of the struct; `queued` holds the frames of a flush in
progress, `adding`, `finishing` and `pc` the current call.  `add_frame` is `BufferFrame`
or `DirectFrame`, then `FlushBuffer`, then one `QueueFirst` or `QueueFrame` for each
frame, then `Accepted`; `finish` is `Finish`, the same steps, `WriteLast` and `Seal`.
Each step has its failure (`ChargeFails`, `FlushFails`, `QueueFails`, `LastFails`,
`SealFails`): the stop token, the quantizer, the limits.  `RefuseFrame` and
`RefuseFinish` are the error returns that change nothing else.  `Prepared` is the set of
`gif::Frame`s that may come out of `prepare_frame` and `clear_disposal`: a diff or the
whole canvas, colours from the shared palette or the frame's own, the local table
omitted as the code omits it.

Abstractions: every charge is `width * height * 4`, so memory is counted in canvases;
the output is counted in blocks; alpha is 0 or 255; the quantizer is exact on the
colours of the model and may choose either palette whatever the error threshold says
(`PaletteEncoding` has what is behind that).  An encoder that is made at once writes the
repeat extension twice, as the code does (`set_repeat` at encoder.rs:249 does not set
`repeat_written`).

### Playback, RoundTrip

The viewer composites blocks that were handed out as the decoder does, at any time
while the encoder goes on, and in a loop when the file is complete and repeats.  A loop
draws the first frame on what the disposal of the last one leaves, which is what
encoder.rs:1409 provides for.  `Playback` is the promise: a list of frames added, a
prefix of it shown, and again from the first.

### AnimationEncoder

The adapter's fields and, under them, all of Encoder: a push is `Push` (the adapter's
checks and the encoder's acceptance in one step), the encoder's steps (`Encode`), and
`Pushed`; `PushRefused`, `PushFails`, `EncodeFails` and `PushedTooMuch` are its errors
once the encoder has been made (`ensure_encoder`), in the order the code meets them.
A call that an error ends before that changes nothing and is no step.  `has_frames` is
`pushed > 0`: both are set together.  Durations are in ticks of 1/3000 s, of which
milliseconds, centiseconds and 1/30 s are multiples; `TimingQuantizer` is external and
rounds cumulative endpoints, as its use and tests/animation_timing.rs say.  The Width and
Height of Encoder stand for the size the encoder was made for; that a frame of another
size is refused is in `PushRefused`.  Pixel conversion, metadata and colour checks are
refusals without an effect.

### Quantizers, PaletteEncoding, EncodeJob

`Quantizers` has what each backend does around its library: which pixels it looks at
(`SampleIndices`), whether it asks for one colour fewer and appends an entry for
transparency (`ColoursFor`, `WithSlot`), how it finds a transparent entry in a palette,
which pixels it maps where, and which index it declares.  The libraries are external:
a palette that has room for every colour has them all, otherwise some; a colour that has
an entry is mapped to it, otherwise anywhere (so `Nearest` is a set of functions).

`PaletteEncoding` is one animation through either encoder: the palette (`BuildPalette`),
for each frame a diff or the whole canvas (`Drawn`), its indices from the shared palette,
its own, a gray or a given one (`PreparedFrames`, `OneShotFrames`), the guard that redoes a
frame that lacks a transparent index (`Redone`), and `clear_disposal` (`ClearDisposal`).
The steps of the streaming encoder that only move frames are those of `Encoder` and are not
repeated: here a frame is written when the next one is known.  `Displays` is what a viewer
sees over two rounds.

`EncodeJob` is how an encoder comes to be made: a configuration changed call by call
(`Change`), made a job (`MakeJob`), which encodes one image (`EncodeStill`), starts an
animation (`StartAnimation`, from where `AnimationEncoder` goes on) or refuses; or the
configuration `from_metadata` makes of a decoded file.

## Runs

| Run | Instance | Shows |
|---|---|---|
| `stats` | 2 threads, sizes 1 and 2, 4 bytes in all, limit 2, 1 reset | 1.35 million states; counters exact at rest, peak exact, no wrap, limit passed only by overlapping calls and by less than one allocation each |
| `screen` | 2x1 screen, 1 colour, every image and disposal on 4 rectangles, memory for 2.5 canvases | 14 thousand states; implements `Compositor`, memory capped, moved canvas final |
| `decoder` | 2x1 screen, files of up to 3 of 6 frames, 4 endings, 2 failed calls, 2 clients, start index 0 or 1 | 820 thousand states; memory, delivery, limits, what the adapter and every `decode_all` give, that their calls return |
| `inventory` | 2 points, every file of up to 3 of 14 blocks, whole or with one of 6 cut blocks at the end, files of 5 of 5 blocks, 9 parts, 2 frames, 6 operations | 3.0 million states; the three readers agree, a stop is reported |
| `probe_alpha` | the same with 12 parts | **violated**: a canvas called opaque that is not |
| `encoder` | 2x1 canvas, 5 configurations, 5 calls, 3 canvases of memory, 4 frames, 7 blocks | 640 thousand states; charge exact, limits, stream order, failure final, calls return |
| `encoder_global_table` | the same | **violated**: indices read with another table |
| `roundtrip` | 4x1 canvas, 6 canvases, 3 configurations, 3 frames, 1 loop | 235 thousand states; implements `Playback`, every frame seen |
| `animation` | 2 sizes, 3 configurations, 5 pushes in 3 timings, 2 declared frames or none, 4 blocks, 3 canvases | 237 thousand states; files hold the pushed frames, no drift, the promised lag |
| `animation_begin` | the same | **violated**: `begin` succeeds with an encoder of another size |
| `palette_encoding` | 3x1 canvas, 4 colours, tables of 4, animations of up to 3 of 7 canvases, 5 backends in about 70 configurations, 2 changes of settings, 13 jobs, 7 images, given palettes with the transparent entry first and one too long | 1.02 million states; displays, transparency, indices, jobs |
| `palette_opaque` | the same, one-shot quantette without `use_transparency` | **violated**: transparent pixels are painted |

Bounds.  `MaxTotal` and `MaxResets` bound `Stats`, `MaxCalls` the encoder and its adapter,
`MaxRounds` the viewer, `MaxErrors` and `MaxStart` the decoder and its clients,
`MaxChanges` the settings; the sets of files and animations bound the rest.  The other
constants are limits of the code.  They are small on purpose: memory limits admit some
buffers together and refuse others, the frame, duration and output limits are each met by
some behaviour and passed by another, a 2x1 screen has frames that cover it, cover part,
hang over and miss it, and 4 points in a row are what a diff with an unchanged point
between two changed ones needs.  Three blocks are a control, an image and what is around
them, five make the second frame depend on both; a table of 4 with 4 colours and
transparency is met by animations that leave an entry to spare, fill it and overflow it.
The encoder's configurations flush by count, by bytes, at once (`max_buffer_frames` 0), only
at `finish`, and never buffer.

Deadlock is not checked where the system stops: a Stats at its bounds, an encoder that
has finished, a decoder at the end of its file, a job that has returned.  It is checked in
the `screen` run.

Fairness.  `FairSpec` has weak fairness of `Step`: a call that was made is code of one
thread that runs to its return; no fairness is assumed of the caller.  `ClientSpec` has
the same of a client's call: the decoder's steps in it, the client's own, and the next
`next_frame` of a loop that has begun.  `SpecAll` has weak fairness of `Show`: the viewer
goes on while there is something to show.

## Proofs

Induction.  The library's induction theorems take an operator, which the provers cannot
instantiate.  What needs induction over a number goes by the least number that is in a set:
`SumProofs` proves `LeastNat` from a bound on finite sets and `NatInductionOnSets` from it,
and a fact is proved of all numbers by naming the set of those that have it.  A
function the models define by recursion is equated with `CHOOSE g : IsX(g)`, and that there is
such a function is shown the same way.  The sums of the models, `MapThenSumSet`, are such
functions too; `SumProofs` gives what adding, taking away and changing a member does to them.

`StatsProofs`, for any finite set of threads and any sizes.  A thread between its check and
its charge is in `Passed`; the invariant of the limit (`CapInv`) says that without a race at
most one thread is there and what it will add still fits.  That of the peak (`PeakInv`) says
that `high` is `peak_bytes` or still the `newCurrent` of a thread inside its loop, which will
not leave it before `peak_bytes` has reached that value.  `ChargesAreConserved` and
`NoOvercharge` come from `SumInv`: `current_bytes` and what the threads in the middle of an
operation are about to add or take are together what is held, summed over the threads.
`OvershootIsBounded` from `OvershootInv`: while some thread has still to add, `current_bytes`
and all that is on its way are within the limit and one allocation of every other thread.

`ScreenProofs`.  `ClipIsIntersection`: the clipping arithmetic is the intersection with
the canvas.  `ScreenTypeCorrect`, `MemoryIsCapped`: `TypeOK` and `HeldWithinCap` together are
inductive, since a backup is released only with the bytes it was charged for.
`Implementation`: the steps map to steps of `Compositor` or to stutters; the core is
`BackupUndoesFrame` (restoring the saved region of a canvas on which the frame was
blitted gives the canvas before it, because a blit changes only that region) and
`DisposedOnce` (a spent disposal disposes of nothing more).  `MovedCanvasIsFinal` follows
from the guards and the types.

`DecoderProofs`.  `ClientsDriveTheDecoder`: every step of a client is a step of the decoder
or leaves it alone, so what is proved of the decoder holds under each of them.
`DecoderMemoryIsCapped` from `MemoryInv`, which adds to the Screen's types that the frame
being read is one of the file's (otherwise nothing is known of its size).  The lemma
`ScreenKeepsTheRest` is the Screen's theorem once more with `n` bytes that others have
charged to the same Stats: no step of the Screen releases them.  It is used with the pixel
buffer for `n`, and a failed call makes the buffer smaller, never the charge.
`DecoderComposites` is the refinement of `Compositor` for the decoder under every client.
`DeliveryIsWithinLimits` from `LimitsInv`: the counter and the duration are those of what was
delivered, and a frame in progress has passed the checks in front of it.  `DeliversTheFile`
from `FileInv`, of three parts: until a call fails the reader has taken as many frames as the
counter says and the one in progress (`ReaderInv`), the canvas and its pending disposal are what
the eager rules have at that frame (`CanvasInv`), and so is each canvas delivered
(`DeliveredInv`).  The rules, recursive over the frames, are `Eager` of `Decoder`.
`AdapterGivesTheFile` and `CollectsTheFile` add what a client knows: it goes on only with a decoder
that has not failed (`Served`), its position is the decoder's (`CountInv`), and what it
has given out is what was due from its start on (`GivenInv`).  The first two are the adapter's;
of `decode_all` it is known that what it has collected is what was delivered since it began
(`Collects`, in `CollectInv`), whatever was called and failed before.

`DecodeJobProofs`.  `StopsAreReported` from `StopInv`: once the stop has fired
its reason is in one of the places where someone will look, the result, the walk's reply or its
latch, or the probe's answer, and no step takes it from there without putting it in the next.
The agreement of the readers is about a walk that is finished when the property speaks, so the
invariant has to remember it.  `WalkInv` says that there is a walk `t`, what is left of the blocks
at each place, with which the first pass and the decoder are in `Lockstep`: same place, same
fatal ends, same facts, frame by frame (`Foretold` is what the walker's state says of the
decoder's).  When the first pass ends, `Learned` keeps what it knows about the whole file;
`InSecondPass` says that the parts listed so far are exactly those that this knowledge gives to
the blocks in front of `at` (`PartsListed`).  `FirstPassKnowsTheDecoder`, `InventoryIsDecoded`,
`TableIsReached` and `LoopsAreReported` are read off.  For loops the probe's search is a
recursion over the tail of the file (`SeesFrom`), equated with what it finds.  `FramesAreAsProbed`
and `OpaqueHolds` from `PlayInv`: on a plain file the probe's counters are tallies over the
blocks the decoder would read (`ProbeTally`), and a decoder that is playing has delivered the
frames among those it has passed and keeps the canvas covered while no frame opens it, but where
the indices of a delivered frame go astray (`Strays`).

`EncoderProofs`.  `TypeCorrect` and `ChargeIsExact` from `IInv`, the conjunction of
`TypeOK`, `ChargedIsHeld` and `Control`.  `Control` is what the charge needs and does not
say: a call in progress has not failed, only a call that is queueing has frames in the
queue, an `add_frame` in progress has its argument.  Each action is a lemma.
`FailureStays` and `ClearingIsWhole`: the output is a sequence over blocks that clear, when they
clear, the whole canvas (`OutputType`); every step appends to it, moves blocks to the caller or
seals it, and after a failure only the second is left.
`LimitsAreKept`, `HeldAsPromised` and `FilesAreComplete` from `CountInv`.  `Conserved` says that
until a failure the frames written, held back, buffered and queued are the accepted ones and the
argument of the call; `ArgumentWithin` that the argument was checked against the limits; `Phases`
which of the four places is empty at which point of a call; `BufferKept` that the buffer is below
its mark except while it is flushed, and is the only place before the shared palette exists.
`StreamsInOrder` from `StreamInv` and `DurationInv`.  The frames of a call stand in one `Line`
behind the accepted ones; what is held back, queued and buffered is the part of the line that is
not written yet, in order (`Awaiting`), and the file is the header, the repeat extensions due by
now, and a block for each written frame of the line (`FileIs`).  The property counts frames in a
file by a set; `OneMore` says how a block appended changes the count.

The adapter, in the same module.  `DrivesTheEncoder`: every step of the adapter is a step of
`Encoder` or a stutter, so the invariants of the encoder hold under it.  `FilesHoldThePushed`
from `FileInv`: a frame the encoder accepted and the adapter did not count was over the output
limit, output only grows, so `finish` is over it too; and a finish in progress has passed
the count, which no call changes any more.  `TimingDoesNotDrift` from `TimeInv`: what was given
is the rounded phase, and the phase does not move between a push and its return.
`LagIsKept` from `LagInv`, `HeldAsPromised` and `StreamsInOrder`: what the encoder may hold back
only shrinks after `begin` asked for it (`HeldNeverGrows`), when the shared palette is there, and
the frames of the file are the counted ones.

The viewer, in the same module.  `ViewersSeeWhatWasAdded`: every step of the encoder and of a
viewer on its output is a step of `Playback` or a stutter.  What makes it true is said block by
block: a frame of the file draws the frame of the line that has its number, whole or as a diff on
the frame before it, and the block in front of it clears the canvas exactly when the two displays
need it (`Draws`, `DrawnInv`).  The encoder writes a frame knowing only the next one, so the
invariant also says what lies ahead of a write (`AheadInv`): the last block disposes of its canvas
for the frame held back, the canvas kept for differencing is the one of that block, and in a
file that is closed the last frame clears exactly when the first one has transparent pixels.  A
failing write may leave a repeat extension, a whole frame or part of one behind, and then
`DrawnInv` still holds and `AheadInv` is no longer needed.  On the viewer's side `ScreenInv` says what
is behind the next frame: what the last one shown leaves (`Leaves`), or nothing, or in a loop what
the last frame of the file leaves.  `WholeShows` and `DiffShows` put the two together in
`ShowsFrame`.  The theorem assumes `OnePalette`, that no configuration has both a global palette and
a shared one, which is the `encoder_global_table` run, and `Exact`, a tolerance of 0: a tolerance
is a licence to leave out changes.  `IndicesKeepTheirTable`, from the same invariant, says of that run
that the configuration it has is the only one for which `IndexedByItsTable` fails.

`DifferencingProofs`.  The rectangle around changed points is on the canvas, needs no clipping, and
has every changed point in it (`AroundIsInside`, `ChangedIsInside`).

`EncodeJobProofs`.  `JobsDoAsAsked` from `JobInv`: there is a job when one is needed
(`JobKept`), frames are counted as they are written (`Counted`), an encoder made by a job is
for one image within the merged limits (`MadeWithin`), and an animation's repeat is that of its
job (`RepeatsAsAsked`).  The lemma `PlaysSurvive` says that plays, made repeats, written and
read again, are the same number.  `IndicesStayInTable` from `TablesInv`: what each backend
returns fits its own table (`Fitting`), a shared palette fits the frames that take it, and
every way a frame is made ready, with the redone transparent index and the cleared canvas among
them, keeps that.

`CanvasesAreShown` and `TransparencyIsShown` are one proof with two readings of "the same pixel"
(`Agrees`): the same colour, or transparent exactly when it should be.  It has five layers.
What a backend's palette holds of the pixels it was made from (`Holding`), the entry for
transparency included; what an image quantized to such a palette renders as (`Renders`), and that
it declares a transparent index if it has a transparent pixel (`Marks`); that a region drawn over
what was there redraws the new canvas (`Redraws`), by way of the pixels a diff leaves out; that
a frame made ready by either encoder, redone and cleared as the code does it, shows its canvas
(`Shows`); and the invariant `ShownInv`, that each frame written shows its input on what the one
before it leaves, and the first one also on what the last one leaves when the animation repeats
(`LoopInv`).  The displays of two rounds then follow by induction (`DisplaysExist`).  Both
theorems assume `AllKeepTransparent` (no configuration is the one of the `palette_opaque` run,
which the code does not handle) and `TellsApart`: for colours that the tolerance is 0, since a
tolerance is a licence to leave out changes, and for transparency that it is below 255, the
difference between seen through and not.

Assumptions are those the modules name: a screen with an area and with memory for its
canvas (otherwise there is no Screen), frames whose image covers their rectangle, limits
and sizes that are natural numbers, jobs and images whose fields have their types (a given
palette may be too long for a table: the writer refuses it, `Writable`).

Model-checked only.  Liveness (`CallsReturn`, `EveryFrameSeen`, `ClientReturns`), which needs
fairness and ENABLED, and so is out of the prover's reach.

## What the violated runs say

1. `encoder_global_table`: `global_palette` together with `shared_palette` writes frames that
   are read with the wrong table.
2. `probe_alpha`: a first frame that is restored to the transparent canvas before a partial
   one makes a canvas with transparent pixels that the probe calls opaque.
3. `animation_begin`: a first push that the encoder refuses (its duration limit, the stop
   token) leaves an encoder of that frame's size; `begin` for another size then succeeds, and
   every push of the canvas that was begun is refused.
4. `palette_opaque`: with `use_transparency` off the one-shot encoder keeps no palette entry
   for the transparent pixels of the source, and paints them.

Seen on the way and checked by no run.

* A Stats shared by threads can pass its limit when two `try_alloc` overlap (the `stats` run
  and `CapUnlessRaced` say when and by how much); zengif itself never shares one that way.
* `Screen::reset` keeps the charge of a backup it drops, and a compositing failure loses the
  decoder's pixel buffer and keeps its charge: both err on the safe side of `max_memory`.
* `lossy_tolerance` bounds the change between frames and not the error of the display
  (config.rs:173-178): each frame is compared with the previous input (encoder.rs:882), so a
  slow fade never appears.
* `push_child` counts parts and never polls (inventory.rs:229), where inventory.rs:50 says
  there are 64 parts between polls.
* The comment at decode/mod.rs:385 speaks of an end of the input between frames; the code also
  takes one within the next frame's extensions, descriptor or colour table for the end
  (`is_unexpected_eof` of whatever `next_frame_info` returns), as do the other two calls.
* `decode_all` ("Decode all frames into a vector", decode/mod.rs:736) returns the frames that are
  left: after a stop between frames a second call succeeds without those the first had decoded.
* `has_transparency` (detect.rs:68) does not know of indices beyond a short colour table, which
  `lookup_table` (types.rs:291) makes transparent; `OpaqueUnlessRestored` names the exception.
* The animation decoder reports one play for a file the probe calls a still (codec.rs:1658),
  while the inventory lists the loop count as one that reaches the caller.
* `Palette::find_nearest` (types.rs:307) may map an opaque pixel to a transparent entry of
  the same RGB.  The proof of `CanvasesAreShown` met it: `Fits` says of a given palette that it has
  no opaque entry behind a transparent one of the same RGB, and of a made one that it has room
  for the RGB that marked pixels are given.
* `with_lossless(true)` followed by a quality or a tolerance still reports lossless
  (codec.rs:509-535); `GifEncoderConfig::with_quality` admits 0, `EncoderConfig::quality` does
  not; the default of `palette_error_threshold` is documented as 15.0 (config.rs:502) and is
  5.0 (config.rs:296).
* `GifEncoderConfig::new` requires a quantizer, so a `quantizer_preference` set later is not
  looked at; nor does `encode_gif_shared_palette` look at it.
* The one-shot encoder checks only `max_frame_count`, not duration, output or memory.
* `check_frame_consistency(true)` (decode/mod.rs:231) makes the reader refuse frames that hang
  over the screen, which error.rs:63 and decode/mod.rs:417 say are clipped (`BoundsFail` in
  `Decoder`; the clipping is exercised in the `screen` run).

## Not modelled

* Cost estimates (`heuristics.rs`) and parameter grids (`sweep.rs`): functions without state
  or protocol, whose only reference definition would be themselves.
* The mapping of errors to the generic codec's categories; pixel format negotiation, row
  batches and sinks; metadata that is only reported.
* LZW and the byte layout (the gif crate), and the arithmetic inside the quantizer libraries.
* A configured global palette in `PaletteEncoding` and `EncodeJob`: `Encoder` has it as far as a
  frame's table depends on it.  The output limit of stills.
* `Screen::dealloc`, which no code calls; labels, previews and lengths in the inventory.

## Plan

Done: the accounting, the screen, both codecs' streams with their adapters, the inventory, the
palettes, the jobs, a theorem for each invariant and action property that a passing run checks, and
the refinements of `Compositor` (under a caller and under every client) and of `Playback`.
Left: the configured global palette in `PaletteEncoding`, composed with `Encoder`'s flag, and the
round trip with a tolerance, where a display is only near what was added.
