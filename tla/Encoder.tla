------------------------------- MODULE Encoder --------------------------------
(***************************************************************************)
(* The streaming GIF encoder, src/src/encode/encoder.rs.  Frames are added *)
(* one by one; with a shared palette they are buffered until there are     *)
(* enough to build it; one canvas of lookahead is always held back, since  *)
(* how a frame is disposed of depends on the frame after it; bytes may be  *)
(* taken while the file is being made.                                     *)
(*                                                                         *)
(* A call is a sequence of steps: `pc` says where the current call is.     *)
(* Nothing runs beside a call (&mut self), but a stop token may cancel it, *)
(* and quantizing may fail, in every step.  A canvas is always charged as  *)
(* width * height * 4 bytes, so memory is counted in canvases; the output  *)
(* is a sequence of blocks, and its size is counted in blocks.             *)
(***************************************************************************)
EXTENDS Differencing, Sequences, SequencesExt

CONSTANTS
  Inputs,        \* the FrameInputs a caller adds: [pixels, delay]
  Configs,       \* the EncoderConfigs
  MaxCanvases,   \* Limits::max_memory, in canvases
  MaxFrames,     \* Limits::max_frame_count
  MaxDuration,   \* Limits::max_animation_ms
  MaxOutput,     \* Limits::max_output_bytes, in blocks
  MaxCalls       \* bound of the model: calls of add_frame

ASSUME EncoderAssumption ==
  /\ \A f \in Inputs : f.pixels \in [Points -> Pixel] /\ f.delay \in Nat
  /\ \A c \in Configs :
       /\ c.shared \in BOOLEAN        \* shared_palette
       /\ c.palette \in BOOLEAN       \* global_palette.is_some()
       /\ c.transparency \in BOOLEAN  \* use_transparency
       /\ c.repeats \in BOOLEAN       \* Repeat::Infinite, or Repeat::Count(n) with n > 0
       /\ c.bufferFrames \in Nat      \* max_buffer_frames
       /\ c.bufferBytes \in Nat       \* max_buffer_bytes, in canvases
  /\ MaxCanvases \in Nat /\ MaxFrames \in Nat /\ MaxDuration \in Nat
  /\ MaxOutput \in Nat /\ MaxCalls \in Nat

VARIABLES
  config,         \* config, never written
  table,          \* encoder and its global color table
  computed,       \* computed_palette.is_some()
  buffered,       \* buffered_frames
  bufferedBytes,  \* buffered_bytes, in canvases
  queued,         \* the frames flush_buffer or accept_frame has yet to queue
  pending,        \* pending_frame, as a sequence of at most one
  previous,       \* previous_frame, likewise
  firstAlpha,     \* first_frame_has_alpha
  frameIndex,     \* frame_index
  charged,        \* Stats::current, in canvases
  duration,       \* cumulative_duration_ms
  repeatWritten,  \* repeat_written
  failed,         \* failed, or dropped by a finish that failed
  out,            \* the blocks not yet handed out
  pc,             \* where the current call is
  adding,         \* the argument of the current add_frame
  finishing,      \* the current call is finish
  reply,          \* what the last call returned
  sent,           \* history: the blocks handed out
  accepted,       \* history: the frames whose add_frame returned Ok
  calls           \* history: calls of add_frame

frames  == <<buffered, bufferedBytes, queued, pending, previous, charged>>
stream  == <<table, computed, frameIndex, repeatWritten, out, sent>>
control == <<failed, pc, adding, finishing, reply, accepted, duration, calls>>
vars    == <<config, firstAlpha, frames, stream, control>>

Header(t)   == [kind |-> "header", table |-> t]
Loop        == [kind |-> "loop"]
Fragment    == [kind |-> "fragment"]
Trailer     == [kind |-> "trailer"]

\* The repeat extension; gif::Encoder writes none for Finite(0), which
\* Repeat::Once and Repeat::Count(0) come to, see EncodeJob.Extension.
Repeat(c) == IF c.repeats THEN <<Loop>> ELSE <<>>

\* build_encoder: the gif encoder is made at once, unless its global color
\* table will be the shared palette.
Init ==
  /\ config \in Configs
  /\ table = IF config.palette THEN "config"
             ELSE IF config.shared THEN "deferred" ELSE "empty"
  /\ out = IF table = "deferred" THEN <<>> ELSE <<Header(table)>> \o Repeat(config)
  /\ computed = FALSE
  /\ buffered = <<>> /\ bufferedBytes = 0 /\ queued = <<>>
  /\ pending = <<>> /\ previous = <<>>
  /\ firstAlpha = "unknown" /\ frameIndex = 0
  /\ charged = 0 /\ duration = 0
  /\ repeatWritten = FALSE /\ failed = FALSE
  /\ pc = "idle" /\ adding = <<>> /\ finishing = FALSE /\ reply = "none"
  /\ sent = <<>> /\ accepted = <<>> /\ calls = 0

-----------------------------------------------------------------------------
(* add_frame_with_stop                                                      *)

Milliseconds(delay) == 10 * delay

\* A count that overlooks the canvas held back.
FramesWrittenOrBuffered == frameIndex + Len(buffered)

TotalFrames == frameIndex + Len(pending) + Len(buffered)

\* check_frame_count and check_animation_duration.
WithinLimits(f) ==
  /\ TotalFrames < MaxFrames
  /\ duration + Milliseconds(f.delay) <= MaxDuration

\* The error paths before acceptance: a failed encoder, the stop token, a
\* frame of other dimensions, a limit.  The first three may always happen.
RefuseFrame ==
  /\ pc = "idle" /\ calls < MaxCalls
  /\ calls' = calls + 1
  /\ reply' = "refused"
  /\ UNCHANGED <<config, firstAlpha, frames, stream,
                 failed, pc, adding, finishing, accepted, duration>>

\* accept_frame.
SeeAlpha(f) ==
  firstAlpha' = IF firstAlpha # "unknown" THEN firstAlpha
                ELSE IF HasAlpha(f.pixels) THEN "alpha" ELSE "opaque"

\* A failed encoder that goes on.
AcceptAnyway(f) ==
  /\ pc = "idle" /\ calls < MaxCalls
  /\ calls' = calls + 1
  /\ WithinLimits(f)
  /\ SeeAlpha(f)

Accept(f) ==
  /\ pc = "idle" /\ calls < MaxCalls
  /\ calls' = calls + 1
  /\ ~failed /\ WithinLimits(f)
  /\ SeeAlpha(f)

Buffers == config.shared /\ ~computed

\* A flush that comes one frame too late.
ShouldFlushLate(n, bytes) == n > config.bufferFrames \/ bytes >= config.bufferBytes

ShouldFlush(n, bytes) == n >= config.bufferFrames \/ bytes >= config.bufferBytes

\* buffer_frame
BufferFrame(f) ==
  /\ Accept(f) /\ Buffers
  /\ charged + 1 <= MaxCanvases
  /\ charged' = charged + 1
  /\ buffered' = Append(buffered, f)
  /\ bufferedBytes' = bufferedBytes + 1
  /\ pc' = IF ShouldFlush(Len(buffered'), bufferedBytes') THEN "flush" ELSE "queue"
  /\ adding' = <<f>>
  /\ UNCHANGED <<config, queued, pending, previous, stream,
                 failed, finishing, reply, accepted, duration>>

\* queue_frame of an untracked frame
DirectFrame(f) ==
  /\ Accept(f) /\ ~Buffers
  /\ charged + 1 <= MaxCanvases
  /\ charged' = charged + 1
  /\ queued' = <<f>>
  /\ pc' = "queue"
  /\ adding' = <<f>>
  /\ UNCHANGED <<config, buffered, bufferedBytes, pending, previous, stream,
                 failed, finishing, reply, accepted, duration>>

\* The call ends with an error that poisons the encoder, or drops it.
Fail ==
  /\ failed' = TRUE
  /\ pc' = IF finishing THEN "done" ELSE "idle"
  /\ adding' = <<>>
  /\ reply' = "failed"
  /\ UNCHANGED <<config, finishing, accepted, duration>>

\* A frame is charged after acceptance: no room for it is a failure.
ChargeFails(f) ==
  /\ Accept(f)
  /\ charged + 1 > MaxCanvases
  /\ Fail
  /\ UNCHANGED <<frames, stream>>

-----------------------------------------------------------------------------
(* flush_buffer                                                             *)

\* A flush that leaves the byte count of the frames it took.
BytesKept == bufferedBytes

BytesAfterFlush == 0

\* The shared palette is built; it becomes the global color table of an
\* encoder that waited for it.
FlushBuffer ==
  /\ pc = "flush"
  /\ computed' = TRUE
  /\ table' = IF table = "deferred" THEN "shared" ELSE table
  /\ out' = IF table = "deferred" THEN out \o <<Header("shared")>> ELSE out
  /\ queued' = buffered
  /\ buffered' = <<>>
  /\ bufferedBytes' = BytesAfterFlush
  /\ pc' = "queue"
  /\ UNCHANGED <<config, firstAlpha, pending, previous, charged, frameIndex,
                 repeatWritten, sent, failed, adding, finishing, reply,
                 accepted, duration, calls>>

FlushFails ==
  /\ pc = "flush"
  /\ Fail
  /\ UNCHANGED <<firstAlpha, frames, stream, calls>>

-----------------------------------------------------------------------------
(* write_pending_frame                                                      *)

\* A repeat extension with every frame.
RepeatAlways == Repeat(config)

\* The repeat extension, where ensure_repeat_written still has to write it.
RepeatNow == IF repeatWritten THEN <<>> ELSE Repeat(config)

\* The canvas a frame may be diffed against even when it clears.
DiffAgainstKept(clear) == previous

\* A frame that clears the canvas is written whole: clear_previous has gone.
DiffAgainst(clear) == IF clear THEN <<>> ELSE previous

\* prepare_frame: the geometry.  A diff is not used when the palette has no
\* transparent entry to mark unchanged pixels with.
Drawings(f, clear) ==
  {WholeFrame(f.pixels)} \cup
  {DiffFrame(f.pixels, old) :
     old \in {c \in ToSet(DiffAgainst(clear)) :
                config.transparency /\ HasDiff(f.pixels, c)}}

\* ... and the colours: indices into the shared palette or one of the frame's
\* own, with the table omitted when a global one was written and the palette
\* is the computed one.
Colourings ==
  {[table |-> "own", indices |-> "own"]} \cup
  (IF computed
   THEN {[table |-> IF table \in {"config", "shared"} THEN "omitted" ELSE "shared",
          indices |-> "shared"]}
   ELSE {})

\* The gif::Frames that prepare_frame and clear_disposal may make.
Prepared(f, clear) ==
  {[kind |-> "frame", rect |-> d.rect, image |-> d.image, delay |-> f.delay,
    dispose |-> IF clear THEN "background" ELSE "keep",
    table |-> c.table, indices |-> c.indices] :
     d \in Drawings(f, clear), c \in Colourings}

\* A retained canvas whose charge is dropped with the frame.
KeepUncharged(f, clear) ==
  /\ previous' = IF config.transparency /\ ~clear THEN <<f.pixels>> ELSE <<>>
  /\ charged' = charged - Len(previous) - 1

\* The canvas is retained to diff the next one against, and its charge with
\* it, unless it is cleared or diffing is off.
KeepPrevious(f, clear) ==
  /\ previous' = IF config.transparency /\ ~clear THEN <<f.pixels>> ELSE <<>>
  /\ charged' = charged - Len(previous) - 1 + Len(previous')

WritePending(f, clear) ==
  /\ \E g \in Prepared(f, clear) : out' = out \o RepeatNow \o <<g>>
  /\ repeatWritten' = (repeatWritten \/ config.repeats)
  /\ frameIndex' = frameIndex + 1
  /\ KeepPrevious(f, clear)

\* Something fails on the way: the stop token, the quantizer, a palette with
\* no room for a transparent entry.  Bytes may have been emitted, and the
\* frames the call still owned are dropped while their charge stays.
WriteFails(f, clear) ==
  /\ \E g \in Prepared(f, clear) \cup {Fragment} :
     \E n \in 0 .. Len(RepeatNow) + 1 :
       out' = out \o SubSeq(RepeatNow \o <<g>>, 1, n)
  /\ repeatWritten' = (repeatWritten \/ (config.repeats /\ out' # out))
  /\ \/ UNCHANGED <<previous, charged>>
     \/ clear /\ previous' = <<>> /\ charged' = charged - Len(previous)
  /\ pending' = <<>> /\ queued' = <<>>
  /\ Fail
  /\ UNCHANGED <<firstAlpha, buffered, bufferedBytes, table, computed,
                 frameIndex, sent, calls>>

-----------------------------------------------------------------------------
(* queue_frame: the frame held back is written, the new one takes its place *)

HoldBack ==
  /\ pending' = <<Head(queued)>>
  /\ queued' = Tail(queued)
  /\ UNCHANGED <<config, firstAlpha, buffered, bufferedBytes, table, computed,
                 sent, failed, pc, adding, finishing, reply, accepted, duration,
                 calls>>

QueueFirst ==
  /\ pc = "queue" /\ queued # <<>> /\ pending = <<>>
  /\ HoldBack
  /\ UNCHANGED <<previous, charged, frameIndex, repeatWritten, out>>

ClearsBefore(f) == NeedsCanvasClear(pending[1].pixels, f.pixels)

QueueFrame ==
  /\ pc = "queue" /\ queued # <<>> /\ pending # <<>>
  /\ WritePending(pending[1], ClearsBefore(Head(queued)))
  /\ HoldBack

QueueFails ==
  /\ pc = "queue" /\ queued # <<>> /\ pending # <<>>
  /\ WriteFails(pending[1], ClearsBefore(Head(queued)))

\* add_frame returns Ok.
Accepted ==
  /\ pc = "queue" /\ queued = <<>> /\ ~finishing
  /\ accepted' = accepted \o adding
  /\ duration' = duration + Milliseconds(adding[1].delay)
  /\ adding' = <<>>
  /\ pc' = "idle"
  /\ reply' = "ok"
  /\ UNCHANGED <<config, firstAlpha, frames, stream, failed, finishing, calls>>

-----------------------------------------------------------------------------
(* consume_output and take_output                                           *)

ConsumeOutput(n) ==
  /\ pc = "idle"
  /\ sent' = sent \o SubSeq(out, 1, n)
  /\ out' = SubSeq(out, n + 1, Len(out))
  /\ UNCHANGED <<config, firstAlpha, frames, table, computed, frameIndex,
                 repeatWritten, control>>

-----------------------------------------------------------------------------
(* finish_with_stop                                                         *)

\* A finish that is cancelled, or that finds the encoder failed.
RefuseFinish ==
  /\ pc = "idle"
  /\ pc' = "done"
  /\ finishing' = TRUE
  /\ failed' = TRUE
  /\ reply' = "failed"
  /\ UNCHANGED <<config, firstAlpha, frames, stream, adding, accepted, duration,
                 calls>>

Finish ==
  /\ pc = "idle" /\ ~failed
  /\ finishing' = TRUE
  /\ pc' = IF buffered = <<>> THEN "last" ELSE "flush"
  /\ UNCHANGED <<config, firstAlpha, frames, stream, failed, adding, reply,
                 accepted, duration, calls>>

\* A finish that flushes until nothing fails.
FlushAgain ==
  /\ pc = "queue" /\ queued = <<>> /\ finishing
  /\ pc' = "flush"
  /\ UNCHANGED <<config, firstAlpha, frames, stream, failed, adding, finishing,
                 reply, accepted, duration, calls>>

FlushedForFinish ==
  /\ pc = "queue" /\ queued = <<>> /\ finishing
  /\ pc' = "last"
  /\ UNCHANGED <<config, firstAlpha, frames, stream, failed, adding, finishing,
                 reply, accepted, duration, calls>>

\* Playback loops to frame zero: its alpha decides how the last is disposed.
ClearsAtEnd == firstAlpha = "alpha"

WriteLast ==
  /\ pc = "last" /\ pending # <<>>
  /\ WritePending(pending[1], ClearsAtEnd)
  /\ pending' = <<>>
  /\ pc' = "seal"
  /\ UNCHANGED <<config, firstAlpha, buffered, bufferedBytes, queued, table,
                 computed, sent, failed, adding, finishing, reply, accepted,
                 duration, calls>>

\* A finish that forgets the canvas held back.
SealAnyway ==
  /\ pc = "last"
  /\ pc' = "seal"
  /\ UNCHANGED <<config, firstAlpha, frames, stream, failed, adding, finishing,
                 reply, accepted, duration, calls>>

NothingPending ==
  /\ pc = "last" /\ pending = <<>>
  /\ pc' = "seal"
  /\ UNCHANGED <<config, firstAlpha, frames, stream, failed, adding, finishing,
                 reply, accepted, duration, calls>>

LastFails ==
  /\ pc = "last" /\ pending # <<>>
  /\ WriteFails(pending[1], ClearsAtEnd)

\* A size that overlooks what was handed out before.
LastBlocks == Len(out) + 1

\* handed_out + data.len()
FileBlocks == Len(sent) + Len(out) + 1

\* The trailer, the size check, and the last bytes handed out.
Seal ==
  /\ pc = "seal" /\ table # "deferred"
  /\ FileBlocks <= MaxOutput
  /\ sent' = sent \o out \o <<Trailer>>
  /\ out' = <<>>
  /\ pc' = "done"
  /\ reply' = "file"
  /\ UNCHANGED <<config, firstAlpha, frames, table, computed, frameIndex,
                 repeatWritten, failed, adding, finishing, accepted, duration,
                 calls>>

\* No frames and no encoder, the file too large, or the stop token.
SealFails ==
  /\ pc = "seal"
  /\ Fail
  /\ UNCHANGED <<firstAlpha, frames, stream, calls>>

Step ==
  \/ FlushBuffer \/ FlushFails
  \/ QueueFirst \/ QueueFrame \/ QueueFails \/ Accepted
  \/ FlushedForFinish \/ WriteLast \/ NothingPending \/ LastFails
  \/ Seal \/ SealFails

Next ==
  \/ \E f \in Inputs : BufferFrame(f) \/ DirectFrame(f) \/ ChargeFails(f)
  \/ \E n \in 1 .. Len(out) : ConsumeOutput(n)
  \/ RefuseFrame \/ RefuseFinish \/ Finish
  \/ Step

Spec == Init /\ [][Next]_vars

\* A call, once made, runs: its steps are one thread's code.
FairSpec == Spec /\ WF_vars(Step)

-----------------------------------------------------------------------------
File    == sent \o out
Total(fs) == MapThenSumSet(LAMBDA i : fs[i].delay, DOMAIN fs)

\* How many of the first n blocks of a file are frames.
FramesIn(file, n) == Cardinality({i \in 1 .. n : file[i].kind = "frame"})
Written == FramesIn(File, Len(File))

TypeOK ==
  /\ config \in Configs
  /\ table \in {"deferred", "empty", "config", "shared"}
  /\ computed \in BOOLEAN
  /\ buffered \in Seq(Inputs) /\ queued \in Seq(Inputs)
  /\ pending \in Seq(Inputs) /\ Len(pending) <= 1
  /\ previous \in Seq([Points -> Pixel]) /\ Len(previous) <= 1
  /\ adding \in Seq(Inputs) /\ Len(adding) <= 1
  /\ firstAlpha \in {"unknown", "opaque", "alpha"}
  /\ bufferedBytes \in Nat /\ frameIndex \in Nat /\ charged \in Nat
  /\ duration \in Nat /\ calls \in Nat
  /\ repeatWritten \in BOOLEAN /\ failed \in BOOLEAN /\ finishing \in BOOLEAN
  /\ pc \in {"idle", "flush", "queue", "last", "seal", "done"}
  /\ reply \in {"none", "ok", "refused", "failed", "file"}
  /\ accepted \in Seq(Inputs)

(* The charge follows each canvas from the caller to the buffer, the queue, *)
(* the canvas held back and the canvas kept for diffing: until a call       *)
(* fails, what is charged is what is held, and the byte count that decides  *)
(* a flush is that of the buffer.  Even a failure leaves no charge above    *)
(* max_memory (buffer_frame, queue_frame, write_pending_frame).             *)
ChargedIsHeld ==
  /\ ~failed =>
       /\ charged = Len(buffered) + Len(queued) + Len(pending) + Len(previous)
       /\ bufferedBytes = Len(buffered)
  /\ charged <= MaxCanvases

(* However frames are buffered, held back and refused, no more are accepted *)
(* than the limits allow, neither in number nor in milliseconds             *)
(* (add_frame_with_stop).                                                   *)
LimitsHold ==
  /\ Len(accepted) <= MaxFrames
  /\ duration <= MaxDuration

(* max_held_frames: "the most added frames whose bytes are not yet pending" *)
MaxHeldFrames ==
  IF Buffers /\ config.bufferFrames > 2 THEN config.bufferFrames - 1 ELSE 1

(* The frames of the accepted that are not among the frameIndex frames of   *)
(* the stream (StreamInOrder says they are there) are no more than promised.*)
HeldFramesBounded ==
  pc = "idle" /\ ~failed => Len(accepted) - frameIndex <= MaxHeldFrames

\* A file repeats when it is asked to, unless it waited for a shared palette
\* and no frame ever came.
Loops == config.repeats /\ (config.palette \/ ~config.shared \/ accepted # <<>>)

(* Between calls the bytes produced so far, handed out or not, are a header *)
(* first, repeat extensions before the first frame, one frame for each of   *)
(* the first accepted frames with its delay, and a trailer exactly when     *)
(* finish returned the file, which then has every accepted frame.  The      *)
(* duration that is counted is always that of the accepted frames.          *)
StreamInOrder ==
  /\ duration = Milliseconds(Total(accepted))
  /\ pc \in {"idle", "done"} /\ ~failed =>
    /\ File # <<>> => File[1] = Header(table)
    /\ \A i \in DOMAIN File :
         /\ File[i].kind = "header" => i = 1
         /\ File[i].kind = "loop" => \A j \in 1 .. i - 1 : File[j].kind # "frame"
         /\ File[i].kind = "trailer" => i = Len(File) /\ reply = "file"
         /\ File[i].kind # "fragment"
    /\ Written = frameIndex /\ frameIndex <= Len(accepted)
    /\ \A i \in DOMAIN File :
         File[i].kind = "frame" => File[i].delay = accepted[FramesIn(File, i)].delay
    /\ reply = "file" => /\ Written = Len(accepted)
                         /\ Last(File) = Trailer
                         /\ Len(File) <= MaxOutput
                         /\ (\E i \in DOMAIN File : File[i].kind = "loop") <=> Loops

(* The debug_assert of write_pending_frame: a frame that clears the canvas  *)
(* covers it, or pixels beside it would outlive the clearing.               *)
ClearedWhole ==
  \A i \in DOMAIN File :
    File[i].kind = "frame" /\ File[i].dispose = "background" => File[i].rect = Whole

(* "A failed encode may have emitted a partial frame; it cannot be resumed":*)
(* after a failure nothing more is accepted, and no block is made.          *)
FailureIsFinal == [][failed => failed' /\ UNCHANGED <<accepted, sent \o out>>]_vars

(* Every call returns: no state of the buffer, the queue and the canvas     *)
(* held back leaves add_frame or finish without a step.                     *)
CallsReturn == pc \notin {"idle", "done"} ~> pc \in {"idle", "done"}

(* "Never interpret its indices against the old global table"               *)
(* (encoder.rs:1203): the table a frame is read with is the palette its     *)
(* indices were made for.                                                   *)
IndexedByItsTable ==
  \A i \in DOMAIN File :
    File[i].kind = "frame" =>
      File[i].indices = (IF File[i].table = "omitted" THEN table ELSE File[i].table)
=============================================================================
