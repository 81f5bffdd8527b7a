------------------------------- MODULE Decoder --------------------------------
(***************************************************************************)
(* The streaming decoder, src/src/decode/mod.rs: frames are read one at a  *)
(* time from the gif crate's reader, checked against the limits, composed  *)
(* on the Screen in one of three ways (a copy, the canvas itself, or a     *)
(* loan of the canvas), and delivered with an index.  A call that fails    *)
(* leaves a decoder that may be called again.                              *)
(*                                                                         *)
(* The reader is external: it yields the frames of a file and ends at the  *)
(* trailer, or where the input does: at a cut between frames, in the       *)
(* header of the last frame (its control extension, descriptor or colour   *)
(* table), or in its pixels, which is a "broken" frame.  Any read may fail *)
(* (I/O, the stop token, bad data), and where the reader goes on after a   *)
(* failure is not specified.  A call is a sequence of steps, `pc` says     *)
(* which; the screen's actions are those of Screen, with the indexed pixel *)
(* buffer charged to the same Stats.                                       *)
(***************************************************************************)
EXTENDS Screen, Sequences, SequencesExt

CONSTANTS
  Files,        \* the files: [frames, ending]
  MaxFrames,    \* Limits::max_frame_count
  MaxDuration,  \* Limits::max_animation_ms
  MaxErrors     \* bound of the model: calls that failed

IndexedBytes == Width * Height

\* Without room for its buffers Decoder::new fails and there is no Decoder.
ASSUME DecoderAssumption ==
  /\ CanvasBytes + IndexedBytes <= MaxMemory
  /\ \A file \in Files :
       /\ file.frames \in Seq(Frames)
       /\ file.ending \in {"trailer", "cut", "header", "broken"}
       /\ file.ending \in {"header", "broken"} => file.frames # <<>>
  /\ \A f \in Frames : f.delay \in Nat
  /\ MaxFrames \in Nat /\ MaxDuration \in Nat /\ MaxErrors \in Nat

VARIABLES
  file,        \* what is read
  rest,        \* the frames the reader has not come to
  finished,    \* finished
  frameIndex,  \* frame_index
  bufferLen,   \* pixel_buffer.len()
  duration,    \* cumulative_duration_ms
  pc,          \* where the current call is
  mode,        \* which call it is
  frame,       \* its frame, as a sequence of at most one
  reply,       \* what the last call returned
  delivered,   \* history: the frames delivered, [index, canvas, delay]
  errors       \* history: calls that failed

reader == <<file, rest, finished>>
call   == <<pc, mode, frame>>
account == <<frameIndex, duration, delivered>>
all    == <<vars, reader, call, account, bufferLen, reply, errors>>

Modes == {"next_frame", "next_frame_take", "with_next_frame"}

\* A pixel buffer that with_stop_source forgets to charge.
BufferNotCharged == 0

BufferCharge == IndexedBytes

\* with_stop_source: the screen and the pixel buffer are charged.
DecoderInit ==
  /\ pixels = Blank /\ disposal = DefaultDisposal /\ canvasTaken = FALSE
  /\ charged = CanvasBytes + BufferCharge
  /\ output = Blank /\ input = NoPixels
  /\ file \in Files /\ rest = file.frames
  /\ finished = FALSE /\ frameIndex = 0 /\ duration = 0
  /\ bufferLen = IndexedBytes
  /\ pc = "idle" /\ mode = "next_frame" /\ frame = <<>>
  /\ reply = "none" /\ delivered = <<>> /\ errors = 0

-----------------------------------------------------------------------------
\* A call returns without a frame.
Returns(answer) ==
  /\ reply' = answer
  /\ pc' = "idle" /\ frame' = <<>>
  /\ UNCHANGED <<file, mode>>

Errs(answer) ==
  /\ Returns(answer)
  /\ errors' = errors + 1
  /\ UNCHANGED finished

\* next_frame, next_frame_take, with_next_frame: nothing once finished.
Call(m) ==
  /\ pc = "idle" /\ ~finished
  /\ errors < MaxErrors
  /\ pc' = "read" /\ mode' = m
  /\ UNCHANGED <<vars, reader, frame, account, bufferLen, reply, errors>>

\* The input ends in the header of the frame that would be next.
HeaderCut == file.ending = "header" /\ Len(rest) = 1

\* next_frame_info meets the end of the input.
OutOfInput == HeaderCut \/ (rest = <<>> /\ file.ending # "trailer")

\* An end that is taken for one as soon as the frame limit is reached.
AtEndOrLimit ==
  \/ rest = <<>> /\ file.ending = "trailer"
  \/ OutOfInput /\ frameIndex > 0
  \/ frameIndex >= MaxFrames

\* The trailer; or, once a frame has been delivered, the end of the input,
\* between two frames or in the header of the next one.
AtEnd ==
  \/ rest = <<>> /\ file.ending = "trailer"
  \/ OutOfInput /\ frameIndex > 0

EndOfFile ==
  /\ pc = "read" /\ AtEnd
  /\ finished' = TRUE
  /\ Returns("end")
  /\ UNCHANGED <<vars, rest, account, bufferLen, errors>>

\* The reader fails, or the stop token does: what is read next is open.
ReadFails ==
  /\ pc = "read"
  /\ \E n \in 0 .. Len(rest) : rest' = SubSeq(rest, n + 1, Len(rest))
  /\ Errs("error")
  /\ UNCHANGED <<vars, account, bufferLen>>

\* check_frame_consistency: the frame lies within the screen.  It is checked
\* behind the descriptor, in front of the colour table.
Consistent(r) == r.left + r.width <= Width /\ r.top + r.height <= Height

BoundsFail ==
  /\ pc = "read" /\ rest # <<>> /\ ~Consistent(Head(rest).rect)
  /\ \E n \in 0 .. Len(rest) : rest' = SubSeq(rest, n + 1, Len(rest))
  /\ Errs("bounds")
  /\ UNCHANGED <<vars, account, bufferLen>>

\* A limit on the number of frames that lets one more through.
CountExceeded == frameIndex > MaxFrames

TooManyFrames == frameIndex >= MaxFrames

\* The next frame's header is there, and on the screen.
HeaderRead == rest # <<>> /\ ~HeaderCut /\ Consistent(Head(rest).rect)

\* check_frame_count, and a frame without area.
HeaderRefused ==
  /\ pc = "read" /\ HeaderRead
  /\ TooManyFrames \/ Head(rest).rect.width = 0 \/ Head(rest).rect.height = 0
  /\ rest' = Tail(rest)
  /\ Errs("error")
  /\ UNCHANGED <<vars, account, bufferLen>>

\* ensure_buffer_capacity: the buffer grows to the frame and is charged for
\* what it grew.
Grown(r) == IF r.width * r.height > bufferLen THEN r.width * r.height ELSE bufferLen

\* The header is good; nothing but the buffer has changed.
ReadHeader ==
  /\ pc = "read" /\ HeaderRead
  /\ ~TooManyFrames /\ Head(rest).rect.width > 0 /\ Head(rest).rect.height > 0
  /\ frame' = <<Head(rest)>>
  /\ rest' = Tail(rest)
  /\ bufferLen' = Grown(Head(rest).rect)
  /\ charged' = charged + (bufferLen' - bufferLen)
  /\ charged' <= MaxMemory
  /\ pc' = "pixels"
  /\ UNCHANGED <<pixels, disposal, canvasTaken, output, input, file, finished,
                 mode, account, reply, errors>>

\* The growth is refused.
GrowthFails ==
  /\ pc = "read" /\ HeaderRead
  /\ ~TooManyFrames /\ Grown(Head(rest).rect) > bufferLen
  /\ rest' = Tail(rest)
  /\ Errs("error")
  /\ UNCHANGED <<vars, account, bufferLen>>

\* read_into_buffer, check_file_size or check_decompression_ratio fails; in
\* the last frame of a broken file the first always does.
PixelsFail ==
  /\ pc = "pixels"
  /\ \E n \in 0 .. Len(rest) : rest' = SubSeq(rest, n + 1, Len(rest))
  /\ Errs("error")
  /\ UNCHANGED <<vars, account, bufferLen>>

ReadPixels ==
  /\ pc = "pixels" /\ ~(file.ending = "broken" /\ rest = <<>>)
  /\ pc' = "compose"
  /\ UNCHANGED <<vars, reader, mode, frame, account, bufferLen, reply, errors>>

-----------------------------------------------------------------------------
(* Composition.  The pixel buffer moves into the RawFrame and comes back    *)
(* only when the screen succeeds.                                           *)

Compose ==
  /\ pc = "compose"
  /\ \/ mode = "next_frame" /\ ProcessFrame(frame[1])
     \/ mode = "next_frame_take" /\ ProcessFrameTake(frame[1])
     \/ mode = "with_next_frame" /\ ProcessFrameInPlace(frame[1])
  /\ pc' = "count"
  /\ UNCHANGED <<reader, mode, frame, account, bufferLen, reply, errors>>

\* The screen refuses: no canvas, no backup, or no copy.
ComposeFails ==
  /\ pc = "compose"
  /\ \/ canvasTaken /\ UNCHANGED vars
     \/ BackupFails(frame[1])
     \/ mode = "next_frame" /\ CopyFails(frame[1])
  /\ bufferLen' = 0
  /\ Errs("error")
  /\ UNCHANGED <<rest, account>>

-----------------------------------------------------------------------------
(* check_animation_duration, and delivery                                   *)

Lasting == duration + 10 * frame[1].delay

Deliver ==
  /\ pc = "count" /\ Lasting <= MaxDuration
  /\ duration' = Lasting
  /\ frameIndex' = frameIndex + 1
  /\ delivered' = Append(delivered, [index |-> frameIndex, canvas |-> output,
                                     delay |-> frame[1].delay])
  /\ Returns("frame")
  /\ UNCHANGED <<vars, rest, finished, bufferLen, errors>>

\* The frame is composed and counted in the duration, but not delivered.
TooLong ==
  /\ pc = "count" /\ Lasting > MaxDuration
  /\ duration' = Lasting
  /\ Errs("error")
  /\ UNCHANGED <<vars, rest, frameIndex, delivered, bufferLen>>

DecoderNext ==
  \/ \E m \in Modes : Call(m)
  \/ EndOfFile \/ ReadFails \/ BoundsFail \/ HeaderRefused
  \/ ReadHeader \/ GrowthFails \/ PixelsFail \/ ReadPixels
  \/ Compose \/ ComposeFails \/ Deliver \/ TooLong

DecoderSpec == DecoderInit /\ [][DecoderNext]_all

-----------------------------------------------------------------------------
(* The eager canvases of a file, frame by frame, with no failure.           *)
Eager ==
  LET e[k \in 0 .. Len(file.frames)] ==
        IF k = 0 THEN [shown |-> Blank, base |-> Blank]
        ELSE LET f == file.frames[k]
                 shown == Blit(e[k - 1].base, f)
             IN [shown |-> shown,
                 base |-> CASE f.dispose = "previous" -> e[k - 1].base
                            [] f.dispose = "background" -> Fill(shown, Clipped(f))
                            [] OTHER -> shown]
  IN e

(* The pixel buffer never grows beyond the screen: frames larger than it    *)
(* do not pass the reader.                                                  *)
DecoderTypeOK ==
  /\ TypeOK
  /\ file \in Files /\ finished \in BOOLEAN
  /\ bufferLen \in 0 .. IndexedBytes
  /\ frameIndex \in Nat /\ duration \in Nat /\ errors \in Nat
  /\ pc \in {"idle", "read", "pixels", "compose", "count"}
  /\ mode \in Modes
  /\ frame \in Seq(Frames) /\ Len(frame) <= 1
  /\ reply \in {"none", "frame", "end", "error", "bounds"}

(* max_memory caps the canvas, the backup and the pixel buffer together,    *)
(* through failed calls, calls made after them, and a moved canvas.         *)
MemoryCapped == Held + bufferLen <= charged /\ charged <= MaxMemory

\* The frames whose header the file has in full.
Headed == IF file.ending = "header" THEN Len(file.frames) - 1 ELSE Len(file.frames)

(* Until a call fails, what is delivered is the file: every frame once, in  *)
(* order, as the eager semantics shows it; and the end is reported only     *)
(* when every frame whose header could be read was delivered.  A limit, or  *)
(* a frame that breaks off in its pixels, is never mistaken for the end; a  *)
(* frame that breaks off in its header behind a delivered one always may    *)
(* be, and the first frame of a file never.                                 *)
DeliveredIsFile ==
  errors = 0 =>
    /\ \A k \in DOMAIN delivered :
         /\ delivered[k].index = k - 1
         /\ delivered[k].canvas = Eager[k].shown
    /\ finished => /\ Len(delivered) = Headed
                   /\ file.ending = "trailer" \/ delivered # <<>>

(* Calls after failures deliver no more frames, and for no longer, than the *)
(* limits allow, and the frames that are delivered are numbered 0, 1, 2...  *)
DeliveryWithinLimits ==
  /\ Len(delivered) <= MaxFrames
  /\ 10 * MapThenSumSet(LAMBDA k : delivered[k].delay, DOMAIN delivered) <= MaxDuration
  /\ \A k \in DOMAIN delivered : delivered[k].index = k - 1
=============================================================================
