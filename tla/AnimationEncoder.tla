--------------------------- MODULE AnimationEncoder ---------------------------
(***************************************************************************)
(* GifAnimationFrameEncoder, src/src/codec.rs: the protocol put around the *)
(* streaming encoder.  The encoder is made by `begin` or by the first push *)
(* that gets as far, for that canvas; a declared number of frames binds;   *)
(* durations are rounded to centiseconds in three ways; the output limit   *)
(* is checked once more after the encoder has accepted a frame.            *)
(*                                                                         *)
(* The variables of Encoder are those of the encoder once it is made, and  *)
(* rest until then.  Its Width and Height stand for the size it is made    *)
(* for.  A call that an error ends before the encoder is made or asked     *)
(* changes nothing, and is no step.                                        *)
(***************************************************************************)
EXTENDS Encoder

CONSTANTS
  Sizes,     \* sizes of canvases: the caller's
  CanvasSet, \* the canvas sizes of a job: with_canvas_size, or NoSize
  NoSize,    \* Option::None of a size
  Requests,  \* the durations asked for: [kind, ticks]
  Counts,    \* the frame counts begin may declare
  NoCount,   \* Option::None of a count
  MaxDelay   \* the largest delay a frame can have, u16::MAX

Tick == 30   \* ticks of 1/3000 s in a centisecond: 3 in a millisecond

ASSUME AnimationAssumption ==
  /\ NoSize \notin Sizes /\ CanvasSet \subseteq Sizes \cup {NoSize}
  /\ \A r \in Requests : r.kind \in {"legacy", "exact", "timed"} /\ r.ticks \in Nat
  /\ NoCount \notin Counts /\ Counts \subseteq Nat
  /\ MaxDelay \in Nat

VARIABLES
  made,          \* encoder: the size it was made for, or NoSize
  canvasSize,    \* canvas_size
  begun,         \* begun
  declared,      \* declared_frames
  lag,           \* the lag begin returned
  pushed,        \* pushed
  timing,        \* the ticks the rounding phase of push_frame_timed is at
  pushing,       \* the request and size of the push in progress
  kept,          \* history: the frames whose push returned Ok
  timed          \* history: what the timed ones asked for, and got

protocol == <<canvasSize, begun, declared, lag, pushed, timing, kept, timed>>
adapter  == <<made, pushing, protocol>>

AnimationInit ==
  /\ Init
  /\ made = NoSize
  /\ canvasSize \in CanvasSet
  /\ begun = FALSE /\ declared = NoCount /\ lag = 0
  /\ pushed = 0 /\ timing = 0
  /\ pushing = <<>> /\ kept = <<>>
  /\ timed = [asked |-> 0, given |-> 0]

\* ensure_encoder: made once, for the size of the call that comes first.
Ensured(size) == IF made = NoSize THEN size ELSE made

-----------------------------------------------------------------------------
(* begin                                                                    *)

HasFrames == pushed > 0

Begin(size, count) ==
  /\ pc = "idle"
  /\ ~begun /\ ~HasFrames
  /\ canvasSize \in {NoSize, size}
  /\ count # 0
  /\ canvasSize' = size
  /\ made' = Ensured(size)
  /\ begun' = TRUE
  /\ declared' = count
  /\ lag' = MaxHeldFrames
  /\ UNCHANGED <<vars, pushing, pushed, timing, kept, timed>>

-----------------------------------------------------------------------------
(* push_frame, push_frame_exact, push_frame_timed                           *)

Centiseconds(ticks) == (2 * ticks + Tick) \div (2 * Tick)

\* TimingQuantizer: the distance of the rounded endpoints.
Quantized(ticks) == Centiseconds(timing + ticks) - Centiseconds(timing)

\* Milliseconds to the nearest centisecond, and at least one.
Legacy(ticks) == LET cs == ((ticks \div 3) + 5) \div 10 IN IF cs = 0 THEN 1 ELSE cs

Delay(r) == CASE r.kind = "legacy" -> Legacy(r.ticks)
              [] r.kind = "exact"  -> r.ticks \div Tick
              [] r.kind = "timed"  -> Quantized(r.ticks)

Representable(r) ==
  /\ Delay(r) <= MaxDelay
  /\ r.kind = "legacy" => r.ticks % 3 = 0
  /\ r.kind = "exact" => r.ticks % Tick = 0

MorePushes == declared # NoCount => pushed < declared

\* The checks of the adapter itself.
Admitted(size, r) ==
  /\ Representable(r)
  /\ canvasSize \in {NoSize, size}
  /\ MorePushes

\* A rounding phase that moves with every frame asked for.
PhaseAsked(r, ok) == IF r.kind = "timed" THEN timing + r.ticks ELSE timing

\* The phase advances only when the frame is accepted.
Phase(r, ok) == IF r.kind = "timed" /\ ok THEN timing + r.ticks ELSE timing

\* add_frame refuses: the stop token, a limit, or an encoder that was made
\* for another size.  The encoder it was asked of has been made.
PushRefused(size, r) ==
  /\ Admitted(size, r)
  /\ RefuseFrame
  /\ made' = Ensured(size)
  /\ timing' = Phase(r, FALSE)
  /\ UNCHANGED <<pushing, canvasSize, begun, declared, lag, pushed, kept, timed>>

Push(size, r, f) ==
  /\ Admitted(size, r) /\ f.delay = Delay(r)
  /\ Ensured(size) = size
  /\ BufferFrame(f) \/ DirectFrame(f)
  /\ made' = size
  /\ pushing' = <<[size |-> size, request |-> r]>>
  /\ UNCHANGED protocol

PushFails(size, r, f) ==
  /\ Admitted(size, r) /\ f.delay = Delay(r)
  /\ Ensured(size) = size
  /\ ChargeFails(f)
  /\ made' = size
  /\ timing' = Phase(r, FALSE)
  /\ UNCHANGED <<pushing, canvasSize, begun, declared, lag, pushed, kept, timed>>

\* The steps of the encoder within a push or finish; one that fails ends it.
Encode ==
  /\ \/ FlushBuffer \/ QueueFirst \/ QueueFrame
     \/ FlushedForFinish \/ WriteLast \/ NothingPending \/ Seal
  /\ UNCHANGED adapter

EncodeFails ==
  /\ FlushFails \/ QueueFails \/ LastFails \/ SealFails
  /\ pushing' = <<>>
  /\ timing' = IF pushing = <<>> THEN timing ELSE Phase(pushing[1].request, FALSE)
  /\ UNCHANGED <<made, canvasSize, begun, declared, lag, pushed, kept, timed>>

\* handed_out() + pending_output().len()
WithinOutput == Len(sent) + Len(out) <= MaxOutput

\* add_frame has returned Ok.  Above the output limit the push fails all the
\* same, and the frame stays where it is.
Pushed ==
  /\ Accepted
  /\ WithinOutput
  /\ LET p == pushing[1]
     IN /\ canvasSize' = p.size
        /\ timing' = Phase(p.request, TRUE)
        /\ timed' = IF p.request.kind = "timed"
                    THEN [asked |-> timed.asked + p.request.ticks,
                          given |-> timed.given + adding[1].delay]
                    ELSE timed
  /\ pushed' = pushed + 1
  /\ kept' = kept \o adding
  /\ pushing' = <<>>
  /\ UNCHANGED <<made, begun, declared, lag>>

PushedTooMuch ==
  /\ Accepted
  /\ ~WithinOutput
  /\ pushing' = <<>>
  /\ timing' = Phase(pushing[1].request, FALSE)
  /\ UNCHANGED <<made, canvasSize, begun, declared, lag, pushed, kept, timed>>

-----------------------------------------------------------------------------
(* consume_output, take_output, finish                                      *)

Consume ==
  /\ made # NoSize
  /\ \E n \in 1 .. Len(out) : ConsumeOutput(n)
  /\ UNCHANGED adapter

CountMatches == declared # NoCount => pushed = declared

FinishFrames ==
  /\ CountMatches
  /\ made # NoSize /\ HasFrames
  /\ Finish
  /\ UNCHANGED adapter

\* The encoder goes with its adapter, whatever the error.
FinishRefused ==
  /\ RefuseFinish
  /\ UNCHANGED adapter

AnimationNext ==
  \/ \E size \in Sizes :
       \/ \E count \in Counts \cup {NoCount} : Begin(size, count)
       \/ \E r \in Requests :
            \/ PushRefused(size, r)
            \/ \E f \in Inputs : Push(size, r, f) \/ PushFails(size, r, f)
  \/ Encode \/ EncodeFails \/ Pushed \/ PushedTooMuch
  \/ Consume \/ FinishFrames \/ FinishRefused

AnimationSpec == AnimationInit /\ [][AnimationNext]_<<vars, adapter>>

-----------------------------------------------------------------------------
AnimationTypeOK ==
  /\ made \in Sizes \cup {NoSize} /\ canvasSize \in Sizes \cup {NoSize}
  /\ begun \in BOOLEAN /\ declared \in Counts \cup {NoCount}
  /\ lag \in Nat /\ pushed = Len(kept) /\ timing \in Nat
  /\ pushing \in Seq([size : Sizes, request : Requests])
  /\ pushing # <<>> <=> adding # <<>>
  /\ kept \in Seq({f \in Inputs : f.delay <= MaxDelay})
  /\ HasFrames => made = canvasSize

(* The file has exactly the frames whose push returned Ok, and as many as   *)
(* were declared: a frame the encoder accepted although its push failed     *)
(* never comes in a file (push_frame_centiseconds checks the output limit   *)
(* after add_frame; finish_inner counts pushes and not frames).             *)
FileIsPushed ==
  reply = "file" => /\ accepted = kept
                    /\ kept # <<>>
                    /\ declared # NoCount => Len(kept) = declared

(* "so fractional durations (1/30 s) do not drift": in whatever order timed *)
(* pushes are mixed with others and with pushes that fail, the delays given *)
(* to them add up to their durations, to half a centisecond                 *)
(* (push_frame_timed).                                                      *)
NoDrift ==
  /\ 2 * timed.asked <= (2 * timed.given + 1) * Tick
  /\ (2 * timed.given - 1) * Tick <= 2 * timed.asked

(* The lag begin promised: between calls, as long as nothing failed, no     *)
(* more frames are withheld than that (begin, max_held_frames).             *)
LagHolds ==
  begun /\ pc = "idle" /\ ~failed => Len(kept) - Written <= lag

(* "The underlying Encoder is created lazily on the first push_frame call,  *)
(* using either the explicit canvas size ... or the first frame's           *)
(* dimensions" (codec.rs:933-936): an animation that was begun has an       *)
(* encoder for its canvas.                                                  *)
BegunHasItsEncoder == begun => made = canvasSize
=============================================================================
