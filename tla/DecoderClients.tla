---------------------------- MODULE DecoderClients ----------------------------
(***************************************************************************)
(* Who drives the Decoder: a caller of its own, who reads frames one by    *)
(* one and calls Decoder::decode_all in any order and however often, also  *)
(* after one of them failed or came to the end (decode_gif is a decode_all *)
(* on a decoder of its own); or the animation adapter of src/src/codec.rs, *)
(* which renders one frame per call, decodes the frames in front of        *)
(* start_frame_index without giving them out, and marks itself failed      *)
(* during every call so that a decoder that has lost its place is never    *)
(* asked again.                                                            *)
(***************************************************************************)
EXTENDS Decoder

CONSTANT MaxStart  \* bound of the model: start_frame_index

ASSUME ClientAssumption == MaxStart \in Nat

VARIABLES
  client,  \* who calls: "caller" or "animation"
  start,   \* start_frame_index; the frames delivered when decode_all began
  stage,   \* where the client's call is: between calls, in its loop, in the decoder
  failed,  \* GifAnimationFrameDecoder::failed
  seen,    \* its frame_index
  given,   \* the frames decode_all has collected; history: the frames the
           \* adapter has given out; [index, canvas, delay]
  answer   \* what the adapter's last call, or the last decode_all, returned

clientVars == <<client, start, stage, failed, seen, given, answer>>
everything == <<all, clientVars>>

Clients == {"caller", "animation"}

ClientInit ==
  /\ DecoderInit
  /\ client \in Clients /\ start \in 0 .. MaxStart
  /\ client = "caller" => start = 0
  /\ stage = "idle" /\ failed = FALSE /\ seen = 0 /\ given = <<>> /\ answer = "none"

\* next_frame, next_frame_take and with_next_frame, called directly.
CallerSteps ==
  /\ client = "caller" /\ stage = "idle"
  /\ DecoderNext
  /\ UNCHANGED clientVars

\* The decoder's part of a client's call.
DecoderSteps ==
  /\ stage = "inside" /\ pc # "idle"
  /\ DecoderNext
  /\ UNCHANGED clientVars

-----------------------------------------------------------------------------
(* The animation adapter: render_next_frame and its owned variant           *)

\* A call that does not mark itself.
BeginUnmarked ==
  /\ client = "animation" /\ stage = "idle" /\ ~failed
  /\ stage' = "loop"
  /\ UNCHANGED <<all, client, start, failed, seen, given, answer>>

\* A failed adapter refuses; any other is failed until the call succeeds.
Begin ==
  /\ client = "animation" /\ stage = "idle" /\ ~failed
  /\ stage' = "loop" /\ failed' = TRUE
  /\ UNCHANGED <<all, client, start, seen, given, answer>>

\* The call is over; the mark is cleared unless it failed.
Answers(a) ==
  /\ stage' = "idle" /\ answer' = a
  /\ failed' = (a = "error")

\* The call's own token, at the top of the loop.
StoppedBefore ==
  /\ client = "animation" /\ stage = "loop"
  /\ stage' = "idle" /\ answer' = "error"
  /\ UNCHANGED <<all, client, start, failed, seen, given>>

\* with_next_frame, and nothing more once the decoder has finished.
Advance ==
  /\ client = "animation" /\ stage = "loop" /\ ~finished
  /\ Call("with_next_frame")
  /\ stage' = "inside"
  /\ UNCHANGED <<client, start, failed, seen, given, answer>>

\* A loop that waits for the decoder to report the end again.
NoMoreOnReply ==
  /\ client = "animation" /\ stage = "inside" /\ pc = "idle" /\ reply = "end"
  /\ Answers("end")
  /\ UNCHANGED <<all, client, start, seen, given>>

NoMore ==
  /\ client = "animation"
  /\ \/ stage = "loop" /\ finished
     \/ stage = "inside" /\ pc = "idle" /\ reply = "end"
  /\ Answers("end")
  /\ UNCHANGED <<all, client, start, seen, given>>

\* The decoder failed, or the token fired in the callback, the frame decoded.
RenderFails ==
  /\ client = "animation" /\ stage = "inside" /\ pc = "idle" /\ reply # "end"
  /\ stage' = "idle" /\ answer' = "error"
  /\ UNCHANGED <<all, client, start, failed, seen, given>>

HasFrame == client = "animation" /\ stage = "inside" /\ pc = "idle" /\ reply = "frame"

\* A frame that is decoded only because later ones are drawn on it.
SkipFrame ==
  /\ HasFrame /\ seen < start
  /\ seen' = seen + 1
  /\ stage' = "loop"
  /\ UNCHANGED <<all, client, start, failed, given, answer>>

GiveFrame ==
  /\ HasFrame /\ seen >= start
  /\ seen' = seen + 1
  /\ given' = Append(given, [index |-> seen, canvas |-> output,
                             delay |-> delivered[Len(delivered)].delay])
  /\ Answers("frame")
  /\ UNCHANGED <<all, client, start>>

-----------------------------------------------------------------------------
(* decode_all                                                               *)

\* A call begins with an empty vector, wherever the decoder stands; within
\* the bound of the model the decoder may still be called.
CollectBegin ==
  /\ client = "caller" /\ stage = "idle" /\ pc = "idle"
  /\ finished \/ errors < MaxErrors
  /\ stage' = "loop" /\ start' = Len(delivered) /\ given' = <<>> /\ answer' = "none"
  /\ UNCHANGED <<all, client, failed, seen>>

Collect ==
  /\ client = "caller" /\ stage = "loop"
  /\ Call("next_frame")
  /\ stage' = "inside"
  /\ UNCHANGED <<client, start, failed, seen, given, answer>>

Collected == client = "caller" /\ stage = "inside" /\ pc = "idle"

\* The token between frames is quiet, and there is room for one more.
CollectFrame ==
  /\ Collected /\ reply = "frame"
  /\ stage' = "loop"
  /\ given' = Append(given, Last(delivered))
  /\ UNCHANGED <<all, client, start, failed, seen, answer>>

\* What is collected is the result.
CollectPartial ==
  /\ Collected /\ reply # "end"
  /\ stage' = "idle" /\ answer' = "end"
  /\ UNCHANGED <<all, client, start, failed, seen, given>>

\* The decoder failed; or it delivered a frame, and then the token fired or
\* there was no room for it.  What was collected is dropped, that frame too.
CollectFails ==
  /\ Collected /\ reply # "end"
  /\ stage' = "idle" /\ answer' = "error" /\ given' = <<>>
  /\ UNCHANGED <<all, client, start, failed, seen>>

\* The end; a decoder that had finished says so at once.
CollectEnds ==
  /\ \/ Collected /\ reply = "end"
     \/ client = "caller" /\ stage = "loop" /\ finished
  /\ stage' = "idle" /\ answer' = "end"
  /\ UNCHANGED <<all, client, start, failed, seen, given>>

-----------------------------------------------------------------------------
ClientStep ==
  \/ Advance \/ NoMore \/ RenderFails \/ SkipFrame \/ GiveFrame
  \/ CollectFrame \/ CollectFails \/ CollectEnds

ClientNext ==
  \/ CallerSteps \/ DecoderSteps
  \/ Begin \/ StoppedBefore
  \/ CollectBegin \/ Collect
  \/ ClientStep

\* A call that has begun goes on: the thread in it is scheduled.
ClientFairness == WF_everything(DecoderSteps \/ ClientStep \/ (stage = "loop" /\ Collect))

ClientSpec == ClientInit /\ [][ClientNext]_everything /\ ClientFairness

-----------------------------------------------------------------------------
(* The adapter gives out a run of the file: from start_frame_index, every  *)
(* frame once and in order, as the eager semantics shows it, and it        *)
(* reports the end only when there is no further frame with a header that  *)
(* can be read.  This holds after failures too, where the decoder itself   *)
(* may skip frames (errors > 0).                                           *)
GivenIsFile ==
  client = "animation" =>
    /\ \A k \in DOMAIN given :
         given[k] = [index |-> start + k - 1, canvas |-> Eager[start + k].shown,
                     delay |-> file.frames[start + k].delay]
    /\ answer = "end" => start + Len(given) >= Headed

(* decode_all is all or nothing from where it began.  A result is returned *)
(* only at the end of the file, and has every frame delivered since the    *)
(* call began, in order, and none that an earlier call had collected and   *)
(* dropped.  Until a call of the decoder fails, that is the rest of the    *)
(* file as the eager semantics shows it: all of it on a fresh decoder,     *)
(* less what was delivered before on one that was used, by a decode_all    *)
(* that was stopped between two frames for instance.                       *)
CollectedIsFile ==
  client = "caller" /\ answer = "end" =>
    /\ finished
    /\ start + Len(given) = Len(delivered)
    /\ \A k \in DOMAIN given : given[k] = delivered[start + k]
    /\ errors = 0 =>
         /\ start + Len(given) = Headed
         /\ \A k \in DOMAIN given :
              given[k].index = start + k - 1 /\ given[k].canvas = Eager[start + k].shown

(* Every call of the adapter and of decode_all returns, however many       *)
(* frames it skips.                                                        *)
ClientReturns == (stage # "idle") ~> (stage = "idle")
=============================================================================
