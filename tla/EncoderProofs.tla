---------------------------- MODULE EncoderProofs -----------------------------
(***************************************************************************)
(* What holds of the encoder for every canvas, every set of frames and     *)
(* configurations, and every limit: the types, the charge that follows     *)
(* each canvas through the buffer, the queue, the canvas held back and the *)
(* one kept for diffing, the number of frames, the file they become; then  *)
(* of the animation encoder that drives it, and of a viewer of its output. *)
(***************************************************************************)
EXTENDS AnimationEncoder, RoundTrip, DifferencingProofs, SequenceTheorems, TLAPS

(* What the charge rests on: a call in progress has not failed, frames are *)
(* queued only while they are being queued, and an add_frame in progress   *)
(* still has its argument.                                                 *)
Control ==
  /\ pc \in {"flush", "queue", "last", "seal"} => ~failed
  /\ pc # "queue" => queued = <<>>
  /\ pc \in {"flush", "queue"} /\ ~finishing => Len(adding) = 1

IInv == TypeOK /\ ChargedIsHeld /\ Control

-----------------------------------------------------------------------------
LEMMA InputType ==
  ASSUME NEW f \in Inputs
  PROVE  f.pixels \in [Points -> Pixel] /\ Milliseconds(f.delay) \in Nat
BY EncoderAssumption DEF Milliseconds

LEMMA OptionType ==
  ASSUME NEW S, NEW s \in Seq(S), s # <<>>
  PROVE  s[1] \in S /\ Len(s) \in Nat \ {0}
BY EmptySeq, ElementOfSeq

LEMMA OptionTypes ==
  ASSUME TypeOK
  PROVE  /\ pending = <<>> => Len(pending) = 0
         /\ pending # <<>> => pending[1] \in Inputs /\ Len(pending) = 1
         /\ Len(adding) = 1 => adding[1] \in Inputs
<1>1. pending \in Seq(Inputs) /\ Len(pending) <= 1 /\ adding \in Seq(Inputs)
  BY DEF TypeOK
<1>2. pending # <<>> => pending[1] \in Inputs /\ Len(pending) \in Nat \ {0}
  BY <1>1, OptionType
<1>3. adding # <<>> => adding[1] \in Inputs
  BY <1>1, OptionType
<1>4. pending = <<>> => Len(pending) = 0
  BY EmptySeq
<1>5. Len(adding) = 1 => adding # <<>>
  BY EmptySeq
<1>6. pending # <<>> => Len(pending) = 1
  <2> DEFINE n == Len(pending)
  <2>1. pending # <<>> => n \in Nat \ {0}
    BY <1>2
  <2>2. n <= 1
    BY <1>1
  <2> HIDE DEF n
  <2>3. n \in Nat \ {0} => n = 1
    BY ONLY <2>2
  <2>4. QED
    BY <2>1, <2>3 DEF n
<1>7. QED
  BY <1>2, <1>3, <1>4, <1>5, <1>6

LEMMA MaxCanvasesType == MaxCanvases \in Nat
BY EncoderAssumption

LEMMA InitIInv == Init => IInv
<1> SUFFICES ASSUME Init PROVE IInv
  OBVIOUS
<1>1. TypeOK
  <2>1. /\ buffered \in Seq(Inputs) /\ queued \in Seq(Inputs) /\ adding \in Seq(Inputs)
        /\ pending \in Seq(Inputs) /\ accepted \in Seq(Inputs)
        /\ previous \in Seq([Points -> Pixel])
        /\ Len(pending) <= 1 /\ Len(previous) <= 1 /\ Len(adding) <= 1
    BY DEF Init
  <2>2. table \in {"deferred", "empty", "config", "shared"}
    BY DEF Init
  <2>3. /\ bufferedBytes \in Nat /\ frameIndex \in Nat /\ charged \in Nat
        /\ duration \in Nat /\ calls \in Nat
    BY DEF Init
  <2>4. /\ config \in Configs /\ computed \in BOOLEAN /\ repeatWritten \in BOOLEAN
        /\ failed \in BOOLEAN /\ finishing \in BOOLEAN
        /\ firstAlpha = "unknown" /\ pc = "idle" /\ reply = "none"
    BY Zenon DEF Init
  <2>5. QED
    BY <2>1, <2>2, <2>3, <2>4 DEF TypeOK
<1>2. ChargedIsHeld
  BY MaxCanvasesType DEF Init, ChargedIsHeld
<1>3. Control
  BY DEF Init, Control
<1>4. QED
  BY <1>1, <1>2, <1>3 DEF IInv

(* A frame is buffered: charged and held both grow by one.                 *)
LEMMA BufferFrameIInv ==
  ASSUME IInv, NEW f \in Inputs, BufferFrame(f)
  PROVE  IInv'
<1>1. TypeOK /\ ChargedIsHeld /\ Control
  BY DEF IInv
<1>2. /\ pc = "idle" /\ ~failed /\ ~failed' /\ queued = <<>>
      /\ pc' \in {"flush", "queue"} /\ adding' = <<f>>
      /\ buffered' = Append(buffered, f)
      /\ charged + 1 <= MaxCanvases /\ charged' = charged + 1
      /\ bufferedBytes' = bufferedBytes + 1
      /\ calls' = calls + 1
      /\ UNCHANGED <<config, queued, pending, previous, stream,
                     failed, finishing, reply, accepted, duration>>
  BY <1>1 DEF BufferFrame, Accept, Control
<1>3. firstAlpha' \in {"unknown", "opaque", "alpha"}
  BY <1>1 DEF BufferFrame, Accept, SeeAlpha, TypeOK
<1>4. buffered' \in Seq(Inputs) /\ Len(buffered') = Len(buffered) + 1
      /\ adding' \in Seq(Inputs) /\ Len(adding') = 1
  BY <1>1, <1>2 DEF TypeOK
<1>5. TypeOK'
  BY <1>1, <1>2, <1>3, <1>4 DEF TypeOK, stream
<1>6. ChargedIsHeld'
  BY <1>1, <1>2, <1>4, MaxCanvasesType DEF TypeOK, ChargedIsHeld
<1>7. Control'
  BY <1>1, <1>2, <1>4 DEF Control
<1>8. QED
  BY <1>5, <1>6, <1>7 DEF IInv

LEMMA DirectFrameIInv ==
  ASSUME IInv, NEW f \in Inputs, DirectFrame(f)
  PROVE  IInv'
<1>1. TypeOK /\ ChargedIsHeld /\ Control
  BY DEF IInv
<1>2. /\ pc = "idle" /\ ~failed /\ ~failed' /\ queued = <<>>
      /\ pc' = "queue" /\ adding' = <<f>> /\ queued' = <<f>>
      /\ charged + 1 <= MaxCanvases /\ charged' = charged + 1
      /\ calls' = calls + 1
      /\ UNCHANGED <<config, buffered, bufferedBytes, pending, previous, stream,
                     failed, finishing, reply, accepted, duration>>
  BY <1>1 DEF DirectFrame, Accept, Control
<1>3. firstAlpha' \in {"unknown", "opaque", "alpha"}
  BY <1>1 DEF DirectFrame, Accept, SeeAlpha, TypeOK
<1>4. adding' \in Seq(Inputs) /\ Len(adding') = 1
      /\ queued' \in Seq(Inputs) /\ Len(queued') = 1
  BY <1>2
<1>5. TypeOK'
  BY <1>1, <1>2, <1>3, <1>4 DEF TypeOK, stream
<1>6. ChargedIsHeld'
  BY <1>1, <1>2, <1>4, MaxCanvasesType DEF TypeOK, ChargedIsHeld
<1>7. Control'
  BY <1>1, <1>2, <1>4 DEF Control
<1>8. QED
  BY <1>5, <1>6, <1>7 DEF IInv

(* A failure that touches no canvas.                                       *)
LEMMA FailIInv ==
  ASSUME IInv, Fail, UNCHANGED frames, UNCHANGED stream, queued = <<>>,
         firstAlpha' \in {"unknown", "opaque", "alpha"}, calls' \in Nat
  PROVE  IInv'
<1>1. TypeOK /\ ChargedIsHeld /\ Control
  BY DEF IInv
<1>2. TypeOK'
  BY <1>1 DEF TypeOK, Fail, frames, stream
<1>3. ChargedIsHeld'
  BY <1>1 DEF ChargedIsHeld, Fail, frames
<1>4. Control'
  BY <1>1 DEF Control, Fail, frames
<1>5. QED
  BY <1>2, <1>3, <1>4 DEF IInv

LEMMA FlushBufferIInv ==
  ASSUME IInv, FlushBuffer
  PROVE  IInv'
<1>1. TypeOK /\ ChargedIsHeld /\ Control
  BY DEF IInv
<1>2. queued = <<>> /\ ~failed
  BY <1>1 DEF FlushBuffer, Control
<1>3. TypeOK'
  BY <1>1 DEF TypeOK, FlushBuffer, BytesAfterFlush
<1>4. ChargedIsHeld'
  BY <1>1, <1>2 DEF ChargedIsHeld, FlushBuffer, BytesAfterFlush, TypeOK
<1>5. Control'
  BY <1>1, <1>2 DEF Control, FlushBuffer
<1>6. QED
  BY <1>3, <1>4, <1>5 DEF IInv

(* A frame is written: its charge goes, or moves to the canvas kept.       *)
LEMMA WriteKeepsCharge ==
  ASSUME IInv, ~failed, NEW f \in Inputs, NEW clear \in BOOLEAN,
         Len(pending) = 1, WritePending(f, clear)
  PROVE  /\ previous' \in Seq([Points -> Pixel]) /\ Len(previous') <= 1
         /\ charged' = charged - Len(previous) - 1 + Len(previous')
         /\ charged' = Len(buffered) + Len(queued) + Len(previous')
         /\ charged' \in Nat /\ charged' <= MaxCanvases
         /\ frameIndex' \in Nat /\ repeatWritten' \in BOOLEAN
<1>1. TypeOK /\ ChargedIsHeld
  BY DEF IInv
<1>2. previous' \in {<<f.pixels>>, <<>>}
  BY DEF WritePending, KeepPrevious
<1>3. previous' \in Seq([Points -> Pixel]) /\ Len(previous') \in {0, 1}
  <2>1. f.pixels \in [Points -> Pixel]
    BY InputType
  <2> DEFINE Canvases == [Points -> Pixel]
             canvas == f.pixels
  <2> HIDE DEF Canvases, canvas
  <2>2. canvas \in Canvases /\ previous' \in {<<canvas>>, <<>>}
    BY <2>1, <1>2 DEF canvas, Canvases
  <2>3. previous' \in Seq(Canvases) /\ Len(previous') \in {0, 1}
    <3>1. CASE previous' = <<canvas>>
      BY <2>2, <3>1
    <3>2. CASE previous' = <<>>
      BY <3>2
    <3>3. QED
      BY <2>2, <3>1, <3>2
  <2>4. QED
    BY <2>3 DEF Canvases
<1>4. charged' = charged - Len(previous) - 1 + Len(previous')
  BY DEF WritePending, KeepPrevious
<1>5. charged = Len(buffered) + Len(queued) + 1 + Len(previous)
      /\ charged <= MaxCanvases
  BY <1>1 DEF ChargedIsHeld
<1>6. /\ Len(buffered) \in Nat /\ Len(queued) \in Nat /\ Len(previous) \in Nat
      /\ charged \in Nat
  BY <1>1 DEF TypeOK
<1>7. charged' = Len(buffered) + Len(queued) + Len(previous') /\ charged' <= charged
  <2> DEFINE b == Len(buffered)
             q == Len(queued)
             p == Len(previous)
             k == Len(previous')
             d == charged'
  <2>1. /\ b \in Nat /\ q \in Nat /\ p \in Nat /\ k \in {0, 1}
        /\ charged = b + q + 1 + p /\ d = charged - p - 1 + k
    BY <1>3, <1>4, <1>5, <1>6
  <2> HIDE DEF b, q, p, k, d
  <2>2. d = b + q + k /\ d <= charged
    BY ONLY <2>1
  <2>3. QED
    BY <2>2 DEF b, q, k, d
<1>8. frameIndex' \in Nat /\ repeatWritten' \in BOOLEAN
  BY <1>1, EncoderAssumption DEF WritePending, TypeOK
<1>9. Len(previous') <= 1 /\ charged' \in Nat /\ charged' <= MaxCanvases
  <2> DEFINE b == Len(buffered)
             q == Len(queued)
             k == Len(previous')
             d == charged'
  <2>1. /\ b \in Nat /\ q \in Nat /\ k \in {0, 1} /\ d = b + q + k
        /\ d <= charged /\ charged \in Nat /\ charged <= MaxCanvases
    BY <1>3, <1>5, <1>6, <1>7
  <2> HIDE DEF b, q, k, d
  <2>2. k <= 1 /\ d \in Nat /\ d <= MaxCanvases
    BY ONLY <2>1, MaxCanvasesType
  <2>3. QED
    BY <2>2 DEF k, d
<1>10. QED
  BY <1>3, <1>4, <1>7, <1>8, <1>9

LEMMA WriteFailsIInv ==
  ASSUME IInv, ~failed, NEW f, NEW clear, WriteFails(f, clear)
  PROVE  IInv'
<1>1. TypeOK /\ ChargedIsHeld
  BY DEF IInv
<1>2. /\ failed' /\ pc' \in {"idle", "done"} /\ adding' = <<>> /\ reply' = "failed"
      /\ pending' = <<>> /\ queued' = <<>>
      /\ UNCHANGED <<config, finishing, accepted, duration, firstAlpha, buffered,
                     bufferedBytes, table, computed, frameIndex, calls>>
  BY DEF WriteFails, Fail
<1>3. charged \in Nat /\ Len(previous) \in Nat /\ Len(previous) <= charged
  BY <1>1 DEF TypeOK, ChargedIsHeld
<1>4. /\ previous' \in Seq([Points -> Pixel]) /\ Len(previous') <= 1
      /\ charged' \in Nat /\ charged' <= charged
  <2>1. CASE UNCHANGED <<previous, charged>>
    BY <2>1, <1>1, <1>3 DEF TypeOK
  <2>2. CASE previous' = <<>> /\ charged' = charged - Len(previous)
    BY <2>2, <1>3
  <2>3. QED
    BY <2>1, <2>2 DEF WriteFails
<1>5. repeatWritten' \in BOOLEAN
  BY <1>1, EncoderAssumption DEF WriteFails, TypeOK
<1>6. TypeOK'
  BY <1>1, <1>2, <1>4, <1>5 DEF TypeOK
<1>7. ChargedIsHeld'
  BY <1>1, <1>2, <1>3, <1>4, MaxCanvasesType DEF ChargedIsHeld
<1>8. Control'
  BY <1>2 DEF Control
<1>9. QED
  BY <1>6, <1>7, <1>8 DEF IInv

(* What a step that holds a frame back has to show of the types.           *)
LEMMA HeldBackType ==
  ASSUME TypeOK,
         pending' \in Seq(Inputs), Len(pending') = 1, queued' \in Seq(Inputs),
         previous' \in Seq([Points -> Pixel]), Len(previous') <= 1,
         charged' \in Nat, frameIndex' \in Nat, repeatWritten' \in BOOLEAN,
         UNCHANGED <<config, firstAlpha, buffered, bufferedBytes, table, computed,
                     failed, pc, adding, finishing, reply, accepted, duration,
                     calls>>
  PROVE  TypeOK'
<1>1. Len(pending') <= 1
  OBVIOUS
<1>2. QED
  BY <1>1, Zenon DEF TypeOK

LEMMA PreviousType ==
  ASSUME TypeOK, UNCHANGED <<previous, charged, frameIndex, repeatWritten>>
  PROVE  /\ previous' \in Seq([Points -> Pixel]) /\ Len(previous') <= 1
         /\ charged' \in Nat /\ frameIndex' \in Nat /\ repeatWritten' \in BOOLEAN
BY DEF TypeOK

LEMMA QueueIInv ==
  ASSUME IInv, QueueFirst \/ QueueFrame \/ QueueFails
  PROVE  IInv'
<1>1. TypeOK /\ ChargedIsHeld /\ Control
  BY DEF IInv
<1>2. pc = "queue" /\ queued # <<>> /\ ~failed
  BY <1>1 DEF QueueFirst, QueueFrame, QueueFails, Control
<1>3. /\ Head(queued) \in Inputs /\ Tail(queued) \in Seq(Inputs)
      /\ Len(Tail(queued)) = Len(queued) - 1 /\ Len(queued) \in Nat \ {0}
  BY <1>1, <1>2 DEF TypeOK
<1>4. /\ pending = <<>> => Len(pending) = 0
      /\ pending # <<>> => pending[1] \in Inputs /\ Len(pending) = 1
  BY <1>1, OptionTypes
<1>5. HoldBack => /\ pending' \in Seq(Inputs) /\ Len(pending') = 1
                  /\ queued' \in Seq(Inputs) /\ Len(queued') = Len(queued) - 1
                  /\ UNCHANGED <<config, firstAlpha, buffered, bufferedBytes,
                                 table, computed, failed, pc, adding, finishing,
                                 reply, accepted, duration, calls>>
  BY <1>3 DEF HoldBack
<1>6. CASE QueueFirst
  <2>1. /\ HoldBack /\ Len(pending) = 0
        /\ UNCHANGED <<previous, charged, frameIndex, repeatWritten>>
    BY <1>4, <1>6 DEF QueueFirst
  <2>2. TypeOK'
    BY <1>1, <1>5, <2>1, HeldBackType, PreviousType
  <2>3. ChargedIsHeld'
    <3>1. /\ Len(pending') = 1 /\ Len(queued') = Len(queued) - 1
          /\ UNCHANGED <<buffered, bufferedBytes, previous, charged, failed>>
      BY <1>5, <2>1
    <3>2. /\ Len(buffered) \in Nat /\ Len(previous) \in Nat
          /\ charged = Len(buffered) + Len(queued) + Len(previous)
          /\ charged <= MaxCanvases /\ bufferedBytes = Len(buffered)
      BY <1>1, <1>2, <1>3, <2>1 DEF ChargedIsHeld, TypeOK
    <3>3. charged = Len(buffered) + (Len(queued) - 1) + 1 + Len(previous)
      BY <1>3, <3>2
    <3>4. QED
      BY <3>1, <3>2, <3>3 DEF ChargedIsHeld
  <2>4. Control'
    BY <1>1, <1>2, <1>5, <2>1 DEF Control
  <2>5. QED
    BY <2>2, <2>3, <2>4 DEF IInv
<1>7. CASE QueueFrame
  <2>1. HoldBack /\ WritePending(pending[1], ClearsBefore(Head(queued)))
        /\ pending[1] \in Inputs /\ Len(pending) = 1
        /\ ClearsBefore(Head(queued)) \in BOOLEAN
    BY <1>4, <1>7 DEF QueueFrame, ClearsBefore, NeedsCanvasClear
  <2>2. /\ previous' \in Seq([Points -> Pixel]) /\ Len(previous') <= 1
        /\ charged' = Len(buffered) + Len(queued) + Len(previous')
        /\ charged' \in Nat /\ charged' <= MaxCanvases
        /\ frameIndex' \in Nat /\ repeatWritten' \in BOOLEAN
    BY <1>2, <2>1, WriteKeepsCharge
  <2>3. TypeOK'
    BY <1>1, <1>5, <2>1, <2>2, HeldBackType
  <2>4. ChargedIsHeld'
    <3>1. bufferedBytes' = Len(buffered')
      BY <1>1, <1>2, <1>5, <2>1 DEF ChargedIsHeld
    <3>2. charged' = Len(buffered') + Len(queued') + Len(pending') + Len(previous')
      <4>1. /\ Len(buffered') = Len(buffered) /\ Len(queued') = Len(queued) - 1
            /\ Len(pending') = 1 /\ Len(buffered) \in Nat /\ Len(previous') \in Nat
        BY <1>1, <1>5, <2>1, <2>2 DEF TypeOK
      <4>2. QED
        BY <1>3, <2>2, <4>1
    <3>3. QED
      BY <2>2, <3>1, <3>2 DEF ChargedIsHeld
  <2>5. Control'
    BY <1>1, <1>2, <1>5, <2>1 DEF Control
  <2>6. QED
    BY <2>3, <2>4, <2>5 DEF IInv
<1>8. CASE QueueFails
  BY <1>2, <1>8, WriteFailsIInv DEF QueueFails
<1>9. QED
  BY <1>6, <1>7, <1>8

LEMMA AcceptedIInv ==
  ASSUME IInv, Accepted
  PROVE  IInv'
<1>1. TypeOK /\ ChargedIsHeld /\ Control
  BY DEF IInv
<1>2. Len(adding) = 1 /\ adding[1] \in Inputs
  BY <1>1, OptionTypes DEF Accepted, Control
<1>3. Milliseconds(adding[1].delay) \in Nat /\ accepted \o adding \in Seq(Inputs)
  BY <1>1, <1>2, InputType DEF TypeOK
<1>4. TypeOK'
  BY <1>1, <1>3 DEF TypeOK, Accepted, frames, stream
<1>5. ChargedIsHeld'
  BY <1>1 DEF ChargedIsHeld, Accepted, frames
<1>6. Control'
  BY <1>1 DEF Control, Accepted, frames
<1>7. QED
  BY <1>4, <1>5, <1>6 DEF IInv

LEMMA LastIInv ==
  ASSUME IInv, WriteLast \/ LastFails
  PROVE  IInv'
<1>1. TypeOK /\ ChargedIsHeld /\ Control
  BY DEF IInv
<1>2. pc = "last" /\ pending # <<>> /\ ~failed /\ queued = <<>>
  BY <1>1 DEF WriteLast, LastFails, Control
<1>3. pending[1] \in Inputs /\ Len(pending) = 1
  BY <1>1, <1>2, OptionTypes
<1>4. CASE WriteLast
  <2>1. WritePending(pending[1], ClearsAtEnd) /\ ClearsAtEnd \in BOOLEAN
    BY <1>4 DEF WriteLast, ClearsAtEnd
  <2>2. /\ previous' \in Seq([Points -> Pixel]) /\ Len(previous') <= 1
        /\ charged' = Len(buffered) + Len(queued) + Len(previous')
        /\ charged' \in Nat /\ charged' <= MaxCanvases
        /\ frameIndex' \in Nat /\ repeatWritten' \in BOOLEAN
    BY <1>2, <1>3, <2>1, WriteKeepsCharge
  <2>3. /\ pending' = <<>> /\ pc' = "seal"
        /\ UNCHANGED <<config, firstAlpha, buffered, bufferedBytes, queued, table,
                       computed, failed, adding, finishing, reply, accepted,
                       duration, calls>>
    BY <1>4 DEF WriteLast
  <2>4. TypeOK'
    BY <1>1, <2>2, <2>3 DEF TypeOK
  <2>5. ChargedIsHeld'
    <3>1. Len(pending') = 0 /\ Len(previous') \in Nat
          /\ Len(buffered) \in Nat /\ Len(queued) \in Nat
      BY <1>1, <2>2, <2>3 DEF TypeOK
    <3>2. QED
      BY <1>1, <1>2, <2>2, <2>3, <3>1 DEF ChargedIsHeld
  <2>6. Control'
    BY <1>2, <2>3 DEF Control
  <2>7. QED
    BY <2>4, <2>5, <2>6 DEF IInv
<1>5. CASE LastFails
  BY <1>2, <1>5, WriteFailsIInv DEF LastFails
<1>6. QED
  BY <1>4, <1>5

(* The steps that touch no canvas.                                         *)
LEMMA OtherIInv ==
  ASSUME IInv,
         \/ RefuseFrame \/ RefuseFinish \/ Finish \/ FlushedForFinish
         \/ NothingPending \/ Seal \/ (\E n \in 1 .. Len(out) : ConsumeOutput(n))
  PROVE  IInv'
<1>1. TypeOK /\ ChargedIsHeld /\ Control
  BY DEF IInv
<1>2. TypeOK'
  <2>1. /\ finishing' \in BOOLEAN /\ failed' \in BOOLEAN
        /\ pc' \in {"idle", "flush", "queue", "last", "seal", "done"}
        /\ reply' \in {"none", "ok", "refused", "failed", "file"}
        /\ calls' \in Nat
    <3>1. finishing \in BOOLEAN /\ failed \in BOOLEAN /\ calls \in Nat
          /\ pc \in {"idle", "flush", "queue", "last", "seal", "done"}
          /\ reply \in {"none", "ok", "refused", "failed", "file"}
      BY <1>1 DEF TypeOK
    <3>2. CASE RefuseFrame
      <4>1. calls + 1 \in Nat
        BY <3>1
      <4>2. QED
        BY <3>1, <3>2, <4>1, Zenon DEF RefuseFrame
    <3>7. CASE RefuseFinish
      BY <3>1, <3>7, Zenon DEF RefuseFinish
    <3>3. CASE Finish \/ FlushedForFinish \/ NothingPending
      BY <3>1, <3>3 DEF Finish, FlushedForFinish, NothingPending
    <3>4. CASE Seal
      BY <3>1, <3>4 DEF Seal
    <3>5. CASE \E n \in 1 .. Len(out) : ConsumeOutput(n)
      BY <3>1, <3>5 DEF ConsumeOutput, control
    <3>6. QED
      BY <3>2, <3>3, <3>4, <3>5, <3>7
  <2>2. UNCHANGED <<config, firstAlpha, frames, table, computed, frameIndex,
                    repeatWritten, adding, accepted, duration>>
    BY DEF RefuseFrame, RefuseFinish, Finish, FlushedForFinish, NothingPending,
       Seal, ConsumeOutput, stream, control
  <2>3. QED
    BY <1>1, <2>1, <2>2, Zenon DEF TypeOK, frames
<1>3. ChargedIsHeld'
  BY <1>1 DEF ChargedIsHeld, RefuseFrame, RefuseFinish, Finish, FlushedForFinish,
     NothingPending, Seal, ConsumeOutput, frames, control
<1>4. Control'
  BY <1>1 DEF Control, TypeOK, RefuseFrame, RefuseFinish, Finish, FlushedForFinish,
     NothingPending, Seal, ConsumeOutput, frames, control
<1>5. QED
  BY <1>2, <1>3, <1>4 DEF IInv

LEMMA NextIInv == IInv /\ [Next]_vars => IInv'
<1> SUFFICES ASSUME IInv, [Next]_vars PROVE IInv'
  OBVIOUS
<1>1. ASSUME NEW f \in Inputs, ChargeFails(f) PROVE IInv'
  <2>1. firstAlpha' \in {"unknown", "opaque", "alpha"} /\ calls' \in Nat
    BY <1>1 DEF ChargeFails, Accept, SeeAlpha, IInv, TypeOK
  <2>2. queued = <<>>
    BY <1>1 DEF ChargeFails, Accept, IInv, Control
  <2>3. QED
    BY <1>1, <2>1, <2>2, FailIInv DEF ChargeFails
<1>2. CASE FlushFails \/ SealFails
  <2>1. firstAlpha' \in {"unknown", "opaque", "alpha"} /\ calls' \in Nat
    BY <1>2 DEF FlushFails, SealFails, IInv, TypeOK
  <2>2. queued = <<>>
    BY <1>2 DEF FlushFails, SealFails, IInv, Control
  <2>3. QED
    BY <1>2, <2>1, <2>2, FailIInv DEF FlushFails, SealFails
<1>3. CASE UNCHANGED vars
  BY <1>3 DEF IInv, TypeOK, ChargedIsHeld, Control, vars, frames, stream, control
<1>4. QED
  BY <1>1, <1>2, <1>3, BufferFrameIInv, DirectFrameIInv, FlushBufferIInv,
     QueueIInv, AcceptedIInv, LastIInv, OtherIInv DEF Next, Step

LEMMA Invariance == Spec => []IInv
BY InitIInv, NextIInv, PTL DEF Spec

(* The types, for every configuration and every limit.                     *)
THEOREM TypeCorrect == Spec => []TypeOK
<1>1. IInv => TypeOK
  BY DEF IInv
<1>2. QED
  BY <1>1, Invariance, PTL

(* Every canvas the encoder holds is charged exactly once until a call     *)
(* fails, and the charge never passes max_memory.                          *)
THEOREM ChargeIsExact == Spec => []ChargedIsHeld
<1>1. IInv => ChargedIsHeld
  BY DEF IInv
<1>2. QED
  BY <1>1, Invariance, PTL

-----------------------------------------------------------------------------
(* The output.  Of a block it only matters here that it is no frame that    *)
(* clears a part of the canvas: out and sent are sequences over some set of *)
(* such blocks, to which a step may add the blocks it makes.                *)
ClearsWhole(b) == b.kind = "frame" /\ b.dispose = "background" => b.rect = Whole

OutputType ==
  \E S : out \in Seq(S) /\ sent \in Seq(S) /\ \A b \in S : ClearsWhole(b)

\* Blocks are made, at the end of out.
Emits ==
  \E T : /\ \A b \in T : ClearsWhole(b)
        /\ \E x \in Seq(T) : out' = out \o x /\ sent' = sent

(* A frame that clears the canvas is not diffed, so it is written whole     *)
(* (write_pending_frame drops clear_previous before prepare_frame).         *)
LEMMA PreparedClearsWhole ==
  ASSUME NEW f, NEW clear, NEW g \in Prepared(f, clear)
  PROVE  ClearsWhole(g)
<1>1. PICK d \in Drawings(f, clear) :
        g.rect = d.rect /\ g.dispose = IF clear THEN "background" ELSE "keep"
  BY DEF Prepared
<1>2. CASE clear
  <2>1. DiffAgainst(clear) = <<>>
    BY <1>2 DEF DiffAgainst
  <2>2. ToSet(DiffAgainst(clear)) = {}
    BY <2>1 DEF ToSet
  <2>3. d = WholeFrame(f.pixels)
    BY <2>2 DEF Drawings
  <2>4. QED
    BY <1>1, <2>3 DEF WholeFrame, ClearsWhole
<1>3. CASE ~clear
  BY <1>1, <1>3 DEF ClearsWhole
<1>4. QED
  BY <1>2, <1>3

LEMMA OthersClearNothing ==
  /\ ClearsWhole(Loop) /\ ClearsWhole(Fragment) /\ ClearsWhole(Trailer)
  /\ \A t : ClearsWhole(Header(t))
BY DEF ClearsWhole, Loop, Fragment, Trailer, Header

OutputSize == Len(sent) + Len(out)

LEMMA NothingEmitted ==
  ASSUME OutputType, UNCHANGED <<out, sent>>
  PROVE  Emits
<1>1. PICK S : out \in Seq(S) /\ \A b \in S : ClearsWhole(b)
  BY DEF OutputType
<1>2. <<>> \in Seq(S) /\ out \o <<>> = out
  BY <1>1, ConcatEmptySeq, EmptySeq
<1>3. QED
  BY <1>1, <1>2 DEF Emits

LEMMA RepeatType ==
  /\ RepeatNow \in Seq({Loop})
  /\ Len(RepeatNow) \in Nat
<1>1. <<Loop>> \in Seq({Loop}) /\ <<>> \in Seq({Loop})
  OBVIOUS
<1>2. RepeatNow \in Seq({Loop})
  BY <1>1 DEF RepeatNow, Repeat
<1>3. QED
  BY <1>2, LenProperties

LEMMA RepeatThen ==
  ASSUME NEW g
  PROVE  /\ RepeatNow \in Seq({Loop, g})
         /\ <<g>> \in Seq({Loop, g})
         /\ RepeatNow \o <<g>> \in Seq({Loop, g})
         /\ Len(RepeatNow \o <<g>>) = Len(RepeatNow) + 1
<1>1. RepeatNow \in Seq({Loop, g})
  BY RepeatType, SeqMonotonic
<1>2. <<g>> \in Seq({Loop, g}) /\ Len(<<g>>) = 1
  OBVIOUS
<1>3. QED
  BY <1>1, <1>2, ConcatProperties

LEMMA WriteEmits ==
  ASSUME OutputType, NEW f, NEW clear, WritePending(f, clear), sent' = sent
  PROVE  Emits
<1>1. PICK g \in Prepared(f, clear) : out' = (out \o RepeatNow) \o <<g>>
  BY DEF WritePending
<1>0. \A b \in {Loop, g} : ClearsWhole(b)
  BY PreparedClearsWhole, OthersClearNothing
<1>2. PICK S : out \in Seq(S)
  BY DEF OutputType
<1> DEFINE T == S \cup {Loop, g}
           P == {Loop, g}
           last == <<g>>
<1>3. /\ S \subseteq T /\ P \subseteq T
      /\ RepeatNow \in Seq(P) /\ last \in Seq(P)
  BY RepeatThen
<1> HIDE DEF T, P, last
<1>4. out \in Seq(T)
  BY <1>2, <1>3, SeqMonotonic, Zenon
<1>5. RepeatNow \in Seq(T) /\ last \in Seq(T)
  BY <1>3, SeqMonotonic, Zenon
<1>6. (out \o RepeatNow) \o last = out \o (RepeatNow \o last)
  BY ONLY <1>4, <1>5, ConcatAssociative
<1>7. QED
  <2>1. RepeatNow \o <<g>> \in Seq({Loop, g})
    BY RepeatThen, Zenon
  <2>2. out' = out \o (RepeatNow \o <<g>>)
    BY <1>1, <1>6 DEF last
  <2>3. QED
    BY ONLY <1>0, <2>1, <2>2, sent' = sent DEF Emits

LEMMA WriteFailsEmits ==
  ASSUME NEW f, NEW clear, WriteFails(f, clear)
  PROVE  Emits
<1>1. PICK g \in Prepared(f, clear) \cup {Fragment} : \E n \in 0 .. Len(RepeatNow) + 1 :
        out' = out \o SubSeq(RepeatNow \o <<g>>, 1, n)
  BY DEF WriteFails
<1>0. \A b \in {Loop, g} : ClearsWhole(b)
  BY PreparedClearsWhole, OthersClearNothing
<1>2. PICK n \in 0 .. Len(RepeatNow) + 1 :
        out' = out \o SubSeq(RepeatNow \o <<g>>, 1, n)
  BY <1>1
<1> DEFINE s == RepeatNow \o <<g>>
<1>3. s \in Seq({Loop, g}) /\ Len(s) = Len(RepeatNow) + 1
  BY RepeatThen, Zenon
<1>4. n \in Int /\ 1 \in Int /\ \A i \in 1 .. n : i \in 1 .. Len(s)
  BY <1>3, RepeatType
<1> HIDE DEF s
<1>5. \A i \in 1 .. n : s[i] \in {Loop, g}
  BY <1>3, <1>4, ElementOfSeq
<1>6. SubSeq(s, 1, n) \in Seq({Loop, g})
  BY <1>4, <1>5, SubSeqProperties
<1>7. out' = out \o SubSeq(s, 1, n) /\ sent' = sent
  BY <1>2 DEF s, WriteFails
<1>8. QED
  BY <1>0, <1>6, <1>7 DEF Emits

(* Every step makes blocks, hands some out, or seals the file.             *)
LEMMA StepsOfOutput ==
  ASSUME OutputType, [Next]_vars
  PROVE  Emits \/ (\E n \in 1 .. Len(out) : ConsumeOutput(n)) \/ Seal
<1>1. CASE UNCHANGED <<out, sent>>
  BY <1>1, NothingEmitted
<1>2. CASE FlushBuffer
  <2>1. sent' = sent
    BY <1>2 DEF FlushBuffer
  <2>2. CASE table = "deferred"
    <3>1. out' = out \o <<Header("shared")>>
      BY <1>2, <2>2 DEF FlushBuffer
    <3>2. <<Header("shared")>> \in Seq({Header("shared")})
      OBVIOUS
    <3>3. QED
      BY <2>1, <3>1, <3>2, OthersClearNothing DEF Emits
  <2>3. CASE table # "deferred"
    BY <1>2, <2>1, <2>3, NothingEmitted DEF FlushBuffer
  <2>4. QED
    BY <2>2, <2>3
<1>3. CASE QueueFrame
  BY <1>3, WriteEmits DEF QueueFrame, HoldBack
<1>4. CASE WriteLast
  BY <1>4, WriteEmits DEF WriteLast
<1>5. CASE QueueFails \/ LastFails
  BY <1>5, WriteFailsEmits DEF QueueFails, LastFails
<1>6. ASSUME NEW f \in Inputs, BufferFrame(f) \/ DirectFrame(f) \/ ChargeFails(f)
      PROVE  UNCHANGED <<out, sent>>
  BY <1>6 DEF BufferFrame, DirectFrame, ChargeFails, stream
<1>7. ASSUME \/ UNCHANGED vars \/ RefuseFrame \/ RefuseFinish \/ Finish
             \/ FlushFails \/ QueueFirst \/ Accepted \/ FlushedForFinish
             \/ NothingPending \/ SealFails
      PROVE  UNCHANGED <<out, sent>>
  BY <1>7 DEF vars, stream, RefuseFrame, RefuseFinish, Finish, FlushFails,
     QueueFirst, HoldBack, Accepted, FlushedForFinish, NothingPending, SealFails
<1>8. QED
  BY <1>1, <1>2, <1>3, <1>4, <1>5, <1>6, <1>7 DEF Next, Step

\* Taking output moves blocks from out to sent.
LEMMA TakenOutput ==
  ASSUME NEW S, out \in Seq(S), sent \in Seq(S),
         NEW n \in 1 .. Len(out), ConsumeOutput(n)
  PROVE  /\ out' \in Seq(S) /\ sent' \in Seq(S)
         /\ sent' \o out' = sent \o out
         /\ Len(sent') + Len(out') = Len(sent) + Len(out)
<1> DEFINE front == SubSeq(out, 1, n)
           back  == SubSeq(out, n + 1, Len(out))
<1>1. Len(out) \in Nat /\ n \in Nat /\ 1 \in Int /\ n + 1 \in Int /\ Len(out) \in Int
  BY LenProperties
<1>2. \A i \in 1 .. Len(out) : out[i] \in S
  BY ElementOfSeq
<1>3. /\ \A i \in 1 .. n : out[i] \in S
      /\ \A i \in n + 1 .. Len(out) : out[i] \in S
  BY <1>1, <1>2
<1>4. front \in Seq(S) /\ Len(front) = n
  BY <1>1, <1>3, SubSeqProperties
<1>5. back \in Seq(S) /\ Len(back) = Len(out) - n
  BY <1>1, <1>3, SubSeqProperties
<1>6. front \o back = out
  <2>1. /\ 1 \in 1 .. Len(out) + 1 /\ n \in 1 - 1 .. Len(out)
        /\ Len(out) \in n .. Len(out)
    BY <1>1
  <2>2. front \o back = SubSeq(out, 1, Len(out))
    BY <2>1, ConcatAdjacentSubSeq
  <2>3. QED
    BY <2>2, SubSeqFull
<1>7. sent' = sent \o front /\ out' = back
  BY DEF ConsumeOutput
<1> HIDE DEF front, back
<1>8. sent' \in Seq(S) /\ Len(sent') = Len(sent) + n
  BY <1>4, <1>7, ConcatProperties
<1>9. (sent \o front) \o back = sent \o (front \o back)
  <2>1. sent \in Seq(S) /\ front \in Seq(S) /\ back \in Seq(S)
    BY <1>4, <1>5
  <2>2. QED
    BY ONLY <2>1, ConcatAssociative
<1>10. sent' \o out' = sent \o out
  BY <1>6, <1>7, <1>9, Zenon
<1>11. Len(sent') + Len(out') = Len(sent) + Len(out)
  <2>1. Len(sent) \in Nat /\ Len(out') = Len(out) - n
    BY <1>5, <1>7, LenProperties
  <2>2. QED
    BY <1>1, <1>8, <2>1
<1>12. QED
  BY <1>5, <1>7, <1>8, <1>10, <1>11, Zenon

(* The output only ever grows.                                             *)
LEMMA OutputGrows ==
  ASSUME OutputType, [Next]_vars
  PROVE  /\ OutputType'
         /\ OutputSize \in Nat /\ OutputSize' \in Nat /\ OutputSize <= OutputSize'
<1>1. PICK S : out \in Seq(S) /\ sent \in Seq(S) /\ \A b \in S : ClearsWhole(b)
  BY DEF OutputType
<1>2. Len(out) \in Nat /\ Len(sent) \in Nat
  BY <1>1, LenProperties
<1>3. CASE Emits
  <2>1. PICK T : /\ \A b \in T : ClearsWhole(b)
                 /\ \E x \in Seq(T) : out' = out \o x /\ sent' = sent
    BY <1>3 DEF Emits
  <2>2. PICK x \in Seq(T) : out' = out \o x /\ sent' = sent
    BY <2>1
  <2> DEFINE U == S \cup T
  <2>3. out \in Seq(U) /\ sent \in Seq(U) /\ x \in Seq(U)
    BY <1>1, SeqMonotonic
  <2>4. out' \in Seq(U) /\ Len(out') = Len(out) + Len(x) /\ sent' \in Seq(U)
    BY <2>2, <2>3, ConcatProperties
  <2>5. Len(x) \in Nat
    BY LenProperties
  <2>6. OutputType'
    BY <1>1, <2>1, <2>4 DEF OutputType
  <2>7. QED
    BY <1>2, <2>2, <2>4, <2>5, <2>6 DEF OutputSize
<1>4. ASSUME NEW n \in 1 .. Len(out), ConsumeOutput(n)
      PROVE  OutputType' /\ OutputSize' = OutputSize
  BY <1>1, <1>4, TakenOutput DEF OutputType, OutputSize
<1>5. CASE Seal
  <2> DEFINE U == S \cup {Trailer}
  <2>1. out \in Seq(U) /\ sent \in Seq(U)
    BY <1>1, SeqMonotonic
  <2>2. <<Trailer>> \in Seq(U) /\ <<>> \in Seq(U) /\ Len(<<Trailer>>) = 1
    OBVIOUS
  <2>3. sent' = (sent \o out) \o <<Trailer>> /\ out' = <<>>
    BY <1>5 DEF Seal
  <2> HIDE DEF U
  <2>4. sent \o out \in Seq(U) /\ Len(sent \o out) = Len(sent) + Len(out)
    BY <2>1, ConcatProperties
  <2>5. sent' \in Seq(U) /\ Len(sent') = Len(sent) + Len(out) + 1
    BY <2>2, <2>3, <2>4, ConcatProperties
  <2>6. out' \in Seq(U) /\ Len(out') = 0
    BY <2>2, <2>3, EmptySeq
  <2>7. QED
    <3>1. \A b \in U : ClearsWhole(b)
      BY <1>1, OthersClearNothing DEF U
    <3>2. QED
      BY <1>2, <2>5, <2>6, <3>1 DEF OutputType, OutputSize
<1>6. QED
  BY <1>2, <1>3, <1>4, <1>5, StepsOfOutput DEF OutputSize

LEMMA InitOutput == Init => OutputType
<1> SUFFICES ASSUME Init PROVE OutputType
  OBVIOUS
<1> DEFINE S == {Header(table), Loop}
<1>1. <<>> \in Seq(S) /\ <<Header(table)>> \in Seq(S) /\ <<Loop>> \in Seq(S)
  OBVIOUS
<1>2. Repeat(config) \in Seq(S)
  BY <1>1 DEF Repeat
<1>3. <<Header(table)>> \o Repeat(config) \in Seq(S)
  BY <1>1, <1>2, ConcatProperties
<1>4. out \in Seq(S)
  BY <1>1, <1>3, Zenon DEF Init
<1>5. sent \in Seq(S)
  BY <1>1, Zenon DEF Init
<1>6. QED
  BY <1>4, <1>5, OthersClearNothing DEF OutputType

(* "A failed encode may have emitted a partial frame; it cannot be         *)
(* resumed": after a failure no call accepts a frame or makes a block,     *)
(* whatever the configuration and the limits; what was made may be taken.  *)
THEOREM FailureStays == Spec => FailureIsFinal
<1>1. ASSUME IInv, OutputType, [Next]_vars, failed
      PROVE  failed' /\ UNCHANGED <<accepted, sent \o out>>
  <2>1. \/ RefuseFrame \/ RefuseFinish \/ UNCHANGED vars
        \/ \E n \in 1 .. Len(out) : ConsumeOutput(n)
    BY <1>1 DEF IInv, Control, Next, Step, BufferFrame, DirectFrame, ChargeFails,
       Accept, FlushBuffer, FlushFails, QueueFirst, QueueFrame, QueueFails,
       Accepted, Finish, FlushedForFinish, WriteLast, NothingPending, LastFails,
       Seal, SealFails
  <2>2. CASE RefuseFrame \/ RefuseFinish \/ UNCHANGED vars
    BY <1>1, <2>2 DEF RefuseFrame, RefuseFinish, vars, stream, control
  <2>3. ASSUME NEW n \in 1 .. Len(out), ConsumeOutput(n)
        PROVE  failed' /\ UNCHANGED <<accepted, sent \o out>>
    <3>1. sent' \o out' = sent \o out
      BY <1>1, <2>3, TakenOutput DEF OutputType
    <3>2. QED
      BY <1>1, <2>3, <3>1 DEF ConsumeOutput, control
  <2>4. QED
    BY <2>1, <2>2, <2>3
<1>2. OutputType /\ [Next]_vars => OutputType'
  BY OutputGrows
<1>3. IInv /\ OutputType /\ [Next]_vars
        => [failed => failed' /\ UNCHANGED <<accepted, sent \o out>>]_vars
  BY <1>1
<1>4. QED
  BY <1>2, <1>3, Invariance, InitOutput, PTL DEF Spec, FailureIsFinal

-----------------------------------------------------------------------------
(***************************************************************************)
(* Frames are counted right: every accepted frame is written, held back,   *)
(* queued or buffered, once, for every configuration and every limit.  So  *)
(* the limits hold although refused frames come between, no more frames    *)
(* are withheld than promised, and a finished file lacks none.             *)
(***************************************************************************)

\* The frame being added is not accepted yet, but already somewhere.
Conserved ==
  ~failed => frameIndex + Len(pending) + Len(buffered) + Len(queued)
               = Len(accepted) + Len(adding)

\* The frame being added was checked against the limits.
ArgumentWithin ==
  /\ Len(accepted) + Len(adding) <= MaxFrames
  /\ duration <= MaxDuration
  /\ adding # <<>> => duration + Milliseconds(adding[1].delay) <= MaxDuration

\* Only add_frame has an argument, and finish has emptied the buffer before
\* it writes the frame held back.
Phases ==
  /\ pc \notin {"flush", "queue"} \/ finishing => adding = <<>>
  /\ pc = "idle" => ~finishing
  /\ pc \in {"last", "seal"} => buffered = <<>>
  /\ pc = "queue" /\ finishing => buffered = <<>>
  /\ pc = "seal" => pending = <<>>
  /\ reply = "file" => pc = "done" /\ ~failed /\ pending = <<>> /\ buffered = <<>>

\* The buffer stays below its mark; before the shared palette is there
\* nothing is queued or held back, and behind it nothing is buffered.
BufferKept ==
  ~failed =>
    /\ pc # "flush" => buffered = <<>> \/ Len(buffered) < config.bufferFrames
    /\ Buffers => pending = <<>> /\ queued = <<>>
    /\ ~Buffers => buffered = <<>>

CountInv == Conserved /\ ArgumentWithin /\ Phases /\ BufferKept

-----------------------------------------------------------------------------
LEMMA CountTypes ==
  ASSUME IInv
  PROVE  /\ Len(pending) \in Nat /\ Len(buffered) \in Nat /\ Len(queued) \in Nat
         /\ Len(accepted) \in Nat /\ Len(adding) \in Nat
         /\ frameIndex \in Nat /\ duration \in Nat
         /\ MaxFrames \in Nat /\ MaxDuration \in Nat
         /\ config.bufferFrames \in Nat
         /\ pending = <<>> => Len(pending) = 0
         /\ pending # <<>> => Len(pending) = 1
         /\ pc # "queue" => queued = <<>>
         /\ queued = <<>> => Len(queued) = 0
         /\ buffered = <<>> => Len(buffered) = 0
         /\ adding = <<>> => Len(adding) = 0
<1>1. TypeOK /\ Control
  BY DEF IInv
<1>2. /\ Len(pending) \in Nat /\ Len(buffered) \in Nat /\ Len(queued) \in Nat
      /\ Len(accepted) \in Nat /\ Len(adding) \in Nat
      /\ frameIndex \in Nat /\ duration \in Nat
  BY <1>1, LenProperties, Zenon DEF TypeOK
<1>3. MaxFrames \in Nat /\ MaxDuration \in Nat /\ config.bufferFrames \in Nat
  BY <1>1, EncoderAssumption, Zenon DEF TypeOK
<1>4. /\ pending = <<>> => Len(pending) = 0
      /\ pending # <<>> => Len(pending) = 1
  BY <1>1, OptionTypes
<1>5. Len(<<>>) = 0
  BY EmptySeq
<1>6. pc # "queue" => queued = <<>>
  BY <1>1 DEF Control
<1>7. QED
  BY <1>2, <1>3, <1>4, <1>5, <1>6, Zenon

(* A frame that Accept lets in is within the limits, and is added nowhere   *)
(* yet.                                                                     *)
LEMMA AcceptedIsWithin ==
  ASSUME IInv, CountInv, NEW f \in Inputs, Accept(f)
  PROVE  /\ pc = "idle" /\ ~finishing /\ ~failed /\ reply # "file"
         /\ adding = <<>> /\ queued = <<>>
         /\ Len(accepted) = frameIndex + Len(pending) + Len(buffered)
         /\ Len(accepted) + 1 <= MaxFrames
         /\ duration + Milliseconds(f.delay) <= MaxDuration
<1>1. /\ pc = "idle" /\ ~failed /\ TotalFrames < MaxFrames
      /\ duration + Milliseconds(f.delay) <= MaxDuration
  BY DEF Accept, WithinLimits
<1>2. ~finishing /\ adding = <<>> /\ queued = <<>> /\ reply # "file"
  BY <1>1, CountTypes DEF CountInv, Phases
<1>3. Len(accepted) = frameIndex + Len(pending) + Len(buffered)
  BY <1>1, <1>2, CountTypes DEF CountInv, Conserved
<1>4. Len(accepted) + 1 <= MaxFrames
  BY <1>1, <1>3, CountTypes DEF TotalFrames
<1>5. QED
  BY <1>1, <1>2, <1>3, <1>4

LEMMA ArgumentThere ==
  ASSUME NEW f
  PROVE  Len(<<f>>) = 1 /\ <<f>>[1] = f /\ <<f>> # <<>>
OBVIOUS

LEMMA BufferFrameCount ==
  ASSUME IInv, CountInv, NEW f \in Inputs, BufferFrame(f)
  PROVE  CountInv'
<1>1. /\ pc = "idle" /\ ~finishing /\ ~failed /\ reply # "file"
      /\ adding = <<>> /\ queued = <<>>
      /\ Len(accepted) = frameIndex + Len(pending) + Len(buffered)
      /\ Len(accepted) + 1 <= MaxFrames
      /\ duration + Milliseconds(f.delay) <= MaxDuration
  BY AcceptedIsWithin DEF BufferFrame
<1>2. /\ Buffers /\ adding' = <<f>> /\ buffered' = Append(buffered, f)
      /\ pc' = IF ShouldFlush(Len(buffered'), bufferedBytes') THEN "flush" ELSE "queue"
      /\ UNCHANGED <<config, queued, pending, frameIndex, computed, failed,
                     finishing, reply, accepted, duration>>
  BY DEF BufferFrame, stream
<1>3. Len(buffered') = Len(buffered) + 1
  BY <1>2 DEF IInv, TypeOK
<1>4. Len(adding') = 1 /\ adding'[1] = f
  BY <1>2, ArgumentThere
<1>5. Conserved'
  BY <1>1, <1>2, <1>3, <1>4, CountTypes DEF Conserved
<1>6. ArgumentWithin'
  BY <1>1, <1>2, <1>4, CountTypes DEF CountInv, ArgumentWithin
<1>7. Phases'
  BY <1>1, <1>2 DEF Phases
<1>8. BufferKept'
  <2>1. pc' # "flush" => Len(buffered') < config.bufferFrames
    BY <1>2, <1>3, CountTypes DEF ShouldFlush
  <2>2. pending = <<>>
    BY <1>1, <1>2 DEF CountInv, BufferKept
  <2>3. Buffers'
    BY <1>2 DEF Buffers
  <2>4. QED
    BY <1>1, <1>2, <2>1, <2>2, <2>3 DEF BufferKept
<1>9. QED
  BY <1>5, <1>6, <1>7, <1>8 DEF CountInv

LEMMA DirectFrameCount ==
  ASSUME IInv, CountInv, NEW f \in Inputs, DirectFrame(f)
  PROVE  CountInv'
<1>1. /\ pc = "idle" /\ ~finishing /\ ~failed /\ reply # "file"
      /\ adding = <<>> /\ queued = <<>>
      /\ Len(accepted) = frameIndex + Len(pending) + Len(buffered)
      /\ Len(accepted) + 1 <= MaxFrames
      /\ duration + Milliseconds(f.delay) <= MaxDuration
  BY AcceptedIsWithin DEF DirectFrame
<1>2. /\ ~Buffers /\ adding' = <<f>> /\ queued' = <<f>> /\ pc' = "queue"
      /\ UNCHANGED <<config, buffered, pending, frameIndex, computed, failed,
                     finishing, reply, accepted, duration>>
  BY DEF DirectFrame, stream
<1>3. Len(adding') = 1 /\ adding'[1] = f /\ Len(queued') = 1
  BY <1>2, ArgumentThere
<1>4. Conserved'
  BY <1>1, <1>2, <1>3, CountTypes DEF Conserved
<1>5. ArgumentWithin'
  BY <1>1, <1>2, <1>3, CountTypes DEF CountInv, ArgumentWithin
<1>6. Phases'
  BY <1>1, <1>2 DEF Phases
<1>7. BufferKept'
  <2>1. ~Buffers' /\ buffered = <<>>
    BY <1>1, <1>2 DEF Buffers, CountInv, BufferKept
  <2>2. QED
    BY <1>2, <2>1 DEF BufferKept
<1>8. QED
  BY <1>4, <1>5, <1>6, <1>7 DEF CountInv

(* A call that fails gives up its argument, and the encoder with it.       *)
LEMMA FailedCount ==
  ASSUME IInv, CountInv, Fail, pc # "done"
  PROVE  CountInv'
<1>1. /\ failed' /\ pc' = IF finishing THEN "done" ELSE "idle"
      /\ adding' = <<>> /\ reply' = "failed"
      /\ UNCHANGED <<finishing, accepted, duration>>
  BY DEF Fail
<1>2. Conserved' /\ BufferKept'
  BY <1>1 DEF Conserved, BufferKept
<1>3. ArgumentWithin'
  <2>1. Len(adding') = 0
    BY <1>1, EmptySeq
  <2>2. Len(accepted) <= MaxFrames
    BY CountTypes DEF CountInv, ArgumentWithin
  <2>3. QED
    BY <1>1, <2>1, <2>2, CountTypes DEF CountInv, ArgumentWithin
<1>4. Phases'
  BY <1>1 DEF CountInv, Phases
<1>5. QED
  BY <1>2, <1>3, <1>4 DEF CountInv

LEMMA FlushBufferCount ==
  ASSUME IInv, CountInv, FlushBuffer
  PROVE  CountInv'
<1>1. /\ pc = "flush" /\ pc' = "queue" /\ computed'
      /\ queued' = buffered /\ buffered' = <<>>
      /\ UNCHANGED <<config, pending, frameIndex, failed, adding, finishing,
                     reply, accepted, duration>>
  BY DEF FlushBuffer
<1>2. queued = <<>> /\ Len(queued) = 0 /\ Len(buffered') = 0
  BY <1>1, CountTypes, EmptySeq
<1>3. Conserved'
  BY <1>1, <1>2, CountTypes DEF CountInv, Conserved
<1>4. ArgumentWithin'
  BY <1>1 DEF CountInv, ArgumentWithin
<1>5. Phases'
  BY <1>1 DEF CountInv, Phases
<1>6. BufferKept'
  BY <1>1 DEF BufferKept, Buffers
<1>7. QED
  BY <1>3, <1>4, <1>5, <1>6 DEF CountInv

(* The frame held back is written and the next takes its place.            *)
LEMMA QueueCount ==
  ASSUME IInv, CountInv, QueueFirst \/ QueueFrame
  PROVE  CountInv'
<1>1. /\ pc = "queue" /\ queued # <<>> /\ ~failed
      /\ queued' = Tail(queued) /\ pending' = <<Head(queued)>>
      /\ UNCHANGED <<config, buffered, computed, failed, pc, adding, finishing,
                     reply, accepted, duration>>
  BY DEF QueueFirst, QueueFrame, HoldBack, IInv, Control
<1>2. Len(queued') = Len(queued) - 1 /\ Len(queued) \in Nat \ {0} /\ Len(pending') = 1
  BY <1>1 DEF IInv, TypeOK
<1>3. frameIndex' = frameIndex + Len(pending)
  <2>1. CASE QueueFirst
    BY <2>1, CountTypes DEF QueueFirst
  <2>2. CASE QueueFrame
    BY <2>2, CountTypes DEF QueueFrame, WritePending
  <2>3. QED
    BY <2>1, <2>2
<1>4. Conserved'
  BY <1>1, <1>2, <1>3, CountTypes DEF CountInv, Conserved
<1>5. ArgumentWithin'
  BY <1>1 DEF CountInv, ArgumentWithin
<1>6. Phases'
  BY <1>1 DEF CountInv, Phases
<1>7. BufferKept'
  BY <1>1 DEF CountInv, BufferKept, Buffers
<1>8. QED
  BY <1>4, <1>5, <1>6, <1>7 DEF CountInv

LEMMA AcceptedCount ==
  ASSUME IInv, CountInv, Accepted
  PROVE  CountInv'
<1>1. /\ pc = "queue" /\ queued = <<>> /\ ~finishing /\ ~failed
      /\ accepted' = accepted \o adding
      /\ duration' = duration + Milliseconds(adding[1].delay)
      /\ adding' = <<>> /\ pc' = "idle" /\ reply' = "ok"
      /\ UNCHANGED <<config, buffered, queued, pending, frameIndex, computed,
                     failed, finishing>>
  <2>1. pc = "queue" => ~failed
    BY DEF IInv, Control
  <2>2. QED
    BY <2>1 DEF Accepted, frames, stream
<1>2. /\ Len(adding) = 1 /\ adding # <<>>
      /\ Len(accepted') = Len(accepted) + 1 /\ Len(adding') = 0
  <2>1. Len(adding) = 1 /\ adding # <<>>
    <3>1. pc \in {"flush", "queue"} /\ ~finishing => Len(adding) = 1
      BY Zenon DEF IInv, Control
    <3>2. Len(adding) = 1
      BY <1>1, <3>1, Zenon
    <3>3. adding = <<>> => Len(adding) = 0
      BY CountTypes
    <3>4. QED
      BY <3>2, <3>3
  <2>2. Len(accepted \o adding) = Len(accepted) + Len(adding)
    BY ConcatProperties DEF IInv, TypeOK
  <2>3. QED
    BY <1>1, <2>1, <2>2, EmptySeq
<1>3. Conserved'
  BY <1>1, <1>2, CountTypes DEF CountInv, Conserved
<1>4. ArgumentWithin'
  BY <1>1, <1>2, CountTypes DEF CountInv, ArgumentWithin
<1>5. Phases'
  BY <1>1 DEF CountInv, Phases
<1>6. BufferKept'
  BY <1>1 DEF CountInv, BufferKept, Buffers
<1>7. QED
  BY <1>3, <1>4, <1>5, <1>6 DEF CountInv

LEMMA WriteLastCount ==
  ASSUME IInv, CountInv, WriteLast
  PROVE  CountInv'
<1>1. /\ pc = "last" /\ pc' = "seal" /\ pending # <<>> /\ pending' = <<>>
      /\ frameIndex' = frameIndex + 1 /\ queued = <<>>
      /\ UNCHANGED <<config, buffered, queued, computed, failed, adding,
                     finishing, reply, accepted, duration>>
  BY CountTypes DEF WriteLast, WritePending
<1>2. Len(pending) = 1 /\ Len(pending') = 0
  BY <1>1, CountTypes, EmptySeq
<1>3. Conserved'
  BY <1>1, <1>2, CountTypes DEF CountInv, Conserved
<1>4. ArgumentWithin'
  BY <1>1 DEF CountInv, ArgumentWithin
<1>5. Phases'
  BY <1>1 DEF CountInv, Phases
<1>6. BufferKept'
  BY <1>1 DEF CountInv, BufferKept, Buffers
<1>7. QED
  BY <1>3, <1>4, <1>5, <1>6 DEF CountInv

(* The steps that move no frame.                                           *)
LEMMA OtherCount ==
  ASSUME IInv, CountInv,
         \/ RefuseFrame \/ RefuseFinish \/ Finish \/ FlushedForFinish
         \/ NothingPending \/ Seal \/ (\E n \in 1 .. Len(out) : ConsumeOutput(n))
         \/ UNCHANGED vars
  PROVE  CountInv'
<1>1. UNCHANGED <<config, buffered, queued, pending, frameIndex, computed, adding,
                  accepted, duration>>
  BY DEF RefuseFrame, RefuseFinish, Finish, FlushedForFinish, NothingPending,
     Seal, ConsumeOutput, vars, frames, stream, control
<1>2. failed => failed'
  BY DEF RefuseFrame, RefuseFinish, Finish, FlushedForFinish, NothingPending,
     Seal, ConsumeOutput, vars, control
<1>3. Conserved'
  BY <1>1, <1>2 DEF CountInv, Conserved
<1>4. ArgumentWithin'
  BY <1>1 DEF CountInv, ArgumentWithin
<1>5. Phases'
  BY <1>1 DEF CountInv, Phases, IInv, Control, RefuseFrame, RefuseFinish, Finish,
     FlushedForFinish, NothingPending, Seal, ConsumeOutput, vars, control
<1>6. BufferKept'
  <2>1. pc = "flush" => pc' = "flush"
    BY DEF RefuseFrame, RefuseFinish, Finish, FlushedForFinish, NothingPending,
       Seal, ConsumeOutput, vars, control
  <2>2. QED
    BY <1>1, <1>2, <2>1 DEF CountInv, BufferKept, Buffers
<1>7. QED
  BY <1>3, <1>4, <1>5, <1>6 DEF CountInv

LEMMA NextCount == IInv /\ CountInv /\ [Next]_vars => CountInv'
<1> SUFFICES ASSUME IInv, CountInv, [Next]_vars PROVE CountInv'
  OBVIOUS
<1>1. ASSUME NEW f \in Inputs, ChargeFails(f) PROVE CountInv'
  BY <1>1, FailedCount DEF ChargeFails, Accept
<1>2. CASE FlushFails \/ SealFails \/ QueueFails \/ LastFails
  BY <1>2, FailedCount DEF FlushFails, SealFails, QueueFails, LastFails, WriteFails
<1>3. QED
  BY <1>1, <1>2, BufferFrameCount, DirectFrameCount, FlushBufferCount, QueueCount,
     AcceptedCount, WriteLastCount, OtherCount DEF Next, Step

LEMMA InitCount == Init => CountInv
<1> SUFFICES ASSUME Init PROVE CountInv
  OBVIOUS
<1>1. /\ pending = <<>> /\ buffered = <<>> /\ queued = <<>> /\ accepted = <<>>
      /\ adding = <<>> /\ frameIndex = 0 /\ duration = 0
      /\ pc = "idle" /\ ~finishing /\ reply = "none"
  BY DEF Init
<1>2. Conserved /\ ArgumentWithin
  BY <1>1, CountTypes, InitIInv, EmptySeq DEF Conserved, ArgumentWithin
<1>3. Phases /\ BufferKept
  BY <1>1 DEF Phases, BufferKept
<1>4. QED
  BY <1>2, <1>3 DEF CountInv

LEMMA Counting == Spec => [](IInv /\ CountInv)
BY Invariance, InitCount, NextCount, PTL DEF Spec

-----------------------------------------------------------------------------
(* add_frame_with_stop: however frames are buffered, held back and refused, *)
(* no more are accepted than max_frame_count and max_animation_ms allow.    *)
THEOREM LimitsAreKept == Spec => []LimitsHold
<1>1. IInv /\ CountInv => LimitsHold
  BY CountTypes DEF CountInv, ArgumentWithin, LimitsHold
<1>2. QED
  BY <1>1, Counting, PTL

(* What is withheld is what is held back and what is buffered.              *)
LEMMA WithheldAsPromised == IInv /\ CountInv => HeldFramesBounded
<1>1. ASSUME IInv, CountInv, pc = "idle", ~failed
      PROVE  Len(accepted) - frameIndex <= MaxHeldFrames
  <2>1. Len(accepted) = frameIndex + Len(pending) + Len(buffered)
    BY <1>1, CountTypes DEF CountInv, Conserved, Phases
  <2>2. CASE Buffers
    <3>1. Len(pending) = 0
      BY <1>1, <2>2, CountTypes DEF CountInv, BufferKept
    <3>2. Len(buffered) = 0 \/ Len(buffered) < config.bufferFrames
      BY <1>1, CountTypes DEF CountInv, BufferKept
    <3> DEFINE n == Len(buffered)
               k == config.bufferFrames
               a == Len(accepted)
               held == Len(pending)
    <3>3. /\ n \in Nat /\ k \in Nat /\ held = 0 /\ frameIndex \in Nat
          /\ a = frameIndex + held + n
          /\ n = 0 \/ n < k
      BY <1>1, <2>1, <3>1, <3>2, CountTypes
    <3>4. MaxHeldFrames = IF k > 2 THEN k - 1 ELSE 1
      BY <2>2 DEF MaxHeldFrames
    <3> HIDE DEF n, k, a, held
    <3>5. a - frameIndex = n
      BY ONLY <3>3
    <3>6. n <= (IF k > 2 THEN k - 1 ELSE 1)
      BY ONLY <3>3
    <3>7. QED
      BY <3>4, <3>5, <3>6 DEF a
  <2>3. CASE ~Buffers
    <3>1. Len(buffered) = 0 /\ Len(pending) <= 1
      <4>1. buffered = <<>>
        BY <1>1, <2>3 DEF CountInv, BufferKept
      <4>2. Len(buffered) = 0
        BY <1>1, <4>1, CountTypes
      <4>3. Len(pending) = 0 \/ Len(pending) = 1
        BY <1>1, CountTypes
      <4> DEFINE held == Len(pending)
      <4> HIDE DEF held
      <4>4. held <= 1
        BY <4>3 DEF held
      <4>5. QED
        BY <4>2, <4>4 DEF held
    <3>2. MaxHeldFrames = 1
      BY <2>3 DEF MaxHeldFrames
    <3> DEFINE n == Len(buffered)
               a == Len(accepted)
               held == Len(pending)
    <3>3. /\ n = 0 /\ held \in Nat /\ held <= 1 /\ frameIndex \in Nat
          /\ a = frameIndex + held + n
      BY <1>1, <2>1, <3>1, CountTypes
    <3> HIDE DEF n, a, held
    <3>4. a - frameIndex <= 1
      BY ONLY <3>3
    <3>5. QED
      BY <3>2, <3>4 DEF a
  <2>4. QED
    BY <2>2, <2>3
<1>2. QED
  BY <1>1 DEF HeldFramesBounded

(* max_held_frames: between calls no more frames are withheld from the      *)
(* output than it promises, for every buffer limit, zero included.          *)
THEOREM HeldAsPromised == Spec => []HeldFramesBounded
BY WithheldAsPromised, Counting, PTL

(* A file that finish returned has every accepted frame.                   *)
LEMMA FinishedIsWhole ==
  ASSUME IInv, CountInv, reply = "file"
  PROVE  frameIndex = Len(accepted)
<1>1. /\ pc = "done" /\ ~failed /\ pending = <<>> /\ buffered = <<>>
      /\ queued = <<>> /\ adding = <<>>
  BY CountTypes DEF CountInv, Phases
<1>2. QED
  BY <1>1, CountTypes DEF CountInv, Conserved

(* finish_with_stop: when it returns the file, every accepted frame has     *)
(* been written: none is left in the buffer, the queue or held back.        *)
THEOREM FilesAreComplete == Spec => [](reply = "file" => frameIndex = Len(accepted))
<1>1. IInv /\ CountInv => (reply = "file" => frameIndex = Len(accepted))
  BY FinishedIsWhole
<1>2. QED
  BY <1>1, Counting, PTL

-----------------------------------------------------------------------------
(***************************************************************************)
(* The file.  Until a call fails, what was emitted is a header, the repeat *)
(* extensions, the first frameIndex of the frames added, in their order,   *)
(* and the trailer of a file that is finished.                             *)
(***************************************************************************)

\* The frames accepted and the one being added.
Line == accepted \o adding

\* What the i-th block of a file may be, when the frames come from line.
BlockAt(F, i, line, whole) ==
  /\ F[i].kind = "header" => i = 1
  /\ F[i].kind = "loop" => FramesIn(F, i) = 0
  /\ F[i].kind = "trailer" => i = Len(F) /\ whole
  /\ F[i].kind # "fragment"
  /\ F[i].kind = "frame" => F[i].delay = line[FramesIn(F, i)].delay

FileIs(F, t, n, line, whole, loops) ==
  /\ F # <<>> => F[1] = Header(t)
  /\ \A i \in 1 .. Len(F) : BlockAt(F, i, line, whole)
  /\ FramesIn(F, Len(F)) = n
  /\ whole => Len(F) > 0 /\ F[Len(F)] = Trailer /\ Len(F) <= MaxOutput
  /\ (\E i \in 1 .. Len(F) : F[i].kind = "loop") <=> loops

FrameAt(F, n) == {i \in 1 .. n : F[i].kind = "frame"}

LEMMA FrameSet ==
  ASSUME NEW F, NEW n \in Nat
  PROVE  /\ IsFiniteSet(FrameAt(F, n)) /\ FramesIn(F, n) = Cardinality(FrameAt(F, n))
         /\ FramesIn(F, n) \in Nat
<1>1. IsFiniteSet(1 .. n)
  <2>1. 1 \in Int /\ n \in Int
    OBVIOUS
  <2>2. QED
    BY ONLY <2>1, FS_Interval
<1>2. IsFiniteSet(FrameAt(F, n))
  <2>1. FrameAt(F, n) \subseteq 1 .. n
    BY DEF FrameAt
  <2>2. QED
    BY ONLY <1>1, <2>1, FS_Subset
<1>3. FramesIn(F, n) = Cardinality(FrameAt(F, n))
  BY DEF FramesIn, FrameAt
<1>4. QED
  BY <1>2, <1>3, FS_CardinalityType

(* Counting one block further.                                             *)
LEMMA FrameCounted ==
  ASSUME NEW F, NEW n \in Nat
  PROVE  FramesIn(F, n + 1) = FramesIn(F, n) + (IF F[n + 1].kind = "frame" THEN 1 ELSE 0)
<1>1. CASE F[n + 1].kind = "frame"
  <2>1. FrameAt(F, n + 1) = FrameAt(F, n) \cup {n + 1} /\ n + 1 \notin FrameAt(F, n)
    BY <1>1 DEF FrameAt
  <2>2. IsFiniteSet(FrameAt(F, n))
    BY FrameSet
  <2>3. Cardinality(FrameAt(F, n) \cup {n + 1}) = Cardinality(FrameAt(F, n)) + 1
    <3> DEFINE A == FrameAt(F, n)
               m == n + 1
    <3> HIDE DEF A, m
    <3>1. IsFiniteSet(A) /\ m \notin A
      BY <2>1, <2>2 DEF A, m
    <3>2. Cardinality(A \cup {m}) = Cardinality(A) + 1
      BY ONLY <3>1, FS_AddElement
    <3>3. QED
      BY <3>2 DEF A, m
  <2>4. n + 1 \in Nat
    OBVIOUS
  <2>5. QED
    BY <1>1, <2>1, <2>3, <2>4, FrameSet
<1>2. CASE F[n + 1].kind # "frame"
  <2>1. FrameAt(F, n + 1) = FrameAt(F, n)
    BY <1>2 DEF FrameAt
  <2>2. n + 1 \in Nat /\ FramesIn(F, n) \in Nat
    BY FrameSet
  <2>3. QED
    BY <1>2, <2>1, <2>2, FrameSet
<1>3. QED
  BY <1>1, <1>2

(* Files that agree on their first n blocks have as many frames there.     *)
LEMMA SameFrames ==
  ASSUME NEW F, NEW G, NEW n \in Nat, \A i \in 1 .. n : G[i] = F[i]
  PROVE  FramesIn(G, n) = FramesIn(F, n)
<1>1. FrameAt(G, n) = FrameAt(F, n)
  BY DEF FrameAt
<1>2. QED
  BY <1>1, FrameSet

(* A frame is counted, and counted within the whole.                       *)
LEMMA FrameWithin ==
  ASSUME NEW F, NEW n \in Nat, NEW i \in 1 .. n
  PROVE  /\ FramesIn(F, i) \in Nat /\ FramesIn(F, n) \in Nat
         /\ FramesIn(F, i) <= FramesIn(F, n)
         /\ F[i].kind = "frame" => FramesIn(F, i) \in 1 .. FramesIn(F, n)
<1>1. FramesIn(F, i) \in Nat /\ FramesIn(F, n) \in Nat /\ i \in Nat
  <2>1. i \in Nat
    OBVIOUS
  <2>2. QED
    BY <2>1, FrameSet
<1>2. FramesIn(F, i) <= FramesIn(F, n)
  <2>1. FrameAt(F, i) \subseteq FrameAt(F, n)
    BY DEF FrameAt
  <2>2. IsFiniteSet(FrameAt(F, n))
    BY FrameSet
  <2> DEFINE A == FrameAt(F, i)
             B == FrameAt(F, n)
  <2> HIDE DEF A, B
  <2>3. A \subseteq B /\ IsFiniteSet(B)
    BY <2>1, <2>2 DEF A, B
  <2>4. Cardinality(A) <= Cardinality(B)
    BY ONLY <2>3, FS_Subset
  <2>5. QED
    BY <1>1, <2>4, FrameSet DEF A, B
<1>3. ASSUME F[i].kind = "frame" PROVE FramesIn(F, i) >= 1
  <2>1. i - 1 \in Nat /\ (i - 1) + 1 = i
    OBVIOUS
  <2>2. FramesIn(F, (i - 1) + 1) = FramesIn(F, i - 1) + 1
    BY <1>3, <2>1, FrameCounted
  <2>3. FramesIn(F, i - 1) \in Nat
    BY <2>1, FrameSet
  <2>4. QED
    BY <2>1, <2>2, <2>3
<1>4. QED
  BY <1>1, <1>2, <1>3

\* The file G is F and one block b more.
OneMore(F, b, G) ==
  /\ Len(F) \in Nat /\ Len(G) = Len(F) + 1 /\ G[Len(F) + 1] = b
  /\ \A i \in 1 .. Len(F) : G[i] = F[i] /\ FramesIn(G, i) = FramesIn(F, i)
  /\ FramesIn(G, Len(F) + 1) = FramesIn(F, Len(F)) + (IF b.kind = "frame" THEN 1 ELSE 0)

(* A file one block longer.                                                *)
LEMMA BlockAppended ==
  ASSUME NEW S, NEW F \in Seq(S), NEW b
  PROVE  /\ Append(F, b) \in Seq(S \cup {b})
         /\ OneMore(F, b, Append(F, b))
<1> DEFINE G == Append(F, b)
<1>1. /\ Len(F) \in Nat /\ Len(G) = Len(F) + 1 /\ G[Len(F) + 1] = b
      /\ \A i \in 1 .. Len(F) : G[i] = F[i]
  OBVIOUS
<1>2. G \in Seq(S \cup {b})
  <2> DEFINE T == S \cup {b}
  <2>1. F \in Seq(T) /\ b \in T
    BY SeqMonotonic
  <2> HIDE DEF T
  <2>2. QED
    BY <2>1 DEF T
<1> HIDE DEF G
<1>3. ASSUME NEW i \in 0 .. Len(F) PROVE FramesIn(G, i) = FramesIn(F, i)
  <2>1. i \in Nat /\ \A j \in 1 .. i : G[j] = F[j]
    BY <1>1
  <2>2. QED
    BY <2>1, SameFrames
<1>4. FramesIn(G, Len(F) + 1) = FramesIn(F, Len(F)) + (IF b.kind = "frame" THEN 1 ELSE 0)
  <2>1. Len(F) \in 0 .. Len(F)
    BY <1>1
  <2>2. FramesIn(G, Len(F) + 1) = FramesIn(G, Len(F)) + (IF G[Len(F) + 1].kind = "frame" THEN 1 ELSE 0)
    BY <1>1, FrameCounted
  <2>3. FramesIn(G, Len(F)) = FramesIn(F, Len(F))
    BY <1>3, <2>1
  <2>4. QED
    BY <1>1, <2>2, <2>3
<1>5. \A i \in 1 .. Len(F) : G[i] = F[i] /\ FramesIn(G, i) = FramesIn(F, i)
  BY <1>1, <1>3
<1>6. QED
  BY <1>1, <1>2, <1>4, <1>5 DEF G, OneMore

(* The blocks that are there stay right when one follows.                  *)
LEMMA BlocksKept ==
  ASSUME NEW S, NEW F \in Seq(S), NEW b, NEW t, NEW n, NEW line, NEW whole, NEW loops,
         FileIs(F, t, n, line, FALSE, loops)
  PROVE  \A i \in 1 .. Len(F) : BlockAt(Append(F, b), i, line, whole)
<1> SUFFICES ASSUME NEW i \in 1 .. Len(F) PROVE BlockAt(Append(F, b), i, line, whole)
  OBVIOUS
<1>1. BlockAt(F, i, line, FALSE)
  BY DEF FileIs
<1>2. Append(F, b)[i] = F[i] /\ FramesIn(Append(F, b), i) = FramesIn(F, i)
  <2>1. OneMore(F, b, Append(F, b))
    BY BlockAppended, Zenon
  <2>2. QED
    BY <2>1 DEF OneMore
<1>3. QED
  BY <1>1, <1>2 DEF BlockAt

LEMMA FileGrows ==
  ASSUME NEW S, NEW F \in Seq(S), NEW b, NEW t, NEW n, NEW line, NEW whole \in BOOLEAN,
         NEW loops \in BOOLEAN, NEW loops2 \in BOOLEAN, NEW n2,
         FileIs(F, t, n, line, FALSE, loops),
         F = <<>> => b = Header(t),
         n2 = n + (IF b.kind = "frame" THEN 1 ELSE 0),
         loops2 <=> loops \/ b.kind = "loop",
         /\ b.kind = "header" => F = <<>>
         /\ b.kind = "loop" => n = 0
         /\ b.kind = "trailer" => whole
         /\ b.kind # "fragment"
         /\ b.kind = "frame" => b.delay = line[n2].delay,
         whole => b = Trailer /\ Len(F) + 1 <= MaxOutput
  PROVE  FileIs(Append(F, b), t, n2, line, whole, loops2)
<1> DEFINE G == Append(F, b)
           m == Len(F) + 1
<1>1. /\ Len(F) \in Nat /\ Len(G) = m /\ G[m] = b /\ m \in Nat /\ m > 0
      /\ \A i \in 1 .. Len(F) : G[i] = F[i]
      /\ FramesIn(G, m) = FramesIn(F, Len(F)) + (IF b.kind = "frame" THEN 1 ELSE 0)
      /\ F = <<>> => Len(F) = 0
      /\ Len(F) = 0 => F = <<>>
  <2>1. OneMore(F, b, Append(F, b))
    BY BlockAppended, Zenon
  <2>2. /\ Len(F) \in Nat /\ Len(G) = m /\ G[m] = b
        /\ \A i \in 1 .. Len(F) : G[i] = F[i]
        /\ FramesIn(G, m) = FramesIn(F, Len(F)) + (IF b.kind = "frame" THEN 1 ELSE 0)
    BY <2>1 DEF OneMore
  <2>3. (F = <<>> => Len(F) = 0) /\ (Len(F) = 0 => F = <<>>)
    BY EmptySeq
  <2>4. QED
    BY <2>2, <2>3
<1>2. FramesIn(F, Len(F)) = n /\ n \in Nat
  BY <1>1, FrameSet DEF FileIs
<1>3. FramesIn(G, m) = n2 /\ (b.kind # "frame" => n2 = n)
  BY <1>1, <1>2
<1>4. \A i \in 1 .. Len(F) : BlockAt(G, i, line, whole)
  BY BlocksKept
<1> HIDE DEF G
<1>5. BlockAt(G, m, line, whole)
  BY <1>1, <1>2, <1>3, EmptySeq DEF BlockAt
<1>6. \A i \in 1 .. m : i = m \/ i \in 1 .. Len(F)
  BY <1>1
<1>7. \A i \in 1 .. Len(G) : BlockAt(G, i, line, whole)
  BY <1>1, <1>4, <1>5, <1>6
<1>8. G[1] = Header(t)
  <2>1. CASE F = <<>>
    BY <1>1, <2>1, EmptySeq
  <2>2. CASE F # <<>>
    <3>1. 1 \in 1 .. Len(F)
      BY <1>1, <2>2, EmptySeq
    <3>2. QED
      BY <1>1, <2>2, <3>1 DEF FileIs
  <2>3. QED
    BY <2>1, <2>2
<1>9. (\E i \in 1 .. Len(G) : G[i].kind = "loop") <=> loops2
  <2>1. (\E i \in 1 .. Len(F) : F[i].kind = "loop") <=> loops
    BY DEF FileIs
  <2>2. m \in 1 .. m /\ \A i \in 1 .. Len(F) : i \in 1 .. m
    BY <1>1
  <2>3. QED
    BY <1>1, <1>6, <2>1, <2>2
<1>10. whole => Len(G) > 0 /\ G[Len(G)] = Trailer /\ Len(G) <= MaxOutput
  BY <1>1
<1>11. QED
  BY <1>1, <1>3, <1>7, <1>8, <1>9, <1>10 DEF FileIs, G

(* The frames of the file are the first n of the line: what is added to the *)
(* line behind them does not matter.                                        *)
LEMMA LineMayGrow ==
  ASSUME NEW S, NEW F \in Seq(S), NEW t, NEW n, NEW line, NEW line2, NEW whole,
         NEW loops, FileIs(F, t, n, line, whole, loops),
         \A i \in 1 .. n : line2[i] = line[i]
  PROVE  FileIs(F, t, n, line2, whole, loops)
<1>1. Len(F) \in Nat /\ FramesIn(F, Len(F)) = n
  BY LenProperties DEF FileIs
<1>2. ASSUME NEW i \in 1 .. Len(F) PROVE BlockAt(F, i, line2, whole)
  <2>1. BlockAt(F, i, line, whole)
    BY DEF FileIs
  <2>2. F[i].kind = "frame" => FramesIn(F, i) \in 1 .. n
    BY <1>1, FrameWithin
  <2>3. QED
    BY <2>1, <2>2 DEF BlockAt
<1>3. QED
  BY <1>2 DEF FileIs

LEMMA FrameAdded ==
  ASSUME NEW S, NEW F \in Seq(S), NEW g, NEW t, NEW n, NEW line, NEW loops \in BOOLEAN,
         F # <<>>, FileIs(F, t, n, line, FALSE, loops),
         g.kind = "frame", g.delay = line[n + 1].delay
  PROVE  FileIs(Append(F, g), t, n + 1, line, FALSE, loops)
<1> DEFINE n2 == n + 1
<1>1. n2 = n + (IF g.kind = "frame" THEN 1 ELSE 0) /\ g.delay = line[n2].delay
  OBVIOUS
<1>2. (loops <=> loops \/ g.kind = "loop") /\ FALSE \in BOOLEAN
  OBVIOUS
<1>3. g.kind # "header" /\ g.kind # "loop" /\ g.kind # "trailer" /\ g.kind # "fragment"
  OBVIOUS
<1> HIDE DEF n2
<1>4. FileIs(Append(F, g), t, n2, line, FALSE, loops)
  BY <1>1, <1>2, <1>3, FileGrows
<1>5. QED
  BY <1>4 DEF n2

LEMMA LoopAdded ==
  ASSUME NEW S, NEW F \in Seq(S), NEW t, NEW line, NEW loops \in BOOLEAN,
         F # <<>>, FileIs(F, t, 0, line, FALSE, loops)
  PROVE  FileIs(Append(F, Loop), t, 0, line, FALSE, TRUE)
<1> DEFINE b == Loop
<1>1. 0 = 0 + (IF b.kind = "frame" THEN 1 ELSE 0)
  BY DEF Loop
<1>2. (TRUE <=> loops \/ b.kind = "loop") /\ FALSE \in BOOLEAN /\ TRUE \in BOOLEAN
  BY DEF Loop
<1>3. b.kind # "header" /\ b.kind # "frame" /\ b.kind # "trailer" /\ b.kind # "fragment"
  BY DEF Loop
<1> HIDE DEF b
<1>4. FileIs(Append(F, b), t, 0, line, FALSE, TRUE)
  BY <1>1, <1>2, <1>3, FileGrows
<1>5. QED
  BY <1>4 DEF b

LEMMA TrailerAdded ==
  ASSUME NEW S, NEW F \in Seq(S), NEW t, NEW n, NEW line, NEW loops \in BOOLEAN,
         F # <<>>, FileIs(F, t, n, line, FALSE, loops), Len(F) + 1 <= MaxOutput
  PROVE  FileIs(Append(F, Trailer), t, n, line, TRUE, loops)
<1> DEFINE b == Trailer
<1>1. n = n + (IF b.kind = "frame" THEN 1 ELSE 0)
  <2>1. n \in Nat
    BY FrameSet, LenProperties DEF FileIs
  <2>2. QED
    BY <2>1 DEF Trailer
<1>2. (loops <=> loops \/ b.kind = "loop") /\ TRUE \in BOOLEAN
  BY DEF Trailer
<1>3. b.kind # "header" /\ b.kind # "frame" /\ b.kind # "loop" /\ b.kind # "fragment"
      /\ b = Trailer
  BY DEF Trailer
<1> HIDE DEF b
<1>4. FileIs(Append(F, b), t, n, line, TRUE, loops)
  BY <1>1, <1>2, <1>3, FileGrows
<1>5. QED
  BY <1>4 DEF b

LEMMA NoFileYet ==
  ASSUME NEW t, NEW line
  PROVE  FileIs(<<>>, t, 0, line, FALSE, FALSE)
<1>1. Len(<<>>) = 0 /\ \A i \in 1 .. 0 : FALSE
  BY EmptySeq
<1>2. FramesIn(<<>>, 0) = 0
  <2>1. FrameAt(<<>>, 0) = {} /\ 0 \in Nat
    BY DEF FrameAt
  <2>2. FramesIn(<<>>, 0) = Cardinality(FrameAt(<<>>, 0))
    BY <2>1, FrameSet
  <2>3. QED
    BY <2>1, <2>2, FS_EmptySet
<1>3. QED
  BY <1>1, <1>2 DEF FileIs

LEMMA HeaderAdded ==
  ASSUME NEW t, NEW line
  PROVE  FileIs(<<Header(t)>>, t, 0, line, FALSE, FALSE)
<1> DEFINE b == Header(t)
           S == {b}
           F == <<>>
<1>1. 0 = 0 + (IF b.kind = "frame" THEN 1 ELSE 0)
  BY DEF Header
<1>2. (FALSE <=> FALSE \/ b.kind = "loop") /\ FALSE \in BOOLEAN
  BY DEF Header
<1>3. b.kind # "frame" /\ b.kind # "loop" /\ b.kind # "fragment" /\ b.kind # "trailer"
  BY DEF Header
<1>4. F \in Seq(S) /\ Append(F, b) = <<b>> /\ F = <<>> /\ b = Header(t)
  OBVIOUS
<1>5. FileIs(F, t, 0, line, FALSE, FALSE)
  BY NoFileYet
<1> HIDE DEF b, S, F
<1>6. FileIs(Append(F, b), t, 0, line, FALSE, FALSE)
  BY <1>1, <1>2, <1>3, <1>4, <1>5, FileGrows
<1>7. QED
  BY <1>4, <1>6

LoopsNow == config.repeats /\ (config.palette \/ ~config.shared \/ frameIndex > 0)

\* The frames that follow the first n of the line, held back, queued and
\* buffered, in the order they will be written in.
Awaits(line, n, p, q, b) ==
  /\ \A j \in 1 .. Len(p) : line[n + j] = p[j]
  /\ \A j \in 1 .. Len(q) : line[n + Len(p) + j] = q[j]
  /\ \A j \in 1 .. Len(b) : line[n + Len(p) + Len(q) + j] = b[j]

Awaiting == Awaits(Line, frameIndex, pending, queued, buffered)

StreamInv ==
  ~failed =>
    /\ File = <<>> <=> table = "deferred"
    /\ table = "deferred" => Buffers /\ ~config.palette
    /\ repeatWritten <=> config.repeats /\ frameIndex > 0
    /\ FileIs(File, table, frameIndex, Line, reply = "file", LoopsNow)
    /\ Awaiting

DurationInv == duration = Milliseconds(Total(accepted))

LEMMA TotalIsSum == ASSUME NEW d PROVE Total(d) = DelaySum(d)
BY DEF Total, DelaySum

LEMMA OneAppended ==
  ASSUME NEW S, NEW s \in Seq(S), NEW x \in S
  PROVE  s \o <<x>> = Append(s, x)
OBVIOUS

LEMMA InitStream == Init => StreamInv /\ DurationInv
<1> SUFFICES ASSUME Init PROVE StreamInv /\ DurationInv
  OBVIOUS
<1>1. /\ buffered = <<>> /\ queued = <<>> /\ pending = <<>> /\ frameIndex = 0
      /\ accepted = <<>> /\ adding = <<>> /\ duration = 0 /\ ~repeatWritten
      /\ reply = "none" /\ sent = <<>> /\ ~computed /\ config \in Configs
  BY DEF Init
<1>2. DurationInv
  BY <1>1, NoDelays, TotalIsSum DEF DurationInv, Milliseconds
<1>3. Len(<<>>) = 0
  BY EmptySeq
<1>4. Awaiting
  BY <1>1, <1>3 DEF Awaiting, Awaits
<1>5. config.repeats \in BOOLEAN /\ config.shared \in BOOLEAN /\ config.palette \in BOOLEAN
  BY <1>1, EncoderAssumption
<1>6. ~(reply = "file") /\ FALSE <=> (reply = "file")
  BY <1>1
<1>7. CASE table = "deferred"
  <2>1. File = <<>> /\ Buffers /\ ~config.palette /\ config.shared
    BY <1>1, <1>7 DEF Init, File, Buffers
  <2>2. LoopsNow <=> FALSE
    BY <1>1, <2>1 DEF LoopsNow
  <2>3. FileIs(File, table, frameIndex, Line, reply = "file", LoopsNow)
    <3>1. FileIs(<<>>, table, 0, Line, FALSE, FALSE)
      BY NoFileYet
    <3>2. QED
      BY <1>1, <1>6, <2>1, <2>2, <3>1 DEF FileIs
  <2>4. QED
    BY <1>1, <1>2, <1>4, <1>7, <2>1, <2>3 DEF StreamInv
<1>8. CASE table # "deferred"
  <2>1. File = <<Header(table)>> \o Repeat(config) /\ (config.palette \/ ~config.shared)
    <3>1. <<Header(table)>> \o Repeat(config) \in Seq({Header(table), Loop})
      <4>1. <<Header(table)>> \in Seq({Header(table), Loop})
        OBVIOUS
      <4>2. Repeat(config) \in Seq({Header(table), Loop})
        <5>1. <<Loop>> \in Seq({Header(table), Loop}) /\ <<>> \in Seq({Header(table), Loop})
          OBVIOUS
        <5>2. QED
          BY <5>1 DEF Repeat
      <4>3. QED
        BY <4>1, <4>2, ConcatProperties
    <3>2. out = <<Header(table)>> \o Repeat(config)
      BY <1>8 DEF Init
    <3>3. <<>> \o out = out
      BY <3>1, <3>2, ConcatEmptySeq
    <3>4. config.palette \/ ~config.shared
      BY <1>8 DEF Init
    <3>5. QED
      BY <1>1, <3>2, <3>3, <3>4 DEF File
  <2>2. LoopsNow <=> config.repeats
    BY <2>1 DEF LoopsNow
  <2>3. FileIs(<<Header(table)>>, table, 0, Line, FALSE, FALSE)
    BY HeaderAdded
  <2>4. FileIs(File, table, 0, Line, FALSE, LoopsNow) /\ File # <<>>
    <3>1. CASE config.repeats
      <4>1. File = Append(<<Header(table)>>, Loop)
        <5>1. File = <<Header(table)>> \o <<Loop>>
          BY <2>1, <3>1 DEF Repeat
        <5> DEFINE h == Header(table)
                   l == Loop
        <5> HIDE DEF h, l
        <5>2. <<h>> \in Seq({h, l}) /\ l \in {h, l}
          OBVIOUS
        <5>3. <<h>> \o <<l>> = Append(<<h>>, l)
          BY <5>2, OneAppended
        <5>4. QED
          BY <5>1, <5>3 DEF h, l
      <4>2. /\ <<Header(table)>> \in Seq({Header(table)}) /\ <<Header(table)>> # <<>>
            /\ Append(<<Header(table)>>, Loop) # <<>>
        OBVIOUS
      <4>3. FALSE \in BOOLEAN
        OBVIOUS
      <4>4. FileIs(Append(<<Header(table)>>, Loop), table, 0, Line, FALSE, TRUE)
        BY <2>3, <4>2, <4>3, LoopAdded
      <4>5. FileIs(File, table, 0, Line, FALSE, TRUE)
        BY <4>1, <4>2, <4>4
      <4>6. File # <<>>
        BY <4>1, <4>2
      <4>7. LoopsNow <=> TRUE
        BY <2>2, <3>1
      <4>8. QED
        BY <4>5, <4>6, <4>7 DEF FileIs
    <3>2. CASE ~config.repeats
      <4>1. File = <<Header(table)>>
        BY <2>1, <3>2 DEF Repeat
      <4>2. LoopsNow <=> FALSE
        BY <2>2, <3>2
      <4>3. FileIs(File, table, 0, Line, FALSE, FALSE) /\ File # <<>>
        BY <2>3, <4>1
      <4>4. QED
        BY <4>2, <4>3 DEF FileIs
    <3>3. QED
      BY <1>5, <3>1, <3>2
  <2>5. FileIs(File, table, frameIndex, Line, reply = "file", LoopsNow)
    BY <1>1, <1>6, <2>4 DEF FileIs
  <2>6. QED
    BY <1>1, <1>2, <1>4, <1>8, <2>4, <2>5 DEF StreamInv
<1>9. QED
  BY <1>7, <1>8

(* The duration is that of the accepted frames.                            *)
LEMMA DurationStep ==
  ASSUME IInv, DurationInv, [Next]_vars PROVE DurationInv'
<1>1. accepted \in Seq(Inputs)
  BY DEF IInv, TypeOK
<1>2. CASE Accepted
  <2>1. Len(adding) = 1 /\ adding \in Seq(Inputs) /\ adding[1] \in Inputs
    BY <1>2, OptionTypes DEF IInv, TypeOK, Control, Accepted
  <2> DEFINE f == adding[1]
             sum == Total(accepted)
             sum2 == Total(accepted')
  <2>2. adding = <<f>>
    BY <2>1
  <2> HIDE DEF f
  <2>3. accepted' = Append(accepted, f) /\ duration' = duration + 10 * f.delay
    <3>1. accepted' = accepted \o <<f>> /\ duration' = duration + 10 * f.delay
      BY <1>2, <2>2 DEF Accepted, f, Milliseconds
    <3>2. f \in Inputs
      BY <2>1 DEF f
    <3>3. accepted \o <<f>> = Append(accepted, f)
      BY ONLY <1>1, <3>2, OneAppended
    <3>4. QED
      BY <3>1, <3>3
  <2>4. f \in Inputs /\ f.delay \in Nat /\ \A t \in Inputs : t.delay \in Nat
    BY <2>1, EncoderAssumption DEF f
  <2>5. /\ DelaySum(accepted) \in Nat
        /\ DelaySum(Append(accepted, f)) = DelaySum(accepted) + f.delay
    BY ONLY <1>1, <2>4, DelaySumGrows
  <2>6. sum \in Nat /\ sum2 = sum + f.delay
    BY <2>3, <2>5, TotalIsSum
  <2>7. duration = 10 * sum /\ duration' = duration + 10 * f.delay
    BY <2>3 DEF DurationInv, Milliseconds
  <2> HIDE DEF sum, sum2
  <2>8. duration' = 10 * sum2
    <3> DEFINE d == f.delay
    <3>1. d \in Nat /\ sum \in Nat /\ sum2 = sum + d
      BY <2>4, <2>6
    <3> HIDE DEF d
    <3>2. 10 * sum2 = 10 * sum + 10 * d
      BY ONLY <3>1
    <3>3. QED
      BY <2>7, <3>2 DEF d
  <2>9. QED
    BY <2>8 DEF DurationInv, Milliseconds, sum2
<1>3. CASE ~Accepted
  <2>1. UNCHANGED <<accepted, duration>>
    BY <1>3 DEF Next, Step, BufferFrame, DirectFrame, ChargeFails, RefuseFrame,
       RefuseFinish, Finish, ConsumeOutput, FlushBuffer, FlushFails, QueueFirst,
       QueueFrame, QueueFails, HoldBack, WriteFails, FlushedForFinish,
       WriteLast, NothingPending, LastFails, Seal, SealFails, Fail, control, vars
  <2>2. QED
    BY <2>1 DEF DurationInv, Milliseconds
<1>4. QED
  BY <1>2, <1>3

(* A step that moves no frame and makes no block.                          *)
LEMMA QuietStream ==
  ASSUME StreamInv, ~failed' => ~failed, File' = File, Line' = Line,
         (reply' = "file") <=> (reply = "file"),
         UNCHANGED <<config, table, computed, frameIndex, repeatWritten, pending, queued,
                     buffered>>
  PROVE  StreamInv'
<1> SUFFICES ASSUME ~failed' PROVE StreamInv'
  BY DEF StreamInv
<1>1. Awaiting' <=> Awaiting
  BY DEF Awaiting
<1>2. Buffers' <=> Buffers
  BY DEF Buffers
<1>3. LoopsNow' <=> LoopsNow
  BY DEF LoopsNow
<1>4. FileIs(File, table, frameIndex, Line, reply = "file", LoopsNow)
  BY DEF StreamInv
<1>5. FileIs(File', table', frameIndex', Line', (reply = "file")', LoopsNow')
  BY <1>3, <1>4 DEF FileIs, BlockAt
<1>6. QED
  BY <1>1, <1>2, <1>5 DEF StreamInv

(* A frame is added behind the buffer.                                     *)
LEMMA AwaitsBuffered ==
  ASSUME NEW S, NEW a \in Seq(S), NEW p \in Seq(S), NEW q \in Seq(S), NEW b \in Seq(S),
         NEW n \in Nat, NEW f \in S, Awaits(a, n, p, q, b),
         Len(a) = n + Len(p) + Len(q) + Len(b)
  PROVE  Awaits(Append(a, f), n, p, q, Append(b, f))
<1> DEFINE la == Len(a)
           lp == Len(p)
           lq == Len(q)
           lb == Len(b)
           a2 == Append(a, f)
           b2 == Append(b, f)
<1>1. /\ la \in Nat /\ lp \in Nat /\ lq \in Nat /\ lb \in Nat /\ la = n + lp + lq + lb
      /\ \A i \in 1 .. la : a2[i] = a[i]
      /\ \A i \in 1 .. lb : b2[i] = b[i]
      /\ a2[la + 1] = f /\ b2[lb + 1] = f /\ Len(b2) = lb + 1
  OBVIOUS
<1>2. /\ \A j \in 1 .. lp : a[n + j] = p[j]
      /\ \A j \in 1 .. lq : a[n + lp + j] = q[j]
      /\ \A j \in 1 .. lb : a[n + lp + lq + j] = b[j]
  BY DEF Awaits
<1> HIDE DEF la, lp, lq, lb, a2, b2
<1>3. ASSUME NEW j \in 1 .. lp PROVE a2[n + j] = p[j]
  <2>1. n + j \in 1 .. la
    BY <1>1
  <2>2. QED
    BY <1>1, <1>2, <2>1
<1>4. ASSUME NEW j \in 1 .. lq PROVE a2[n + lp + j] = q[j]
  <2>1. n + lp + j \in 1 .. la
    <3>1. lp \in Nat /\ lq \in Nat /\ lb \in Nat /\ la = n + lp + lq + lb
      BY <1>1
    <3>2. j \in Nat /\ 1 <= j /\ j <= lq /\ n \in Nat
      BY <3>1
    <3>3. QED
      BY ONLY <3>1, <3>2
  <2>2. QED
    BY <1>1, <1>2, <2>1
<1>5. ASSUME NEW j \in 1 .. lb + 1 PROVE a2[n + lp + lq + j] = b2[j]
  <2>1. CASE j \in 1 .. lb
    <3>1. n + lp + lq + j \in 1 .. la
      BY <1>1, <2>1
    <3>2. QED
      BY <1>1, <1>2, <2>1, <3>1
  <2>2. CASE j = lb + 1
    <3>1. n + lp + lq + j = la + 1
      BY <1>1, <2>2
    <3>2. QED
      BY <1>1, <2>2, <3>1
  <2>3. j \in 1 .. lb \/ j = lb + 1
    BY <1>1
  <2>4. QED
    BY <2>1, <2>2, <2>3
<1>6. Awaits(a2, n, p, q, b2)
  BY <1>1, <1>3, <1>4, <1>5 DEF Awaits, lp, lq
<1>7. QED
  BY <1>6 DEF a2, b2

(* The buffer becomes the queue.                                           *)
LEMMA AwaitsFlushed ==
  ASSUME NEW S, NEW p \in Seq(S), NEW b \in Seq(S), NEW a, NEW n \in Nat,
         Awaits(a, n, p, <<>>, b)
  PROVE  Awaits(a, n, p, b, <<>>)
<1>1. Len(<<>>) = 0 /\ Len(p) \in Nat
  BY EmptySeq, LenProperties
<1>2. \A j \in 1 .. Len(b) : n + Len(p) + 0 + j = n + Len(p) + j
  BY <1>1
<1>3. \A j \in 1 .. Len(b) : a[n + Len(p) + j] = b[j]
  <2>1. \A j \in 1 .. Len(b) : a[n + Len(p) + 0 + j] = b[j]
    BY <1>1 DEF Awaits
  <2>2. QED
    BY <1>2, <2>1
<1>4. QED
  BY <1>1, <1>3 DEF Awaits

(* An empty queue, an empty buffer: a frame behind the one held back.      *)
LEMMA AwaitsQueued ==
  ASSUME NEW S, NEW a \in Seq(S), NEW p \in Seq(S), NEW n \in Nat, NEW f \in S,
         Awaits(a, n, p, <<>>, <<>>), Len(a) = n + Len(p)
  PROVE  Awaits(Append(a, f), n, p, <<f>>, <<>>)
<1>1. <<>> \in Seq(S) /\ Len(<<>>) = 0 /\ Len(p) \in Nat /\ Append(<<>>, f) = <<f>>
  OBVIOUS
<1>2. Len(a) = n + Len(p) + Len(<<>>) + Len(<<>>)
  BY <1>1
<1>3. Awaits(Append(a, f), n, p, <<>>, Append(<<>>, f))
  BY <1>1, <1>2, AwaitsBuffered
<1>4. <<f>> \in Seq(S) /\ Append(a, f) \in Seq(S)
  OBVIOUS
<1>5. QED
  BY <1>1, <1>3, <1>4, AwaitsFlushed

(* The frame held back is written.                                         *)
LEMMA AwaitsWritten ==
  ASSUME NEW S, NEW p \in Seq(S), NEW q \in Seq(S), NEW b \in Seq(S), NEW a,
         NEW n \in Nat, Awaits(a, n, p, q, b)
  PROVE  Awaits(a, n + Len(p), <<>>, q, b)
<1>1. Len(<<>>) = 0 /\ Len(p) \in Nat /\ Len(q) \in Nat
  BY EmptySeq, LenProperties
<1> DEFINE m == n + Len(p)
<1>2. /\ \A j \in 1 .. Len(q) : a[m + j] = q[j]
      /\ \A j \in 1 .. Len(b) : a[m + Len(q) + j] = b[j]
  BY DEF Awaits
<1>3. m \in Nat
  BY <1>1
<1> HIDE DEF m
<1>4. m + 0 = m
  BY <1>3
<1>5. Awaits(a, m, <<>>, q, b)
  BY <1>1, <1>2, <1>4 DEF Awaits
<1>6. QED
  BY <1>5 DEF m

(* The first of the queue is held back.                                    *)
LEMMA AwaitsHeld ==
  ASSUME NEW S, NEW q \in Seq(S), NEW b \in Seq(S), NEW a,
         NEW n \in Nat, q # <<>>, Awaits(a, n, <<>>, q, b)
  PROVE  Awaits(a, n, <<Head(q)>>, Tail(q), b)
<1> DEFINE h == Head(q)
           p == <<h>>
           r == Tail(q)
           lq == Len(q)
           lb == Len(b)
<1>1. /\ lq \in Nat /\ lq > 0 /\ h = q[1] /\ Len(r) = lq - 1 /\ lb \in Nat
      /\ \A j \in 1 .. lq - 1 : r[j] = q[j + 1]
  OBVIOUS
<1>2. Len(p) = 1 /\ p[1] = h /\ Len(<<>>) = 0
  OBVIOUS
<1>3. /\ \A j \in 1 .. lq : a[n + 0 + j] = q[j]
      /\ \A j \in 1 .. lb : a[n + 0 + lq + j] = b[j]
  BY <1>2 DEF Awaits
<1> HIDE DEF h, p, r, lq, lb
<1>4. n + 0 = n
  OBVIOUS
<1>5. /\ \A j \in 1 .. lq : a[n + j] = q[j]
      /\ \A j \in 1 .. lb : a[n + lq + j] = b[j]
  BY <1>3, <1>4
<1>6. ASSUME NEW j \in 1 .. Len(p) PROVE a[n + j] = p[j]
  <2>1. j = 1 /\ 1 \in 1 .. lq
    BY <1>1, <1>2
  <2>2. QED
    BY <1>1, <1>2, <1>5, <2>1
<1>7. ASSUME NEW j \in 1 .. Len(r) PROVE a[n + Len(p) + j] = r[j]
  <2>1. j \in 1 .. lq - 1 /\ j + 1 \in 1 .. lq /\ n + Len(p) + j = n + (j + 1)
    BY <1>1, <1>2
  <2>2. QED
    BY <1>1, <1>5, <2>1
<1>8. ASSUME NEW j \in 1 .. lb PROVE a[n + Len(p) + Len(r) + j] = b[j]
  <2>1. n + Len(p) + Len(r) + j = n + lq + j
    BY <1>1, <1>2
  <2>2. QED
    BY <1>5, <2>1
<1>9. Awaits(a, n, p, r, b)
  BY <1>6, <1>7, <1>8 DEF Awaits, lb
<1>10. QED
  BY <1>9 DEF p, r, h

LEMMA LineType ==
  ASSUME IInv
  PROVE  /\ accepted \in Seq(Inputs) /\ adding \in Seq(Inputs) /\ Line \in Seq(Inputs)
         /\ Len(Line) = Len(accepted) + Len(adding)
         /\ \A i \in 1 .. Len(accepted) : Line[i] = accepted[i]
         /\ adding = <<>> => Line = accepted
<1>1. accepted \in Seq(Inputs) /\ adding \in Seq(Inputs)
  BY DEF IInv, TypeOK
<1>2. /\ accepted \o adding \in Seq(Inputs)
      /\ Len(accepted \o adding) = Len(accepted) + Len(adding)
      /\ \A i \in 1 .. Len(accepted) : (accepted \o adding)[i] = accepted[i]
  BY <1>1
<1>3. accepted \o <<>> = accepted
  BY <1>1
<1>4. QED
  BY <1>1, <1>2, <1>3 DEF Line

LEMMA FileType ==
  ASSUME OutputType
  PROVE  \E S : File \in Seq(S)
BY ConcatProperties DEF OutputType, File

(* What StreamInv says of a state that has not failed.                     *)
LEMMA StreamFacts ==
  ASSUME StreamInv, ~failed
  PROVE  /\ File = <<>> <=> table = "deferred"
         /\ table = "deferred" => Buffers /\ ~config.palette
         /\ repeatWritten <=> config.repeats /\ frameIndex > 0
         /\ FileIs(File, table, frameIndex, Line, reply = "file", LoopsNow)
         /\ Awaiting
BY DEF StreamInv

LEMMA NotWhole ==
  ASSUME StreamInv, ~failed, reply # "file"
  PROVE  FileIs(File, table, frameIndex, Line, FALSE, LoopsNow)
<1>1. FileIs(File, table, frameIndex, Line, reply = "file", LoopsNow)
  BY StreamFacts
<1>2. (reply = "file") <=> FALSE
  OBVIOUS
<1>3. QED
  BY <1>1, <1>2 DEF FileIs, BlockAt

(* A frame joins the line.                                                 *)
LEMMA JoinStream ==
  ASSUME IInv, CountInv, OutputType, StreamInv, NEW f \in Inputs,
         BufferFrame(f) \/ DirectFrame(f)
  PROVE  StreamInv'
<1>1. Accept(f) /\ adding' = <<f>>
      /\ UNCHANGED <<config, pending, stream, failed, reply, accepted>>
  BY DEF BufferFrame, DirectFrame
<1>2. /\ ~failed /\ reply # "file" /\ adding = <<>> /\ queued = <<>>
      /\ Len(accepted) = frameIndex + Len(pending) + Len(buffered)
  BY <1>1, AcceptedIsWithin
<1>3. Line = accepted /\ Line \in Seq(Inputs)
  BY <1>2, LineType
<1>4. Line' = Append(Line, f)
  <2>1. Line' = accepted \o <<f>>
    BY <1>1 DEF Line
  <2>2. QED
    BY <1>3, <2>1, OneAppended
<1>5. /\ pending \in Seq(Inputs) /\ queued \in Seq(Inputs) /\ buffered \in Seq(Inputs)
      /\ frameIndex \in Nat /\ Len(pending) \in Nat /\ Len(buffered) \in Nat
      /\ Len(queued) = 0
  BY <1>2, CountTypes DEF IInv, TypeOK
<1>6. Awaits(Line, frameIndex, pending, queued, buffered)
  BY <1>2, StreamFacts DEF Awaiting
<1>7. Awaiting'
  <2>1. CASE BufferFrame(f)
    <3>1. queued' = queued /\ buffered' = Append(buffered, f)
          /\ frameIndex' = frameIndex /\ pending' = pending
      BY <1>1, <2>1 DEF BufferFrame, stream
    <3>2. Len(Line) = frameIndex + Len(pending) + Len(queued) + Len(buffered)
      BY <1>2, <1>3, <1>5
    <3>3. Awaits(Append(Line, f), frameIndex, pending, queued, Append(buffered, f))
      BY ONLY <1>3, <1>5, <1>6, <3>2, f \in Inputs, AwaitsBuffered
    <3>4. QED
      BY <1>4, <3>1, <3>3 DEF Awaiting
  <2>2. CASE DirectFrame(f)
    <3>1. queued' = <<f>> /\ buffered' = buffered
          /\ frameIndex' = frameIndex /\ pending' = pending
      BY <1>1, <2>2 DEF DirectFrame, stream
    <3>2. buffered = <<>> /\ Len(buffered) = 0
      BY <1>2, <2>2, CountTypes DEF CountInv, BufferKept, DirectFrame
    <3>3. Len(Line) = frameIndex + Len(pending)
          /\ Awaits(Line, frameIndex, pending, <<>>, <<>>)
      BY <1>2, <1>3, <1>5, <1>6, <3>2
    <3>4. Awaits(Append(Line, f), frameIndex, pending, <<f>>, <<>>)
      BY ONLY <1>3, <1>5, <3>3, f \in Inputs, AwaitsQueued
    <3>5. QED
      BY <1>4, <3>1, <3>2, <3>4 DEF Awaiting
  <2>3. QED
    BY <2>1, <2>2
<1>8. PICK S : File \in Seq(S)
  BY FileType
<1>9. FileIs(File', table', frameIndex', Line', (reply = "file")', LoopsNow')
  <2>1. FileIs(File, table, frameIndex, Line, FALSE, LoopsNow)
    BY <1>2, NotWhole
  <2>2. \A i \in 1 .. frameIndex : Append(Line, f)[i] = Line[i]
    <3>1. frameIndex <= Len(Line) /\ Len(Line) \in Nat
      BY <1>2, <1>3, <1>5
    <3>2. \A i \in 1 .. frameIndex : i \in 1 .. Len(Line)
      BY <1>5, <3>1
    <3>3. \A i \in 1 .. Len(Line) : Append(Line, f)[i] = Line[i]
      BY <1>3
    <3>4. QED
      BY <3>2, <3>3
  <2>3. FileIs(File, table, frameIndex, Append(Line, f), FALSE, LoopsNow)
    BY ONLY <1>8, <2>1, <2>2, LineMayGrow
  <2>4. File' = File /\ table' = table /\ frameIndex' = frameIndex
    BY <1>1 DEF stream, File
  <2>5. (LoopsNow' <=> LoopsNow) /\ ((reply = "file")' <=> FALSE)
    BY <1>1, <1>2 DEF LoopsNow, stream
  <2>6. QED
    BY <1>4, <2>3, <2>4, <2>5 DEF FileIs, BlockAt
<1>10. QED
  BY <1>1, <1>2, <1>7, <1>9, StreamFacts DEF StreamInv, stream, File, Buffers

(* The buffer is flushed: an encoder that waited for its palette starts    *)
(* the file.                                                               *)
LEMMA FlushStream ==
  ASSUME IInv, CountInv, OutputType, StreamInv, FlushBuffer
  PROVE  StreamInv'
<1>1. /\ pc = "flush" /\ ~failed /\ queued = <<>> /\ computed'
      /\ queued' = buffered /\ buffered' = <<>>
      /\ UNCHANGED <<config, pending, frameIndex, repeatWritten, sent, failed, adding,
                     reply, accepted>>
  BY CountTypes DEF FlushBuffer, IInv, Control
<1>2. reply # "file"
  BY <1>1 DEF CountInv, Phases
<1>3. /\ pending \in Seq(Inputs) /\ buffered \in Seq(Inputs) /\ frameIndex \in Nat
  BY DEF IInv, TypeOK
<1>4. Line' = Line
  BY <1>1 DEF Line
<1>5. Awaiting'
  <2>1. Awaits(Line, frameIndex, pending, <<>>, buffered)
    BY <1>1, StreamFacts DEF Awaiting
  <2>2. Awaits(Line, frameIndex, pending, buffered, <<>>)
    BY ONLY <1>3, <2>1, AwaitsFlushed
  <2>3. QED
    BY <1>1, <1>4, <2>2 DEF Awaiting
<1>6. ((reply = "file")' <=> FALSE) /\ (LoopsNow' <=> LoopsNow)
  BY <1>1, <1>2 DEF LoopsNow
<1>7. FileIs(File, table, frameIndex, Line, FALSE, LoopsNow)
  BY <1>1, <1>2, NotWhole
<1>8. CASE table = "deferred"
  <2>1. File = <<>> /\ Buffers /\ ~config.palette
    BY <1>1, <1>8, StreamFacts
  <2>2. pending = <<>> /\ frameIndex = 0
    <3>1. FramesIn(<<>>, Len(<<>>)) = frameIndex
      BY <1>7, <2>1 DEF FileIs
    <3>2. FramesIn(<<>>, Len(<<>>)) = 0
      BY NoFileYet DEF FileIs
    <3>3. QED
      BY <1>1, <2>1, <3>1, <3>2 DEF CountInv, BufferKept
  <2>3. table' = "shared" /\ out' = out \o <<Header("shared")>>
    BY <1>1, <1>8 DEF FlushBuffer
  <2>4. File' = <<Header("shared")>>
    <3>1. PICK S : out \in Seq(S) /\ sent \in Seq(S)
      BY DEF OutputType
    <3>2. out = <<>> /\ sent = <<>>
      BY <2>1, <3>1, ConcatEmptySeq DEF File
    <3>3. <<>> \o <<Header("shared")>> = <<Header("shared")>>
      OBVIOUS
    <3>4. QED
      BY <1>1, <2>3, <3>2, <3>3 DEF File
  <2>5. FileIs(<<Header("shared")>>, "shared", 0, Line, FALSE, FALSE)
    BY HeaderAdded
  <2>6. LoopsNow' <=> FALSE
    BY <1>6, <2>1, <2>2 DEF LoopsNow, Buffers
  <2>7. FileIs(File', table', frameIndex', Line', (reply = "file")', LoopsNow')
    BY <1>1, <1>4, <1>6, <2>2, <2>3, <2>4, <2>5, <2>6 DEF FileIs, BlockAt
  <2>8. File' # <<>> /\ table' # "deferred"
    BY <2>3, <2>4
  <2>9. QED
    BY <1>1, <1>5, <2>7, <2>8, StreamFacts DEF StreamInv
<1>9. CASE table # "deferred"
  <2>1. table' = table /\ File' = File
    BY <1>1, <1>9 DEF FlushBuffer, File
  <2>2. FileIs(File', table', frameIndex', Line', (reply = "file")', LoopsNow')
    BY <1>1, <1>4, <1>6, <1>7, <2>1 DEF FileIs, BlockAt
  <2>3. QED
    BY <1>1, <1>5, <1>9, <2>1, <2>2, StreamFacts DEF StreamInv
<1>10. QED
  BY <1>8, <1>9

(* The blocks that writing the frame held back adds to the file.           *)
LEMMA FileOfWrite ==
  ASSUME OutputType, NEW f, NEW clear, WritePending(f, clear), sent' = sent
  PROVE  \E g \in Prepared(f, clear) :
           File' = IF RepeatNow = <<>> THEN Append(File, g)
                                       ELSE Append(Append(File, Loop), g)
<1>1. PICK g \in Prepared(f, clear) : out' = (out \o RepeatNow) \o <<g>>
  BY DEF WritePending
<1>2. PICK S : out \in Seq(S) /\ sent \in Seq(S)
  BY DEF OutputType
<1> DEFINE T == S \cup {Loop, g}
           l == Loop
           r == RepeatNow
           o == out
           s == sent
           F == File
<1>3. /\ o \in Seq(T) /\ s \in Seq(T) /\ <<l>> \in Seq(T) /\ <<g>> \in Seq(T)
      /\ l \in T /\ g \in T /\ F = s \o o
  <2>1. S \subseteq T /\ l \in T /\ g \in T
    OBVIOUS
  <2> HIDE DEF T, l
  <2>2. o \in Seq(T) /\ s \in Seq(T)
    BY <1>2, <2>1, SeqMonotonic, Zenon
  <2>3. <<l>> \in Seq(T) /\ <<g>> \in Seq(T)
    BY <2>1
  <2>4. QED
    BY <2>1, <2>2, <2>3 DEF File
<1>4. r = <<>> \/ r = <<l>>
  BY DEF RepeatNow, Repeat
<1>5. File' = s \o ((o \o r) \o <<g>>)
  BY <1>1 DEF File
<1> HIDE DEF T, l, r, o, s, F
<1>6. F \in Seq(T) /\ F \o <<g>> = Append(F, g) /\ F \o <<l>> = Append(F, l)
      /\ Append(F, l) \in Seq(T)
  <2>1. F \in Seq(T)
    BY <1>3, ConcatProperties
  <2>2. QED
    BY <1>3, <2>1, OneAppended
<1>7. CASE r = <<>>
  <2>1. o \o r = o
    BY <1>3, <1>7, ConcatEmptySeq
  <2>2. s \o (o \o <<g>>) = (s \o o) \o <<g>>
    BY <1>3, ConcatAssociative
  <2>3. File' = Append(F, g)
    BY <1>3, <1>5, <1>6, <2>1, <2>2
  <2>4. QED
    BY <1>7, <2>3 DEF F, r
<1>8. CASE r = <<l>>
  <2>1. (s \o o) \o <<l>> = s \o (o \o <<l>>)
    BY <1>3, ConcatAssociative
  <2>2. (o \o <<l>>) \in Seq(T)
    BY <1>3, ConcatProperties
  <2>3. s \o ((o \o <<l>>) \o <<g>>) = (s \o (o \o <<l>>)) \o <<g>>
    BY <1>3, <2>2, ConcatAssociative
  <2>4. File' = Append(F, l) \o <<g>>
    BY <1>3, <1>5, <1>6, <1>8, <2>1, <2>3
  <2>5. Append(F, l) \o <<g>> = Append(Append(F, l), g)
    BY <1>3, <1>6, OneAppended
  <2>6. <<l>> # <<>>
    OBVIOUS
  <2>7. QED
    BY <1>8, <2>4, <2>5, <2>6 DEF F, l, r
<1>9. QED
  BY <1>4, <1>7, <1>8

(* The frame held back is written: it is the next of the line.             *)
LEMMA WriteStream ==
  ASSUME IInv, CountInv, OutputType, StreamInv, ~failed, pending # <<>>, NEW clear,
         WritePending(pending[1], clear),
         UNCHANGED <<config, table, computed, sent, reply, accepted, adding>>,
         reply # "file"
  PROVE  /\ File' # <<>> /\ table' # "deferred"
         /\ frameIndex' = frameIndex + 1
         /\ repeatWritten' <=> config'.repeats /\ frameIndex' > 0
         /\ FileIs(File', table', frameIndex', Line', (reply = "file")', LoopsNow')
<1> DEFINE n == frameIndex
           f == pending[1]
<1>1. /\ n \in Nat /\ Len(pending) = 1 /\ config \in Configs
      /\ pending \in Seq(Inputs)
  BY CountTypes DEF IInv, TypeOK
<1>2. /\ config.repeats \in BOOLEAN /\ config.shared \in BOOLEAN
      /\ config.palette \in BOOLEAN /\ repeatWritten \in BOOLEAN
  BY <1>1, EncoderAssumption DEF IInv, TypeOK
<1>3. ~Buffers /\ table # "deferred" /\ File # <<>>
  BY StreamFacts DEF CountInv, BufferKept
<1>4. f.delay = Line[n + 1].delay
  <2>1. \A j \in 1 .. 1 : Line[n + j] = pending[j]
    BY <1>1, StreamFacts DEF Awaiting, Awaits
  <2>2. QED
    BY <2>1
<1>5. Line' = Line /\ ((reply = "file")' <=> FALSE)
  BY DEF Line
<1>6. n' = n + 1 /\ (repeatWritten' <=> repeatWritten \/ config.repeats)
  BY <1>2 DEF WritePending
<1>7. repeatWritten <=> config.repeats /\ n > 0
  BY StreamFacts
<1>8. repeatWritten' <=> config'.repeats /\ n' > 0
  BY <1>1, <1>2, <1>6, <1>7
<1>9. LoopsNow' <=> config.repeats
  BY <1>1, <1>2, <1>6 DEF LoopsNow
<1>10. FileIs(File, table, n, Line, FALSE, LoopsNow)
  BY NotWhole
<1>11. PICK S : File \in Seq(S)
  BY FileType
<1>12. PICK g \in Prepared(f, clear) :
           File' = IF RepeatNow = <<>> THEN Append(File, g)
                                       ELSE Append(Append(File, Loop), g)
  BY FileOfWrite
<1>13. g.kind = "frame" /\ g.delay = Line[n + 1].delay
  BY <1>4 DEF Prepared
<1>14. LoopsNow \in BOOLEAN
  BY <1>2 DEF LoopsNow
<1>15. FileIs(File', table, n + 1, Line, FALSE, config.repeats) /\ File' # <<>>
  <2>1. CASE RepeatNow = <<>>
    <3>1. FileIs(Append(File, g), table, n + 1, Line, FALSE, LoopsNow)
      BY ONLY <1>3, <1>10, <1>11, <1>13, <1>14, FrameAdded
    <3>2. LoopsNow <=> config.repeats
      <4>1. repeatWritten \/ ~config.repeats
        <5>1. <<Loop>> # <<>>
          OBVIOUS
        <5>2. QED
          BY <2>1, <5>1 DEF RepeatNow, Repeat
      <4>2. QED
        BY <1>7, <4>1 DEF LoopsNow
    <3>3. Append(File, g) # <<>>
      BY <1>11
    <3>4. QED
      BY <1>12, <2>1, <3>1, <3>2, <3>3 DEF FileIs
  <2>2. CASE RepeatNow # <<>>
    <3>1. config.repeats /\ n = 0
      BY <1>1, <1>7, <2>2 DEF RepeatNow, Repeat
    <3>2. FileIs(File, table, 0, Line, FALSE, LoopsNow)
      BY <1>10, <3>1
    <3> DEFINE G == Append(File, Loop)
    <3>3. FileIs(G, table, 0, Line, FALSE, TRUE)
      BY ONLY <1>3, <1>11, <1>14, <3>2, LoopAdded
    <3>4. G \in Seq(S \cup {Loop}) /\ G # <<>> /\ TRUE \in BOOLEAN
      <4>1. G \in Seq(S \cup {Loop})
        BY <1>11, BlockAppended, Zenon
      <4>2. QED
        BY <1>11, <4>1
    <3> HIDE DEF G
    <3>5. g.delay = Line[0 + 1].delay /\ g.kind = "frame"
      BY <1>13, <3>1
    <3>6. FileIs(Append(G, g), table, 0 + 1, Line, FALSE, TRUE)
      BY ONLY <3>3, <3>4, <3>5, FrameAdded
    <3>7. Append(G, g) # <<>>
      BY <3>4
    <3>8. config.repeats <=> TRUE
      BY <3>1
    <3>9. FileIs(Append(G, g), table, n + 1, Line, FALSE, config.repeats)
      BY <3>1, <3>6, <3>8 DEF FileIs
    <3>10. File' = Append(G, g)
      BY <1>12, <2>2 DEF G
    <3>11. QED
      BY <3>7, <3>9, <3>10
  <2>3. QED
    BY <2>1, <2>2
<1>16. FileIs(File', table', n', Line', (reply = "file")', LoopsNow')
  BY <1>5, <1>6, <1>9, <1>15 DEF FileIs, BlockAt
<1>17. QED
  BY <1>3, <1>6, <1>8, <1>15, <1>16

(* A frame is held back, and the one before it is written.                 *)
LEMMA QueueStream ==
  ASSUME IInv, CountInv, OutputType, StreamInv, QueueFirst \/ QueueFrame
  PROVE  StreamInv'
<1>1. /\ pc = "queue" /\ queued # <<>> /\ ~failed
      /\ queued' = Tail(queued) /\ pending' = <<Head(queued)>>
      /\ UNCHANGED <<config, buffered, table, computed, sent, failed, adding, reply,
                     accepted>>
  BY DEF QueueFirst, QueueFrame, HoldBack, IInv, Control
<1>2. reply # "file"
  BY <1>1 DEF CountInv, Phases
<1>3. Line' = Line
  BY <1>1 DEF Line
<1>4. /\ pending \in Seq(Inputs) /\ queued \in Seq(Inputs) /\ buffered \in Seq(Inputs)
      /\ frameIndex \in Nat
      /\ pending = <<>> => Len(pending) = 0
      /\ pending # <<>> => Len(pending) = 1
  BY CountTypes DEF IInv, TypeOK
<1>5. Awaits(Line, frameIndex, pending, queued, buffered)
  BY <1>1, StreamFacts DEF Awaiting
<1> DEFINE n == frameIndex + Len(pending)
<1>6. n \in Nat /\ Awaits(Line, n, <<>>, queued, buffered)
  <2>1. Awaits(Line, frameIndex + Len(pending), <<>>, queued, buffered)
    BY ONLY <1>4, <1>5, AwaitsWritten
  <2>2. QED
    BY <1>4, <2>1
<1> HIDE DEF n
<1>7. Awaits(Line, n, <<Head(queued)>>, Tail(queued), buffered)
  BY ONLY <1>1, <1>4, <1>6, AwaitsHeld
<1>8. CASE QueueFirst
  <2>1. UNCHANGED <<frameIndex, repeatWritten, out>> /\ n = frameIndex
    BY <1>4, <1>8 DEF QueueFirst, n
  <2>2. Awaiting'
    BY <1>1, <1>3, <1>7, <2>1 DEF Awaiting
  <2>3. File' = File /\ (Buffers' <=> Buffers) /\ (LoopsNow' <=> LoopsNow)
    BY <1>1, <2>1 DEF File, Buffers, LoopsNow
  <2>4. FileIs(File', table', frameIndex', Line', (reply = "file")', LoopsNow')
    <3>1. FileIs(File, table, frameIndex, Line, reply = "file", LoopsNow)
      BY <1>1, StreamFacts
    <3>2. QED
      BY <1>1, <1>3, <2>1, <2>3, <3>1 DEF FileIs, BlockAt
  <2>5. QED
    BY <1>1, <2>1, <2>2, <2>3, <2>4, StreamFacts DEF StreamInv
<1>9. CASE QueueFrame
  <2>1. pending # <<>> /\ WritePending(pending[1], ClearsBefore(Head(queued)))
    BY <1>9 DEF QueueFrame
  <2>2. /\ File' # <<>> /\ table' # "deferred"
        /\ frameIndex' = frameIndex + 1
        /\ repeatWritten' <=> config'.repeats /\ frameIndex' > 0
        /\ FileIs(File', table', frameIndex', Line', (reply = "file")', LoopsNow')
    BY <1>1, <1>2, <2>1, WriteStream
  <2>3. frameIndex' = n
    BY <1>4, <2>1, <2>2 DEF n
  <2>4. Awaiting'
    BY <1>1, <1>3, <1>7, <2>3 DEF Awaiting
  <2>5. QED
    BY <2>2, <2>4 DEF StreamInv
<1>10. QED
  BY <1>8, <1>9

(* finish writes the last frame.                                           *)
LEMMA LastStream ==
  ASSUME IInv, CountInv, OutputType, StreamInv, WriteLast
  PROVE  StreamInv'
<1>1. /\ pc = "last" /\ pending # <<>> /\ ~failed /\ pending' = <<>>
      /\ UNCHANGED <<config, buffered, queued, table, computed, sent, failed, adding,
                     reply, accepted>>
  BY DEF WriteLast, IInv, Control
<1>2. reply # "file"
  BY <1>1 DEF CountInv, Phases
<1>3. WritePending(pending[1], ClearsAtEnd)
  BY DEF WriteLast
<1>4. /\ pending \in Seq(Inputs) /\ queued \in Seq(Inputs) /\ buffered \in Seq(Inputs)
      /\ frameIndex \in Nat /\ Len(pending) = 1
  BY <1>1, CountTypes DEF IInv, TypeOK
<1>5. Awaits(Line, frameIndex, pending, queued, buffered)
  BY <1>1, StreamFacts DEF Awaiting
<1>6. Awaits(Line, frameIndex + Len(pending), <<>>, queued, buffered)
  BY ONLY <1>4, <1>5, AwaitsWritten
<1>7. /\ File' # <<>> /\ table' # "deferred"
      /\ frameIndex' = frameIndex + 1
      /\ repeatWritten' <=> config'.repeats /\ frameIndex' > 0
      /\ FileIs(File', table', frameIndex', Line', (reply = "file")', LoopsNow')
  BY <1>1, <1>2, <1>3, WriteStream
<1>8. Awaiting'
  BY <1>1, <1>4, <1>6, <1>7 DEF Awaiting, Line
<1>9. QED
  BY <1>7, <1>8 DEF StreamInv

(* The trailer.                                                            *)
LEMMA SealStream ==
  ASSUME IInv, CountInv, OutputType, StreamInv, Seal
  PROVE  StreamInv'
<1>1. /\ pc = "seal" /\ ~failed /\ table # "deferred" /\ reply' = "file"
      /\ UNCHANGED <<config, frames, table, computed, frameIndex, repeatWritten, failed,
                     adding, accepted>>
  BY DEF Seal, IInv, Control
<1>2. reply # "file"
  BY <1>1 DEF CountInv, Phases
<1>3. Line' = Line /\ (Awaiting' <=> Awaiting) /\ (Buffers' <=> Buffers)
      /\ (LoopsNow' <=> LoopsNow) /\ ((reply = "file")' <=> TRUE)
  BY <1>1 DEF Line, Awaiting, Awaits, Buffers, LoopsNow, frames
<1>4. PICK S : out \in Seq(S) /\ sent \in Seq(S)
  BY DEF OutputType
<1>5. File \in Seq(S) /\ Len(File) = Len(sent) + Len(out)
  BY <1>4, ConcatProperties DEF File
<1> DEFINE T == S \cup {Trailer}
           t == Trailer
<1>6. File' = Append(File, Trailer)
  <2>1. sent' = File \o <<t>> /\ out' = <<>>
    BY DEF Seal, File
  <2>2. File \in Seq(T) /\ t \in T
    BY <1>5, SeqMonotonic
  <2> HIDE DEF T, t
  <2>3. File \o <<t>> = Append(File, t) /\ Append(File, t) \in Seq(T)
    BY <2>2, OneAppended
  <2>4. sent' \o <<>> = sent'
    BY <2>1, <2>3, ConcatEmptySeq
  <2>5. File' = sent'
    BY <2>1, <2>4 DEF File
  <2>6. QED
    BY <2>1, <2>3, <2>5 DEF t
<1>7. Len(File) + 1 <= MaxOutput
  BY <1>5 DEF Seal, FileBlocks
<1>8. FileIs(File, table, frameIndex, Line, FALSE, LoopsNow)
  BY <1>1, <1>2, NotWhole
<1>9. LoopsNow \in BOOLEAN
  BY EncoderAssumption DEF LoopsNow, IInv, TypeOK
<1>10. File # <<>>
  BY <1>1, StreamFacts
<1>11. FileIs(Append(File, Trailer), table, frameIndex, Line, TRUE, LoopsNow)
  BY ONLY <1>5, <1>7, <1>8, <1>9, <1>10, TrailerAdded
<1>12. FileIs(File', table', frameIndex', Line', (reply = "file")', LoopsNow')
  BY <1>1, <1>3, <1>6, <1>11 DEF FileIs, BlockAt
<1>13. File' # <<>>
  BY <1>5, <1>6
<1>14. QED
  BY <1>1, <1>3, <1>12, <1>13, StreamFacts DEF StreamInv

(* The steps that move no frame and make no block.                         *)
LEMMA OtherStream ==
  ASSUME IInv, CountInv, OutputType, StreamInv,
         \/ Accepted \/ RefuseFrame \/ RefuseFinish \/ Finish \/ FlushedForFinish
         \/ NothingPending \/ (\E n \in 1 .. Len(out) : ConsumeOutput(n))
         \/ UNCHANGED vars
  PROVE  StreamInv'
<1>1. UNCHANGED <<config, table, computed, frameIndex, repeatWritten, pending, queued,
                  buffered>> /\ (~failed' => ~failed)
  BY DEF Accepted, RefuseFrame, RefuseFinish, Finish, FlushedForFinish, NothingPending,
     ConsumeOutput, vars, frames, stream, control
<1>2. File' = File
  <2>1. ASSUME NEW n \in 1 .. Len(out), ConsumeOutput(n) PROVE File' = File
    BY <2>1, TakenOutput DEF OutputType, File
  <2>2. ASSUME UNCHANGED <<out, sent>> PROVE File' = File
    BY <2>2 DEF File
  <2>3. QED
    BY <2>1, <2>2 DEF Accepted, RefuseFrame, RefuseFinish, Finish, FlushedForFinish,
       NothingPending, vars, stream
<1>3. Line' = Line
  <2>1. CASE Accepted
    <3>1. accepted' = Line /\ adding' = <<>> /\ Line \in Seq(Inputs)
      BY <2>1, LineType DEF Accepted, Line
    <3>2. QED
      BY <3>1, ConcatEmptySeq DEF Line
  <2>2. CASE UNCHANGED <<accepted, adding>>
    BY <2>2 DEF Line
  <2>3. QED
    BY <2>1, <2>2 DEF RefuseFrame, RefuseFinish, Finish, FlushedForFinish,
       NothingPending, ConsumeOutput, vars, control
<1>4. (reply' = "file") <=> (reply = "file")
  <2>1. reply = "file" => pc = "done"
    BY DEF CountInv, Phases
  <2>2. QED
    BY <2>1 DEF Accepted, RefuseFrame, RefuseFinish, Finish, FlushedForFinish,
       NothingPending, ConsumeOutput, vars, control
<1>5. QED
  BY <1>1, <1>2, <1>3, <1>4, QuietStream

LEMMA NextStream ==
  ASSUME IInv, CountInv, OutputType, StreamInv, [Next]_vars
  PROVE  StreamInv'
<1>1. ASSUME failed' PROVE StreamInv'
  BY <1>1 DEF StreamInv
<1>2. ASSUME NEW f \in Inputs, BufferFrame(f) \/ DirectFrame(f) \/ ChargeFails(f)
      PROVE  StreamInv'
  BY <1>1, <1>2, JoinStream DEF ChargeFails, Fail
<1>3. CASE FlushFails \/ QueueFails \/ LastFails \/ SealFails
  BY <1>1, <1>3 DEF FlushFails, QueueFails, LastFails, SealFails, WriteFails, Fail
<1>4. QED
  BY <1>2, <1>3, FlushStream, QueueStream, LastStream, SealStream, OtherStream
     DEF Next, Step

LEMMA Streaming == Spec => [](IInv /\ CountInv /\ OutputType /\ StreamInv /\ DurationInv)
<1>1. Init => IInv /\ CountInv /\ OutputType /\ StreamInv /\ DurationInv
  BY InitIInv, InitCount, InitOutput, InitStream
<1>2. ASSUME IInv, CountInv, OutputType, StreamInv, DurationInv, [Next]_vars
      PROVE  IInv' /\ CountInv' /\ OutputType' /\ StreamInv' /\ DurationInv'
  BY <1>2, NextIInv, NextCount, OutputGrows, NextStream, DurationStep
<1>3. QED
  BY <1>1, <1>2, PTL DEF Spec

(* Between calls the file is in order.                                     *)
LEMMA FileInOrder ==
  ASSUME IInv, CountInv, OutputType, StreamInv, pc \in {"idle", "done"}, ~failed
  PROVE  /\ File # <<>> => File[1] = Header(table)
         /\ \A i \in DOMAIN File :
              /\ BlockAt(File, i, accepted, reply = "file")
         /\ Written = frameIndex /\ frameIndex <= Len(accepted)
         /\ reply = "file" => /\ Written = Len(accepted)
                              /\ Last(File) = Trailer
                              /\ Len(File) <= MaxOutput
                              /\ (\E i \in DOMAIN File : File[i].kind = "loop") <=> Loops
<1>1. FileIs(File, table, frameIndex, Line, reply = "file", LoopsNow)
  BY StreamFacts
<1>2. adding = <<>> /\ Line = accepted
  <2>1. adding = <<>>
    BY DEF CountInv, Phases
  <2>2. QED
    BY <2>1, LineType
<1>3. DOMAIN File = 1 .. Len(File)
  BY FileType
<1>4. Written = frameIndex
  BY <1>1 DEF FileIs, Written
<1>5. frameIndex <= Len(accepted)
  BY <1>2, CountTypes DEF CountInv, Conserved
<1>6. \A i \in DOMAIN File : BlockAt(File, i, accepted, reply = "file")
  BY <1>1, <1>2, <1>3 DEF FileIs
<1>7. File # <<>> => File[1] = Header(table)
  BY <1>1 DEF FileIs
<1>8. ASSUME reply = "file"
      PROVE  /\ Written = Len(accepted) /\ Last(File) = Trailer /\ Len(File) <= MaxOutput
             /\ (\E i \in DOMAIN File : File[i].kind = "loop") <=> Loops
  <2>1. frameIndex = Len(accepted)
    BY <1>8, FinishedIsWhole
  <2>2. frameIndex > 0 <=> accepted # <<>>
    <3>1. accepted \in Seq(Inputs)
      BY LineType
    <3>2. Len(accepted) \in Nat /\ (accepted = <<>> <=> Len(accepted) = 0)
      BY <3>1, EmptySeq, LenProperties
    <3>3. QED
      BY <2>1, <3>2
  <2>3. LoopsNow <=> Loops
    BY <2>2 DEF LoopsNow, Loops
  <2>4. /\ File[Len(File)] = Trailer /\ Len(File) <= MaxOutput
        /\ (\E i \in 1 .. Len(File) : File[i].kind = "loop") <=> LoopsNow
    BY <1>1, <1>8 DEF FileIs
  <2>5. Last(File) = Trailer
    BY <2>4 DEF Last
  <2>6. QED
    BY <1>3, <1>4, <2>1, <2>3, <2>4, <2>5
<1>9. QED
  BY <1>4, <1>5, <1>6, <1>7, <1>8

(* Between calls the bytes produced so far are a header, repeat extensions  *)
(* before the first frame, one frame for each of the first accepted ones    *)
(* with its delay, and a trailer exactly when finish returned the file,     *)
(* which then has every accepted frame, whatever is buffered, held back and *)
(* taken out between calls.                                                 *)
THEOREM StreamsInOrder == Spec => []StreamInOrder
<1>1. ASSUME IInv, CountInv, OutputType, StreamInv, DurationInv
      PROVE  StreamInOrder
  <2>1. duration = Milliseconds(Total(accepted))
    BY <1>1 DEF DurationInv
  <2>2. ASSUME pc \in {"idle", "done"}, ~failed
        PROVE  /\ File # <<>> => File[1] = Header(table)
               /\ \A i \in DOMAIN File : BlockAt(File, i, accepted, reply = "file")
               /\ Written = frameIndex /\ frameIndex <= Len(accepted)
               /\ reply = "file" =>
                    /\ Written = Len(accepted)
                    /\ Last(File) = Trailer
                    /\ Len(File) <= MaxOutput
                    /\ (\E i \in DOMAIN File : File[i].kind = "loop") <=> Loops
    BY <1>1, <2>2, FileInOrder
  <2>3. ASSUME pc \in {"idle", "done"}, ~failed, NEW i \in DOMAIN File
        PROVE  /\ File[i].kind = "header" => i = 1
               /\ File[i].kind = "loop" => \A j \in 1 .. i - 1 : File[j].kind # "frame"
               /\ File[i].kind = "trailer" => i = Len(File) /\ reply = "file"
               /\ File[i].kind # "fragment"
               /\ File[i].kind = "frame" => File[i].delay = accepted[FramesIn(File, i)].delay
    <3>1. BlockAt(File, i, accepted, reply = "file")
      BY <2>2, <2>3
    <3>2. i \in Nat
      BY <1>1, FileType
    <3>3. ASSUME File[i].kind = "loop", NEW j \in 1 .. i - 1 PROVE File[j].kind # "frame"
      <4>1. FramesIn(File, i) = 0
        BY <3>1, <3>3 DEF BlockAt
      <4>2. j \in 1 .. i
        BY <3>2
      <4>3. File[j].kind = "frame" => FramesIn(File, j) \in 1 .. FramesIn(File, i)
        BY <3>2, <4>2, FrameWithin
      <4>4. QED
        BY <4>1, <4>3
    <3>4. QED
      BY <3>1, <3>3 DEF BlockAt
  <2>4. QED
    BY <2>1, <2>2, <2>3 DEF StreamInOrder
<1>2. IInv /\ CountInv /\ OutputType /\ StreamInv /\ DurationInv => StreamInOrder
  BY <1>1
<1>3. QED
  BY <1>2, Streaming, PTL

(* The debug_assert of write_pending_frame: a frame that clears the canvas  *)
(* covers it, whatever the frames, the configuration and the failures.      *)
THEOREM ClearingIsWhole == Spec => []ClearedWhole
<1>1. ASSUME OutputType PROVE ClearedWhole
  <2>1. PICK S : out \in Seq(S) /\ sent \in Seq(S) /\ \A b \in S : ClearsWhole(b)
    BY <1>1 DEF OutputType
  <2>2. File \in Seq(S)
    BY <2>1, ConcatProperties DEF File
  <2>3. \A i \in DOMAIN File : File[i] \in S
    BY <2>2
  <2>4. QED
    BY <2>1, <2>3 DEF ClearedWhole, ClearsWhole
<1>2. QED
  BY <1>1, Streaming, PTL

-----------------------------------------------------------------------------
(***************************************************************************)
(* The animation encoder, for every canvas, configuration, limit and set   *)
(* of durations: it drives the streaming encoder as that one's             *)
(* specification allows, its files have exactly the frames that were       *)
(* pushed, and rounding does not drift.                                    *)
(***************************************************************************)

(* Every call of the adapter is a call of the encoder, a step of one, or   *)
(* none: what is proved of the encoder holds under the adapter.            *)
LEMMA EncoderStep == AnimationNext => [Next]_vars
<1>1. ASSUME NEW size, NEW r, PushRefused(size, r) PROVE Next
  BY <1>1 DEF PushRefused, Next
<1>2. ASSUME NEW size, NEW r, NEW f \in Inputs, Push(size, r, f) \/ PushFails(size, r, f)
      PROVE  Next
  BY <1>2 DEF Push, PushFails, Next
<1>3. ASSUME NEW size, NEW count, Begin(size, count) PROVE UNCHANGED vars
  BY <1>3 DEF Begin
<1>4. CASE Encode \/ EncodeFails
  BY <1>4 DEF Encode, EncodeFails, Next, Step
<1>5. CASE Pushed \/ PushedTooMuch
  BY <1>5 DEF Pushed, PushedTooMuch, Next, Step
<1>6. CASE Consume
  BY <1>6 DEF Consume, Next
<1>7. CASE FinishFrames \/ FinishRefused
  BY <1>7 DEF FinishFrames, FinishRefused, Next
<1>8. QED
  BY <1>1, <1>2, <1>3, <1>4, <1>5, <1>6, <1>7 DEF AnimationNext

EncoderInv == IInv /\ OutputType

LEMMA EncoderInvariance == AnimationSpec => []EncoderInv
<1>1. AnimationInit => EncoderInv
  BY InitIInv, InitOutput DEF AnimationInit, EncoderInv
<1>2. EncoderInv /\ [AnimationNext]_<<vars, adapter>> => EncoderInv'
  <2>1. [AnimationNext]_<<vars, adapter>> => [Next]_vars
    BY EncoderStep
  <2>2. QED
    BY <2>1, NextIInv, OutputGrows DEF EncoderInv
<1>3. QED
  BY <1>1, <1>2, PTL DEF AnimationSpec

(* The streaming encoder's own specification is met by the encoder inside  *)
(* the adapter (ensure_encoder, push_frame_centiseconds, finish_inner).    *)
THEOREM DrivesTheEncoder == AnimationSpec => Spec
<1>1. AnimationInit => Init
  BY DEF AnimationInit
<1>2. [AnimationNext]_<<vars, adapter>> => [Next]_vars
  BY EncoderStep
<1>3. QED
  BY <1>1, <1>2, PTL DEF AnimationSpec, Spec

-----------------------------------------------------------------------------
(* Why a file has the pushed frames.  A frame whose push failed after the  *)
(* encoder accepted it was over the output limit; output only grows, so    *)
(* finish is over it as well.  A finish in progress has passed the count,  *)
(* and no call changes the count any more.                                 *)
FileInv ==
  /\ kept \in Seq(Inputs) /\ pushed = Len(kept)
  /\ accepted = kept \/ OutputSize > MaxOutput
  /\ pc = "idle" => ~finishing
  /\ pc \in {"last", "seal"} => finishing
  /\ finishing /\ ~failed => CountMatches /\ HasFrames
  /\ reply = "file" => pc = "done" /\ FileIsPushed

LEMMA OutputMonotone ==
  ASSUME EncoderInv, AnimationNext
  PROVE  OutputSize \in Nat /\ OutputSize' \in Nat /\ OutputSize <= OutputSize'
BY EncoderStep, OutputGrows DEF EncoderInv

LEMMA MaxOutputType == MaxOutput \in Nat
BY EncoderAssumption

(* A step that accepts and keeps no frame and returns no file.             *)
LEMMA QuietStep ==
  ASSUME EncoderInv, FileInv, AnimationNext,
         UNCHANGED <<accepted, kept, pushed>>,
         reply' # "file",
         pc' = "idle" => ~finishing',
         pc' \in {"last", "seal"} => finishing',
         finishing' /\ ~failed' => CountMatches' /\ HasFrames
  PROVE  FileInv'
BY OutputMonotone, MaxOutputType DEF FileInv, HasFrames

LEMMA FileInvStep ==
  ASSUME EncoderInv, FileInv, AnimationNext
  PROVE  FileInv'
<1>0. Control
  BY DEF EncoderInv, IInv
<1>1. ASSUME NEW size, NEW count, Begin(size, count) PROVE FileInv'
  BY <1>1, QuietStep DEF Begin, FileInv, vars, control
<1>2. ASSUME NEW size, NEW r, PushRefused(size, r) PROVE FileInv'
  BY <1>2, QuietStep DEF PushRefused, RefuseFrame, FileInv
<1>3. ASSUME NEW size, NEW r, NEW f, Push(size, r, f) PROVE FileInv'
  BY <1>3, QuietStep DEF Push, BufferFrame, DirectFrame, Accept, FileInv, protocol
<1>4. ASSUME NEW size, NEW r, NEW f, PushFails(size, r, f) PROVE FileInv'
  BY <1>4, QuietStep DEF PushFails, ChargeFails, Accept, Fail, FileInv
<1>5. CASE Encode
  <2>1. UNCHANGED <<made, pushing, kept, pushed, declared>>
    BY <1>5 DEF Encode, adapter, protocol
  <2>2. CASE FlushBuffer \/ QueueFirst \/ QueueFrame
    BY <2>1, <2>2, QuietStep
       DEF FlushBuffer, QueueFirst, QueueFrame, HoldBack, FileInv, CountMatches, HasFrames
  <2>3. CASE FlushedForFinish \/ WriteLast \/ NothingPending
    BY <2>1, <2>3, QuietStep
       DEF FlushedForFinish, WriteLast, NothingPending, FileInv, CountMatches, HasFrames
  <2>4. CASE Seal
    <3>1. pc = "seal" /\ finishing /\ ~failed
      BY <1>0, <2>4 DEF Seal, FileInv, Control
    <3>2. CountMatches /\ HasFrames
      BY <3>1 DEF FileInv
    <3>3. OutputSize + 1 <= MaxOutput
      BY <2>4 DEF Seal, FileBlocks, OutputSize
    <3>4. accepted = kept
      BY <3>3, OutputMonotone, MaxOutputType DEF FileInv
    <3>5. kept # <<>> /\ (declared # NoCount => Len(kept) = declared)
      BY <3>2 DEF FileInv, HasFrames, CountMatches
    <3>6. /\ pc' = "done" /\ reply' = "file"
          /\ UNCHANGED <<accepted, kept, pushed, declared, finishing, failed>>
      BY <2>1, <2>4 DEF Seal
    <3>7. QED
      BY <3>2, <3>4, <3>5, <3>6 DEF FileInv, FileIsPushed, CountMatches, HasFrames
  <2>5. QED
    BY <1>5, <2>2, <2>3, <2>4 DEF Encode
<1>6. CASE EncodeFails
  <2>1. Fail /\ pc # "idle" /\ UNCHANGED <<kept, pushed>>
    BY <1>6 DEF EncodeFails, FlushFails, QueueFails, LastFails, SealFails, WriteFails
  <2>2. QED
    BY <2>1, QuietStep DEF Fail
<1>7. CASE Pushed
  <2>1. pc = "queue" /\ ~finishing /\ accepted' = accepted \o adding
        /\ kept' = kept \o adding /\ pushed' = pushed + 1
        /\ pc' = "idle" /\ reply' = "ok" /\ finishing' = finishing
        /\ UNCHANGED <<out, sent>>
    BY <1>7 DEF Pushed, Accepted, stream
  <2>2. adding \in Seq(Inputs) /\ Len(adding) = 1
    BY <1>0, <2>1 DEF EncoderInv, IInv, TypeOK, Control
  <2>3. kept \in Seq(Inputs) /\ pushed = Len(kept)
    BY DEF FileInv
  <2>4. kept' \in Seq(Inputs) /\ pushed' = Len(kept')
    <3>1. kept \o adding \in Seq(Inputs) /\ Len(kept \o adding) = Len(kept) + Len(adding)
      BY ONLY <2>2, <2>3, ConcatProperties
    <3>2. QED
      BY <2>1, <2>2, <2>3, <3>1
  <2>5. OutputSize <= MaxOutput
    BY <1>7 DEF Pushed, WithinOutput, OutputSize
  <2>6. accepted = kept
    BY <2>5, OutputMonotone, MaxOutputType DEF FileInv
  <2>7. QED
    BY <2>1, <2>4, <2>6 DEF FileInv
<1>8. CASE PushedTooMuch
  <2>1. /\ ~finishing /\ UNCHANGED <<kept, pushed, out, sent, finishing>>
        /\ pc' = "idle" /\ reply' = "ok"
    BY <1>8 DEF PushedTooMuch, Accepted, stream
  <2>2. OutputSize' > MaxOutput
    BY <1>8, <2>1, OutputMonotone, MaxOutputType DEF PushedTooMuch, WithinOutput, OutputSize
  <2>3. QED
    BY <2>1, <2>2 DEF FileInv
<1>9. CASE Consume
  BY <1>9, QuietStep DEF Consume, ConsumeOutput, control, adapter, protocol, FileInv,
     CountMatches
<1>10. CASE FinishFrames
  <2>1. UNCHANGED <<kept, pushed, declared, accepted>> /\ reply' = reply /\ pc = "idle"
        /\ pc' \in {"last", "flush"} /\ finishing' = TRUE
    BY <1>10 DEF FinishFrames, Finish, adapter, protocol
  <2>2. CountMatches' /\ HasFrames
    BY <1>10, <2>1 DEF FinishFrames, CountMatches
  <2>3. QED
    BY <2>1, <2>2, QuietStep DEF FileInv
<1>11. CASE FinishRefused
  BY <1>11, QuietStep DEF FinishRefused, RefuseFinish, adapter, protocol
<1>12. QED
  BY <1>1, <1>2, <1>3, <1>4, <1>5, <1>6, <1>7, <1>8, <1>9, <1>10, <1>11 DEF AnimationNext

(* A finished file has exactly the frames whose push returned Ok, in order,*)
(* and as many as begin declared: for every configuration, every limit and *)
(* every way output is taken, pushes fail and are refused.                 *)
THEOREM FilesHoldThePushed == AnimationSpec => []FileIsPushed
<1>1. AnimationInit => FileInv
  BY EmptySeq DEF AnimationInit, Init, FileInv
<1>2. EncoderInv /\ FileInv /\ [AnimationNext]_<<vars, adapter>> => FileInv'
  <2> SUFFICES ASSUME EncoderInv, FileInv, UNCHANGED <<vars, adapter>> PROVE FileInv'
    BY FileInvStep
  <2>1. /\ UNCHANGED <<accepted, kept, pushed, declared>>
        /\ UNCHANGED <<out, sent, pc, finishing, failed, reply>>
    BY DEF vars, adapter, protocol, control, stream
  <2>2. QED
    BY <2>1 DEF FileInv, OutputSize, CountMatches, HasFrames, FileIsPushed
<1>3. EncoderInv /\ FileInv => FileIsPushed
  BY DEF FileInv, FileIsPushed
<1>4. QED
  BY <1>1, <1>2, <1>3, EncoderInvariance, PTL DEF AnimationSpec

-----------------------------------------------------------------------------
(* Why timing does not drift.  What was asked for in timed pushes is where *)
(* the phase is, what was given is the rounded phase; a push in progress   *)
(* has the delay that leads from one endpoint to the next, since no other  *)
(* call moves the phase before it returns.                                 *)
TimeInv ==
  /\ timing \in Nat
  /\ timed = [asked |-> timing, given |-> Centiseconds(timing)]
  /\ pc = "idle" => adding = <<>> /\ pushing = <<>>
  /\ adding # <<>> => /\ pushing[1].request \in Requests
                      /\ adding[1].delay = Delay(pushing[1].request)

LEMMA Rounding ==
  ASSUME NEW t \in Nat
  PROVE  /\ Centiseconds(t) \in Int
         /\ 2 * t <= (2 * Centiseconds(t) + 1) * Tick
         /\ (2 * Centiseconds(t) - 1) * Tick <= 2 * t
BY DEF Centiseconds, Tick

\* No frame is kept: neither the phase nor a push in progress changes.
LEMMA TimeStays ==
  ASSUME TimeInv, UNCHANGED <<timing, timed>>,
         \/ UNCHANGED <<adding, pushing>> /\ (pc' = "idle" => pc = "idle")
         \/ adding' = <<>> /\ pushing' = <<>>
  PROVE  TimeInv'
BY DEF TimeInv, Delay, Quantized

LEMMA TimeInvStep ==
  ASSUME EncoderInv, TimeInv, AnimationNext
  PROVE  TimeInv'
<1>0. Control
  BY DEF EncoderInv, IInv
<1>1. ASSUME NEW size, NEW count, Begin(size, count) PROVE TimeInv'
  BY <1>1, TimeStays DEF Begin, vars, control
<1>2. ASSUME NEW size, NEW r, PushRefused(size, r) PROVE TimeInv'
  BY <1>2, TimeStays DEF PushRefused, RefuseFrame, Phase
<1>3. ASSUME NEW size, NEW r \in Requests, NEW f, Push(size, r, f) PROVE TimeInv'
  <2>1. /\ adding' = <<f>> /\ f.delay = Delay(r) /\ pc' # "idle"
        /\ pushing' = <<[size |-> size, request |-> r]>>
        /\ UNCHANGED <<timing, timed>>
    BY <1>3 DEF Push, BufferFrame, DirectFrame, Accept, protocol
  <2>2. pushing'[1].request = r /\ adding'[1] = f
    BY <2>1
  <2>3. QED
    BY <2>1, <2>2 DEF TimeInv, Delay, Quantized
<1>4. ASSUME NEW size, NEW r, NEW f, PushFails(size, r, f) PROVE TimeInv'
  BY <1>4, TimeStays DEF PushFails, ChargeFails, Accept, Fail, Phase, TimeInv
<1>5. CASE Encode
  BY <1>5, TimeStays
     DEF Encode, FlushBuffer, QueueFirst, QueueFrame, HoldBack, FlushedForFinish,
         WriteLast, NothingPending, Seal, adapter, protocol
<1>6. CASE EncodeFails \/ PushedTooMuch
  <2>1. adding' = <<>> /\ pushing' = <<>>
    BY <1>6 DEF EncodeFails, FlushFails, QueueFails, LastFails, SealFails, WriteFails,
       Fail, PushedTooMuch, Accepted
  <2>2. UNCHANGED <<timing, timed>>
    BY <1>6 DEF EncodeFails, PushedTooMuch, Phase
  <2>3. QED
    BY <2>1, <2>2, TimeStays
<1>7. CASE Pushed
  <2> DEFINE r == pushing[1].request
  <2>1. /\ adding' = <<>> /\ pushing' = <<>>
        /\ timing' = Phase(r, TRUE)
        /\ timed' = IF r.kind = "timed"
                    THEN [asked |-> timed.asked + r.ticks,
                          given |-> timed.given + adding[1].delay]
                    ELSE timed
    BY <1>7 DEF Pushed, Accepted
  <2>2. adding # <<>>
    <3>1. Len(adding) = 1
      BY <1>0, <1>7 DEF Pushed, Accepted, Control
    <3>2. adding = <<>> => Len(adding) = 0
      BY EmptySeq
    <3>3. QED
      BY <3>1, <3>2
  <2>3. r \in Requests /\ adding[1].delay = Delay(r)
    BY <2>2 DEF TimeInv
  <2>4. r.ticks \in Nat
    BY <2>3, AnimationAssumption
  <2>5. CASE r.kind = "timed"
    <3>1. timing' = timing + r.ticks /\ timing \in Nat
      BY <2>1, <2>5 DEF Phase, TimeInv
    <3>2. adding[1].delay = Centiseconds(timing + r.ticks) - Centiseconds(timing)
      BY <2>3, <2>5 DEF Delay, Quantized
    <3>3. timed.asked = timing /\ timed.given = Centiseconds(timing)
      BY DEF TimeInv
    <3>4. Centiseconds(timing + r.ticks) \in Int /\ Centiseconds(timing) \in Int
      BY <2>4, <3>1, Rounding
    <3>5. timed.given + adding[1].delay = Centiseconds(timing + r.ticks)
      BY <3>2, <3>3, <3>4
    <3>6. timed' = [asked |-> timing + r.ticks, given |-> Centiseconds(timing + r.ticks)]
      BY <2>1, <2>5, <3>3, <3>5
    <3>7. timed' = [asked |-> timing', given |-> Centiseconds(timing)']
      BY <3>1, <3>6 DEF Centiseconds
    <3>8. timing' \in Nat
      BY <2>4, <3>1
    <3>9. adding' = <<>> /\ pushing' = <<>>
      BY <2>1, Zenon
    <3>10. QED
      BY <3>7, <3>8, <3>9, Zenon DEF TimeInv
  <2>6. CASE r.kind # "timed"
    BY <2>1, <2>6, TimeStays DEF Phase
  <2>7. QED
    BY <2>5, <2>6
<1>8. CASE Consume
  BY <1>8, TimeStays DEF Consume, ConsumeOutput, control, adapter, protocol
<1>9. CASE FinishFrames \/ FinishRefused
  BY <1>9, TimeStays DEF FinishFrames, Finish, FinishRefused, RefuseFinish, adapter, protocol
<1>10. QED
  BY <1>1, <1>2, <1>3, <1>4, <1>5, <1>6, <1>7, <1>8, <1>9 DEF AnimationNext

(* The delays given to timed frames add up to the durations asked for, to  *)
(* half a centisecond, for any durations, any mix with other pushes and    *)
(* any refusals and failures (push_frame_timed).                           *)
THEOREM TimingDoesNotDrift == AnimationSpec => []NoDrift
<1>1. AnimationInit => TimeInv
  <2>1. Centiseconds(0) = 0
    BY DEF Centiseconds, Tick
  <2>2. QED
    BY <2>1 DEF AnimationInit, Init, TimeInv
<1>2. EncoderInv /\ TimeInv /\ [AnimationNext]_<<vars, adapter>> => TimeInv'
  <2> SUFFICES ASSUME TimeInv, UNCHANGED <<vars, adapter>> PROVE TimeInv'
    BY TimeInvStep
  <2>1. UNCHANGED <<timing, timed, adding, pushing, pc>>
    BY DEF vars, control, adapter, protocol
  <2>2. QED
    BY <2>1, TimeStays
<1>3. TimeInv => NoDrift
  BY Rounding DEF TimeInv, NoDrift
<1>4. QED
  BY <1>1, <1>2, <1>3, EncoderInvariance, PTL DEF AnimationSpec

-----------------------------------------------------------------------------
(* The lag.  What the encoder may withhold never grows: the palette buffer  *)
(* comes to an end, and no configuration changes.  A frame that was kept    *)
(* was accepted.                                                            *)
LagInv ==
  /\ begun => MaxHeldFrames <= lag
  /\ lag \in Nat
  /\ kept \in Seq(Inputs)
  /\ Len(kept) <= Len(accepted)

LEMMA HeldNeverGrows ==
  ASSUME IInv, [Next]_vars
  PROVE  /\ MaxHeldFrames' <= MaxHeldFrames
         /\ MaxHeldFrames \in Nat /\ MaxHeldFrames' \in Nat
<1>1. config' = config /\ (computed => computed')
  BY DEF Next, Step, BufferFrame, DirectFrame, ChargeFails, RefuseFrame, RefuseFinish,
     Finish, ConsumeOutput, FlushBuffer, FlushFails, QueueFirst, QueueFrame, QueueFails,
     HoldBack, WriteFails, Accepted, FlushedForFinish, WriteLast, NothingPending,
     LastFails, Seal, SealFails, Fail, stream, vars
<1>2. config.bufferFrames \in Nat
  BY CountTypes
<1>3. Buffers' => Buffers
  BY <1>1 DEF Buffers
<1> DEFINE n == config.bufferFrames
<1>4. /\ MaxHeldFrames = IF Buffers /\ n > 2 THEN n - 1 ELSE 1
      /\ MaxHeldFrames' = IF Buffers' /\ n > 2 THEN n - 1 ELSE 1
  BY <1>1 DEF MaxHeldFrames
<1> HIDE DEF n
<1>5. QED
  BY <1>2, <1>3, <1>4 DEF n

LEMMA LagIsCounted ==
  AnimationSpec => [](begun /\ pc = "idle" /\ ~failed => Len(kept) - frameIndex <= lag)
<1>1. AnimationInit => LagInv /\ IInv /\ CountInv
  <2>1. AnimationInit => LagInv
    BY EmptySeq DEF AnimationInit, Init, LagInv
  <2>2. QED
    BY <2>1, InitIInv, InitCount DEF AnimationInit
<1>2. ASSUME LagInv, IInv, CountInv, [AnimationNext]_<<vars, adapter>>
      PROVE  LagInv' /\ IInv' /\ CountInv'
  <2>1. [Next]_vars
    BY <1>2, EncoderStep
  <2>2. IInv' /\ CountInv'
    BY <1>2, <2>1, NextIInv, NextCount
  <2>3. MaxHeldFrames' <= MaxHeldFrames /\ MaxHeldFrames \in Nat /\ MaxHeldFrames' \in Nat
    BY <1>2, <2>1, HeldNeverGrows
  <2>4. (begun => MaxHeldFrames <= lag)' /\ lag' \in Nat
    <3>1. CASE UNCHANGED <<begun, lag>>
      BY <1>2, <2>3, <3>1 DEF LagInv
    <3>2. ASSUME NEW size, NEW count, Begin(size, count)
          PROVE  MaxHeldFrames' <= lag' /\ lag' \in Nat
      BY <2>3, <3>2 DEF Begin
    <3>3. QED
      BY <1>2, <3>1, <3>2
         DEF AnimationNext, PushRefused, Push, PushFails, Encode, EncodeFails, Pushed,
             PushedTooMuch, Consume, FinishFrames, FinishRefused, adapter, protocol
  <2>5. adding \in Seq(Inputs) /\ accepted \in Seq(Inputs) /\ kept \in Seq(Inputs)
        /\ Len(accepted) \in Nat /\ Len(adding) \in Nat /\ Len(kept) \in Nat
        /\ Len(kept) <= Len(accepted)
    BY <1>2, LenProperties DEF IInv, TypeOK, LagInv
  <2>6. accepted' \in {accepted, accepted \o adding}
    BY <2>1 DEF Next, Step, BufferFrame, DirectFrame, ChargeFails, RefuseFrame,
       RefuseFinish, Finish, ConsumeOutput, FlushBuffer, FlushFails, QueueFirst,
       QueueFrame, QueueFails, HoldBack, WriteFails, Accepted, FlushedForFinish,
       WriteLast, NothingPending, LastFails, Seal, SealFails, Fail, control, vars
  <2>7. /\ accepted \o adding \in Seq(Inputs) /\ kept \o adding \in Seq(Inputs)
        /\ Len(accepted \o adding) = Len(accepted) + Len(adding)
        /\ Len(kept \o adding) = Len(kept) + Len(adding)
    BY <2>5, ConcatProperties
  <2>8. kept' \in Seq(Inputs) /\ Len(kept') <= Len(accepted')
    <3>1. CASE Pushed
      <4>1. kept' = kept \o adding /\ accepted' = accepted \o adding
        BY <3>1 DEF Pushed, Accepted
      <4> DEFINE k == Len(kept)
                 n == Len(accepted)
                 d == Len(adding)
      <4>2. k \in Nat /\ n \in Nat /\ d \in Nat /\ k <= n
        BY <2>5
      <4> HIDE DEF k, n, d
      <4>3. k + d <= n + d
        BY ONLY <4>2
      <4>4. QED
        BY <2>7, <4>1, <4>3 DEF k, n, d
    <3>2. CASE ~Pushed
      <4>1. kept' = kept
        BY <1>2, <3>2 DEF AnimationNext, Begin, PushRefused, Push, PushFails, Encode,
           EncodeFails, PushedTooMuch, Consume, FinishFrames, FinishRefused, adapter,
           protocol
      <4> DEFINE k == Len(kept)
                 n == Len(accepted)
                 d == Len(adding)
      <4>2. k \in Nat /\ n \in Nat /\ d \in Nat /\ k <= n
        BY <2>5
      <4>3. Len(accepted') \in {n, n + d}
        BY <2>6, <2>7
      <4> HIDE DEF k, n, d
      <4>4. k <= n + d
        BY ONLY <4>2
      <4>5. QED
        BY <2>5, <4>1, <4>2, <4>3, <4>4 DEF k
    <3>3. QED
      BY <3>1, <3>2
  <2>9. QED
    BY <2>2, <2>4, <2>8 DEF LagInv
<1>3. ASSUME LagInv, IInv, CountInv, begun, pc = "idle", ~failed
      PROVE  Len(kept) - frameIndex <= lag
  <2>1. Len(accepted) - frameIndex <= MaxHeldFrames
    BY <1>3, WithheldAsPromised DEF HeldFramesBounded
  <2> DEFINE k == Len(kept)
             n == Len(accepted)
             h == MaxHeldFrames
  <2>2. k \in Nat /\ n \in Nat /\ frameIndex \in Nat /\ h \in Nat /\ lag \in Nat
    BY <1>3, CountTypes, LenProperties DEF LagInv, MaxHeldFrames
  <2>3. k <= n /\ n - frameIndex <= h /\ h <= lag
    BY <1>3, <2>1 DEF LagInv
  <2> HIDE DEF k, n, h
  <2>4. k - frameIndex <= lag
    BY ONLY <2>2, <2>3
  <2>5. QED
    BY <2>4 DEF k
<1>4. QED
  BY <1>1, <1>2, <1>3, PTL DEF AnimationSpec

(* Between calls, until one fails, no more of the pushed frames are missing *)
(* from the stream than begin promised before any frame was known, for every*)
(* configuration, limit and order of calls (begin, max_held_frames).        *)
THEOREM LagIsKept == AnimationSpec => []LagHolds
<1>1. ASSUME begun /\ pc = "idle" /\ ~failed => Len(kept) - frameIndex <= lag, StreamInOrder
      PROVE  LagHolds
  BY <1>1 DEF LagHolds, StreamInOrder
<1>2. QED
  BY <1>1, LagIsCounted, DrivesTheEncoder, StreamsInOrder, PTL

-----------------------------------------------------------------------------
(***************************************************************************)
(* The viewer.  What a block shows depends on what is behind it, which is  *)
(* what the block before it leaves; the encoder made it for exactly that.  *)
(***************************************************************************)

\* The whole of a canvas, and a diff of two.
Pictures(g, new) ==
  g.rect = Whole /\ g.image = [p \in Points |-> IndexOf(new[p])]

Differs(g, new, old) ==
  g.rect = DiffRect(new, old) /\ g.image = DiffFrame(new, old).image

\* No tolerance: pixels are alike when they are the same.
Exact == \A p, q \in Pixel : <<p, q>> \in Alike => p = q

(* The whole of a canvas shows it where what is behind its transparent     *)
(* pixels is transparent.                                                  *)
LEMMA WholeShows ==
  ASSUME NEW g, NEW new \in [Points -> Pixel], NEW base, Pictures(g, new),
         \A p \in Points : new[p] = Transparent => base[p] = Transparent
  PROVE  Blit(base, g) = new
<1>1. Clipped(g) = Points
  BY WholeIsInside, InsideIsUnclipped DEF Clipped, Pictures
<1>2. ASSUME NEW p \in Points
      PROVE  (IF p \in Clipped(g) /\ g.image[p] # Skip THEN g.image[p] ELSE base[p]) = new[p]
  <2>1. g.image[p] = IndexOf(new[p])
    BY DEF Pictures
  <2>2. new[p] \in Pixel /\ Skip \notin Pixel
    BY CanvasAssumption DEF Pixel
  <2>3. QED
    BY <1>1, <2>1, <2>2 DEF IndexOf
<1>3. Blit(base, g) = [p \in Points |-> new[p]]
  BY <1>2 DEF Blit
<1>4. QED
  BY <1>3

(* A diff shows its canvas on the one it was made against.                 *)
LEMMA DiffShows ==
  ASSUME Exact, NEW g, NEW new \in [Points -> Pixel], NEW old \in [Points -> Pixel],
         Differs(g, new, old), ~NeedsCanvasClear(old, new)
  PROVE  Blit(old, g) = new
<1> DEFINE rect == DiffRect(new, old)
           changed == Changed(new, old)
           drawn == [p \in Area(rect) |-> IF p \in changed THEN IndexOf(new[p]) ELSE Skip]
<1>1. Clipped(g) = Area(rect) /\ changed \subseteq Area(rect)
  BY ChangedIsInside, InsideIsUnclipped DEF Clipped, Differs
<1>2. g.image = drawn
  BY DEF Differs, DiffFrame
<1>3. \A p \in Points : p \notin changed => <<new[p], old[p]>> \in Alike
  BY DEF Changed
<1> HIDE DEF rect, changed
<1>4. ASSUME NEW p \in Points
      PROVE  (IF p \in Clipped(g) /\ g.image[p] # Skip THEN g.image[p] ELSE old[p]) = new[p]
  <2>1. new[p] \in Pixel /\ old[p] \in Pixel /\ Skip \notin Pixel
    BY CanvasAssumption DEF Pixel
  <2>2. new[p] = Transparent => old[p] = Transparent
    BY DEF NeedsCanvasClear
  <2>3. CASE p \in changed
    <3>1. g.image[p] = IndexOf(new[p]) /\ p \in Clipped(g)
      BY <1>1, <1>2, <2>3
    <3>2. QED
      BY <2>1, <2>2, <3>1 DEF IndexOf
  <2>4. CASE p \notin changed
    <3>1. p \in Clipped(g) => g.image[p] = Skip
      BY <1>1, <1>2, <2>4
    <3>2. new[p] = old[p]
      BY <1>3, <2>1, <2>4 DEF Exact
    <3>3. QED
      BY <3>1, <3>2
  <2>5. QED
    BY <2>3, <2>4
<1>5. Blit(old, g) = [p \in Points |-> new[p]]
  BY <1>4 DEF Blit
<1>6. QED
  BY <1>5

(* What a block leaves: its canvas, or nothing of it.                      *)
LEMMA Leaves ==
  ASSUME NEW g, NEW c \in [Points -> Pixel], NEW b, g.dispose \in {"keep", "background"},
         g.dispose = "background" => g.rect = Whole
  PROVE  Disposed(c, DisposalFor(g, b)) = IF g.dispose = "background" THEN Blank ELSE c
<1> DEFINE d == DisposalFor(g, b)
<1>1. d.method = g.dispose /\ d.area = Clipped(g)
  BY DEF DisposalFor
<1> HIDE DEF d
<1>2. CASE g.dispose = "background"
  <2>1. d.area = Points
    BY <1>1, <1>2, WholeIsInside, InsideIsUnclipped DEF Clipped
  <2>2. QED
    BY <1>1, <1>2, <2>1 DEF Disposed, Fill, Blank, d
<1>3. CASE g.dispose = "keep"
  BY <1>1, <1>3 DEF Disposed, d
<1>4. QED
  BY <1>2, <1>3

-----------------------------------------------------------------------------
(***************************************************************************)
(* The blocks.  Each frame of the file draws the frame of its number on    *)
(* what the block before it leaves there, also when a failure was the last *)
(* that was written.                                                       *)
(***************************************************************************)

\* Frame i of the file F, whose frames are those of line, read with the table t.
Draws(F, i, line, t) ==
  LET k == FramesIn(F, i)
      g == F[i]
  IN /\ k <= Len(line)
     /\ g.delay = line[k].delay
     /\ g.dispose \in {"keep", "background"}
     /\ g.dispose = "background" => g.rect = Whole
     /\ (IF g.table = "omitted" THEN t ELSE g.table) = g.indices
     /\ k > 1 => /\ i > 1 /\ F[i - 1].kind = "frame"
                 /\ F[i - 1].dispose = "background"
                      <=> NeedsCanvasClear(line[k - 1].pixels, line[k].pixels)
     /\ \/ Pictures(g, line[k].pixels)
        \/ /\ k > 1 /\ F[i - 1].dispose = "keep"
           /\ Differs(g, line[k].pixels, line[k - 1].pixels)

AllDrawn(F, line, t) ==
  \A i \in 1 .. Len(F) : F[i].kind = "frame" => Draws(F, i, line, t)

LEMMA SameDraws ==
  ASSUME NEW F, NEW G, NEW line, NEW t, NEW i \in Nat, i > 0,
         \A j \in 1 .. i : G[j] = F[j] /\ FramesIn(G, j) = FramesIn(F, j),
         FramesIn(F, i) \in Nat, FramesIn(F, i) > 1 => i > 1, Draws(F, i, line, t)
  PROVE  Draws(G, i, line, t)
<1>1. G[i] = F[i] /\ FramesIn(G, i) = FramesIn(F, i)
  OBVIOUS
<1>2. CASE i > 1
  <2>1. G[i - 1] = F[i - 1]
    BY <1>2
  <2>2. QED
    BY <1>1, <2>1 DEF Draws
<1>3. CASE ~(i > 1)
  <2>1. ~(FramesIn(F, i) > 1)
    BY <1>3
  <2>2. QED
    BY <1>1, <2>1 DEF Draws
<1>4. QED
  BY <1>2, <1>3

LEMMA DrawnAppend ==
  ASSUME NEW S, NEW F \in Seq(S), NEW b, NEW line, NEW t, AllDrawn(F, line, t),
         b.kind = "frame" => Draws(Append(F, b), Len(F) + 1, line, t)
  PROVE  AllDrawn(Append(F, b), line, t)
<1> DEFINE G == Append(F, b)
           m == Len(F) + 1
<1>1. OneMore(F, b, G)
  BY BlockAppended, Zenon
<1>2. /\ Len(F) \in Nat /\ Len(G) = m /\ G[m] = b /\ m \in Nat
      /\ \A i \in 1 .. Len(F) : G[i] = F[i] /\ FramesIn(G, i) = FramesIn(F, i)
      /\ b.kind = "frame" => Draws(G, m, line, t)
  BY <1>1 DEF OneMore
<1> HIDE DEF G
<1> SUFFICES ASSUME NEW i \in 1 .. Len(G), G[i].kind = "frame" PROVE Draws(G, i, line, t)
  BY DEF AllDrawn, G
<1>3. CASE i = m
  BY <1>2, <1>3
<1>4. CASE i \in 1 .. Len(F)
  <2>1. Draws(F, i, line, t)
    BY <1>2, <1>4 DEF AllDrawn
  <2>2. i \in Nat /\ i > 0 /\ \A j \in 1 .. i : j \in 1 .. Len(F)
    BY <1>2, <1>4
  <2>3. \A j \in 1 .. i : G[j] = F[j] /\ FramesIn(G, j) = FramesIn(F, j)
    BY <1>2, <2>2
  <2>4. FramesIn(F, i) \in Nat
    BY <2>2, FrameSet
  <2>5. FramesIn(F, i) > 1 => i > 1
    BY <2>1, <2>4 DEF Draws
  <2>6. QED
    BY ONLY <2>1, <2>2, <2>3, <2>4, <2>5, SameDraws
<1>5. QED
  BY <1>2, <1>3, <1>4

(* What is added to the line behind the frames does not matter.            *)
LEMMA DrawnLineGrows ==
  ASSUME NEW S, NEW F \in Seq(S), NEW line, NEW line2, NEW t, AllDrawn(F, line, t),
         Len(line) \in Nat, Len(line2) \in Nat, Len(line) <= Len(line2),
         \A k \in 1 .. Len(line) : line2[k] = line[k]
  PROVE  AllDrawn(F, line2, t)
<1> SUFFICES ASSUME NEW i \in 1 .. Len(F), F[i].kind = "frame" PROVE Draws(F, i, line2, t)
  BY DEF AllDrawn
<1> DEFINE k == FramesIn(F, i)
<1>1. Draws(F, i, line, t)
  BY DEF AllDrawn
<1>2. k \in Nat /\ k >= 1
  <2>1. Len(F) \in Nat
    BY LenProperties
  <2>2. QED
    BY <2>1, FrameWithin
<1>3. k <= Len(line)
  BY <1>1 DEF Draws
<1> HIDE DEF k
<1>4. line2[k] = line[k] /\ k <= Len(line2)
  BY <1>2, <1>3
<1>5. k > 1 => line2[k - 1] = line[k - 1]
  BY <1>2, <1>3
<1>6. QED
  BY <1>1, <1>4, <1>5 DEF Draws, k

-----------------------------------------------------------------------------
\* The table a frame made now is read with is the palette it was made for.
TableInv ==
  /\ computed => table = "shared"
  /\ Buffers => table = "deferred"
  /\ pc = "flush" => Buffers
  /\ ~(config.shared /\ config.palette)

DrawnInv == AllDrawn(File, accepted, table)

\* How the last block disposes of its canvas, and what the next may be diffed
\* against.
AheadInv ==
  ~failed =>
    /\ IF Line = <<>> THEN firstAlpha = "unknown"
       ELSE firstAlpha = IF HasAlpha(Line[1].pixels) THEN "alpha" ELSE "opaque"
    /\ pc \notin {"seal", "done"} /\ frameIndex > 0 =>
         /\ pending # <<>>
         /\ Len(File) > 0 /\ File[Len(File)].kind = "frame"
         /\ File[Len(File)].dispose = "background"
              <=> NeedsCanvasClear(Line[frameIndex].pixels, Line[frameIndex + 1].pixels)
    /\ pc \notin {"seal", "done"} /\ previous # <<>> =>
         /\ frameIndex > 0
         /\ previous[1] = Line[frameIndex].pixels
         /\ File[Len(File)].dispose = "keep"
    /\ pc = "seal" \/ reply = "file" =>
         \A i \in 1 .. Len(File) :
           File[i].kind = "frame" /\ FramesIn(File, i) = frameIndex =>
             (File[i].dispose = "background" <=> firstAlpha = "alpha")

PictureInv == TableInv /\ DrawnInv /\ AheadInv

(* What prepare_frame and clear_disposal make.                             *)
LEMMA PreparedIs ==
  ASSUME IInv, TableInv, NEW f, NEW clear \in BOOLEAN, NEW g \in Prepared(f, clear)
  PROVE  /\ g.kind = "frame" /\ g.delay = f.delay
         /\ g.dispose = IF clear THEN "background" ELSE "keep"
         /\ clear => g.rect = Whole
         /\ (IF g.table = "omitted" THEN table ELSE g.table) = g.indices
         /\ \/ Pictures(g, f.pixels)
            \/ /\ ~clear /\ previous # <<>>
               /\ Differs(g, f.pixels, previous[1])
<1>1. PICK d \in Drawings(f, clear), c \in Colourings :
        g = [kind |-> "frame", rect |-> d.rect, image |-> d.image, delay |-> f.delay,
             dispose |-> IF clear THEN "background" ELSE "keep",
             table |-> c.table, indices |-> c.indices]
  BY DEF Prepared
<1>2. /\ g.kind = "frame" /\ g.rect = d.rect /\ g.image = d.image /\ g.delay = f.delay
      /\ g.dispose = IF clear THEN "background" ELSE "keep"
      /\ g.table = c.table /\ g.indices = c.indices
  BY <1>1
<1>3. (IF c.table = "omitted" THEN table ELSE c.table) = c.indices
  <2>1. CASE c = [table |-> "own", indices |-> "own"]
    BY <2>1
  <2>2. CASE c # [table |-> "own", indices |-> "own"]
    <3>1. computed /\ c = [table |-> IF table \in {"config", "shared"} THEN "omitted" ELSE "shared",
                           indices |-> "shared"]
      BY <2>2 DEF Colourings
    <3>2. table = "shared"
      BY <3>1 DEF TableInv
    <3>3. QED
      BY <3>1, <3>2
  <2>3. QED
    BY <2>1, <2>2
<1>4. CASE d = WholeFrame(f.pixels)
  <2>1. Pictures(g, f.pixels) /\ g.rect = Whole
    BY <1>2, <1>4 DEF WholeFrame, Pictures
  <2>2. QED
    BY <1>2, <1>3, <2>1
<1>5. CASE d # WholeFrame(f.pixels)
  <2>1. PICK old \in ToSet(DiffAgainst(clear)) : d = DiffFrame(f.pixels, old)
    BY <1>5 DEF Drawings
  <2>2. ~clear /\ old \in ToSet(previous)
    <3>1. ToSet(<<>>) = {}
      BY DEF ToSet
    <3>2. QED
      BY <2>1, <3>1 DEF DiffAgainst
  <2>3. previous # <<>> /\ old = previous[1]
    <3>1. previous \in Seq([Points -> Pixel]) /\ Len(previous) <= 1
      BY DEF IInv, TypeOK
    <3>2. PICK i \in DOMAIN previous : old = previous[i]
      BY <2>2 DEF ToSet
    <3>3. i = 1 /\ Len(previous) = 1
      <4>1. Len(previous) \in Nat /\ DOMAIN previous = 1 .. Len(previous)
        BY <3>1, LenProperties
      <4>2. QED
        BY <3>1, <3>2, <4>1
    <3>4. QED
      BY <3>1, <3>2, <3>3, EmptySeq
  <2>4. Differs(g, f.pixels, previous[1])
    <3>1. d.rect = DiffRect(f.pixels, old)
      BY <2>1 DEF DiffFrame
    <3>2. QED
      BY <1>2, <2>1, <2>3, <3>1 DEF Differs
  <2>5. QED
    BY <1>2, <1>3, <2>2, <2>3, <2>4
<1>6. QED
  BY <1>4, <1>5

(* The frame held back is the next of the accepted ones, and what is made   *)
(* of it draws it on what the last block leaves.                            *)
Writing ==
  /\ ~failed /\ reply # "file" /\ pending # <<>>
  /\ pc \in {"queue", "last"}
  /\ frameIndex < Len(accepted)

\* Where the next block goes: behind the file, or behind a repeat extension
\* in front of the first frame.
Place(F) == F = File \/ (F = Append(File, Loop) /\ frameIndex = 0)

LEMMA PlaceIs ==
  ASSUME IInv, OutputType, StreamInv, DrawnInv, Writing, NEW F, Place(F)
  PROVE  /\ \E S : F \in Seq(S)
         /\ AllDrawn(F, accepted, table)
         /\ FramesIn(F, Len(F)) = frameIndex
<1>1. PICK S : File \in Seq(S)
  BY FileType
<1>2. AllDrawn(File, accepted, table)
  BY DEF DrawnInv
<1>3. FramesIn(File, Len(File)) = frameIndex
  BY StreamFacts DEF Writing, FileIs
<1>4. CASE F = File
  BY <1>1, <1>2, <1>3, <1>4
<1>5. CASE F = Append(File, Loop) /\ frameIndex = 0
  <2> DEFINE l == Loop
  <2>1. l.kind # "frame"
    BY DEF Loop
  <2> HIDE DEF l
  <2>2. AllDrawn(Append(File, l), accepted, table)
    BY ONLY <1>1, <1>2, <2>1, DrawnAppend
  <2>3. OneMore(File, l, Append(File, l)) /\ Append(File, l) \in Seq(S \cup {l})
    BY <1>1, BlockAppended, Zenon
  <2> DEFINE G == Append(File, l)
  <2>4. F = G
    BY <1>5 DEF l
  <2>5. OneMore(File, l, G) /\ G \in Seq(S \cup {l}) /\ AllDrawn(G, accepted, table)
    BY <2>2, <2>3
  <2> HIDE DEF G
  <2>6. Len(G) = Len(File) + 1 /\ FramesIn(G, Len(File) + 1) = FramesIn(File, Len(File)) + 0
    BY <2>1, <2>5 DEF OneMore
  <2>7. FramesIn(G, Len(G)) = frameIndex
    BY <1>3, <1>5, <2>6
  <2>8. QED
    BY <2>4, <2>5, <2>7
<1>6. QED
  BY <1>4, <1>5 DEF Place

LEMMA AppendDraws ==
  ASSUME IInv, CountInv, OutputType, StreamInv, PictureInv, Writing,
         NEW clear \in BOOLEAN, NEW g \in Prepared(pending[1], clear), NEW F, Place(F)
  PROVE  /\ AllDrawn(Append(F, g), accepted, table)
         /\ Len(Append(F, g)) = Len(F) + 1 /\ Len(F) \in Nat
         /\ Append(F, g)[Len(F) + 1] = g
         /\ \A i \in 1 .. Len(F) : FramesIn(Append(F, g), i) <= frameIndex
<1> DEFINE n == frameIndex
           G == Append(F, g)
           m == Len(F) + 1
           f == pending[1]
<1>1. PICK S : F \in Seq(S)
  BY PlaceIs DEF PictureInv
<1>2. AllDrawn(F, accepted, table) /\ FramesIn(F, Len(F)) = n
  BY PlaceIs DEF PictureInv
<1>3. OneMore(F, g, G)
  BY <1>1, BlockAppended, Zenon
<1>4. /\ g.kind = "frame" /\ g.delay = f.delay
      /\ g.dispose = IF clear THEN "background" ELSE "keep"
      /\ clear => g.rect = Whole
      /\ (IF g.table = "omitted" THEN table ELSE g.table) = g.indices
      /\ \/ Pictures(g, f.pixels)
         \/ /\ ~clear /\ previous # <<>>
            /\ Differs(g, f.pixels, previous[1])
  BY PreparedIs DEF PictureInv
<1>5. /\ n \in Nat /\ Len(accepted) \in Nat /\ n < Len(accepted)
      /\ Line[n + 1] = f /\ Line[n + 1] = accepted[n + 1]
      /\ n > 0 => Line[n] = accepted[n]
  <2>1. n \in Nat /\ Len(accepted) \in Nat /\ Len(pending) = 1 /\ n < Len(accepted)
    BY CountTypes DEF Writing
  <2>2. \A i \in 1 .. Len(accepted) : Line[i] = accepted[i]
    BY LineType
  <2>3. \A j \in 1 .. 1 : Line[n + j] = pending[j]
    BY <2>1, StreamFacts DEF Awaiting, Awaits, Writing
  <2> HIDE DEF n
  <2>4. n + 1 \in 1 .. Len(accepted) /\ 1 \in 1 .. 1 /\ (n > 0 => n \in 1 .. Len(accepted))
    BY <2>1
  <2>5. QED
    BY <2>1, <2>2, <2>3, <2>4
<1>6. /\ Len(F) \in Nat /\ Len(G) = m /\ G[m] = g
      /\ \A i \in 1 .. Len(F) : G[i] = F[i] /\ FramesIn(G, i) = FramesIn(F, i)
      /\ FramesIn(G, m) = n + 1
  BY <1>2, <1>3, <1>4 DEF OneMore
<1>7. ASSUME n > 0
      PROVE  /\ m > 1 /\ G[m - 1].kind = "frame"
             /\ G[m - 1].dispose = "background"
                  <=> NeedsCanvasClear(accepted[n].pixels, accepted[n + 1].pixels)
             /\ previous # <<>> => /\ previous[1] = accepted[n].pixels
                                   /\ G[m - 1].dispose = "keep"
  <2>1. F = File
    BY <1>7 DEF Place
  <2>2. /\ Len(File) > 0 /\ File[Len(File)].kind = "frame"
        /\ File[Len(File)].dispose = "background"
             <=> NeedsCanvasClear(Line[n].pixels, Line[n + 1].pixels)
        /\ previous # <<>> => /\ previous[1] = Line[n].pixels
                              /\ File[Len(File)].dispose = "keep"
    BY <1>7 DEF PictureInv, AheadInv, Writing
  <2>3. G[m - 1] = File[Len(File)] /\ m > 1
    <3>1. Len(F) \in 1 .. Len(F) /\ m - 1 = Len(F) /\ m > 1
      BY <1>6, <2>1, <2>2
    <3>2. QED
      BY <1>6, <2>1, <3>1
  <2>4. QED
    BY <1>5, <1>7, <2>2, <2>3
<1>8. previous # <<>> => n > 0
  BY DEF PictureInv, AheadInv, Writing
<1>9. Draws(G, m, accepted, table)
  <2> DEFINE k == FramesIn(G, m)
  <2>1. k = n + 1 /\ k <= Len(accepted) /\ accepted[k] = f /\ G[m] = g
    BY <1>5, <1>6
  <2>2. k > 1 => n > 0 /\ k - 1 = n
    BY <1>5, <2>1
  <2> HIDE DEF k, G, m, n, f
  <2>3. g.delay = accepted[k].delay /\ g.dispose \in {"keep", "background"}
        /\ (g.dispose = "background" => g.rect = Whole)
    BY <1>4, <2>1
  <2>4. k > 1 => /\ m > 1 /\ G[m - 1].kind = "frame"
                 /\ G[m - 1].dispose = "background"
                      <=> NeedsCanvasClear(accepted[k - 1].pixels, accepted[k].pixels)
    BY <1>7, <2>1, <2>2
  <2>5. \/ Pictures(g, accepted[k].pixels)
        \/ /\ k > 1 /\ G[m - 1].dispose = "keep"
           /\ Differs(g, accepted[k].pixels, accepted[k - 1].pixels)
    <3>1. CASE Pictures(g, f.pixels)
      BY <2>1, <3>1
    <3>2. CASE previous # <<>> /\ Differs(g, f.pixels, previous[1])
      <4>1. n > 0 /\ previous[1] = accepted[n].pixels /\ G[m - 1].dispose = "keep"
        BY <1>7, <1>8, <3>2
      <4>2. n \in Nat /\ k = n + 1
        BY <1>5, <2>1
      <4>3. k > 1 /\ k - 1 = n
        BY <4>1, <4>2
      <4>4. QED
        BY <2>1, <3>2, <4>1, <4>3
    <3>3. QED
      BY <1>4, <3>1, <3>2
  <2>6. QED
    BY <1>4, <2>1, <2>3, <2>4, <2>5 DEF Draws, k
<1>10. AllDrawn(G, accepted, table)
  BY ONLY <1>1, <1>2, <1>9, DrawnAppend
<1>11. \A i \in 1 .. Len(F) : FramesIn(G, i) <= n
  <2>1. \A i \in 1 .. Len(F) : FramesIn(F, i) <= FramesIn(F, Len(F))
    BY <1>6, FrameWithin
  <2>2. QED
    BY <1>2, <1>6, <2>1
<1>12. QED
  BY <1>6, <1>10, <1>11

(* The beginnings of one block, and of two.                                *)
LEMMA FirstOfOne ==
  ASSUME NEW x, NEW n \in 0 .. 1
  PROVE  SubSeq(<<x>>, 1, n) = IF n = 0 THEN <<>> ELSE <<x>>
<1> DEFINE s == <<x>>
<1>1. s \in Seq({x}) /\ Len(s) = 1
  OBVIOUS
<1> HIDE DEF s
<1>2. SubSeq(s, 1, Len(s)) = s
  BY <1>1, SubSeqFull
<1>3. 1 \in Int /\ 0 \in Int /\ 0 < 1
  OBVIOUS
<1>4. SubSeq(s, 1, 0) = <<>>
  BY ONLY <1>3, SubSeqEmpty
<1>5. n = 0 \/ n = 1
  OBVIOUS
<1>6. QED
  BY <1>1, <1>2, <1>4, <1>5 DEF s

LEMMA FirstOfTwo ==
  ASSUME NEW x, NEW y, NEW n \in 0 .. 2
  PROVE  SubSeq(<<x, y>>, 1, n) = IF n = 0 THEN <<>> ELSE IF n = 1 THEN <<x>> ELSE <<x, y>>
<1> DEFINE s == <<x, y>>
<1>1. s \in Seq({x, y}) /\ Len(s) = 2 /\ s[1] = x
  OBVIOUS
<1> HIDE DEF s
<1>2. SubSeq(s, 1, Len(s)) = s
  BY <1>1, SubSeqFull
<1>3. 1 \in Int /\ 0 \in Int /\ 0 < 1
  OBVIOUS
<1>4. SubSeq(s, 1, 0) = <<>>
  BY ONLY <1>3, SubSeqEmpty
<1>5. SubSeq(s, 1, 1) = <<x>>
  <2>1. 1 \in 1 .. Len(s) /\ 1 \in 1 .. 1
    BY <1>1
  <2>2. SubSeq(s, 1, 1) = SubSeq(s, 1, 1 - 1) \o <<s[1]>>
    BY ONLY <1>1, <2>1, SubSeqRecursiveSecond
  <2>3. 1 - 1 = 0 /\ <<>> \o <<x>> = <<x>>
    OBVIOUS
  <2>4. QED
    BY <1>1, <1>4, <2>2, <2>3
<1>6. n = 0 \/ n = 1 \/ n = 2
  OBVIOUS
<1>7. QED
  BY <1>1, <1>2, <1>4, <1>5, <1>6 DEF s

LEMMA OneThenAnother ==
  ASSUME NEW x, NEW y
  PROVE  <<x>> \o <<y>> = <<x, y>> /\ Len(<<x>>) = 1
<1> DEFINE S == {x, y}
           a == <<x>>
           b == <<y>>
           c == <<x, y>>
<1>1. a \in Seq(S) /\ b \in Seq(S) /\ c \in Seq(S)
  OBVIOUS
<1>2. Len(a) = 1 /\ a[1] = x
  OBVIOUS
<1>3. Len(b) = 1 /\ b[1] = y
  OBVIOUS
<1>4. Len(c) = 2 /\ c[1] = x /\ c[2] = y
  OBVIOUS
<1> HIDE DEF S, a, b, c
<1>5. a \o b \in Seq(S) /\ Len(a \o b) = 2
  BY <1>1, <1>2, <1>3, ConcatProperties
<1>6. (a \o b)[1] = x /\ (a \o b)[2] = y
  <2>1. \A i \in 1 .. Len(a) + Len(b) : (a \o b)[i] = IF i <= Len(a) THEN a[i] ELSE b[i - Len(a)]
    BY ONLY <1>1, ConcatProperties
  <2>2. /\ 1 \in 1 .. Len(a) + Len(b) /\ 2 \in 1 .. Len(a) + Len(b)
        /\ 1 <= Len(a) /\ ~(2 <= Len(a)) /\ 2 - Len(a) = 1
    BY <1>2, <1>3
  <2>3. QED
    BY <1>2, <1>3, <2>1, <2>2
<1>7. \A i \in 1 .. Len(c) : (a \o b)[i] = c[i]
  <2>1. \A i \in 1 .. Len(c) : i = 1 \/ i = 2
    BY <1>4
  <2>2. QED
    BY <1>4, <1>6, <2>1
<1>8. a \o b = c
  BY ONLY <1>1, <1>4, <1>5, <1>7, SeqEqual
<1>9. QED
  BY <1>2, <1>8 DEF a, b, c

\* Where writing puts a frame.
Behind == IF RepeatNow = <<>> THEN File ELSE Append(File, Loop)

(* What a failing write leaves in the file: nothing, a repeat extension, or *)
(* also a frame or a part of one.                                           *)
LEMMA FileOfFailure ==
  ASSUME OutputType, NEW f, NEW clear, WriteFails(f, clear)
  PROVE  \E g \in Prepared(f, clear) \cup {Fragment} :
           \/ File' = File
           \/ RepeatNow # <<>> /\ File' = Append(File, Loop)
           \/ File' = Append(Behind, g)
<1>1. PICK g \in Prepared(f, clear) \cup {Fragment} : \E n \in 0 .. Len(RepeatNow) + 1 :
        out' = out \o SubSeq(RepeatNow \o <<g>>, 1, n)
  BY DEF WriteFails
<1>2. PICK n \in 0 .. Len(RepeatNow) + 1 :
        out' = out \o SubSeq(RepeatNow \o <<g>>, 1, n)
  BY <1>1
<1>3. PICK S : out \in Seq(S) /\ sent \in Seq(S)
  BY DEF OutputType
<1> DEFINE T == S \cup {Loop, g}
           l == Loop
           r == RepeatNow
           o == out
           s == sent
           F == File
           x == SubSeq(r \o <<g>>, 1, n)
<1>4. /\ o \in Seq(T) /\ s \in Seq(T) /\ <<l>> \in Seq(T) /\ <<g>> \in Seq(T)
      /\ <<l, g>> \in Seq(T) /\ l \in T /\ g \in T /\ F = s \o o
  <2>1. S \subseteq T /\ l \in T /\ g \in T
    OBVIOUS
  <2> HIDE DEF T, l
  <2>2. o \in Seq(T) /\ s \in Seq(T)
    BY <1>3, <2>1, SeqMonotonic, Zenon
  <2>3. <<l>> \in Seq(T) /\ <<g>> \in Seq(T) /\ <<l, g>> \in Seq(T)
    BY <2>1
  <2>4. QED
    BY <2>1, <2>2, <2>3 DEF File
<1>5. r = <<>> \/ r = <<l>>
  BY DEF RepeatNow, Repeat
<1>6. File' = s \o (o \o x)
  <2>1. sent' = sent
    BY DEF WriteFails
  <2>2. QED
    BY <1>2, <2>1 DEF File
<1>7. n \in 0 .. Len(r) + 1
  OBVIOUS
<1>8. x = <<>> \/ (r = <<>> /\ x = <<g>>) \/ (r = <<l>> /\ (x = <<l>> \/ x = <<l, g>>))
  <2> HIDE DEF l, r
  <2>1. CASE r = <<>>
    <3>1. r \o <<g>> = <<g>> /\ n \in 0 .. 1
      BY <1>7, <2>1
    <3>2. x = SubSeq(<<g>>, 1, n)
      BY <3>1
    <3>3. QED
      BY <2>1, <3>1, <3>2, FirstOfOne
  <2>2. CASE r = <<l>>
    <3>1. r \o <<g>> = <<l, g>> /\ n \in 0 .. 2
      <4>1. <<l>> \o <<g>> = <<l, g>> /\ Len(<<l>>) = 1
        BY ONLY OneThenAnother
      <4>2. n \in 0 .. Len(<<l>>) + 1
        BY <1>7, <2>2
      <4>3. QED
        BY <2>2, <4>1, <4>2
    <3>2. x = SubSeq(<<l, g>>, 1, n)
      BY <3>1
    <3>3. QED
      BY <2>2, <3>1, <3>2, FirstOfTwo
  <2>3. QED
    BY <1>5, <2>1, <2>2
<1> HIDE DEF T, l, r, o, s, F, x
<1>9. /\ F \in Seq(T) /\ F \o <<g>> = Append(F, g) /\ F \o <<l>> = Append(F, l)
      /\ Append(F, l) \in Seq(T) /\ F \o <<l, g>> = Append(Append(F, l), g)
      /\ F \o <<>> = F
  <2>1. F \in Seq(T)
    BY <1>4, ConcatProperties
  <2>2. F \o <<g>> = Append(F, g) /\ F \o <<l>> = Append(F, l)
        /\ Append(F, l) \in Seq(T) /\ F \o <<>> = F
    BY <1>4, <2>1, OneAppended
  <2>3. F \o <<l, g>> = Append(Append(F, l), g)
    <3>1. <<l, g>> = <<l>> \o <<g>>
      OBVIOUS
    <3>2. F \o (<<l>> \o <<g>>) = (F \o <<l>>) \o <<g>>
      BY <1>4, <2>1, ConcatAssociative
    <3>3. Append(F, l) \o <<g>> = Append(Append(F, l), g)
      BY <1>4, <2>2, OneAppended
    <3>4. QED
      BY <2>2, <3>1, <3>2, <3>3
  <2>4. QED
    BY <2>1, <2>2, <2>3
<1>10. x \in Seq(T) /\ File' = F \o x
  <2>1. <<>> \in Seq(T)
    OBVIOUS
  <2>2. x \in Seq(T)
    BY <1>4, <1>8, <2>1
  <2>3. s \o (o \o x) = (s \o o) \o x
    BY <1>4, <2>2, ConcatAssociative
  <2>4. QED
    BY <1>4, <1>6, <2>2, <2>3
<1>11. <<l>> # <<>>
  OBVIOUS
<1>12. \/ File' = File
       \/ RepeatNow # <<>> /\ File' = Append(File, Loop)
       \/ File' = Append(Behind, g)
  <2>1. CASE x = <<>>
    BY <1>9, <1>10, <2>1 DEF F
  <2>2. CASE r = <<>> /\ x = <<g>>
    BY <1>9, <1>10, <2>2 DEF F, r, Behind
  <2>3. CASE r = <<l>> /\ x = <<l>>
    BY <1>9, <1>10, <1>11, <2>3 DEF F, r, l
  <2>4. CASE r = <<l>> /\ x = <<l, g>>
    BY <1>9, <1>10, <1>11, <2>4 DEF F, r, l, Behind
  <2>5. QED
    BY <1>8, <2>1, <2>2, <2>3, <2>4
<1>13. QED
  BY <1>12

LEMMA BehindIsPlace ==
  ASSUME IInv, StreamInv, Writing
  PROVE  /\ Place(Behind)
         /\ RepeatNow # <<>> => frameIndex = 0
<1>1. repeatWritten <=> config.repeats /\ frameIndex > 0
  BY StreamFacts DEF Writing
<1>2. frameIndex \in Nat
  BY CountTypes
<1>3. RepeatNow # <<>> => frameIndex = 0
  BY <1>1, <1>2 DEF RepeatNow, Repeat
<1>4. QED
  BY <1>3 DEF Behind, Place

(* The frames a call writes are accepted ones: the one being added is the   *)
(* last of the line.                                                        *)
LEMMA WritingIs ==
  ASSUME IInv, CountInv,
         \/ pc = "queue" /\ queued # <<>> /\ pending # <<>>
         \/ pc = "last" /\ pending # <<>>
  PROVE  Writing
<1>1. ~failed
  BY DEF IInv, Control
<1>2. reply # "file"
  BY DEF CountInv, Phases
<1>3. frameIndex + Len(pending) + Len(buffered) + Len(queued) = Len(accepted) + Len(adding)
  BY <1>1 DEF CountInv, Conserved
<1>4. /\ Len(pending) = 1 /\ Len(buffered) \in Nat /\ Len(queued) \in Nat
      /\ Len(accepted) \in Nat /\ Len(adding) \in Nat /\ frameIndex \in Nat
  BY CountTypes
<1>5. CASE pc = "queue" /\ queued # <<>>
  <2>1. Len(queued) >= 1 /\ Len(adding) <= 1
    <3>1. queued \in Seq(Inputs) /\ Len(adding) <= 1
      BY DEF IInv, TypeOK
    <3>2. QED
      BY <1>5, <3>1, EmptySeq
  <2>2. frameIndex < Len(accepted)
    BY <1>3, <1>4, <2>1
  <2>3. QED
    BY <1>1, <1>2, <1>5, <2>2 DEF Writing
<1>6. CASE pc = "last"
  <2>1. adding = <<>> /\ Len(adding) = 0
    BY <1>6, CountTypes DEF CountInv, Phases
  <2>2. frameIndex < Len(accepted)
    BY <1>3, <1>4, <2>1
  <2>3. QED
    BY <1>1, <1>2, <1>6, <2>2 DEF Writing
<1>7. QED
  BY <1>5, <1>6

(* A failing write keeps what is drawn: what it may have written is right.  *)
LEMMA FailingDraws ==
  ASSUME IInv, CountInv, OutputType, StreamInv, PictureInv, Writing,
         NEW clear \in BOOLEAN, WriteFails(pending[1], clear)
  PROVE  DrawnInv'
<1>1. UNCHANGED <<accepted, table>>
  BY DEF WriteFails, Fail
<1>2. PICK g \in Prepared(pending[1], clear) \cup {Fragment} :
           \/ File' = File
           \/ RepeatNow # <<>> /\ File' = Append(File, Loop)
           \/ File' = Append(Behind, g)
  BY FileOfFailure
<1>3. Place(Behind) /\ Place(File)
      /\ (RepeatNow # <<>> => Place(Append(File, Loop)))
  BY BehindIsPlace DEF Place
<1>4. CASE File' = File \/ (RepeatNow # <<>> /\ File' = Append(File, Loop))
  <2>1. Place(File')
    BY <1>3, <1>4
  <2>2. PICK F : F = File'
    OBVIOUS
  <2>3. AllDrawn(F, accepted, table)
    BY <2>1, <2>2, PlaceIs DEF PictureInv
  <2>4. QED
    BY <1>1, <2>2, <2>3 DEF DrawnInv
<1>5. CASE File' = Append(Behind, g)
  <2>1. CASE g \in Prepared(pending[1], clear)
    <3>1. AllDrawn(Append(Behind, g), accepted, table)
      BY <1>3, <2>1, AppendDraws
    <3>2. QED
      BY <1>1, <1>5, <3>1 DEF DrawnInv
  <2>2. CASE g = Fragment
    <3>1. g.kind # "frame"
      BY <2>2 DEF Fragment
    <3>2. PICK S : Behind \in Seq(S)
      BY <1>3, PlaceIs DEF PictureInv
    <3>3. AllDrawn(Behind, accepted, table)
      BY <1>3, PlaceIs DEF PictureInv
    <3>4. AllDrawn(Append(Behind, g), accepted, table)
      BY ONLY <3>1, <3>2, <3>3, DrawnAppend
    <3>5. QED
      BY <1>1, <1>5, <3>4 DEF DrawnInv
  <2>3. QED
    BY <2>1, <2>2
<1>6. QED
  BY <1>2, <1>4, <1>5

(* A step that moves no frame and makes no block.                          *)
LEMMA QuietAhead ==
  ASSUME AheadInv, ~failed' => ~failed, File' = File, Line' = Line,
         UNCHANGED <<firstAlpha, frameIndex, pending, previous>>,
         pc' \notin {"seal", "done"} => pc \notin {"seal", "done"},
         pc' = "seal" => pc = "seal",
         reply' = "file" => pc = "seal" \/ reply = "file"
  PROVE  AheadInv'
BY DEF AheadInv

(* ... nor is accepted, except as what is added is.                        *)
LEMMA QuietDrawn ==
  ASSUME OutputType, IInv, DrawnInv, File' = File,
         UNCHANGED table, accepted' = accepted \/ accepted' = Line
  PROVE  DrawnInv'
<1>1. PICK S : File \in Seq(S)
  BY FileType
<1>2. PICK G : G = File'
  OBVIOUS
<1>3. PICK a : a = accepted'
  OBVIOUS
<1>4. AllDrawn(File, accepted, table)
  BY DEF DrawnInv
<1>5. /\ Len(accepted) \in Nat /\ Len(a) \in Nat /\ Len(accepted) <= Len(a)
      /\ \A k \in 1 .. Len(accepted) : a[k] = accepted[k]
  <2>1. Len(accepted) \in Nat /\ Len(adding) \in Nat
    BY CountTypes
  <2>2. Len(Line) = Len(accepted) + Len(adding)
        /\ \A k \in 1 .. Len(accepted) : Line[k] = accepted[k]
    BY LineType
  <2>3. a = accepted \/ a = Line
    BY <1>3
  <2>4. QED
    BY <2>1, <2>2, <2>3
<1>6. AllDrawn(File, a, table)
  BY ONLY <1>1, <1>4, <1>5, DrawnLineGrows
<1>7. QED
  BY <1>3, <1>6 DEF DrawnInv

LEMMA OtherPicture ==
  ASSUME IInv, CountInv, OutputType, StreamInv, PictureInv,
         \/ Accepted \/ RefuseFrame \/ RefuseFinish \/ Finish \/ FlushedForFinish
         \/ (\E n \in 1 .. Len(out) : ConsumeOutput(n))
         \/ UNCHANGED vars
  PROVE  PictureInv'
<1>1. UNCHANGED <<config, table, computed, firstAlpha, frameIndex, pending, previous>>
      /\ (~failed' => ~failed)
  BY DEF Accepted, RefuseFrame, RefuseFinish, Finish, FlushedForFinish,
     ConsumeOutput, vars, frames, stream, control
<1>2. File' = File
  <2>1. ASSUME NEW n \in 1 .. Len(out), ConsumeOutput(n) PROVE File' = File
    BY <2>1, TakenOutput DEF OutputType, File
  <2>2. ASSUME UNCHANGED <<out, sent>> PROVE File' = File
    BY <2>2 DEF File
  <2>3. QED
    BY <2>1, <2>2 DEF Accepted, RefuseFrame, RefuseFinish, Finish, FlushedForFinish,
       vars, stream
<1>3. Line' = Line /\ (accepted' = accepted \/ accepted' = Line)
  <2>1. CASE Accepted
    <3>1. accepted' = Line /\ adding' = <<>> /\ Line \in Seq(Inputs)
      BY <2>1, LineType DEF Accepted, Line
    <3>2. QED
      BY <3>1, ConcatEmptySeq DEF Line
  <2>2. CASE UNCHANGED <<accepted, adding>>
    BY <2>2 DEF Line
  <2>3. QED
    BY <2>1, <2>2 DEF RefuseFrame, RefuseFinish, Finish, FlushedForFinish,
       ConsumeOutput, vars, control
<1>4. /\ pc' \notin {"seal", "done"} => pc \notin {"seal", "done"}
      /\ pc' = "seal" => pc = "seal"
      /\ reply' = "file" => reply = "file"
  BY DEF Accepted, RefuseFrame, RefuseFinish, Finish, FlushedForFinish,
     ConsumeOutput, vars, control
<1>5. AheadInv'
  BY <1>1, <1>2, <1>3, <1>4, QuietAhead DEF PictureInv
<1>6. DrawnInv'
  BY <1>1, <1>2, <1>3, QuietDrawn DEF PictureInv
<1>7. TableInv'
  <2>1. Buffers' <=> Buffers
    BY <1>1 DEF Buffers
  <2>2. pc' = "flush" => Buffers
    <3>1. CASE Finish
      BY <3>1 DEF Finish, CountInv, BufferKept
    <3>2. CASE ~Finish
      BY <3>2 DEF PictureInv, TableInv, Accepted, RefuseFrame, RefuseFinish,
         FlushedForFinish, ConsumeOutput, vars, control
    <3>3. QED
      BY <3>1, <3>2
  <2>3. QED
    BY <1>1, <2>1, <2>2 DEF PictureInv, TableInv
<1>8. QED
  BY <1>5, <1>6, <1>7 DEF PictureInv

(* A frame joins the line; the first decides how the last is disposed of.  *)
LEMMA JoinPicture ==
  ASSUME IInv, CountInv, OutputType, StreamInv, PictureInv, NEW f \in Inputs,
         BufferFrame(f) \/ DirectFrame(f)
  PROVE  PictureInv'
<1>1. /\ Accept(f) /\ adding' = <<f>>
      /\ UNCHANGED <<config, pending, previous, stream, failed, reply, accepted>>
      /\ pc' \in {"flush", "queue"}
      /\ pc' = "flush" => Buffers
  BY DEF BufferFrame, DirectFrame
<1>2. /\ ~failed /\ reply # "file" /\ adding = <<>> /\ pc = "idle"
      /\ Len(accepted) = frameIndex + Len(pending) + Len(buffered)
  BY <1>1, AcceptedIsWithin
<1>3. Line = accepted /\ Line \in Seq(Inputs)
  BY <1>2, LineType
<1> DEFINE line == Append(Line, f)
<1>4. Line' = line
  <2>1. Line' = accepted \o <<f>>
    BY <1>1 DEF Line
  <2>2. QED
    BY <1>3, <2>1, OneAppended
<1>5. File' = File /\ table' = table /\ frameIndex' = frameIndex /\ computed' = computed
  BY <1>1 DEF stream, File
<1>6. DrawnInv'
  BY <1>1, <1>5, QuietDrawn DEF PictureInv
<1>7. TableInv'
  BY <1>1, <1>5 DEF PictureInv, TableInv, Buffers
<1>8. AheadInv
  BY DEF PictureInv
<1>9. /\ Len(Line) \in Nat /\ \A i \in 1 .. Len(Line) : line[i] = Line[i]
      /\ line # <<>> /\ (Line = <<>> => line[1] = f)
  BY <1>3
<1>10. Line # <<>> => 1 \in 1 .. Len(Line)
  BY <1>3, EmptySeq
<1>11. firstAlpha' = IF HasAlpha(line[1].pixels) THEN "alpha" ELSE "opaque"
  <2>1. IF Line = <<>> THEN firstAlpha = "unknown"
        ELSE firstAlpha = IF HasAlpha(Line[1].pixels) THEN "alpha" ELSE "opaque"
    BY <1>2, <1>8 DEF AheadInv
  <2>2. firstAlpha' = IF firstAlpha # "unknown" THEN firstAlpha
                      ELSE IF HasAlpha(f.pixels) THEN "alpha" ELSE "opaque"
    BY <1>1 DEF Accept, SeeAlpha
  <2>3. CASE Line = <<>>
    BY <1>9, <2>1, <2>2, <2>3
  <2>4. CASE Line # <<>>
    <3>1. line[1] = Line[1]
      BY <1>9, <1>10, <2>4
    <3> HIDE DEF line
    <3>2. QED
      BY <2>1, <2>2, <2>4, <3>1
  <2>5. QED
    BY <2>3, <2>4
<1>12. frameIndex > 0 =>
         /\ pending # <<>>
         /\ Len(File) > 0 /\ File[Len(File)].kind = "frame"
         /\ File[Len(File)].dispose = "background"
              <=> NeedsCanvasClear(Line[frameIndex].pixels, Line[frameIndex + 1].pixels)
  BY <1>2, <1>8 DEF AheadInv
<1>13. previous # <<>> =>
         /\ frameIndex > 0
         /\ previous[1] = Line[frameIndex].pixels
         /\ File[Len(File)].dispose = "keep"
  BY <1>2, <1>8 DEF AheadInv
<1>14. frameIndex > 0 => /\ line[frameIndex] = Line[frameIndex]
                         /\ line[frameIndex + 1] = Line[frameIndex + 1]
  <2>1. SUFFICES ASSUME frameIndex > 0
                 PROVE  frameIndex \in 1 .. Len(Line) /\ frameIndex + 1 \in 1 .. Len(Line)
    BY <1>9
  <2>2. frameIndex \in Nat /\ Len(pending) = 1 /\ Len(buffered) \in Nat
    BY <1>12, <2>1, CountTypes
  <2>3. QED
    BY <1>2, <1>3, <2>1, <2>2
<1>15. AheadInv'
  <2> HIDE DEF line
  <2>1. previous' = previous /\ pending' = pending /\ pc' \notin {"seal", "done"}
        /\ reply' # "file"
    BY <1>1, <1>2
  <2>2. pc' # "seal"
    BY <1>1
  <2>3. line # <<>>
    BY <1>9 DEF line
  <2>4. QED
    BY <1>4, <1>5, <1>11, <1>12, <1>13, <1>14, <2>1, <2>2, <2>3 DEF AheadInv
<1>16. QED
  BY <1>6, <1>7, <1>15 DEF PictureInv

LEMMA NothingDrawn ==
  ASSUME NEW b, b.kind # "frame", NEW line, NEW t
  PROVE  AllDrawn(<<b>>, line, t)
<1>1. Len(<<b>>) = 1 /\ <<b>>[1] = b
  OBVIOUS
<1>2. \A i \in 1 .. 1 : i = 1
  OBVIOUS
<1>3. QED
  BY <1>1, <1>2 DEF AllDrawn

(* Only an encoder that waits for its palette is flushed: it has written    *)
(* nothing.                                                                 *)
LEMMA FlushPicture ==
  ASSUME IInv, CountInv, OutputType, StreamInv, PictureInv, FlushBuffer
  PROVE  PictureInv'
<1>1. /\ pc = "flush" /\ ~failed /\ computed' = TRUE /\ pc' = "queue"
      /\ UNCHANGED <<config, firstAlpha, pending, previous, frameIndex, sent, failed,
                     adding, reply, accepted>>
  BY DEF FlushBuffer, IInv, Control
<1>2. Buffers /\ table = "deferred" /\ reply # "file"
  BY <1>1 DEF PictureInv, TableInv, CountInv, Phases
<1>3. table' = "shared" /\ out' = out \o <<Header("shared")>>
  BY <1>1, <1>2 DEF FlushBuffer
<1>4. File = <<>> /\ pending = <<>>
  BY <1>1, <1>2, StreamFacts DEF CountInv, BufferKept
<1>5. frameIndex = 0 /\ previous = <<>>
  <2>1. AheadInv /\ frameIndex \in Nat
    BY CountTypes DEF PictureInv
  <2>2. ~(frameIndex > 0)
    BY <1>1, <1>4, <2>1 DEF AheadInv
  <2>3. QED
    BY <1>1, <2>1, <2>2 DEF AheadInv
<1>6. File' = <<Header("shared")>>
  <2>1. PICK S : out \in Seq(S) /\ sent \in Seq(S)
    BY DEF OutputType
  <2>2. out = <<>> /\ sent = <<>>
    BY <1>4, <2>1, ConcatEmptySeq DEF File
  <2>3. <<>> \o <<Header("shared")>> = <<Header("shared")>>
    OBVIOUS
  <2>4. QED
    BY <1>1, <1>3, <2>2, <2>3 DEF File
<1>7. DrawnInv'
  <2>1. Header("shared").kind # "frame"
    BY DEF Header
  <2>2. AllDrawn(<<Header("shared")>>, accepted, "shared")
    BY <2>1, NothingDrawn
  <2>3. QED
    BY <1>1, <1>3, <1>6, <2>2 DEF DrawnInv
<1>8. TableInv'
  BY <1>1, <1>3 DEF PictureInv, TableInv, Buffers
<1>9. AheadInv'
  <2>1. Line' = Line
    BY <1>1 DEF Line
  <2>2. QED
    BY <1>1, <1>2, <1>5, <2>1 DEF PictureInv, AheadInv
<1>10. QED
  BY <1>7, <1>8, <1>9 DEF PictureInv

LEMMA QueueFirstPicture ==
  ASSUME IInv, CountInv, OutputType, StreamInv, PictureInv, QueueFirst
  PROVE  PictureInv'
<1>1. /\ pc = "queue" /\ ~failed /\ pending = <<>>
      /\ UNCHANGED <<config, table, computed, firstAlpha, previous, frameIndex, sent, out,
                     failed, adding, reply, accepted, pc>>
  BY DEF QueueFirst, HoldBack, IInv, Control
<1>2. reply # "file"
  BY <1>1 DEF CountInv, Phases
<1>3. frameIndex = 0 /\ previous = <<>>
  <2>1. AheadInv /\ frameIndex \in Nat
    BY CountTypes DEF PictureInv
  <2>2. ~(frameIndex > 0)
    BY <1>1, <2>1 DEF AheadInv
  <2>3. QED
    BY <1>1, <2>1, <2>2 DEF AheadInv
<1>4. Line' = Line /\ File' = File
  BY <1>1 DEF Line, File
<1>5. DrawnInv'
  BY <1>1, <1>4, QuietDrawn DEF PictureInv
<1>6. TableInv'
  BY <1>1 DEF PictureInv, TableInv, Buffers
<1>7. AheadInv'
  BY <1>1, <1>2, <1>3, <1>4 DEF PictureInv, AheadInv
<1>8. QED
  BY <1>5, <1>6, <1>7 DEF PictureInv

(* What a write leaves: the frame held back, drawn and last in the file.   *)
LEMMA WriteDraws ==
  ASSUME IInv, CountInv, OutputType, StreamInv, PictureInv, Writing,
         NEW clear \in BOOLEAN, WritePending(pending[1], clear), sent' = sent,
         UNCHANGED <<accepted, table>>
  PROVE  /\ DrawnInv'
         /\ Len(File') \in Nat /\ Len(File') > 0 /\ File'[Len(File')].kind = "frame"
         /\ File'[Len(File')].dispose = IF clear THEN "background" ELSE "keep"
         /\ \A i \in 1 .. Len(File') :
              FramesIn(File', i) = frameIndex + 1 => i = Len(File')
<1>1. PICK g \in Prepared(pending[1], clear) :
        File' = IF RepeatNow = <<>> THEN Append(File, g)
                                    ELSE Append(Append(File, Loop), g)
  BY FileOfWrite
<1>2. File' = Append(Behind, g)
  BY <1>1 DEF Behind
<1>3. PICK F : F = Behind
  OBVIOUS
<1>4. Place(F)
  BY <1>3, BehindIsPlace
<1> DEFINE G == Append(F, g)
<1>5. /\ AllDrawn(G, accepted, table)
      /\ Len(G) = Len(F) + 1 /\ Len(F) \in Nat
      /\ G[Len(F) + 1] = g
      /\ \A i \in 1 .. Len(F) : FramesIn(G, i) <= frameIndex
  BY <1>4, AppendDraws
<1>6. g.kind = "frame" /\ g.dispose = IF clear THEN "background" ELSE "keep"
  BY PreparedIs DEF PictureInv
<1>7. File' = G
  BY <1>2, <1>3
<1>8. frameIndex \in Nat
  BY CountTypes
<1> HIDE DEF G
<1>9. \A i \in 1 .. Len(G) : FramesIn(G, i) = frameIndex + 1 => i = Len(G)
  <2>1. \A i \in 1 .. Len(G) : i \in 1 .. Len(F) \/ i = Len(G)
    BY <1>5
  <2>2. \A i \in 1 .. Len(F) : FramesIn(G, i) \in Nat
    BY FrameSet
  <2>3. \A i \in 1 .. Len(F) : FramesIn(G, i) # frameIndex + 1
    BY <1>5, <1>8, <2>2
  <2>4. QED
    BY <2>1, <2>3
<1>10. Len(G) \in Nat /\ Len(G) > 0 /\ G[Len(G)] = g
  BY <1>5
<1>11. DrawnInv'
  BY <1>5, <1>7 DEF DrawnInv
<1>12. QED
  BY <1>6, <1>7, <1>9, <1>10, <1>11

LEMMA QueueFramePicture ==
  ASSUME IInv, CountInv, OutputType, StreamInv, PictureInv, QueueFrame
  PROVE  PictureInv'
<1> DEFINE f == pending[1]
           clear == ClearsBefore(Head(queued))
           n == frameIndex
<1>1. /\ pc = "queue" /\ queued # <<>> /\ pending # <<>>
      /\ WritePending(f, clear)
      /\ pending' = <<Head(queued)>>
      /\ UNCHANGED <<config, firstAlpha, table, computed, sent, failed, pc, adding, reply,
                     accepted>>
  BY DEF QueueFrame, HoldBack
<1>2. Writing
  BY <1>1, WritingIs
<1>3. clear \in BOOLEAN
  BY DEF ClearsBefore, NeedsCanvasClear
<1>4. Line' = Line
  BY <1>1 DEF Line
<1>5. n \in Nat /\ n' = n + 1 /\ Line[n + 1] = f /\ Line[n + 2] = Head(queued)
  <2>1. n \in Nat /\ Len(pending) = 1
    BY <1>1, CountTypes
  <2>2. Len(queued) >= 1 /\ Head(queued) = queued[1]
    <3>1. queued \in Seq(Inputs)
      BY DEF IInv, TypeOK
    <3>2. QED
      BY <1>1, <3>1, HeadTailProperties, EmptySeq
  <2>3. /\ \A j \in 1 .. Len(pending) : Line[n + j] = pending[j]
        /\ \A j \in 1 .. Len(queued) : Line[n + Len(pending) + j] = queued[j]
    BY <1>2, StreamFacts DEF Awaiting, Awaits, Writing
  <2>4. n' = n + 1
    BY <1>1 DEF WritePending
  <2> HIDE DEF n
  <2>5. 1 \in 1 .. Len(pending) /\ 1 \in 1 .. Len(queued) /\ n + Len(pending) + 1 = n + 2
    <3>1. Len(queued) \in Nat
      BY CountTypes
    <3>2. QED
      BY <2>1, <2>2, <3>1
  <2>6. QED
    BY <2>1, <2>2, <2>3, <2>4, <2>5
<1>6. clear <=> NeedsCanvasClear(Line[n + 1].pixels, Line[n + 2].pixels)
  BY <1>5 DEF ClearsBefore
<1> HIDE DEF clear
<1>7. /\ DrawnInv'
      /\ Len(File') \in Nat /\ Len(File') > 0 /\ File'[Len(File')].kind = "frame"
      /\ File'[Len(File')].dispose = IF clear THEN "background" ELSE "keep"
  BY <1>1, <1>2, <1>3, WriteDraws
<1>8. previous' = IF config.transparency /\ ~clear THEN <<f.pixels>> ELSE <<>>
  BY <1>1 DEF WritePending, KeepPrevious
<1>9. TableInv'
  BY <1>1 DEF PictureInv, TableInv, Buffers
<1>10. AheadInv'
  <2>1. n' > 0 /\ Line'[n'] = f /\ Line'[n' + 1] = Line[n + 2]
        /\ pending' # <<>> /\ reply' # "file" /\ pc' = "queue" /\ ~failed
    <3>1. n + 1 + 1 = n + 2 /\ n + 1 > 0
      BY <1>5
    <3>2. <<Head(queued)>> # <<>>
      OBVIOUS
    <3>3. QED
      BY <1>1, <1>2, <1>4, <1>5, <3>1, <3>2 DEF Writing
  <2>2. previous' # <<>> => previous'[1] = f.pixels /\ ~clear
    BY <1>8
  <2>3. IF Line = <<>> THEN firstAlpha = "unknown"
        ELSE firstAlpha = IF HasAlpha(Line[1].pixels) THEN "alpha" ELSE "opaque"
    BY <2>1 DEF PictureInv, AheadInv
  <2>4. File'[Len(File')].dispose = "background"
          <=> NeedsCanvasClear(Line'[n'].pixels, Line'[n' + 1].pixels)
    BY <1>5, <1>6, <1>7, <2>1
  <2>5. previous' # <<>> => previous'[1] = Line'[n'].pixels
                            /\ File'[Len(File')].dispose = "keep"
    BY <1>7, <2>1, <2>2
  <2>6. QED
    BY <1>1, <1>4, <1>7, <2>1, <2>3, <2>4, <2>5 DEF AheadInv
<1>11. QED
  BY <1>7, <1>9, <1>10 DEF PictureInv

LEMMA WriteLastPicture ==
  ASSUME IInv, CountInv, OutputType, StreamInv, PictureInv, WriteLast
  PROVE  PictureInv'
<1>1. /\ pc = "last" /\ pending # <<>> /\ pc' = "seal"
      /\ WritePending(pending[1], ClearsAtEnd)
      /\ UNCHANGED <<config, firstAlpha, table, computed, sent, failed, adding, reply,
                     accepted>>
  BY DEF WriteLast
<1>2. Writing
  BY <1>1, WritingIs
<1>3. ClearsAtEnd \in BOOLEAN /\ frameIndex' = frameIndex + 1
  BY <1>1 DEF ClearsAtEnd, WritePending
<1>4. /\ DrawnInv'
      /\ File'[Len(File')].dispose = IF ClearsAtEnd THEN "background" ELSE "keep"
      /\ \A i \in 1 .. Len(File') :
           FramesIn(File', i) = frameIndex + 1 => i = Len(File')
  BY <1>1, <1>2, <1>3, WriteDraws
<1>5. TableInv'
  BY <1>1 DEF PictureInv, TableInv, Buffers
<1>6. AheadInv'
  <2>1. Line' = Line
    BY <1>1 DEF Line
  <2>2. IF Line = <<>> THEN firstAlpha = "unknown"
        ELSE firstAlpha = IF HasAlpha(Line[1].pixels) THEN "alpha" ELSE "opaque"
    BY <1>2 DEF PictureInv, AheadInv, Writing
  <2>3. \A i \in 1 .. Len(File') :
          FramesIn(File', i) = frameIndex' =>
            (File'[i].dispose = "background" <=> firstAlpha' = "alpha")
    BY <1>1, <1>3, <1>4 DEF ClearsAtEnd
  <2>4. QED
    BY <1>1, <2>1, <2>2, <2>3 DEF AheadInv
<1>7. QED
  BY <1>4, <1>5, <1>6 DEF PictureInv

(* With nothing held back, no frame was ever written.                      *)
LEMMA NothingPendingPicture ==
  ASSUME IInv, CountInv, OutputType, StreamInv, PictureInv, NothingPending
  PROVE  PictureInv'
<1>1. /\ pc = "last" /\ pending = <<>> /\ pc' = "seal" /\ ~failed
      /\ UNCHANGED <<config, firstAlpha, frames, stream, failed, adding, reply, accepted>>
  BY DEF NothingPending, IInv, Control
<1>2. /\ UNCHANGED <<table, computed, frameIndex>>
      /\ Line' = Line /\ File' = File
  BY <1>1 DEF stream, Line, File
<1>3. frameIndex = 0
  <2>1. AheadInv /\ frameIndex \in Nat
    BY CountTypes DEF PictureInv
  <2>2. QED
    BY <1>1, <2>1 DEF AheadInv
<1>4. \A i \in 1 .. Len(File) : File[i].kind = "frame" => FramesIn(File, i) # 0
  <2>1. PICK S : File \in Seq(S)
    BY FileType
  <2>2. Len(File) \in Nat
    BY <2>1, LenProperties
  <2>3. \A i \in 1 .. Len(File) :
          File[i].kind = "frame" => FramesIn(File, i) \in 1 .. FramesIn(File, Len(File))
    BY <2>2, FrameWithin
  <2>4. QED
    BY <2>3
<1>5. DrawnInv'
  BY <1>1, <1>2, QuietDrawn DEF PictureInv
<1>6. TableInv'
  BY <1>1, <1>2 DEF PictureInv, TableInv, Buffers
<1>7. AheadInv'
  BY <1>1, <1>2, <1>3, <1>4 DEF PictureInv, AheadInv
<1>8. QED
  BY <1>5, <1>6, <1>7 DEF PictureInv

LEMMA SealPicture ==
  ASSUME IInv, CountInv, OutputType, StreamInv, PictureInv, Seal
  PROVE  PictureInv'
<1>1. /\ pc = "seal" /\ pc' = "done" /\ ~failed
      /\ sent' = File \o <<Trailer>> /\ out' = <<>>
      /\ UNCHANGED <<config, firstAlpha, frames, table, computed, frameIndex, failed,
                     adding, accepted>>
  BY DEF Seal, IInv, Control, File
<1> DEFINE t == Trailer
           F == File
           G == Append(F, t)
<1>2. PICK S : F \in Seq(S)
  BY FileType
<1>3. File' = G
  <2> DEFINE T == S \cup {t}
  <2>1. F \in Seq(T) /\ t \in T
    BY <1>2, SeqMonotonic
  <2>2. sent' = F \o <<t>>
    BY <1>1
  <2> HIDE DEF T, t, F
  <2>3. F \o <<t>> = Append(F, t) /\ Append(F, t) \in Seq(T)
    BY <2>1, OneAppended
  <2>4. sent' \o <<>> = sent'
    BY <2>2, <2>3, ConcatEmptySeq
  <2>5. QED
    BY <1>1, <2>2, <2>3, <2>4 DEF File
<1>4. t.kind # "frame"
  BY DEF Trailer
<1>5. AllDrawn(F, accepted, table)
  BY DEF PictureInv, DrawnInv
<1>6. OneMore(F, t, G)
  BY <1>2, BlockAppended, Zenon
<1> HIDE DEF t
<1>7. AllDrawn(G, accepted, table)
  BY ONLY <1>2, <1>4, <1>5, DrawnAppend
<1>8. DrawnInv'
  BY <1>1, <1>3, <1>7 DEF DrawnInv
<1>9. TableInv'
  BY <1>1 DEF PictureInv, TableInv, Buffers
<1>10. \A i \in 1 .. Len(F) :
         F[i].kind = "frame" /\ FramesIn(F, i) = frameIndex =>
           (F[i].dispose = "background" <=> firstAlpha = "alpha")
  BY <1>1 DEF PictureInv, AheadInv
<1>11. Line' = Line
       /\ IF Line = <<>> THEN firstAlpha = "unknown"
          ELSE firstAlpha = IF HasAlpha(Line[1].pixels) THEN "alpha" ELSE "opaque"
  BY <1>1 DEF Line, PictureInv, AheadInv
<1> HIDE DEF F, G
<1>12. \A i \in 1 .. Len(G) :
         G[i].kind = "frame" /\ FramesIn(G, i) = frameIndex =>
           (G[i].dispose = "background" <=> firstAlpha = "alpha")
  <2>1. \A i \in 1 .. Len(G) : i \in 1 .. Len(F) \/ G[i] = t
    BY <1>6 DEF OneMore
  <2>2. \A i \in 1 .. Len(F) : G[i] = F[i] /\ FramesIn(G, i) = FramesIn(F, i)
    BY <1>6 DEF OneMore
  <2>3. QED
    BY <1>4, <1>10, <2>1, <2>2
<1>13. AheadInv'
  BY <1>1, <1>3, <1>11, <1>12 DEF AheadInv
<1>14. QED
  BY <1>8, <1>9, <1>13 DEF PictureInv

(* A call that fails may leave what it has made of the frame held back.     *)
LEMMA FailingPicture ==
  ASSUME IInv, CountInv, OutputType, StreamInv, PictureInv,
         \/ \E f \in Inputs : ChargeFails(f)
         \/ FlushFails \/ QueueFails \/ LastFails \/ SealFails
  PROVE  PictureInv'
<1>1. /\ failed' /\ UNCHANGED <<config, accepted, table, computed>>
      /\ pc' \in {"idle", "done"}
  BY DEF ChargeFails, FlushFails, QueueFails, LastFails, SealFails, WriteFails, Fail, stream
<1>2. AheadInv'
  BY <1>1 DEF AheadInv
<1>3. TableInv'
  BY <1>1 DEF PictureInv, TableInv, Buffers
<1>4. DrawnInv'
  <2>1. CASE QueueFails
    <3>1. Writing
      BY <2>1, WritingIs DEF QueueFails
    <3>2. ClearsBefore(Head(queued)) \in BOOLEAN
      BY DEF ClearsBefore, NeedsCanvasClear
    <3>3. QED
      BY <2>1, <3>1, <3>2, FailingDraws DEF QueueFails
  <2>2. CASE LastFails
    <3>1. Writing
      BY <2>2, WritingIs DEF LastFails
    <3>2. ClearsAtEnd \in BOOLEAN
      BY DEF ClearsAtEnd
    <3>3. QED
      BY <2>2, <3>1, <3>2, FailingDraws DEF LastFails
  <2>3. CASE UNCHANGED stream
    <3>1. File' = File
      BY <2>3 DEF stream, File
    <3>2. QED
      BY <1>1, <3>1, QuietDrawn DEF PictureInv
  <2>4. QED
    BY <2>1, <2>2, <2>3 DEF ChargeFails, FlushFails, SealFails
<1>5. QED
  BY <1>2, <1>3, <1>4 DEF PictureInv

LEMMA NextPicture ==
  ASSUME IInv, CountInv, OutputType, StreamInv, PictureInv, [Next]_vars
  PROVE  PictureInv'
<1>1. ASSUME NEW f \in Inputs, BufferFrame(f) \/ DirectFrame(f) \/ ChargeFails(f)
      PROVE  PictureInv'
  BY <1>1, JoinPicture, FailingPicture
<1>2. QED
  BY <1>1, FlushPicture, QueueFirstPicture, QueueFramePicture, WriteLastPicture,
     NothingPendingPicture, SealPicture, FailingPicture, OtherPicture DEF Next, Step

\* No configuration has a global palette and a shared one as well.
OnePalette == \A c \in Configs : ~(c.shared /\ c.palette)

LEMMA InitPicture == OnePalette /\ Init => PictureInv
<1> SUFFICES ASSUME OnePalette, Init PROVE PictureInv
  OBVIOUS
<1>1. StreamInv /\ OutputType /\ ~failed /\ frameIndex = 0
  BY InitStream, InitOutput DEF Init
<1>2. TableInv
  BY DEF Init, TableInv, Buffers, OnePalette
<1>3. DrawnInv
  <2>1. PICK S : File \in Seq(S)
    BY <1>1, FileType
  <2>2. Len(File) \in Nat
    BY <2>1, LenProperties
  <2>3. FramesIn(File, Len(File)) = 0
    BY <1>1, StreamFacts DEF FileIs
  <2>4. \A i \in 1 .. Len(File) :
          File[i].kind = "frame" => FramesIn(File, i) \in 1 .. FramesIn(File, Len(File))
    BY <2>2, FrameWithin
  <2>5. \A i \in 1 .. Len(File) : File[i].kind # "frame"
    BY <2>3, <2>4
  <2>6. QED
    BY <2>5 DEF DrawnInv, AllDrawn
<1>4. AheadInv
  <2>1. Line = <<>>
    <3>1. <<>> \o <<>> = <<>>
      OBVIOUS
    <3>2. QED
      BY <3>1 DEF Init, Line
  <2>2. QED
    BY <2>1 DEF Init, AheadInv
<1>5. QED
  BY <1>2, <1>3, <1>4 DEF PictureInv

(* "Never interpret its indices against the old global table", and it is    *)
(* not, unless a configuration has a global palette and a shared one: only  *)
(* then can the table that was written and the one that was computed        *)
(* differ (the encoder_global_table run).                                   *)
THEOREM IndicesKeepTheirTable ==
  ASSUME OnePalette
  PROVE  Spec => []IndexedByItsTable
<1> DEFINE I == IInv /\ CountInv /\ OutputType /\ StreamInv /\ PictureInv
<1>1. Init => I
  BY InitIInv, InitCount, InitOutput, InitStream, InitPicture
<1>2. I /\ [Next]_vars => I'
  BY NextIInv, NextCount, OutputGrows, NextStream, NextPicture
<1>3. I => IndexedByItsTable
  <2> SUFFICES ASSUME I, NEW i \in DOMAIN File, File[i].kind = "frame"
               PROVE  File[i].indices = IF File[i].table = "omitted" THEN table ELSE File[i].table
    BY DEF IndexedByItsTable
  <2>1. i \in 1 .. Len(File)
    BY FileType, LenProperties
  <2>2. Draws(File, i, accepted, table)
    BY <2>1 DEF PictureInv, DrawnInv, AllDrawn
  <2>3. QED
    BY <2>2 DEF Draws
<1> HIDE DEF I
<1>4. QED
  BY <1>1, <1>2, <1>3, PTL DEF Spec

-----------------------------------------------------------------------------
\* A file is handed out whole.
SealedInv == reply = "file" => pc = "done" /\ out = <<>>

(* Behind a file that was returned nothing happens.                        *)
LEMMA FileStays ==
  ASSUME SealedInv, reply = "file", [Next]_vars
  PROVE  UNCHANGED vars
BY DEF SealedInv, Next, Step, BufferFrame, DirectFrame, ChargeFails, Accept, ConsumeOutput,
   RefuseFrame, RefuseFinish, Finish, FlushBuffer, FlushFails, QueueFirst, QueueFrame,
   QueueFails, Accepted, FlushedForFinish, WriteLast, NothingPending, LastFails, Seal,
   SealFails

LEMMA OnlySealReturns ==
  ASSUME [Next]_vars, reply' = "file", reply # "file"
  PROVE  Seal
BY DEF Next, Step, vars, control, BufferFrame, DirectFrame, ChargeFails, ConsumeOutput,
   RefuseFrame, RefuseFinish, Finish, FlushBuffer, FlushFails, QueueFirst, QueueFrame,
   QueueFails, Accepted, FlushedForFinish, WriteLast, NothingPending, LastFails,
   SealFails, HoldBack, Fail, WriteFails

LEMMA NextSealed ==
  ASSUME SealedInv, [Next]_vars PROVE SealedInv'
<1>1. CASE reply = "file"
  BY <1>1, FileStays DEF SealedInv, vars, stream, control
<1>2. CASE reply' = "file" /\ reply # "file"
  BY <1>2, OnlySealReturns DEF Seal, SealedInv
<1>3. CASE reply' # "file"
  BY <1>3 DEF SealedInv
<1>4. QED
  BY <1>1, <1>2, <1>3

(* The line of accepted frames grows by a frame that add_frame returns from. *)
LEMMA AcceptedGrows ==
  ASSUME IInv, CountInv, [Next]_vars
  PROVE  \/ accepted' = accepted /\ ~Accepted
         \/ /\ Accepted /\ reply # "file" /\ reply' # "file"
            /\ adding[1] \in Inputs /\ accepted' = Append(accepted, adding[1])
<1>1. CASE Accepted
  <2>1. Len(adding) = 1 /\ adding \in Seq(Inputs) /\ accepted \in Seq(Inputs)
    BY <1>1 DEF Accepted, IInv, TypeOK, Control
  <2>2. adding[1] \in Inputs /\ adding = <<adding[1]>>
    <3> DEFINE x == adding[1]
               s == <<x>>
    <3>1. x \in Inputs
      BY <2>1
    <3>2. s \in Seq(Inputs) /\ Len(s) = 1 /\ s[1] = x
      BY <3>1
    <3> HIDE DEF s
    <3>3. Len(adding) = Len(s) /\ \A i \in 1 .. Len(adding) : adding[i] = s[i]
      BY <2>1, <3>2
    <3>4. adding = s
      BY ONLY <2>1, <3>2, <3>3, SeqEqual
    <3>5. QED
      BY <3>1, <3>4 DEF s
  <2>3. accepted \o <<adding[1]>> = Append(accepted, adding[1])
    BY <2>1, <2>2, OneAppended
  <2>4. reply # "file" /\ reply' # "file"
    BY <1>1 DEF Accepted, CountInv, Phases
  <2>5. accepted' = accepted \o adding
    BY <1>1 DEF Accepted
  <2>6. QED
    BY <1>1, <2>2, <2>3, <2>4, <2>5
<1>2. CASE ~Accepted
  BY <1>2 DEF Next, Step, vars, control, BufferFrame, DirectFrame, ChargeFails,
     ConsumeOutput, RefuseFrame, RefuseFinish, Finish, FlushBuffer, FlushFails, QueueFirst,
     QueueFrame, QueueFails, FlushedForFinish, WriteLast, NothingPending, LastFails, Seal,
     SealFails, HoldBack, Fail, WriteFails
<1>3. QED
  BY <1>1, <1>2

(* What was handed out stays handed out.                                   *)
LEMMA SentGrows ==
  ASSUME OutputType, [Next]_vars
  PROVE  /\ Len(sent) \in Nat /\ Len(sent') \in Nat /\ Len(sent) <= Len(sent')
         /\ \A i \in 1 .. Len(sent) : sent'[i] = sent[i]
<1>1. PICK S : out \in Seq(S) /\ sent \in Seq(S)
  BY DEF OutputType
<1>2. PICK T : out' \in Seq(T) /\ sent' \in Seq(T)
  BY OutputGrows DEF OutputType
<1>3. Len(sent) \in Nat /\ Len(sent') \in Nat
  BY <1>1, <1>2, LenProperties
<1>4. CASE sent' = sent
  BY <1>3, <1>4
<1>5. ASSUME NEW U, NEW x \in Seq(U), sent' = sent \o x
      PROVE  /\ Len(sent) <= Len(sent')
             /\ \A i \in 1 .. Len(sent) : sent'[i] = sent[i]
  <2> DEFINE V == S \cup U
             s == sent
             z == s \o x
  <2>1. s \in Seq(V) /\ x \in Seq(V)
    <3>1. S \subseteq V /\ U \subseteq V
      OBVIOUS
    <3> HIDE DEF V
    <3>2. QED
      BY <1>1, <1>5, <3>1, SeqMonotonic, Zenon
  <2>2. Len(s) \in Nat /\ Len(x) \in Nat
    BY <1>1, <1>5, LenProperties
  <2>3. /\ Len(s \o x) = Len(s) + Len(x)
        /\ \A i \in 1 .. Len(s) + Len(x) : (s \o x)[i] = IF i <= Len(s) THEN s[i] ELSE x[i - Len(s)]
    BY ONLY <2>1, ConcatProperties
  <2>4. sent' = z
    BY <1>5
  <2>5. Len(s) <= Len(z) /\ \A i \in 1 .. Len(s) : z[i] = s[i]
    <3> HIDE DEF s
    <3>1. QED
      BY <2>2, <2>3
  <2>6. QED
    BY <2>4, <2>5
<1>6. ASSUME NEW n \in 1 .. Len(out), ConsumeOutput(n)
      PROVE  \E U : \E x \in Seq(U) : sent' = sent \o x
  <2>1. sent' = sent \o SubSeq(out, 1, n)
    BY <1>6 DEF ConsumeOutput
  <2>2. SubSeq(out, 1, n) \in Seq(S)
    <3>1. Len(out) \in Nat /\ n <= Len(out)
      BY <1>1, LenProperties
    <3>2. \A i \in 1 .. n : out[i] \in S
      BY <1>1, <3>1
    <3>3. QED
      BY <3>2, SubSeqProperties
  <2>3. QED
    BY <2>1, <2>2
<1>7. ASSUME Seal
      PROVE  \E U : \E x \in Seq(U) : sent' = sent \o x
  <2> DEFINE t == <<Trailer>>
             U == S \cup {Trailer}
  <2>1. sent' = (sent \o out) \o t
    BY <1>7 DEF Seal
  <2>2. t \in Seq(U) /\ S \subseteq U
    OBVIOUS
  <2> HIDE DEF t, U
  <2>3. sent \in Seq(U) /\ out \in Seq(U)
    BY <1>1, <2>2, SeqMonotonic, Zenon
  <2>4. out \o t \in Seq(U) /\ (sent \o out) \o t = sent \o (out \o t)
    BY <2>2, <2>3, ConcatProperties, ConcatAssociative
  <2>5. QED
    BY <2>1, <2>4
<1>8. CASE Emits
  BY <1>4, <1>8, <1>3 DEF Emits
<1>9. QED
  BY <1>3, <1>5, <1>6, <1>7, <1>8, StepsOfOutput

-----------------------------------------------------------------------------
(***************************************************************************)
(* The viewer shows what is drawn.  What is behind the next frame is what  *)
(* the last one shown leaves; in a loop, what the last of the file leaves. *)
(***************************************************************************)

\* Block i of the output was the last to be shown.
OnScreen(i) ==
  /\ sent[i].kind = "frame"
  /\ Disposed(shown, disposal) =
       IF sent[i].dispose = "background" THEN Blank
       ELSE accepted[FramesIn(sent, i)].pixels

ScreenInv ==
  \/ seen = <<>> /\ Disposed(shown, disposal) = Blank
  \/ \E i \in 1 .. Len(sent) :
       /\ OnScreen(i)
       /\ \/ FramesIn(sent, i) = Len(seen)
          \/ seen = <<>> /\ reply = "file" /\ FramesIn(sent, i) = Len(accepted)

SeenInv ==
  /\ seen \in Seq(Inputs)
  /\ Len(seen) <= Arrived
  /\ Len(seen) <= Len(accepted)
  /\ \A m \in 1 .. Len(seen) : seen[m] = accepted[m]

ViewerInv == SealedInv /\ SeenInv /\ ScreenInv

LEMMA InitViewer == InitAll => ViewerInv
<1> SUFFICES ASSUME InitAll PROVE ViewerInv
  OBVIOUS
<1>1. SealedInv
  BY DEF InitAll, Init, SealedInv
<1>2. seen = <<>> /\ Len(seen) = 0 /\ seen \in Seq(Inputs)
  BY DEF InitAll
<1>3. Len(accepted) = 0 /\ sent = <<>>
  BY DEF InitAll, Init
<1>4. Arrived \in Nat
  <2>1. Len(sent) \in Nat
    BY <1>3
  <2>2. QED
    BY <2>1, FrameSet DEF Arrived
<1>5. SeenInv
  BY <1>2, <1>3, <1>4 DEF SeenInv
<1>6. ScreenInv
  BY <1>2 DEF InitAll, ScreenInv, Disposed, DefaultDisposal
<1>7. QED
  BY <1>1, <1>5, <1>6 DEF ViewerInv

(* What was handed out begins the file.                                    *)
LEMMA SentBegins ==
  ASSUME OutputType
  PROVE  /\ Len(sent) \in Nat /\ Len(File) \in Nat /\ Len(sent) <= Len(File)
         /\ \A i \in 1 .. Len(sent) : File[i] = sent[i] /\ FramesIn(File, i) = FramesIn(sent, i)
<1>1. PICK S : out \in Seq(S) /\ sent \in Seq(S)
  BY DEF OutputType
<1>2. Len(sent) \in Nat /\ Len(out) \in Nat
  BY <1>1, LenProperties
<1>3. /\ Len(File) = Len(sent) + Len(out)
      /\ \A i \in 1 .. Len(sent) + Len(out) :
           File[i] = IF i <= Len(sent) THEN sent[i] ELSE out[i - Len(sent)]
  BY <1>1, ConcatProperties DEF File
<1>4. \A i \in 1 .. Len(sent) : File[i] = sent[i]
  BY <1>2, <1>3
<1>5. ASSUME NEW i \in 1 .. Len(sent) PROVE FramesIn(File, i) = FramesIn(sent, i)
  <2>1. i \in Nat /\ \A j \in 1 .. i : j \in 1 .. Len(sent)
    BY <1>2
  <2>2. \A j \in 1 .. i : File[j] = sent[j]
    BY <1>4, <2>1
  <2>3. QED
    BY ONLY <2>1, <2>2, SameFrames
<1>6. QED
  BY <1>2, <1>3, <1>4, <1>5

\* Two frames are not of one number.
LEMMA FrameAlone ==
  ASSUME NEW F, NEW i \in Nat, NEW j \in Nat, i > 0, j > 0,
         F[i].kind = "frame", F[j].kind = "frame", FramesIn(F, i) = FramesIn(F, j)
  PROVE  i = j
<1>1. ASSUME NEW a \in Nat, NEW b \in Nat, a > 0, a < b, F[b].kind = "frame",
             FramesIn(F, a) = FramesIn(F, b)
      PROVE  FALSE
  <2> DEFINE c == b - 1
  <2>1. c \in Nat /\ a \in 1 .. c /\ c + 1 = b
    BY <1>1
  <2> HIDE DEF c
  <2>2. FramesIn(F, c + 1) = FramesIn(F, c) + (IF F[c + 1].kind = "frame" THEN 1 ELSE 0)
    BY <2>1, FrameCounted
  <2>3. FramesIn(F, a) <= FramesIn(F, c) /\ FramesIn(F, a) \in Nat /\ FramesIn(F, c) \in Nat
    BY <2>1, FrameWithin
  <2>4. FramesIn(F, b) = FramesIn(F, c) + 1
    BY <1>1, <2>1, <2>2
  <2>5. QED
    BY <1>1, <2>3, <2>4
<1>2. ~(i < j) /\ ~(j < i)
  BY <1>1
<1>3. QED
  BY <1>2

(* What a returned file has arrived of.                                    *)
LEMMA AllArrived ==
  ASSUME IInv, CountInv, OutputType, StreamInv, SealedInv, reply = "file"
  PROVE  Arrived = Len(accepted) /\ sent = File /\ ~failed /\ frameIndex = Len(accepted)
<1>1. ~failed /\ frameIndex = Len(accepted)
  BY FinishedIsWhole DEF CountInv, Phases
<1>2. FramesIn(File, Len(File)) = frameIndex
  BY <1>1, StreamFacts DEF FileIs
<1>3. sent = File
  <2>1. PICK S : out \in Seq(S) /\ sent \in Seq(S)
    BY DEF OutputType
  <2>2. out = <<>>
    BY DEF SealedInv
  <2>3. QED
    BY <2>1, <2>2, ConcatEmptySeq DEF File
<1>4. QED
  BY <1>1, <1>2, <1>3 DEF Arrived

LEMMA RewindViewer ==
  ASSUME IInv, CountInv, OutputType, StreamInv, ViewerInv, Rewind
  PROVE  ViewerInv' /\ seen = accepted
<1>1. /\ reply = "file" /\ seen # <<>> /\ Len(seen) = Arrived /\ seen' = <<>>
      /\ UNCHANGED <<reply, pc, out, sent, accepted, shown, disposal>>
  BY DEF Rewind, vars, stream, control
<1>2. Len(seen) = Len(accepted)
  BY <1>1, AllArrived DEF ViewerInv
<1>3. seen = accepted
  <2>1. seen \in Seq(Inputs) /\ accepted \in Seq(Inputs)
        /\ \A m \in 1 .. Len(seen) : seen[m] = accepted[m]
    BY LineType DEF ViewerInv, SeenInv
  <2>2. QED
    BY ONLY <1>2, <2>1, SeqEqual
<1>4. PICK i \in 1 .. Len(sent) : OnScreen(i) /\ FramesIn(sent, i) = Len(seen)
  BY <1>1 DEF ViewerInv, ScreenInv
<1>5. ScreenInv'
  BY <1>1, <1>2, <1>4 DEF ScreenInv, OnScreen
<1>6. SeenInv'
  <2>1. Len(<<>>) = 0 /\ <<>> \in Seq(Inputs) /\ Len(seen) \in Nat /\ Len(accepted) \in Nat
    BY CountTypes DEF ViewerInv, SeenInv
  <2>2. Arrived' = Arrived
    BY <1>1 DEF Arrived
  <2>3. Len(seen') = 0 /\ seen' \in Seq(Inputs) /\ Arrived' \in Nat /\ Len(accepted') \in Nat
    BY <1>1, <2>1, <2>2
  <2>4. QED
    BY <2>3 DEF SeenInv
<1>7. SealedInv'
  BY <1>1 DEF ViewerInv, SealedInv
<1>8. QED
  BY <1>3, <1>5, <1>6, <1>7 DEF ViewerInv

(* The encoder goes on: what was shown stays what it was.                  *)
LEMMA EncodeViewer ==
  ASSUME IInv, CountInv, OutputType, ViewerInv, [Next]_vars, UNCHANGED viewer
  PROVE  ViewerInv'
<1>1. SealedInv' /\ UNCHANGED <<seen, shown, disposal>>
  BY NextSealed DEF ViewerInv, viewer
<1>2. /\ Len(sent) \in Nat /\ Len(sent') \in Nat /\ Len(sent) <= Len(sent')
      /\ \A i \in 1 .. Len(sent) : sent'[i] = sent[i]
  BY SentGrows
<1>3. PICK s : s = sent'
  OBVIOUS
<1>4. ASSUME NEW i \in 1 .. Len(sent) PROVE FramesIn(s, i) = FramesIn(sent, i)
  <2>1. i \in Nat /\ \A j \in 1 .. i : j \in 1 .. Len(sent)
    BY <1>2
  <2>2. \A j \in 1 .. i : s[j] = sent[j]
    BY <1>2, <1>3, <2>1
  <2>3. QED
    BY ONLY <2>1, <2>2, SameFrames
<1>5. PICK a : a = accepted'
  OBVIOUS
<1>6. /\ Len(accepted) \in Nat /\ Len(a) \in Nat /\ Len(accepted) <= Len(a)
      /\ \A m \in 1 .. Len(accepted) : a[m] = accepted[m]
  <2>1. accepted \in Seq(Inputs)
    BY LineType
  <2>2. CASE a = accepted
    BY <2>1, <2>2
  <2>3. ASSUME NEW f \in Inputs, a = Append(accepted, f)
        PROVE  /\ Len(accepted) \in Nat /\ Len(a) \in Nat /\ Len(accepted) <= Len(a)
               /\ \A m \in 1 .. Len(accepted) : a[m] = accepted[m]
    BY <2>1, <2>3
  <2>4. QED
    BY <1>5, <2>2, <2>3, AcceptedGrows
<1>7. Arrived' \in Nat /\ Arrived \in Nat /\ Arrived <= Arrived'
  <2>1. FramesIn(s, Len(s)) \in Nat /\ Arrived \in Nat
    BY <1>2, <1>3, FrameSet DEF Arrived
  <2>2. Arrived <= FramesIn(s, Len(s))
    <3>1. CASE Len(sent) = 0
      <4>1. FramesIn(s, 0) = FramesIn(sent, 0)
        BY SameFrames
      <4>2. CASE Len(s) = 0
        BY <2>1, <3>1, <4>1, <4>2 DEF Arrived
      <4>3. CASE Len(s) # 0
        <5>1. Arrived = 0
          <6>1. 1 .. 0 = {} /\ FramesIn(sent, 0) = Cardinality(FrameAt(sent, 0))
            BY FrameSet
          <6>2. FrameAt(sent, 0) = {}
            BY <6>1 DEF FrameAt
          <6>3. QED
            BY <3>1, <6>1, <6>2, FS_EmptySet DEF Arrived
        <5>2. QED
          BY <2>1, <5>1
      <4>4. QED
        BY <4>2, <4>3
    <3>2. CASE Len(sent) # 0
      <4>1. Len(sent) \in 1 .. Len(sent) /\ Len(sent) \in 1 .. Len(s) /\ Len(s) \in Nat
        BY <1>2, <1>3, <3>2
      <4>2. FramesIn(s, Len(sent)) <= FramesIn(s, Len(s))
        BY <4>1, FrameWithin
      <4>3. FramesIn(s, Len(sent)) = Arrived
        BY <1>4, <4>1 DEF Arrived
      <4>4. QED
        BY <4>2, <4>3
    <3>3. QED
      BY <3>1, <3>2
  <2>3. Arrived' = FramesIn(s, Len(s))
    BY <1>3 DEF Arrived
  <2>4. QED
    BY <2>1, <2>2, <2>3
<1>8. SeenInv'
  <2>1. seen \in Seq(Inputs) /\ Len(seen) \in Nat /\ Len(seen) <= Arrived
        /\ Len(seen) <= Len(accepted)
        /\ \A m \in 1 .. Len(seen) : seen[m] = accepted[m]
    BY DEF ViewerInv, SeenInv
  <2>2. /\ Len(seen) <= Arrived' /\ Len(seen) <= Len(a)
        /\ \A m \in 1 .. Len(seen) : seen[m] = a[m]
    BY <1>6, <1>7, <2>1
  <2>3. QED
    BY <1>1, <1>5, <2>1, <2>2 DEF SeenInv
<1>9. reply = "file" => reply' = "file" /\ a = accepted
  BY <1>5, FileStays DEF ViewerInv, vars, control
<1>10. ScreenInv'
  <2>1. CASE seen = <<>> /\ Disposed(shown, disposal) = Blank
    BY <1>1, <2>1 DEF ScreenInv
  <2>2. CASE \E i \in 1 .. Len(sent) :
               /\ OnScreen(i)
               /\ \/ FramesIn(sent, i) = Len(seen)
                  \/ seen = <<>> /\ reply = "file" /\ FramesIn(sent, i) = Len(accepted)
    <3>1. PICK i \in 1 .. Len(sent) :
               /\ OnScreen(i)
               /\ \/ FramesIn(sent, i) = Len(seen)
                  \/ seen = <<>> /\ reply = "file" /\ FramesIn(sent, i) = Len(accepted)
      BY <2>2
    <3>2. i \in 1 .. Len(s) /\ s[i] = sent[i] /\ FramesIn(s, i) = FramesIn(sent, i)
      BY <1>2, <1>3, <1>4
    <3>3. a[FramesIn(sent, i)] = accepted[FramesIn(sent, i)]
      <4>1. sent[i].kind = "frame"
        BY <3>1 DEF OnScreen
      <4>2. FramesIn(sent, i) \in 1 .. Len(accepted)
        <5>1. FramesIn(sent, i) \in 1 .. FramesIn(sent, Len(sent))
          BY <1>2, <4>1, FrameWithin
        <5>2. FramesIn(sent, i) <= Len(accepted)
          BY <3>1 DEF ViewerInv, SeenInv
        <5>3. FramesIn(sent, Len(sent)) \in Nat
          BY <1>2, FrameSet
        <5>4. QED
          BY <1>6, <5>1, <5>2, <5>3
      <4>3. QED
        BY <1>6, <4>2
    <3>4. /\ s[i].kind = "frame"
          /\ Disposed(shown, disposal) =
               IF s[i].dispose = "background" THEN Blank ELSE a[FramesIn(s, i)].pixels
      BY <3>1, <3>2, <3>3 DEF OnScreen
    <3>5. \/ FramesIn(s, i) = Len(seen)
          \/ seen = <<>> /\ reply' = "file" /\ FramesIn(s, i) = Len(a)
      BY <1>9, <3>1, <3>2
    <3>6. OnScreen(i)'
      BY <1>1, <1>3, <1>5, <3>4 DEF OnScreen
    <3>7. QED
      BY <1>1, <1>3, <1>5, <3>2, <3>5, <3>6 DEF ScreenInv
  <2>3. QED
    BY <2>1, <2>2 DEF ViewerInv, ScreenInv
<1>11. QED
  BY <1>1, <1>8, <1>10 DEF ViewerInv

(* What is drawn on what the last one left shows the frame it was made of.  *)
LEMMA ShowsFrame ==
  ASSUME Exact, IInv, CountInv, OutputType, StreamInv, PictureInv, ViewerInv,
         NEW i \in 1 .. Len(sent), sent[i].kind = "frame",
         FramesIn(sent, i) = Len(seen) + 1
  PROVE  LET k == Len(seen) + 1
             g == sent[i]
         IN /\ k \in 1 .. Len(accepted) /\ k \in 1 .. Arrived
            /\ g.delay = accepted[k].delay
            /\ g.dispose \in {"keep", "background"}
            /\ g.dispose = "background" => g.rect = Whole
            /\ TableOf(g) = g.indices
            /\ Blit(Disposed(shown, disposal), g) = accepted[k].pixels
<1> DEFINE k == Len(seen) + 1
           g == sent[i]
           F == File
           base == Disposed(shown, disposal)
           new == accepted[k].pixels
<1>1. Len(seen) \in Nat /\ Len(accepted) \in Nat
  BY CountTypes DEF ViewerInv, SeenInv
<1>2. /\ Len(sent) \in Nat /\ Len(F) \in Nat /\ Len(sent) <= Len(F)
      /\ \A j \in 1 .. Len(sent) : F[j] = sent[j] /\ FramesIn(F, j) = FramesIn(sent, j)
  BY SentBegins
<1> HIDE DEF F
<1>3. /\ i \in 1 .. Len(F) /\ i \in Nat /\ i > 0 /\ F[i] = g /\ FramesIn(F, i) = k
  BY <1>1, <1>2
<1>4. Draws(F, i, accepted, table)
  BY <1>3 DEF PictureInv, DrawnInv, AllDrawn, F
<1>5. /\ k <= Len(accepted)
      /\ g.delay = accepted[k].delay
      /\ g.dispose \in {"keep", "background"}
      /\ g.dispose = "background" => g.rect = Whole
      /\ TableOf(g) = g.indices
      /\ k > 1 => /\ i > 1 /\ F[i - 1].kind = "frame"
                  /\ F[i - 1].dispose = "background"
                       <=> NeedsCanvasClear(accepted[k - 1].pixels, accepted[k].pixels)
      /\ \/ Pictures(g, accepted[k].pixels)
         \/ /\ k > 1 /\ F[i - 1].dispose = "keep"
            /\ Differs(g, accepted[k].pixels, accepted[k - 1].pixels)
  <2> HIDE DEF k
  <2>1. QED
    BY <1>3, <1>4 DEF Draws, TableOf
<1>6. k \in 1 .. Len(accepted)
  BY <1>1, <1>5
<1>7. k \in 1 .. Arrived
  BY <1>2, FrameWithin DEF Arrived
<1>8. \A m \in 1 .. Len(accepted) : accepted[m].pixels \in [Points -> Pixel]
  <2>1. accepted \in Seq(Inputs)
    BY LineType
  <2>2. QED
    BY <2>1, InputType
<1>9. Blit(base, g) = new
  <2>1. CASE k = 1
    <3>1. Pictures(g, new)
      BY <1>5, <2>1
    <3>2. ASSUME NEW p \in Points, new[p] = Transparent
          PROVE  base[p] = Transparent
      <4>1. Len(seen) = 0
        BY <1>1, <2>1
      <4>2. base = Blank \/ \E j \in 1 .. Len(sent) :
              /\ OnScreen(j)
              /\ \/ FramesIn(sent, j) = 0
                 \/ reply = "file" /\ FramesIn(sent, j) = Len(accepted)
        BY <4>1 DEF ViewerInv, ScreenInv
      <4>3. CASE base = Blank
        BY <4>3 DEF Blank
      <4>4. ASSUME NEW j \in 1 .. Len(sent), OnScreen(j), FramesIn(sent, j) = 0
            PROVE  FALSE
        <5>1. FramesIn(sent, j) \in 1 .. FramesIn(sent, Len(sent))
          BY <1>2, <4>4, FrameWithin DEF OnScreen
        <5>2. QED
          BY <4>4, <5>1
      <4>5. ASSUME NEW j \in 1 .. Len(sent), OnScreen(j),
                   reply = "file", FramesIn(sent, j) = Len(accepted)
            PROVE  base = Blank
        <5>1. ~failed /\ frameIndex = Len(accepted)
          BY <4>5, AllArrived DEF ViewerInv
        <5>2. j \in 1 .. Len(F) /\ F[j].kind = "frame" /\ FramesIn(F, j) = frameIndex
              /\ F[j].dispose = sent[j].dispose
          BY <1>2, <4>5, <5>1 DEF OnScreen
        <5>3. F[j].dispose = "background" <=> firstAlpha = "alpha"
          BY <4>5, <5>1, <5>2 DEF PictureInv, AheadInv, F
        <5>4. firstAlpha = "alpha"
          <6>1. 1 \in 1 .. Len(accepted)
            BY <1>6, <2>1
          <6>2. Line[1] = accepted[1] /\ Line # <<>>
            <7>1. /\ \A m \in 1 .. Len(accepted) : Line[m] = accepted[m]
                  /\ Line \in Seq(Inputs) /\ Len(Line) = Len(accepted) + Len(adding)
              BY LineType
            <7>2. Len(Line) # 0
              BY <6>1, <7>1, CountTypes
            <7>3. Len(<<>>) = 0
              OBVIOUS
            <7>4. QED
              BY <6>1, <7>1, <7>2, <7>3
          <6>3. HasAlpha(Line[1].pixels)
            BY <2>1, <3>2, <6>2 DEF HasAlpha
          <6>4. QED
            BY <5>1, <6>2, <6>3 DEF PictureInv, AheadInv
        <5>5. QED
          BY <4>5, <5>2, <5>3, <5>4 DEF OnScreen
      <4>6. QED
        BY <4>2, <4>3, <4>4, <4>5
    <3>3. new \in [Points -> Pixel]
      BY <1>6, <1>8
    <3> HIDE DEF new, base, g, k
    <3>4. QED
      BY ONLY <3>1, <3>2, <3>3, WholeShows
  <2>2. CASE k # 1
    <3>1. k > 1 /\ k - 1 = Len(seen) /\ Len(seen) > 0 /\ k - 1 \in 1 .. Len(accepted)
      BY <1>1, <1>5, <1>6, <2>2
    <3>2. seen # <<>>
      <4>1. Len(<<>>) = 0
        OBVIOUS
      <4>2. QED
        BY <3>1, <4>1
    <3>3. PICK j \in 1 .. Len(sent) : OnScreen(j) /\ FramesIn(sent, j) = k - 1
      BY <3>1, <3>2 DEF ViewerInv, ScreenInv
    <3>4. j = i - 1
      <4> DEFINE h == i - 1
      <4>1. h \in Nat /\ h > 0 /\ h + 1 = i /\ F[h].kind = "frame"
        BY <1>3, <1>5, <3>1
      <4>2. j \in Nat /\ j > 0 /\ F[j].kind = "frame" /\ FramesIn(F, j) = k - 1
        BY <1>2, <3>3 DEF OnScreen
      <4> HIDE DEF h, k
      <4>3. FramesIn(F, h + 1) = FramesIn(F, h) + (IF F[h + 1].kind = "frame" THEN 1 ELSE 0)
            /\ FramesIn(F, h) \in Nat
        BY <4>1, FrameCounted, FrameSet
      <4>4. F[h + 1].kind = "frame" /\ FramesIn(F, h + 1) = k
        BY <1>3, <4>1
      <4>5. FramesIn(F, h) = k - 1
        BY <4>3, <4>4
      <4>6. FramesIn(F, j) = FramesIn(F, h)
        BY <4>2, <4>5
      <4>7. j = h
        BY ONLY <4>1, <4>2, <4>6, FrameAlone
      <4>8. QED
        BY <4>7 DEF h
    <3> DEFINE old == accepted[k - 1].pixels
    <3>5. F[i - 1].dispose = sent[j].dispose
          /\ base = IF sent[j].dispose = "background" THEN Blank ELSE old
      BY <1>2, <3>3, <3>4 DEF OnScreen
    <3>6. new \in [Points -> Pixel] /\ old \in [Points -> Pixel]
      BY <1>6, <1>8, <3>1
    <3>7. F[i - 1].dispose = "background" <=> NeedsCanvasClear(old, new)
      BY <1>5, <3>1
    <3>8. Pictures(g, new) \/ (F[i - 1].dispose = "keep" /\ Differs(g, new, old))
      BY <1>5
    <3> HIDE DEF new, old, base, g, k
    <3>9. CASE Pictures(g, new)
      <4>1. \A p \in Points : new[p] = Transparent => base[p] = Transparent
        <5>1. CASE F[i - 1].dispose = "background"
          BY <3>5, <5>1 DEF Blank
        <5>2. CASE F[i - 1].dispose # "background"
          BY <3>5, <3>7, <5>2 DEF NeedsCanvasClear
        <5>3. QED
          BY <5>1, <5>2
      <4>2. QED
        BY ONLY <3>6, <3>9, <4>1, WholeShows
    <3>10. CASE F[i - 1].dispose = "keep" /\ Differs(g, new, old)
      <4>1. base = old /\ ~NeedsCanvasClear(old, new)
        BY <3>5, <3>7, <3>10
      <4>2. Blit(old, g) = new
        BY ONLY Exact, <3>6, <3>10, <4>1, DiffShows
      <4>3. QED
        BY <4>1, <4>2
    <3>11. QED
      BY <3>8, <3>9, <3>10
  <2>3. QED
    BY <2>1, <2>2
<1>10. QED
  BY <1>5, <1>6, <1>7, <1>9

LEMMA ShowViewer ==
  ASSUME Exact, IInv, CountInv, OutputType, StreamInv, PictureInv, ViewerInv, Show
  PROVE  /\ ViewerInv'
         /\ Len(seen) < Len(accepted) /\ seen' = Append(seen, accepted[Len(seen) + 1])
<1>1. PICK i \in DOMAIN sent :
        /\ sent[i].kind = "frame" /\ FramesIn(sent, i) = Len(seen) + 1
        /\ Display(sent[i])
        /\ seen' = Append(seen, [pixels |-> shown', delay |-> sent[i].delay])
  BY DEF Show
<1>2. UNCHANGED <<accepted, sent, out, reply, pc>>
  BY DEF Show, vars, stream, control
<1>3. i \in 1 .. Len(sent)
  BY <1>1, LenProperties DEF OutputType
<1> DEFINE k == Len(seen) + 1
           g == sent[i]
           f == accepted[k]
           base == Disposed(shown, disposal)
<1>4. /\ k \in 1 .. Len(accepted) /\ k \in 1 .. Arrived
      /\ g.delay = f.delay
      /\ g.dispose \in {"keep", "background"}
      /\ g.dispose = "background" => g.rect = Whole
      /\ TableOf(g) = g.indices
      /\ Blit(base, g) = f.pixels
  BY <1>1, <1>3, ShowsFrame
<1>5. shown' = f.pixels /\ disposal' = DisposalFor(g, base)
  BY <1>1, <1>4 DEF Display
<1>6. f \in Inputs /\ f = [pixels |-> f.pixels, delay |-> f.delay]
  <2>1. f \in Inputs
    BY <1>4, LineType
  <2> HIDE DEF f
  <2>2. f \in [pixels : [Points -> Pixel], delay : Nat]
    BY <2>1, RoundTripAssumption
  <2>3. QED
    BY <2>1, <2>2
<1>7. seen' = Append(seen, f)
  BY <1>1, <1>4, <1>5, <1>6
<1>8. seen \in Seq(Inputs) /\ Len(seen) \in Nat /\ \A m \in 1 .. Len(seen) : seen[m] = accepted[m]
  BY DEF ViewerInv, SeenInv
<1>9. /\ Append(seen, f) \in Seq(Inputs) /\ Len(Append(seen, f)) = k
      /\ \A m \in 1 .. k : Append(seen, f)[m] = accepted[m]
  <2> HIDE DEF f
  <2>1. /\ Append(seen, f) \in Seq(Inputs) /\ Len(Append(seen, f)) = k
        /\ \A m \in 1 .. Len(seen) : Append(seen, f)[m] = seen[m]
        /\ Append(seen, f)[k] = f
    BY <1>6, <1>8
  <2>2. \A m \in 1 .. k : m \in 1 .. Len(seen) \/ m = k
    BY <1>8
  <2>3. f = accepted[k]
    BY DEF f
  <2> HIDE DEF k
  <2>4. QED
    BY <1>8, <2>1, <2>2, <2>3
<1>10. SeenInv'
  <2>1. Arrived' = Arrived
    BY <1>2 DEF Arrived
  <2>2. Arrived \in Nat /\ Len(accepted) \in Nat
    <3>1. Len(sent) \in Nat
      BY SentBegins
    <3>2. QED
      BY <3>1, FrameSet, CountTypes DEF Arrived
  <2>3. k <= Arrived /\ k <= Len(accepted)
    BY <1>4, <2>2
  <2> HIDE DEF k
  <2>4. QED
    BY <1>2, <1>7, <1>9, <2>1, <2>3 DEF SeenInv
<1>11. f.pixels \in [Points -> Pixel]
  BY <1>6, InputType
<1>12. Disposed(f.pixels, DisposalFor(g, base)) = IF g.dispose = "background" THEN Blank ELSE f.pixels
  <2> HIDE DEF f, g, base
  <2>1. QED
    BY ONLY <1>4, <1>11, Leaves
<1>13. ScreenInv'
  <2>1. FramesIn(sent, i) = k /\ Len(seen') = k
    BY <1>1, <1>7, <1>9
  <2>2. OnScreen(i)'
    BY <1>1, <1>2, <1>5, <1>12, <2>1 DEF OnScreen
  <2>3. QED
    BY <1>2, <1>3, <2>1, <2>2 DEF ScreenInv
<1>14. SealedInv'
  BY <1>2 DEF ViewerInv, SealedInv
<1>15. QED
  BY <1>4, <1>7, <1>8, <1>10, <1>13, <1>14 DEF ViewerInv

\* All of it.
RoundInv == IInv /\ CountInv /\ OutputType /\ StreamInv /\ PictureInv /\ ViewerInv

LEMMA RoundStep ==
  ASSUME Exact, RoundInv, [NextAll]_<<vars, viewer>>
  PROVE  RoundInv' /\ [Abstract!Next]_(Abstract!vars)
<1>1. [Next]_vars
  BY DEF NextAll, Show, Rewind, viewer
<1>2. IInv' /\ CountInv' /\ OutputType' /\ StreamInv' /\ PictureInv'
  BY <1>1, NextIInv, NextCount, OutputGrows, NextStream, NextPicture DEF RoundInv
<1>3. CASE [Next]_vars /\ UNCHANGED viewer
  <2>1. ViewerInv'
    BY <1>3, EncodeViewer DEF RoundInv
  <2>2. seen' = seen
    BY <1>3 DEF viewer
  <2>3. CASE reply = "file"
    <3>1. UNCHANGED <<accepted, seen, reply = "file">>
      BY <1>3, <2>2, <2>3, FileStays DEF RoundInv, ViewerInv, vars, control
    <3>2. QED
      BY <1>2, <2>1, <3>1 DEF RoundInv, Abstract!vars
  <2>4. CASE reply # "file" /\ reply' = "file"
    <3>1. Seal
      BY <1>3, <2>4, OnlySealReturns
    <3>2. accepted' = accepted
      BY <3>1 DEF Seal
    <3>3. Abstract!Complete
      BY <2>2, <2>4, <3>2 DEF Abstract!Complete
    <3>4. QED
      BY <1>2, <2>1, <3>3 DEF RoundInv, Abstract!Next
  <2>5. CASE reply # "file" /\ reply' # "file"
    <3>1. \/ accepted' = accepted
          \/ adding[1] \in Inputs /\ accepted' = Append(accepted, adding[1])
      BY <1>1, AcceptedGrows DEF RoundInv
    <3>2. CASE accepted' = accepted
      BY <1>2, <2>1, <2>2, <2>5, <3>2 DEF RoundInv, Abstract!vars
    <3>3. CASE adding[1] \in Inputs /\ accepted' = Append(accepted, adding[1])
      <4>1. Abstract!Add(adding[1])
        BY <2>2, <2>5, <3>3 DEF Abstract!Add
      <4>2. QED
        BY <1>2, <2>1, <3>3, <4>1 DEF RoundInv, Abstract!Next
    <3>4. QED
      BY <3>1, <3>2, <3>3
  <2>6. QED
    BY <2>3, <2>4, <2>5
<1>4. CASE Show
  <2>1. /\ ViewerInv'
        /\ Len(seen) < Len(accepted) /\ seen' = Append(seen, accepted[Len(seen) + 1])
    BY <1>4, ShowViewer DEF RoundInv
  <2>2. accepted' = accepted /\ reply' = reply
    BY <1>4 DEF Show, vars, control
  <2>3. Abstract!Show
    BY <2>1, <2>2 DEF Abstract!Show
  <2>4. QED
    BY <1>2, <2>1, <2>3 DEF RoundInv, Abstract!Next
<1>5. CASE Rewind
  <2>1. ViewerInv' /\ seen = accepted
    BY <1>5, RewindViewer DEF RoundInv
  <2>2. reply = "file" /\ seen' = <<>> /\ accepted' = accepted /\ reply' = reply
    BY <1>5 DEF Rewind, vars, control
  <2>3. Abstract!Rewind
    BY <2>1, <2>2 DEF Abstract!Rewind
  <2>4. QED
    BY <1>2, <2>1, <2>3 DEF RoundInv, Abstract!Next
<1>6. QED
  BY <1>1, <1>3, <1>4, <1>5 DEF NextAll

(* Differencing, lookahead, clearing, palettes and lazy disposal are       *)
(* invisible, on the first round and on every later one: what a viewer of  *)
(* the bytes handed out so far is shown are the frames that were added,    *)
(* whatever they are, however they are buffered and whichever call fails.  *)
THEOREM ViewersSeeWhatWasAdded ==
  ASSUME OnePalette, Exact
  PROVE  SpecAll => ImplementsPlayback
<1>1. InitAll => RoundInv /\ Abstract!Init
  <2> SUFFICES ASSUME InitAll PROVE RoundInv /\ Abstract!Init
    OBVIOUS
  <2>1. Init /\ ViewerInv
    BY InitViewer DEF InitAll
  <2>2. accepted = <<>> /\ seen = <<>> /\ reply # "file"
    BY DEF InitAll, Init
  <2>3. QED
    BY <2>1, <2>2, InitIInv, InitCount, InitOutput, InitStream, InitPicture
       DEF RoundInv, Abstract!Init
<1>2. RoundInv /\ [NextAll]_<<vars, viewer>> => RoundInv' /\ [Abstract!Next]_(Abstract!vars)
  BY RoundStep
<1>3. QED
  BY <1>1, <1>2, PTL DEF SpecAll, ImplementsPlayback, Abstract!Spec
=============================================================================
