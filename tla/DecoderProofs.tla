----------------------------- MODULE DecoderProofs -----------------------------
(***************************************************************************)
(* What holds of the decoder for every screen, set of files, limit and     *)
(* client: the canvas, the backup and the indexed pixel buffer share one   *)
(* charge, and no failed call takes a buffer out of it; what is delivered  *)
(* stays within the limits whatever fails; until a call fails it is the    *)
(* file, as the eager semantics shows it; and what decode_all returns and  *)
(* the animation adapter gives out is the file, failures or not.  The      *)
(* clients of DecoderClients make no step of the decoder that is not its   *)
(* own.                                                                    *)
(***************************************************************************)
EXTENDS DecoderClients, ScreenProofs, SumProofs, SequenceTheorems

\* The frame being read is one of the file's.
FrameThere ==
  /\ rest \in Seq(Frames)
  /\ pc \in {"pixels", "compose", "count"} => \E f \in Frames : frame = <<f>>

MemoryInv == TypeInv /\ FrameThere /\ bufferLen \in Nat /\ MemoryCapped

-----------------------------------------------------------------------------
(* What is charged beside the screen stays charged through its steps.       *)
LEMMA ScreenKeepsTheRest ==
  ASSUME TypeInv, [Next]_vars, NEW n \in Nat, Held + n <= charged, charged <= MaxMemory
  PROVE  Held' + n <= charged' /\ charged' <= MaxMemory
<1>1. /\ disposal \in Disposals /\ charged \in Nat /\ canvasTaken \in BOOLEAN
      /\ Bytes /\ BackupBytes(disposal) \in Nat
  BY BytesType, ScreenAssumption DEF TypeInv, TypeOK, Bytes
<1>2. ASSUME ~canvasTaken
      PROVE  CanvasBytes + n <= Released /\ Released <= MaxMemory /\ Released \in Nat
  BY <1>1, <1>2 DEF Held, Released, Bytes
<1>3. ASSUME NEW f \in Frames, ~canvasTaken
      PROVE  BackupBytes(DisposalFor(f, Undone)) \in Nat
  BY <1>3, UndoneType, DisposalForType, BytesType
<1>4. ASSUME NEW f \in Frames, Draw(f)
      PROVE  Held' + n <= charged' /\ charged' <= MaxMemory
  <2>1. ~canvasTaken /\ ~canvasTaken' /\ ChargeFor(f) <= MaxMemory
        /\ disposal' = DisposalFor(f, Undone) /\ charged' = ChargeFor(f)
    BY <1>4, <1>1 DEF Draw, Composites
  <2>2. BackupBytes(disposal') \in Nat /\ charged' = Released + BackupBytes(disposal')
    BY <2>1, <1>3 DEF ChargeFor
  <2>3. Held' = CanvasBytes + BackupBytes(disposal')
    BY <2>1 DEF Held
  <2>4. QED
    BY <2>1, <2>2, <2>3, <1>1, <1>2 DEF Bytes
<1>5. ASSUME NEW f \in Frames, BackupFails(f)
      PROVE  Held' + n <= charged' /\ charged' <= MaxMemory
  <2>1. ~canvasTaken /\ ~canvasTaken' /\ disposal' = Spent(disposal) /\ charged' = Released
    BY <1>5, <1>1 DEF BackupFails
  <2>2. BackupBytes(disposal') = 0
    BY <2>1, <1>1, NoBackupIsFree
  <2>3. Held' = CanvasBytes
    BY <2>1, <2>2, <1>1 DEF Held, Bytes
  <2>4. QED
    BY <2>1, <2>3, <1>2
<1>6. ASSUME NEW f \in Frames, ProcessFrameTake(f)
      PROVE  Held' + n <= charged' /\ charged' <= MaxMemory
  <2>1. ~canvasTaken /\ canvasTaken' /\ ChargeFor(f) <= MaxMemory
        /\ disposal' = DisposalFor(f, Undone) /\ charged' = ChargeFor(f) - CanvasBytes
    BY <1>6 DEF ProcessFrameTake, Composites
  <2>2. /\ BackupBytes(disposal') \in Nat
        /\ ChargeFor(f) = Released + BackupBytes(disposal')
    BY <2>1, <1>3 DEF ChargeFor
  <2>3. Held' = BackupBytes(disposal')
    BY <2>1, <2>2 DEF Held
  <2>4. QED
    BY <2>1, <2>2, <2>3, <1>1, <1>2 DEF Bytes
<1>7. CASE Reset
  <2>1. disposal' = DefaultDisposal /\ UNCHANGED <<charged, canvasTaken>>
    BY <1>7 DEF Reset
  <2>2. BackupBytes(disposal') = 0
    BY <2>1, NoBackupIsFree
  <2>3. QED
    BY <2>1, <2>2, <1>1 DEF Held, Bytes
<1>8. CASE UNCHANGED vars
  BY <1>8 DEF Held, BackupBytes, vars
<1>9. QED
  BY <1>4, <1>5, <1>6, <1>7, <1>8
     DEF Next, ProcessFrameInPlace, ProcessFrame, CopyFails

LEMMA BackupType == TypeInv => Held \in Nat
BY BytesType DEF TypeInv, TypeOK, Held

(* The reader goes on anywhere in the rest of the file.                    *)
LEMMA RestType ==
  ASSUME rest \in Seq(Frames), NEW n \in 0 .. Len(rest)
  PROVE  SubSeq(rest, n + 1, Len(rest)) \in Seq(Frames)
<1>1. n + 1 \in Int /\ Len(rest) \in Int /\ Len(rest) \in Nat /\ n \in Nat
  BY LenProperties
<1>2. \A i \in n + 1 .. Len(rest) : i \in 1 .. Len(rest)
  BY <1>1
<1>3. \A i \in n + 1 .. Len(rest) : rest[i] \in Frames
  BY <1>2, ElementOfSeq
<1>4. QED
  BY <1>1, <1>3, SubSeqProperties

-----------------------------------------------------------------------------
LEMMA InitMemoryInv == DecoderInit => MemoryInv
<1> SUFFICES ASSUME DecoderInit PROVE MemoryInv
  OBVIOUS
<1> DEFINE indexed == IndexedBytes
<1>1. indexed \in Nat /\ CanvasBytes + indexed <= MaxMemory
  BY DecoderAssumption, CanvasAssumption DEF IndexedBytes
<1> HIDE DEF indexed
<1>2. charged = CanvasBytes + indexed /\ charged \in Nat /\ bufferLen = indexed
  BY <1>1, BytesType DEF DecoderInit, BufferCharge, indexed
<1>3. TypeInv
  <2>1. disposal \in Disposals
    BY DefaultDisposalType DEF DecoderInit
  <2>2. Blank \in Canvases
    BY DEF Blank, Canvases, Pixel
  <2>3. TypeOK
    BY <1>2, <2>1, <2>2 DEF DecoderInit, TypeOK, Disposals, Canvases
  <2>4. QED
    BY <2>1, <2>3 DEF TypeInv
<1>4. FrameThere
  BY DecoderAssumption DEF DecoderInit, FrameThere
<1>5. MemoryCapped
  <2>1. Held = CanvasBytes
    BY NoBackupIsFree, BytesType DEF DecoderInit, Held
  <2>2. QED
    BY <1>1, <1>2, <2>1, BytesType DEF MemoryCapped
<1>6. QED
  BY <1>1, <1>2, <1>3, <1>4, <1>5 DEF MemoryInv

(* Where the reader goes does not matter to the memory.                    *)
LEMMA NothingMoves ==
  ASSUME MemoryInv, UNCHANGED vars, bufferLen' \in {bufferLen, 0}, FrameThere'
  PROVE  MemoryInv'
<1>1. TypeInv' /\ Held' = Held /\ charged' = charged
  BY DEF MemoryInv, TypeInv, TypeOK, vars, Held, BackupBytes
<1>2. bufferLen' \in Nat /\ bufferLen' <= bufferLen
  BY DEF MemoryInv
<1>3. MemoryCapped'
  BY <1>1, <1>2, BackupType, BytesType DEF MemoryInv, MemoryCapped, TypeInv, TypeOK
<1>4. QED
  BY <1>1, <1>2, <1>3 DEF MemoryInv

(* A step of the screen, with the pixel buffer kept or lost.                *)
LEMMA ScreenSteps ==
  ASSUME MemoryInv, [Next]_vars, bufferLen' \in {bufferLen, 0}, FrameThere'
  PROVE  MemoryInv'
<1>1. /\ TypeInv /\ bufferLen \in Nat /\ Held + bufferLen <= charged
      /\ charged <= MaxMemory /\ Held \in Nat /\ charged \in Nat
  BY BackupType DEF MemoryInv, MemoryCapped, TypeInv, TypeOK
<1>2. Held <= charged
  BY <1>1
<1>3. TypeInv' /\ Held' \in Nat /\ charged' \in Nat
  <2>1. TypeInv'
    BY <1>1, <1>2, NextTypeInv
  <2>2. Held' \in Nat /\ charged' \in Nat
    BY <2>1, BytesType DEF TypeInv, TypeOK, Held
  <2>3. QED
    BY <2>1, <2>2
<1>4. Held' + bufferLen <= charged' /\ charged' <= MaxMemory
  BY <1>1, ScreenKeepsTheRest
<1>5. bufferLen' \in Nat /\ bufferLen' <= bufferLen
  BY <1>1
<1>6. Held' + bufferLen' <= charged'
  <2> DEFINE h == Held'
             k == bufferLen'
             c == charged'
  <2>1. /\ h \in Nat /\ k \in Nat /\ c \in Nat /\ bufferLen \in Nat
        /\ h + bufferLen <= c /\ k <= bufferLen
    BY <1>1, <1>3, <1>4, <1>5
  <2> HIDE DEF h, k, c
  <2>2. h + k <= c
    BY ONLY <2>1
  <2>3. QED
    BY <2>2 DEF h, k, c
<1>7. QED
  BY <1>3, <1>4, <1>5, <1>6 DEF MemoryInv, MemoryCapped

(* The pixel buffer grows, and what it grew by is charged.                  *)
LEMMA ReadHeaderMemory ==
  ASSUME MemoryInv, ReadHeader
  PROVE  MemoryInv'
<1>1. PICK f \in Frames : f = Head(rest)
  BY DEF MemoryInv, FrameThere, ReadHeader, HeaderRead
<1>2. FrameThere'
  BY <1>1 DEF MemoryInv, FrameThere, ReadHeader, HeaderRead
<1>3. bufferLen \in Nat /\ charged \in Nat /\ Held \in Nat
      /\ Held + bufferLen <= charged
  BY BackupType DEF MemoryInv, MemoryCapped, TypeInv, TypeOK
<1>4. bufferLen' \in Nat /\ bufferLen <= bufferLen'
  <2>1. f.rect.width \in Nat /\ f.rect.height \in Nat
    BY ScreenAssumption DEF Rects
  <2> DEFINE n == f.rect.width * f.rect.height
  <2>2. n \in Nat
    BY <2>1
  <2> HIDE DEF n
  <2>3. bufferLen' = IF n > bufferLen THEN n ELSE bufferLen
    BY <1>1 DEF ReadHeader, Grown, n
  <2>4. QED
    BY <1>3, <2>2, <2>3
<1>5. charged' = charged + (bufferLen' - bufferLen) /\ charged' <= MaxMemory
  BY DEF ReadHeader
<1>6. charged' \in Nat /\ Held + bufferLen' <= charged'
  <2> DEFINE h == Held
             k == bufferLen'
             c == charged'
  <2>1. /\ h \in Nat /\ k \in Nat /\ charged \in Nat /\ bufferLen \in Nat
        /\ h + bufferLen <= charged /\ bufferLen <= k
        /\ c = charged + (k - bufferLen)
    BY <1>3, <1>4, <1>5
  <2> HIDE DEF h, k, c
  <2>2. c \in Nat /\ h + k <= c
    BY ONLY <2>1
  <2>3. QED
    BY <2>2 DEF h, k, c
<1>7. TypeInv' /\ Held' = Held
  BY <1>6 DEF MemoryInv, TypeInv, TypeOK, ReadHeader, Held, BackupBytes
<1>8. QED
  BY <1>2, <1>4, <1>5, <1>6, <1>7 DEF MemoryInv, MemoryCapped

LEMMA ComposeMemory ==
  ASSUME MemoryInv, Compose \/ ComposeFails
  PROVE  MemoryInv'
<1>1. PICK f \in Frames : frame = <<f>>
  BY DEF MemoryInv, FrameThere, Compose, ComposeFails
<1>2. frame[1] = f
  BY <1>1
<1>3. [Next]_vars
  BY <1>2 DEF Compose, ComposeFails, Next
<1>4. bufferLen' \in {bufferLen, 0}
  BY DEF Compose, ComposeFails
<1>5. FrameThere'
  BY DEF MemoryInv, FrameThere, Compose, ComposeFails, reader, Errs, Returns
<1>6. QED
  BY <1>3, <1>4, <1>5, ScreenSteps

LEMMA NextMemoryInv == MemoryInv /\ [DecoderNext]_all => MemoryInv'
<1> SUFFICES ASSUME MemoryInv, [DecoderNext]_all PROVE MemoryInv'
  OBVIOUS
<1>1. FrameThere
  BY DEF MemoryInv
<1>2. CASE ReadFails \/ BoundsFail \/ PixelsFail
  <2>1. PICK n \in 0 .. Len(rest) : rest' = SubSeq(rest, n + 1, Len(rest))
    BY <1>2 DEF ReadFails, BoundsFail, PixelsFail
  <2>2. rest' \in Seq(Frames) /\ pc' = "idle" /\ UNCHANGED vars /\ bufferLen' = bufferLen
    BY <1>1, <1>2, <2>1, RestType
       DEF FrameThere, ReadFails, BoundsFail, PixelsFail, Errs, Returns
  <2>3. FrameThere'
    BY <2>2 DEF FrameThere
  <2>4. QED
    BY <2>2, <2>3, NothingMoves
<1>3. CASE HeaderRefused \/ GrowthFails
  <2>1. rest' = Tail(rest) /\ rest # <<>> /\ pc' = "idle"
        /\ UNCHANGED vars /\ bufferLen' = bufferLen
    BY <1>3 DEF HeaderRefused, GrowthFails, HeaderRead, Errs, Returns
  <2>2. FrameThere'
    BY <1>1, <2>1 DEF FrameThere
  <2>3. QED
    BY <2>1, <2>2, NothingMoves
<1>4. ASSUME NEW m \in Modes, Call(m) PROVE MemoryInv'
  <2>1. FrameThere' /\ UNCHANGED vars /\ bufferLen' = bufferLen
    BY <1>1, <1>4 DEF Call, FrameThere, reader
  <2>2. QED
    BY <2>1, NothingMoves
<1>5. CASE EndOfFile \/ ReadPixels \/ Deliver \/ TooLong
  <2>1. FrameThere' /\ UNCHANGED vars /\ bufferLen' = bufferLen
    BY <1>1, <1>5 DEF EndOfFile, ReadPixels, Deliver, TooLong, FrameThere, reader,
       Errs, Returns
  <2>2. QED
    BY <2>1, NothingMoves
<1>6. CASE UNCHANGED all
  <2>1. FrameThere' /\ UNCHANGED vars /\ bufferLen' = bufferLen
    BY <1>1, <1>6 DEF all, FrameThere, reader, call
  <2>2. QED
    BY <2>1, NothingMoves
<1>7. QED
  BY <1>2, <1>3, <1>4, <1>5, <1>6, ReadHeaderMemory, ComposeMemory DEF DecoderNext

-----------------------------------------------------------------------------
(* A caller, its decode_all and the animation adapter only ever make calls  *)
(* of the decoder: what holds of it holds under each of them.               *)
THEOREM ClientsDriveTheDecoder == ClientSpec => DecoderSpec
<1>1. ClientInit => DecoderInit
  BY DEF ClientInit
<1>2. [ClientNext]_everything => [DecoderNext]_all
  <2> SUFFICES ASSUME [ClientNext]_everything PROVE [DecoderNext]_all
    OBVIOUS
  <2>1. CASE CallerSteps \/ DecoderSteps
    BY <2>1 DEF CallerSteps, DecoderSteps
  <2>2. CASE Advance \/ Collect
    BY <2>2 DEF Advance, Collect, DecoderNext, Modes
  <2>3. CASE UNCHANGED everything
    BY <2>3 DEF everything
  <2>4. CASE \/ Begin \/ StoppedBefore \/ NoMore \/ RenderFails \/ SkipFrame
             \/ GiveFrame \/ CollectBegin \/ CollectFrame \/ CollectFails \/ CollectEnds
    BY <2>4 DEF Begin, StoppedBefore, NoMore, RenderFails, SkipFrame, GiveFrame,
       CollectBegin, CollectFrame, CollectFails, CollectEnds
  <2>5. QED
    BY <2>1, <2>2, <2>3, <2>4 DEF ClientNext, ClientStep
<1>3. QED
  BY <1>1, <1>2, PTL DEF ClientSpec, DecoderSpec

(* max_memory caps canvas, backup and pixel buffer together, through failed *)
(* calls and calls made after them, for every file, limit and client.       *)
THEOREM DecoderMemoryIsCapped == ClientSpec => []MemoryCapped
<1>1. DecoderSpec => []MemoryInv
  BY InitMemoryInv, NextMemoryInv, PTL DEF DecoderSpec
<1>2. MemoryInv => MemoryCapped
  BY DEF MemoryInv
<1>3. QED
  BY <1>1, <1>2, ClientsDriveTheDecoder, PTL

-----------------------------------------------------------------------------
(* What was delivered stays within the limits.  The duration may pass its   *)
(* limit (TooLong adds to it first), but no delivery is made then or later. *)

Deliveries == [index : Nat, canvas : Canvases, delay : Nat]

LimitsInv ==
  /\ delivered \in Seq(Deliveries)
  /\ frameIndex = Len(delivered) /\ frameIndex <= MaxFrames /\ duration \in Nat
  /\ pc \in {"pixels", "compose", "count"} => frameIndex < MaxFrames
  /\ \A k \in DOMAIN delivered : delivered[k].index = k - 1
  /\ 10 * DelaySum(delivered) <= duration /\ 10 * DelaySum(delivered) <= MaxDuration

LEMMA InitLimits == DecoderInit => LimitsInv
<1> SUFFICES ASSUME DecoderInit PROVE LimitsInv
  OBVIOUS
<1>1. delivered = <<>> /\ frameIndex = 0 /\ duration = 0 /\ pc = "idle"
  BY DEF DecoderInit
<1>2. MaxFrames \in Nat /\ MaxDuration \in Nat
  BY DecoderAssumption
<1>3. DelaySum(delivered) = 0
  BY <1>1, NoDelays
<1>4. QED
  BY <1>1, <1>2, <1>3 DEF LimitsInv

(* A step that delivers nothing.                                            *)
LEMMA NothingDelivered ==
  ASSUME LimitsInv, delivered' = delivered, frameIndex' = frameIndex,
         duration' \in Nat, duration <= duration',
         pc' \in {"pixels", "compose", "count"} =>
           \/ pc \in {"pixels", "compose", "count"}
           \/ frameIndex < MaxFrames
  PROVE  LimitsInv'
<1>1. DelaySum(delivered') = DelaySum(delivered)
  OBVIOUS
<1>2. 10 * DelaySum(delivered) \in Int
  <2>1. PICK x : x \in Deliveries
    <3>1. [index |-> 0, canvas |-> Blank, delay |-> 0] \in Deliveries
      BY DEF Deliveries, Blank, Canvases, Pixel
    <3>2. QED
      BY <3>1
  <2>2. DelaySum(delivered) \in Nat
    BY <2>1, DelaySumGrows DEF LimitsInv, Deliveries
  <2>3. QED
    BY <2>2
<1>3. 10 * DelaySum(delivered) <= duration'
  BY <1>2 DEF LimitsInv
<1>4. QED
  BY <1>1, <1>3 DEF LimitsInv

LEMMA DeliverLimits ==
  ASSUME LimitsInv, MemoryInv, Deliver PROVE LimitsInv'
<1>1. PICK f \in Frames : frame = <<f>>
  BY DEF MemoryInv, FrameThere, Deliver
<1>2. f.delay \in Nat /\ frame[1] = f /\ MaxDuration \in Nat /\ MaxFrames \in Nat
  BY <1>1, DecoderAssumption
<1> DEFINE x == [index |-> frameIndex, canvas |-> output, delay |-> f.delay]
           sum == DelaySum(delivered)
           sum2 == DelaySum(delivered')
           before == duration
           after == duration'
           delay == f.delay
<1>3. delivered \in Seq(Deliveries) /\ frameIndex = Len(delivered) /\ frameIndex < MaxFrames
      /\ frameIndex \in Nat /\ before \in Nat /\ 10 * sum <= before
  BY DEF LimitsInv, Deliver
<1>4. x \in Deliveries
  BY <1>2, <1>3 DEF Deliveries, MemoryInv, TypeInv, TypeOK, Canvases
<1>5. delivered' = Append(delivered, x) /\ frameIndex' = frameIndex + 1
      /\ after = before + 10 * delay /\ after <= MaxDuration /\ pc' = "idle"
  BY <1>2 DEF Deliver, Lasting, Returns
<1>6. sum \in Nat /\ sum2 = sum + delay
  <2>1. \A t \in Deliveries : t.delay \in Nat
    BY DEF Deliveries
  <2>2. x.delay = delay
    OBVIOUS
  <2>3. QED
    BY <1>3, <1>4, <1>5, <2>1, <2>2, DelaySumGrows
<1>7. delivered' \in Seq(Deliveries) /\ frameIndex' = Len(delivered') /\ frameIndex' <= MaxFrames
  BY <1>2, <1>3, <1>4, <1>5
<1>8. \A k \in DOMAIN delivered' : delivered'[k].index = k - 1
  <2> SUFFICES ASSUME NEW k \in DOMAIN delivered' PROVE delivered'[k].index = k - 1
    OBVIOUS
  <2>1. CASE k \in DOMAIN delivered
    BY <1>3, <1>5, <2>1 DEF LimitsInv
  <2>2. CASE k = Len(delivered) + 1
    BY <1>3, <1>5, <2>2
  <2>3. QED
    BY <1>3, <1>5, <2>1, <2>2
<1> HIDE DEF sum, sum2, before, after, delay
<1>9. after \in Nat /\ 10 * sum2 <= after /\ 10 * sum2 <= MaxDuration
  <2>1. delay \in Nat /\ before \in Nat /\ sum \in Nat
    BY <1>2, <1>3, <1>6 DEF delay
  <2>2. 10 * sum2 = 10 * sum + 10 * delay
    BY <1>6, <2>1
  <2>3. QED
    BY <1>2, <1>3, <1>5, <1>6, <2>1, <2>2
<1>10. QED
  BY <1>5, <1>7, <1>8, <1>9 DEF LimitsInv, sum2, after

LEMMA NextLimits == LimitsInv /\ MemoryInv /\ [DecoderNext]_all => LimitsInv'
<1> SUFFICES ASSUME LimitsInv, MemoryInv, [DecoderNext]_all PROVE LimitsInv'
  OBVIOUS
<1>1. duration \in Nat /\ frameIndex \in Nat /\ MaxFrames \in Nat
  BY DecoderAssumption DEF LimitsInv
<1>2. CASE ReadFails \/ BoundsFail \/ HeaderRefused \/ GrowthFails \/ PixelsFail
           \/ EndOfFile \/ ComposeFails
  <2>1. delivered' = delivered /\ frameIndex' = frameIndex /\ duration' = duration /\ pc' = "idle"
    BY <1>2 DEF ReadFails, BoundsFail, HeaderRefused, GrowthFails, PixelsFail, EndOfFile,
       ComposeFails, Errs, Returns, account
  <2>2. QED
    BY <1>1, <2>1, NothingDelivered
<1>3. ASSUME NEW m \in Modes, Call(m) PROVE LimitsInv'
  <2>1. delivered' = delivered /\ frameIndex' = frameIndex /\ duration' = duration /\ pc' = "read"
    BY <1>3 DEF Call, account
  <2>2. QED
    BY <1>1, <2>1, NothingDelivered
<1>4. CASE ReadHeader
  <2>1. delivered' = delivered /\ frameIndex' = frameIndex /\ duration' = duration
        /\ frameIndex < MaxFrames
    BY <1>1, <1>4 DEF ReadHeader, account, TooManyFrames
  <2>2. QED
    BY <1>1, <2>1, NothingDelivered
<1>5. CASE ReadPixels \/ Compose \/ UNCHANGED all
  <2>1. delivered' = delivered /\ frameIndex' = frameIndex /\ duration' = duration
        /\ (pc' = pc \/ pc \in {"pixels", "compose"})
    BY <1>5 DEF ReadPixels, Compose, account, all, call
  <2>2. QED
    BY <1>1, <2>1, NothingDelivered
<1>6. CASE TooLong
  <2>1. PICK f \in Frames : frame = <<f>>
    BY <1>6 DEF MemoryInv, FrameThere, TooLong
  <2>2. f.delay \in Nat
    BY DecoderAssumption
  <2>3. delivered' = delivered /\ frameIndex' = frameIndex
        /\ duration' = duration + 10 * f.delay /\ pc' = "idle"
    BY <1>6, <2>1 DEF TooLong, Lasting, Errs, Returns
  <2>4. duration' \in Nat /\ duration <= duration'
    BY <1>1, <2>2, <2>3
  <2>5. QED
    BY <2>3, <2>4, NothingDelivered
<1>7. QED
  BY <1>2, <1>3, <1>4, <1>5, <1>6, DeliverLimits DEF DecoderNext

(* Whatever fails, and however often the decoder is called again: no more   *)
(* frames than max_frame_count are delivered, for no longer than            *)
(* max_animation_ms, numbered without a gap.                                *)
THEOREM DeliveryIsWithinLimits == ClientSpec => []DeliveryWithinLimits
<1>1. DecoderSpec => [](MemoryInv /\ LimitsInv)
  BY InitMemoryInv, NextMemoryInv, InitLimits, NextLimits, PTL DEF DecoderSpec
<1>2. LimitsInv => DeliveryWithinLimits
  BY DEF LimitsInv, DeliveryWithinLimits, DelaySum
<1>3. QED
  BY <1>1, <1>2, ClientsDriveTheDecoder, PTL

-----------------------------------------------------------------------------
(* The eager canvases.  Their equations have a solution for every file: it  *)
(* is built frame by frame.                                                 *)

EagerAt(e, k) ==
  IF k = 0 THEN [shown |-> Blank, base |-> Blank]
  ELSE LET f == file.frames[k]
           shown == Blit(e[k - 1].base, f)
       IN [shown |-> shown,
           base |-> CASE f.dispose = "previous" -> e[k - 1].base
                      [] f.dispose = "background" -> Fill(shown, Clipped(f))
                      [] OTHER -> shown]

IsEager(e) == e = [k \in 0 .. Len(file.frames) |-> EagerAt(e, k)]

LEMMA EagerExists == Len(file.frames) \in Nat => \E e : IsEager(e)
<1> DEFINE upTo(n) == \E e : e = [k \in 0 .. n |-> EagerAt(e, k)]
           S == {n \in Nat : upTo(n)}
<1>1. 0 \in S
  <2> DEFINE e == [k \in 0 .. 0 |-> [shown |-> Blank, base |-> Blank]]
  <2>1. e = [k \in 0 .. 0 |-> EagerAt(e, k)]
    BY DEF EagerAt
  <2>2. QED
    BY <2>1
<1>2. ASSUME NEW n \in Nat, n \in S PROVE n + 1 \in S
  <2>1. PICK e : e = [k \in 0 .. n |-> EagerAt(e, k)]
    BY <1>2
  <2> DEFINE h == [k \in 0 .. n + 1 |-> IF k = n + 1 THEN EagerAt(e, k) ELSE e[k]]
  <2>2. ASSUME NEW k \in 0 .. n + 1 PROVE h[k] = EagerAt(h, k)
    <3>1. k # 0 => k - 1 \in 0 .. n + 1 /\ k - 1 # n + 1 /\ h[k - 1] = e[k - 1]
      OBVIOUS
    <3>2. EagerAt(h, k) = EagerAt(e, k)
      <4> HIDE DEF h
      <4>1. QED
        BY <3>1 DEF EagerAt
    <3>3. k # n + 1 => k \in 0 .. n
      OBVIOUS
    <3>4. k # n + 1 => e[k] = EagerAt(e, k)
      BY <2>1, <3>3
    <3>5. h[k] = EagerAt(e, k)
      BY <3>4
    <3>6. QED
      BY <3>2, <3>5
  <2>3. h = [k \in 0 .. n + 1 |-> h[k]]
    OBVIOUS
  <2> HIDE DEF h
  <2>4. [k \in 0 .. n + 1 |-> h[k]] = [k \in 0 .. n + 1 |-> EagerAt(h, k)]
    BY <2>2
  <2>5. upTo(n + 1)
    BY <2>3, <2>4
  <2> HIDE DEF upTo
  <2>6. QED
    BY <2>5
<1> HIDE DEF S
<1>3. Nat \subseteq S
  BY <1>1, <1>2, NatInductionOnSets
<1>4. QED
  BY <1>3 DEF S, IsEager

LEMMA EagerIs ==
  ASSUME Len(file.frames) \in Nat
  PROVE  \A k \in 0 .. Len(file.frames) : Eager[k] = EagerAt(Eager, k)
<1>1. Eager = CHOOSE e : IsEager(e)
  BY DEF Eager, IsEager, EagerAt
<1>2. IsEager(Eager)
  BY <1>1, EagerExists
<1>3. QED
  BY <1>2 DEF IsEager

-----------------------------------------------------------------------------
(* What is delivered is the file.  Until a call fails, the frames that were *)
(* delivered, the one in the call and the ones the reader has not come to   *)
(* are the file's, and the canvas is what the eager semantics draws the     *)
(* next frame on.                                                           *)

Busy == pc \in {"pixels", "compose", "count"}

\* The frames whose header the input does not have in full.
Headless == IF file.ending = "header" THEN 1 ELSE 0

ReaderInv ==
  /\ Len(delivered) + Len(frame) + Len(rest) = Len(file.frames)
  /\ \A i \in 1 .. Len(rest) : rest[i] = file.frames[Len(file.frames) - Len(rest) + i]
  /\ IF Busy THEN frame = <<file.frames[Len(delivered) + 1]>> ELSE frame = <<>>
  /\ Headless <= Len(rest)
  /\ finished => /\ Len(rest) = Headless /\ pc = "idle"
                 /\ file.ending = "trailer" \/ delivered # <<>>

CanvasInv ==
  LET at == IF pc = "count" THEN Len(delivered) + 1 ELSE Len(delivered)
  IN /\ ~canvasTaken => Undone = Eager[at].base
     /\ pc = "count" => output = Eager[at].shown

DeliveredInv ==
  \A k \in 1 .. Len(delivered) :
    /\ delivered[k].canvas = Eager[k].shown
    /\ delivered[k].delay = file.frames[k].delay

FileInv ==
  /\ file \in Files /\ errors \in Nat
  /\ errors = 0 => ReaderInv /\ CanvasInv /\ DeliveredInv

LEMMA FramesOfFile ==
  ASSUME file \in Files
  PROVE  file.frames \in Seq(Frames) /\ Len(file.frames) \in Nat
BY DecoderAssumption

LEMMA SameEager == file' = file => Eager' = Eager
BY DEF Eager

LEMMA InitFile == DecoderInit => FileInv
<1> SUFFICES ASSUME DecoderInit PROVE FileInv
  OBVIOUS
<1>1. file \in Files /\ rest = file.frames /\ pc = "idle" /\ frame = <<>> /\ ~finished
      /\ delivered = <<>> /\ errors = 0 /\ disposal = DefaultDisposal /\ pixels = Blank
  BY DEF DecoderInit
<1>2. Len(file.frames) \in Nat /\ file.frames \in Seq(Frames)
  BY <1>1, FramesOfFile
<1>3. ReaderInv
  <2>1. Headless <= Len(rest)
    BY <1>1, <1>2, DecoderAssumption DEF Headless
  <2>2. QED
    BY <1>1, <1>2, <2>1 DEF ReaderInv, Busy
<1>4. Eager[0].base = Blank
  <2>1. Eager[0] = EagerAt(Eager, 0)
    BY <1>2, EagerIs
  <2>2. QED
    BY <2>1 DEF EagerAt
<1>5. Undone = Blank
  BY <1>1, DefaultDisposalDoesNothing DEF Undone
<1>6. CanvasInv
  BY <1>1, <1>4, <1>5 DEF CanvasInv
<1>7. DeliveredInv
  BY <1>1 DEF DeliveredInv
<1>8. QED
  BY <1>1, <1>3, <1>6, <1>7 DEF FileInv

(* A failure ends what is promised; a step that moves no data keeps it.     *)
LEMMA FailureKeepsFile ==
  ASSUME FileInv, file' = file, errors' = errors + 1 PROVE FileInv'
BY DEF FileInv

LEMMA CanvasKept ==
  ASSUME CanvasInv, DeliveredInv, file' = file, UNCHANGED vars, delivered' = delivered,
         (pc' = "count") <=> (pc = "count")
  PROVE  CanvasInv' /\ DeliveredInv'
<1>1. Eager' = Eager
  BY SameEager
<1>2. Undone' = Undone
  BY DEF Undone, vars
<1>3. QED
  BY <1>1, <1>2 DEF CanvasInv, DeliveredInv, vars

(* The eager canvas of the frame in the call.                               *)
LEMMA EagerNext ==
  ASSUME file \in Files, NEW n \in Nat, n < Len(file.frames), NEW f, f = file.frames[n + 1]
  PROVE  LET shown == Blit(Eager[n].base, f)
         IN /\ f \in Frames
            /\ Eager[n + 1].shown = shown
            /\ Eager[n + 1].base = CASE f.dispose = "previous" -> Eager[n].base
                                     [] f.dispose = "background" -> Fill(shown, Clipped(f))
                                     [] OTHER -> shown
<1>1. Len(file.frames) \in Nat /\ n + 1 \in 0 .. Len(file.frames) /\ n + 1 # 0
      /\ n + 1 - 1 = n /\ n + 1 \in 1 .. Len(file.frames)
  BY FramesOfFile
<1>2. Eager[n + 1] = EagerAt(Eager, n + 1)
  BY <1>1, EagerIs
<1>3. f \in Frames
  BY <1>1, FramesOfFile
<1>4. QED
  BY <1>1, <1>2, <1>3 DEF EagerAt

LEMMA ComposeFile ==
  ASSUME FileInv, MemoryInv, LimitsInv, Compose PROVE FileInv'
<1>1. pc = "compose" /\ pc' = "count" /\ UNCHANGED <<file, rest, finished, frame, delivered, errors>>
  BY DEF Compose, reader, account
<1>2. FileInv' \/ errors = 0
  BY <1>1 DEF FileInv
<1>3. CASE errors = 0
  <2> DEFINE n == Len(delivered)
             f == file.frames[n + 1]
  <2>1. ReaderInv /\ CanvasInv /\ DeliveredInv /\ file \in Files
    BY <1>3 DEF FileInv
  <2>2. n \in Nat /\ frame = <<f>> /\ n < Len(file.frames)
    <3>1. frame = <<f>> /\ n + 1 + Len(rest) = Len(file.frames)
      BY <1>1, <2>1 DEF ReaderInv, Busy
    <3>2. n \in Nat /\ Len(rest) \in Nat
      BY DEF LimitsInv, MemoryInv, FrameThere
    <3>3. QED
      BY <2>1, <3>1, <3>2, FramesOfFile
  <2>3. ReaderInv'
    BY <1>1, <2>1 DEF ReaderInv, Busy, Headless
  <2>4. Eager' = Eager
    BY <1>1, SameEager
  <2>5. DeliveredInv'
    BY <1>1, <2>1, <2>4 DEF DeliveredInv
  <2>6. CanvasInv'
    <3>1. f \in Frames /\ frame[1] = f
      BY <2>1, <2>2, EagerNext
    <3>2. ~canvasTaken /\ Undone = Eager[n].base /\ TypeInv
      BY <1>1, <2>1, <3>1
         DEF CanvasInv, MemoryInv, Compose, ProcessFrame, ProcessFrameTake,
             ProcessFrameInPlace, Draw, Composites
    <3>3. output' = Blit(Undone, f)
          /\ (~canvasTaken' => pixels' = Blit(Undone, f) /\ disposal' = DisposalFor(f, Undone))
      BY <3>1 DEF Compose, ProcessFrame, ProcessFrameTake, ProcessFrameInPlace, Draw
    <3>4. Eager[n + 1].shown = output'
      BY <2>1, <2>2, <3>2, <3>3, EagerNext
    <3>5. ASSUME ~canvasTaken' PROVE Undone' = Eager[n + 1].base
      <4>1. Undone' = Disposed(Blit(Undone, f), DisposalFor(f, Undone))
        BY <3>3, <3>5 DEF Undone
      <4>2. Undone' = CASE f.dispose = "previous" -> Undone
                        [] f.dispose = "background" -> Fill(Blit(Undone, f), Clipped(f))
                        [] OTHER -> Blit(Undone, f)
        BY <3>1, <3>2, <4>1, DisposalIsAfter
      <4>3. QED
        BY <2>1, <2>2, <3>2, <4>2, EagerNext
    <3>6. QED
      BY <1>1, <2>4, <3>4, <3>5 DEF CanvasInv
  <2>7. QED
    BY <1>1, <1>3, <2>1, <2>3, <2>5, <2>6 DEF FileInv
<1>4. QED
  BY <1>2, <1>3

LEMMA DeliverFile ==
  ASSUME FileInv, MemoryInv, LimitsInv, Deliver PROVE FileInv'
<1>1. pc = "count" /\ pc' = "idle" /\ frame' = <<>> /\ UNCHANGED <<file, rest, finished, errors, vars>>
  BY DEF Deliver, Returns
<1>2. FileInv' \/ errors = 0
  BY <1>1 DEF FileInv
<1>3. CASE errors = 0
  <2> DEFINE n == Len(delivered)
             f == file.frames[n + 1]
             d == [index |-> frameIndex, canvas |-> output, delay |-> frame[1].delay]
  <2>1. ReaderInv /\ CanvasInv /\ DeliveredInv /\ file \in Files
    BY <1>3 DEF FileInv
  <2>2. n \in Nat /\ Len(rest) \in Nat /\ Len(file.frames) \in Nat
    BY <2>1, FramesOfFile DEF LimitsInv, MemoryInv, FrameThere
  <2>3. frame = <<f>> /\ n + 1 + Len(rest) = Len(file.frames)
    BY <1>1, <2>1, <2>2 DEF ReaderInv, Busy
  <2>4. delivered' = Append(delivered, d) /\ Len(delivered') = n + 1
        /\ delivered'[n + 1] = d /\ \A k \in 1 .. n : delivered'[k] = delivered[k]
    BY DEF Deliver, LimitsInv
  <2>5. ReaderInv'
    BY <1>1, <2>1, <2>2, <2>3, <2>4 DEF ReaderInv, Busy, Headless
  <2>6. Eager' = Eager /\ Undone' = Undone
    BY <1>1, SameEager DEF Undone, vars
  <2>7. CanvasInv'
    BY <1>1, <2>1, <2>4, <2>6 DEF CanvasInv, vars
  <2>8. d.canvas = Eager[n + 1].shown /\ d.delay = f.delay
    BY <1>1, <2>1, <2>3 DEF CanvasInv
  <2>9. DeliveredInv'
    <3> SUFFICES ASSUME NEW k \in 1 .. n + 1
                 PROVE  /\ delivered'[k].canvas = Eager[k].shown
                        /\ delivered'[k].delay = file.frames[k].delay
      BY <1>1, <2>4, <2>6 DEF DeliveredInv
    <3> HIDE DEF d, f
    <3>1. CASE k = n + 1
      BY <2>4, <2>8, <3>1 DEF f
    <3>2. CASE k \in 1 .. n
      BY <2>1, <2>4, <3>2 DEF DeliveredInv
    <3>3. QED
      BY <2>2, <3>1, <3>2
  <2>10. QED
    BY <1>1, <1>3, <2>1, <2>5, <2>7, <2>9 DEF FileInv
<1>4. QED
  BY <1>2, <1>3

LEMMA NextFile ==
  FileInv /\ MemoryInv /\ LimitsInv /\ [DecoderNext]_all => FileInv'
<1> SUFFICES ASSUME FileInv, MemoryInv, LimitsInv, [DecoderNext]_all PROVE FileInv'
  OBVIOUS
<1>1. CASE ReadFails \/ BoundsFail \/ HeaderRefused \/ GrowthFails \/ PixelsFail
           \/ ComposeFails \/ TooLong
  <2>1. file' = file /\ errors' = errors + 1
    BY <1>1 DEF ReadFails, BoundsFail, HeaderRefused, GrowthFails, PixelsFail,
       ComposeFails, TooLong, Errs, Returns
  <2>2. QED
    BY <2>1, FailureKeepsFile
<1>2. ASSUME UNCHANGED <<file, errors, vars, delivered>>, (pc' = "count") <=> (pc = "count"),
             errors = 0 /\ ReaderInv => ReaderInv'
      PROVE  FileInv'
  BY <1>2, CanvasKept DEF FileInv
<1>3. ASSUME NEW m \in Modes, Call(m) PROVE FileInv'
  <2>1. UNCHANGED <<file, errors, vars, delivered, rest, finished, frame>> /\ pc = "idle" /\ pc' = "read"
        /\ ~finished
    BY <1>3 DEF Call, account, reader
  <2>2. ReaderInv => ReaderInv'
    BY <2>1 DEF ReaderInv, Busy, Headless
  <2>3. QED
    BY <1>2, <2>1, <2>2
<1>4. CASE EndOfFile
  <2>1. UNCHANGED <<file, errors, vars, delivered, rest>> /\ pc = "read" /\ pc' = "idle"
        /\ frame' = <<>> /\ AtEnd
    BY <1>4 DEF EndOfFile, account, Returns
  <2>2. ASSUME ReaderInv PROVE ReaderInv'
    <3>1. Len(rest) \in Nat /\ (rest = <<>> => Len(rest) = 0)
      BY DEF MemoryInv, FrameThere
    <3>2. frameIndex > 0 => delivered # <<>>
      BY DEF LimitsInv
    <3>3. Len(rest) = Headless /\ (file.ending = "trailer" \/ delivered # <<>>)
      BY <2>1, <2>2, <3>1, <3>2 DEF ReaderInv, AtEnd, OutOfInput, HeaderCut, Headless
    <3>4. QED
      BY <2>1, <2>2, <3>3 DEF ReaderInv, Busy, Headless
  <2>3. QED
    BY <1>2, <2>1, <2>2
<1>5. CASE ReadHeader
  <2>1. /\ UNCHANGED <<file, errors, pixels, disposal, canvasTaken, output, delivered, finished>>
        /\ pc = "read" /\ pc' = "pixels" /\ frame' = <<Head(rest)>> /\ rest' = Tail(rest)
        /\ rest # <<>> /\ ~HeaderCut
    BY <1>5 DEF ReadHeader, HeaderRead, account
  <2>2. CASE errors # 0
    BY <2>1, <2>2 DEF FileInv
  <2>3. CASE errors = 0
    <3>1. ReaderInv /\ CanvasInv /\ DeliveredInv /\ file \in Files
      BY <2>3 DEF FileInv
    <3>2. Eager' = Eager /\ Undone' = Undone
      BY <2>1, SameEager DEF Undone
    <3>3. CanvasInv' /\ DeliveredInv'
      BY <2>1, <3>1, <3>2 DEF CanvasInv, DeliveredInv
    <3> DEFINE n == Len(delivered)
               L == Len(file.frames)
               r == Len(rest)
    <3>4. n \in Nat /\ r \in Nat /\ L \in Nat /\ r # 0 /\ Len(rest') = r - 1
          /\ Head(rest) = rest[1] /\ \A i \in 1 .. r - 1 : rest'[i] = rest[i + 1]
      BY <2>1, <3>1, FramesOfFile DEF LimitsInv, MemoryInv, FrameThere
    <3>5. n + r = L /\ \A i \in 1 .. r : rest[i] = file.frames[L - r + i]
      BY <2>1, <3>1, <3>4 DEF ReaderInv, Busy
    <3>6. frame' = <<file.frames[n + 1]>>
      BY <2>1, <3>4, <3>5
    <3>7. \A i \in 1 .. Len(rest') : rest'[i] = file.frames[L - Len(rest') + i]
      <4> SUFFICES ASSUME NEW i \in 1 .. r - 1 PROVE rest[i + 1] = file.frames[L - (r - 1) + i]
        BY <3>4
      <4> HIDE DEF n, L, r
      <4>1. i + 1 \in 1 .. r /\ L - r + (i + 1) = L - (r - 1) + i
        BY <3>4
      <4>2. QED
        BY <3>5, <4>1
    <3>8. ReaderInv'
      <4>1. Len(frame') = 1 /\ Len(delivered') + Len(frame') + Len(rest') = Len(file'.frames)
        <5>1. Len(frame') = 1
          BY <2>1
        <5>2. delivered' = delivered /\ file' = file
          BY <2>1
        <5> HIDE DEF n, L, r
        <5>3. n + 1 + (r - 1) = L
          BY <3>4, <3>5
        <5>4. QED
          BY <3>4, <5>1, <5>2, <5>3 DEF n, L
      <4>2. ~finished
        BY <2>1, <3>1 DEF ReaderInv
      <4>3. Headless' = Headless /\ Headless <= Len(rest')
        <5>1. Headless <= r
          BY <3>1 DEF ReaderInv
        <5>2. ~(file.ending = "header" /\ r = 1)
          BY <2>1 DEF HeaderCut
        <5>3. Headless' = Headless
          BY <2>1 DEF Headless
        <5> HIDE DEF n, L, r
        <5>4. QED
          BY <3>4, <5>1, <5>2, <5>3 DEF Headless
      <4>4. QED
        BY <2>1, <3>6, <3>7, <4>1, <4>2, <4>3 DEF ReaderInv, Busy
    <3>9. QED
      BY <2>1, <2>3, <3>1, <3>3, <3>8 DEF FileInv
  <2>4. QED
    BY <2>2, <2>3
<1>6. CASE ReadPixels
  <2>1. UNCHANGED <<file, errors, vars, delivered, rest, finished, frame>>
        /\ pc = "pixels" /\ pc' = "compose"
    BY <1>6 DEF ReadPixels, account, reader
  <2>2. ReaderInv => ReaderInv'
    BY <2>1 DEF ReaderInv, Busy, Headless
  <2>3. QED
    BY <1>2, <2>1, <2>2
<1>7. CASE UNCHANGED all
  <2>1. UNCHANGED <<file, errors, vars, delivered, rest, finished, frame, pc>>
    BY <1>7 DEF all, account, reader, call
  <2>2. ReaderInv => ReaderInv'
    BY <2>1 DEF ReaderInv, Busy, Headless
  <2>3. QED
    BY <1>2, <2>1, <2>2
<1>8. QED
  BY <1>1, <1>3, <1>4, <1>5, <1>6, <1>7, ComposeFile, DeliverFile DEF DecoderNext

DecoderInv == MemoryInv /\ LimitsInv /\ FileInv

LEMMA DecoderInvariance == DecoderSpec => []DecoderInv
<1>1. DecoderInit => DecoderInv
  BY InitMemoryInv, InitLimits, InitFile DEF DecoderInv
<1>2. DecoderInv /\ [DecoderNext]_all => DecoderInv'
  BY NextMemoryInv, NextLimits, NextFile DEF DecoderInv
<1>3. QED
  BY <1>1, <1>2, PTL DEF DecoderSpec

LEMMA FileInvGives == LimitsInv /\ FileInv => DeliveredIsFile
<1> SUFFICES ASSUME LimitsInv, FileInv, errors = 0
             PROVE  /\ \A k \in DOMAIN delivered :
                         /\ delivered[k].index = k - 1
                         /\ delivered[k].canvas = Eager[k].shown
                    /\ finished => /\ Len(delivered) = Headed
                                   /\ file.ending = "trailer" \/ delivered # <<>>
  BY DEF DeliveredIsFile
<1>1. ReaderInv /\ DeliveredInv /\ Len(delivered) \in Nat
      /\ DOMAIN delivered = 1 .. Len(delivered) /\ Len(file.frames) \in Nat
  BY FramesOfFile DEF FileInv, LimitsInv
<1>2. \A k \in DOMAIN delivered : delivered[k].index = k - 1 /\ delivered[k].canvas = Eager[k].shown
  BY <1>1 DEF LimitsInv, DeliveredInv
<1>3. finished => /\ Len(delivered) = Headed
                  /\ file.ending = "trailer" \/ delivered # <<>>
  BY <1>1 DEF ReaderInv, Busy, Headless, Headed
<1>4. QED
  BY <1>2, <1>3

(* Until a call fails, the decoder delivers the file, as the eager          *)
(* semantics shows it, and reports the end only when every frame with a     *)
(* header that can be read was delivered, and, but for a trailer, one was.  *)
THEOREM DeliversTheFile == ClientSpec => []DeliveredIsFile
<1>1. DecoderInv => DeliveredIsFile
  BY FileInvGives DEF DecoderInv
<1>2. QED
  BY <1>1, DecoderInvariance, ClientsDriveTheDecoder, PTL

-----------------------------------------------------------------------------
(* The adapter.  While it is served it has counted what was delivered, and  *)
(* no call of the decoder has failed: its mark closes it before it could    *)
(* ask again.                                                               *)

Served == stage # "idle" \/ ~failed

\* What the k-th frame given out has to be.
Due(k) == [index |-> start + k - 1, canvas |-> Eager[start + k].shown,
           delay |-> file.frames[start + k].delay]

CountInv ==
  /\ stage \in {"idle", "loop", "inside"}
  /\ stage # "idle" => failed
  /\ Served /\ stage # "inside" => errors = 0 /\ pc = "idle" /\ seen = Len(delivered)
  /\ stage = "inside" /\ pc # "idle" => errors = 0 /\ seen = Len(delivered)
  /\ stage = "inside" /\ pc = "idle" /\ reply = "frame" =>
       /\ errors = 0 /\ Len(delivered) = seen + 1
       /\ output = delivered[seen + 1].canvas
  /\ stage = "inside" /\ pc = "idle" /\ reply = "end" =>
       errors = 0 /\ finished /\ seen = Len(delivered)

GivenInv ==
  /\ seen \in Nat /\ start \in Nat /\ given \in Seq(Deliveries)
  /\ \A k \in 1 .. Len(given) : given[k] = Due(k)
  /\ Len(given) = IF seen < start THEN 0 ELSE seen - start
  /\ answer = "end" => start + Len(given) >= Headed

(* decode_all.  It has collected what was delivered since it began, but for *)
(* the frame it is about to take; once it has answered with that, the       *)
(* decoder has finished and delivers no more.                               *)

\* All that was delivered from start on but the last n.
Collects(n) ==
  /\ start + Len(given) + n = Len(delivered)
  /\ \A k \in 1 .. Len(given) : given[k] = delivered[start + k]

CollectInv ==
  /\ stage \in {"idle", "loop", "inside"}
  /\ start \in Nat /\ given \in Seq(Deliveries)
  /\ finished => pc = "idle"
  /\ stage # "idle" => answer = "none"
  /\ stage = "loop" => pc = "idle" /\ Collects(0)
  /\ stage = "inside" /\ pc # "idle" => Collects(0)
  /\ stage = "inside" /\ pc = "idle" /\ reply = "frame" => Collects(1)
  /\ stage = "inside" /\ pc = "idle" /\ reply = "end" => Collects(0) /\ finished
  /\ stage = "idle" /\ answer = "end" => Collects(0) /\ finished

ClientInv ==
  \/ client = "animation" /\ CountInv /\ GivenInv
  \/ client = "caller" /\ CollectInv

LEMMA InitClient == ClientInit => ClientInv
<1> SUFFICES ASSUME ClientInit PROVE ClientInv
  OBVIOUS
<1>1. /\ client \in Clients /\ start \in 0 .. MaxStart
      /\ stage = "idle" /\ failed = FALSE /\ seen = 0 /\ given = <<>> /\ answer = "none"
      /\ errors = 0 /\ pc = "idle" /\ delivered = <<>> /\ ~finished
  BY DEF ClientInit, DecoderInit
<1>2. start \in Nat
  BY <1>1, ClientAssumption
<1>3. CountInv
  BY <1>1 DEF CountInv
<1>4. GivenInv
  BY <1>1, <1>2 DEF GivenInv
<1>5. CollectInv
  BY <1>1, <1>2 DEF CollectInv
<1>6. QED
  BY <1>1, <1>3, <1>4, <1>5 DEF ClientInv, Clients

(* What a step inside a call of the decoder comes to.                       *)
LEMMA StepComesTo ==
  ASSUME DecoderInv, DecoderNext, pc # "idle"
  PROVE  /\ file' = file
         /\ \/ pc' # "idle" /\ UNCHANGED <<errors, delivered, finished>>
            \/ pc' = "idle" /\ reply' \in {"error", "bounds"}
            \/ pc' = "idle" /\ reply' = "end" /\ finished' /\ UNCHANGED <<errors, delivered>>
            \/ /\ pc' = "idle" /\ reply' = "frame" /\ UNCHANGED errors
               /\ Len(delivered') = Len(delivered) + 1
               /\ \A k \in 1 .. Len(delivered) : delivered'[k] = delivered[k]
               /\ output' = delivered'[Len(delivered) + 1].canvas
<1>1. CASE ReadFails \/ BoundsFail \/ HeaderRefused \/ GrowthFails \/ PixelsFail
           \/ ComposeFails \/ TooLong
  BY <1>1 DEF ReadFails, BoundsFail, HeaderRefused, GrowthFails, PixelsFail,
     ComposeFails, TooLong, Errs, Returns
<1>2. CASE ReadHeader \/ ReadPixels \/ Compose
  BY <1>2 DEF ReadHeader, ReadPixels, Compose, account, reader
<1>3. CASE EndOfFile
  BY <1>3 DEF EndOfFile, Returns, account
<1>4. CASE Deliver
  <2> DEFINE d == [index |-> frameIndex, canvas |-> output, delay |-> frame[1].delay]
  <2>1. delivered' = Append(delivered, d) /\ output' = output
        /\ pc' = "idle" /\ reply' = "frame" /\ errors' = errors /\ file' = file
    BY <1>4 DEF Deliver, Returns, vars
  <2>2. delivered \in Seq(Deliveries)
    BY DEF DecoderInv, LimitsInv
  <2>3. /\ Len(delivered') = Len(delivered) + 1 /\ delivered'[Len(delivered) + 1] = d
        /\ \A k \in 1 .. Len(delivered) : delivered'[k] = delivered[k]
    BY <2>1, <2>2
  <2>4. QED
    BY <2>1, <2>3
<1>5. \A m \in Modes : ~Call(m)
  BY DEF Call
<1>6. QED
  BY <1>1, <1>2, <1>3, <1>4, <1>5 DEF DecoderNext

(* A step that counts and gives nothing new.                                *)
LEMMA GivenKept ==
  ASSUME GivenInv, UNCHANGED <<file, start, seen, given>>,
         answer' = "end" => answer = "end" \/ seen = Headed
  PROVE  GivenInv'
<1>1. Eager' = Eager /\ Headed' = Headed
  BY SameEager DEF Headed
<1>2. \A k \in 1 .. Len(given) : given[k] = Due(k)'
  BY <1>1 DEF GivenInv, Due
<1>3. Len(given) \in Nat
  BY DEF GivenInv
<1>4. answer' = "end" => start + Len(given) >= Headed
  <2> DEFINE h == Headed
             n == Len(given)
  <2>1. n \in Nat /\ start \in Nat /\ seen \in Nat
        /\ n = (IF seen < start THEN 0 ELSE seen - start)
        /\ (answer = "end" => start + n >= h)
    BY DEF GivenInv
  <2> HIDE DEF h, n
  <2>2. seen = h => start + n >= h
    BY <2>1
  <2>3. (answer = "end" \/ seen = h) => start + n >= h
    BY <2>1, <2>2
  <2>4. QED
    BY <2>3 DEF h, n
<1>5. QED
  BY <1>1, <1>2, <1>3, <1>4 DEF GivenInv

LEMMA DecoderStepGives ==
  ASSUME CountInv, GivenInv, DecoderInv, DecoderSteps, client = "animation" PROVE CountInv' /\ GivenInv'
<1>1. /\ stage = "inside" /\ pc # "idle" /\ DecoderNext
      /\ UNCHANGED <<client, start, stage, failed, seen, given, answer>>
  BY DEF DecoderSteps, clientVars
<1>2. CountInv'
  BY <1>1, StepComesTo DEF CountInv, Served
<1>3. file' = file
  BY <1>1, StepComesTo
<1>4. GivenInv'
  BY <1>1, <1>3, GivenKept
<1>5. QED
  BY <1>2, <1>4

(* A finished decoder has delivered every frame with a header.              *)
LEMMA FinishedAll ==
  ASSUME DecoderInv, errors = 0, finished PROVE Len(delivered) = Headed
BY FileInvGives DEF DecoderInv, DeliveredIsFile

LEMMA QuietSteps ==
  ASSUME CountInv, GivenInv, DecoderInv, client = "animation",
         Begin \/ StoppedBefore \/ NoMore \/ RenderFails \/ Advance
  PROVE  CountInv' /\ GivenInv'
<1>1. CASE Begin
  <2>1. UNCHANGED <<file, delivered, errors, pc, start, seen, given, answer>>
        /\ stage = "idle" /\ ~failed /\ stage' = "loop" /\ failed'
    BY <1>1 DEF Begin, all, reader, account, call
  <2>2. CountInv'
    BY <2>1 DEF CountInv, Served
  <2>3. QED
    BY <2>1, <2>2, GivenKept
<1>2. CASE StoppedBefore \/ RenderFails
  <2>1. UNCHANGED <<file, start, seen, given, failed>>
        /\ stage # "idle" /\ stage' = "idle" /\ answer' = "error"
    BY <1>2 DEF StoppedBefore, RenderFails, all, reader
  <2>2. CountInv'
    BY <2>1 DEF CountInv, Served
  <2>3. QED
    BY <2>1, <2>2, GivenKept
<1>3. CASE NoMore
  <2>1. UNCHANGED <<file, delivered, errors, pc, start, seen, given>>
        /\ stage' = "idle" /\ answer' = "end" /\ ~failed'
        /\ (\/ stage = "loop" /\ finished
            \/ stage = "inside" /\ pc = "idle" /\ reply = "end")
    BY <1>3 DEF NoMore, Answers, all, reader, account, call
  <2>2. errors = 0 /\ finished /\ pc = "idle" /\ seen = Len(delivered)
    BY <2>1 DEF CountInv, Served
  <2>3. seen = Headed
    BY <2>2, FinishedAll
  <2>4. CountInv'
    BY <2>1, <2>2 DEF CountInv
  <2>5. QED
    BY <2>1, <2>3, <2>4, GivenKept
<1>4. CASE Advance
  <2>1. UNCHANGED <<file, delivered, errors, start, seen, given, failed, answer>>
        /\ pc' = "read" /\ stage' = "inside" /\ stage = "loop"
    BY <1>4 DEF Advance, Call, reader, account
  <2>2. CountInv'
    BY <2>1 DEF CountInv, Served
  <2>3. QED
    BY <2>1, <2>2, GivenKept
<1>5. QED
  BY <1>1, <1>2, <1>3, <1>4

(* A delivered frame is counted, and given out from start on.               *)
LEMMA FrameSteps ==
  ASSUME CountInv, GivenInv, DecoderInv, client = "animation", SkipFrame \/ GiveFrame
  PROVE  CountInv' /\ GivenInv'
<1>1. /\ stage = "inside" /\ pc = "idle" /\ reply = "frame"
      /\ UNCHANGED <<file, delivered, errors, pc, start>>
      /\ seen' = seen + 1
      /\ stage' = "idle" \/ failed'
      /\ stage' \in {"idle", "loop"}
  BY DEF SkipFrame, GiveFrame, HasFrame, Answers, all, reader, account, call, CountInv
<1>2. errors = 0 /\ Len(delivered) = seen + 1 /\ output = delivered[seen + 1].canvas
  BY <1>1 DEF CountInv
<1>3. CountInv'
  BY <1>1, <1>2 DEF CountInv
<1>4. seen \in Nat /\ start \in Nat /\ Len(given) \in Nat /\ given \in Seq(Deliveries)
  BY DEF GivenInv
<1>5. Eager' = Eager /\ Headed' = Headed
  BY <1>1, SameEager DEF Headed
<1>6. CASE SkipFrame
  <2>1. seen < start /\ UNCHANGED <<given, answer>>
    BY <1>6 DEF SkipFrame, HasFrame
  <2>2. \A k \in 1 .. Len(given) : given[k] = Due(k)'
    BY <1>1, <1>5, <2>1 DEF GivenInv, Due
  <2>3. Len(given') = IF seen' < start' THEN 0 ELSE seen' - start'
    BY <1>1, <1>4, <2>1 DEF GivenInv
  <2>4. GivenInv'
    BY <1>1, <1>4, <1>5, <2>1, <2>2, <2>3 DEF GivenInv
  <2>5. QED
    BY <1>3, <2>4
<1>7. CASE GiveFrame
  <2> DEFINE d == [index |-> seen, canvas |-> output, delay |-> delivered[Len(delivered)].delay]
             n == Len(given)
  <2>1. given' = Append(given, d) /\ start <= seen /\ answer' # "end"
    BY <1>4, <1>7 DEF GiveFrame, HasFrame, Answers
  <2>2. n = seen - start
    BY <1>4, <2>1 DEF GivenInv
  <2>3. /\ delivered \in Seq(Deliveries) /\ seen + 1 \in 1 .. Len(delivered)
        /\ delivered[seen + 1] \in Deliveries /\ DeliveredInv
    BY <1>2, <1>4 DEF DecoderInv, LimitsInv, FileInv
  <2>4. d \in Deliveries
    BY <1>2, <1>4, <2>3 DEF Deliveries, DecoderInv, MemoryInv, TypeInv, TypeOK, Canvases
  <2>5. start + (n + 1) = seen + 1 /\ start + (n + 1) - 1 = seen
    BY <1>4, <2>2
  <2>6. d = Due(n + 1)
    <3>1. d.canvas = Eager[seen + 1].shown
      BY <1>2, <2>3 DEF DeliveredInv
    <3>2. d.delay = file.frames[seen + 1].delay
      BY <1>2, <2>3 DEF DeliveredInv
    <3>3. d = [index |-> seen, canvas |-> d.canvas, delay |-> d.delay]
      OBVIOUS
    <3> HIDE DEF d, n
    <3>4. QED
      BY <2>5, <3>1, <3>2, <3>3 DEF Due
  <2>7. given' \in Seq(Deliveries) /\ Len(given') = n + 1
        /\ given'[n + 1] = d /\ \A k \in 1 .. n : given'[k] = given[k]
    BY <1>4, <2>1, <2>4
  <2> HIDE DEF d
  <2>8. \A k \in 1 .. n + 1 : given'[k] = Due(k)'
    <3> SUFFICES ASSUME NEW k \in 1 .. n + 1 PROVE given'[k] = Due(k)'
      OBVIOUS
    <3>1. Due(k)' = Due(k)
      BY <1>1, <1>5 DEF Due
    <3>2. CASE k = n + 1
      BY <2>6, <2>7, <3>1, <3>2
    <3>3. CASE k \in 1 .. n
      BY <2>7, <3>1, <3>3 DEF GivenInv
    <3>4. QED
      BY <1>4, <3>2, <3>3
  <2>9. Len(given') = IF seen' < start' THEN 0 ELSE seen' - start'
    BY <1>1, <1>4, <2>1, <2>2, <2>7
  <2>10. GivenInv'
    BY <1>1, <1>4, <2>1, <2>7, <2>8, <2>9 DEF GivenInv
  <2>11. QED
    BY <1>3, <2>10
<1>8. QED
  BY <1>6, <1>7

(* A decoder that has finished makes no step that is not a client's.        *)
LEMMA FinishedRests ==
  ASSUME DecoderNext, finished => pc = "idle"
  PROVE  ~finished /\ (finished' => pc' = "idle")
<1>1. ASSUME NEW m \in Modes, Call(m) PROVE ~finished /\ ~finished'
  BY <1>1 DEF Call, reader
<1>2. CASE EndOfFile
  BY <1>2 DEF EndOfFile, Returns
<1>3. CASE \/ ReadFails \/ BoundsFail \/ HeaderRefused \/ GrowthFails \/ PixelsFail
           \/ ComposeFails \/ TooLong \/ ReadHeader \/ ReadPixels \/ Compose \/ Deliver
  BY <1>3 DEF ReadFails, BoundsFail, HeaderRefused, GrowthFails, PixelsFail, ComposeFails,
     TooLong, ReadHeader, ReadPixels, Compose, Deliver, Errs, reader
<1>4. QED
  BY <1>1, <1>2, <1>3 DEF DecoderNext

(* What is collected stays a run of what is delivered.                      *)
LEMMA CollectsMore ==
  ASSUME Collects(0), UNCHANGED <<start, given>>, start \in Nat, given \in Seq(Deliveries),
         delivered \in Seq(Deliveries), Len(delivered') = Len(delivered) + 1,
         \A k \in 1 .. Len(delivered) : delivered'[k] = delivered[k]
  PROVE  Collects(1)'
<1> DEFINE n == Len(given)
           m == Len(delivered)
<1>1. n \in Nat /\ m \in Nat /\ start + n = m
  BY DEF Collects
<1>2. \A k \in 1 .. n : given[k] = delivered[start + k]
  BY DEF Collects
<1>3. Len(given') = n /\ Len(delivered') = m + 1 /\ start' = start
  OBVIOUS
<1>4. \A k \in 1 .. m : delivered'[k] = delivered[k]
  OBVIOUS
<1> HIDE DEF n, m
<1>5. \A k \in 1 .. n : start + k \in 1 .. m
  BY <1>1
<1>6. start + n + 1 = m + 1
  BY <1>1
<1>7. QED
  BY <1>2, <1>3, <1>4, <1>5, <1>6 DEF Collects

LEMMA CallerStepCollects ==
  ASSUME CollectInv, DecoderInv, CallerSteps \/ DecoderSteps PROVE CollectInv'
<1>1. /\ DecoderNext /\ UNCHANGED <<client, start, stage, failed, seen, given, answer>>
      /\ stage = "idle" \/ (stage = "inside" /\ pc # "idle")
  BY DEF CallerSteps, DecoderSteps, clientVars
<1>2. ~finished /\ (finished' => pc' = "idle")
  BY <1>1, FinishedRests DEF CollectInv
<1>3. CASE stage = "idle"
  BY <1>1, <1>2, <1>3 DEF CollectInv
<1>4. CASE stage = "inside" /\ pc # "idle"
  <2>1. Collects(0) /\ start \in Nat /\ given \in Seq(Deliveries) /\ delivered \in Seq(Deliveries)
    BY <1>4 DEF CollectInv, DecoderInv, LimitsInv
  <2>2. CASE delivered' = delivered
    <3>1. Collects(0)'
      BY <1>1, <2>1, <2>2 DEF Collects
    <3>2. pc' # "idle" \/ reply' # "frame"
      <4>1. Len(delivered) # Len(delivered) + 1
        BY <2>1
      <4>2. QED
        BY <1>1, <1>4, <2>2, <4>1, StepComesTo
    <3>3. pc' = "idle" /\ reply' = "end" => finished'
      BY <1>1, <1>4, StepComesTo
    <3>4. QED
      BY <1>1, <1>2, <1>4, <3>1, <3>2, <3>3 DEF CollectInv
  <2>3. CASE /\ pc' = "idle" /\ reply' = "frame"
             /\ Len(delivered') = Len(delivered) + 1
             /\ \A k \in 1 .. Len(delivered) : delivered'[k] = delivered[k]
    <3>1. Collects(1)'
      BY <1>1, <2>1, <2>3, CollectsMore
    <3>2. QED
      BY <1>1, <1>2, <1>4, <2>3, <3>1 DEF CollectInv
  <2>4. CASE pc' = "idle" /\ reply' \in {"error", "bounds"}
    BY <1>1, <1>2, <1>4, <2>4 DEF CollectInv
  <2>5. QED
    BY <1>1, <1>4, <2>2, <2>3, <2>4, StepComesTo
<1>5. QED
  BY <1>1, <1>3, <1>4

LEMMA CollectSteps ==
  ASSUME CollectInv, DecoderInv,
         CollectBegin \/ Collect \/ CollectFrame \/ CollectFails \/ CollectEnds
  PROVE  CollectInv'
<1>1. /\ start \in Nat /\ given \in Seq(Deliveries) /\ delivered \in Seq(Deliveries)
      /\ Len(given) \in Nat /\ Len(delivered) \in Nat
  BY DEF CollectInv, DecoderInv, LimitsInv
<1>2. CASE CollectBegin
  <2>1. UNCHANGED <<delivered, pc, finished>> /\ pc = "idle" /\ stage' = "loop"
        /\ start' = Len(delivered) /\ given' = <<>> /\ answer' = "none"
    BY <1>2 DEF CollectBegin, all, account, call, reader
  <2>2. Collects(0)'
    BY <1>1, <2>1 DEF Collects
  <2>3. QED
    BY <1>1, <2>1, <2>2 DEF CollectInv
<1>3. CASE Collect
  <2>1. UNCHANGED <<delivered, finished, start, given, answer>> /\ ~finished
        /\ stage = "loop" /\ stage' = "inside" /\ pc' = "read"
    BY <1>3 DEF Collect, Call, account, reader
  <2>2. Collects(0)'
    BY <2>1 DEF CollectInv, Collects
  <2>3. QED
    BY <1>1, <2>1, <2>2 DEF CollectInv
<1>4. CASE CollectFrame
  <2> DEFINE n == Len(given)
             d == Last(delivered)
  <2>1. UNCHANGED <<delivered, finished, start, pc, answer>> /\ stage = "inside" /\ pc = "idle"
        /\ stage' = "loop" /\ given' = Append(given, d) /\ Collects(1)
    BY <1>4 DEF CollectFrame, Collected, all, account, reader, call, CollectInv
  <2>2. start + n + 1 = Len(delivered) /\ \A k \in 1 .. n : given[k] = delivered[start + k]
    BY <2>1 DEF Collects
  <2>3. d = delivered[start + (n + 1)] /\ d \in Deliveries
    <3>1. start + (n + 1) = Len(delivered) /\ Len(delivered) \in 1 .. Len(delivered)
      BY <1>1, <2>2
    <3>2. QED
      BY <1>1, <3>1 DEF Last
  <2> HIDE DEF d
  <2>4. /\ given' \in Seq(Deliveries) /\ Len(given') = n + 1 /\ given'[n + 1] = d
        /\ \A k \in 1 .. n : given'[k] = given[k]
    BY <1>1, <2>1, <2>3
  <2>5. \A k \in 1 .. n + 1 : given'[k] = delivered[start + k]
    <3> SUFFICES ASSUME NEW k \in 1 .. n + 1 PROVE given'[k] = delivered[start + k]
      OBVIOUS
    <3>1. k = n + 1 \/ k \in 1 .. n
      BY <1>1
    <3>2. QED
      BY <2>2, <2>3, <2>4, <3>1
  <2>6. Collects(0)'
    <3>1. start + (n + 1) + 0 = Len(delivered)
      BY <1>1, <2>2
    <3>2. QED
      BY <2>1, <2>4, <2>5, <3>1 DEF Collects
  <2>7. QED
    BY <1>1, <2>1, <2>4, <2>6 DEF CollectInv
<1>5. CASE CollectFails
  <2>1. UNCHANGED <<finished, start, pc>> /\ stage' = "idle" /\ answer' = "error" /\ given' = <<>>
    BY <1>5 DEF CollectFails, all, reader, call
  <2>2. QED
    BY <1>1, <2>1 DEF CollectInv
<1>6. CASE CollectEnds
  <2>1. UNCHANGED <<delivered, finished, start, given, pc>> /\ stage' = "idle" /\ answer' = "end"
        /\ \/ stage = "inside" /\ pc = "idle" /\ reply = "end"
           \/ stage = "loop" /\ finished
    BY <1>6 DEF CollectEnds, Collected, all, account, reader, call
  <2>2. Collects(0) /\ finished
    BY <2>1 DEF CollectInv
  <2>3. Collects(0)'
    BY <2>1, <2>2 DEF Collects
  <2>4. QED
    BY <1>1, <2>1, <2>2, <2>3 DEF CollectInv
<1>7. QED
  BY <1>2, <1>3, <1>4, <1>5, <1>6

LEMMA NextClient == ClientInv /\ DecoderInv /\ [ClientNext]_everything => ClientInv'
<1> SUFFICES ASSUME ClientInv, DecoderInv, [ClientNext]_everything PROVE ClientInv'
  OBVIOUS
<1>1. client' = client
  BY DEF ClientNext, ClientStep, CallerSteps, DecoderSteps, Begin, StoppedBefore,
     CollectBegin, Collect, Advance, NoMore, RenderFails, SkipFrame, GiveFrame, CollectFrame,
     CollectFails, CollectEnds, HasFrame, Collected, everything, clientVars
<1>2. CASE UNCHANGED everything
  <2>1. UNCHANGED <<file, delivered, errors, pc, reply, output, finished,
                    client, start, stage, failed, seen, given, answer>>
    BY <1>2 DEF everything, all, clientVars, vars, reader, call, account
  <2>2. Eager' = Eager /\ Headed' = Headed
    BY <2>1, SameEager DEF Headed
  <2>3. CountInv => CountInv'
    BY <2>1 DEF CountInv, Served
  <2>4. GivenInv => GivenInv'
    BY <2>1, <2>2 DEF GivenInv, Due
  <2>5. CollectInv => CollectInv'
    BY <2>1 DEF CollectInv, Collects
  <2>6. QED
    BY <1>1, <2>3, <2>4, <2>5 DEF ClientInv
<1>3. CASE client = "animation" /\ ClientNext
  <2>1. \/ DecoderSteps \/ SkipFrame \/ GiveFrame
        \/ Begin \/ StoppedBefore \/ NoMore \/ RenderFails \/ Advance
    BY <1>3 DEF ClientNext, ClientStep, CallerSteps, CollectBegin, Collect, CollectFrame,
       CollectFails, CollectEnds, Collected
  <2>2. CountInv /\ GivenInv
    BY <1>3 DEF ClientInv
  <2>3. CountInv' /\ GivenInv'
    BY <1>3, <2>1, <2>2, DecoderStepGives, QuietSteps, FrameSteps
  <2>4. QED
    BY <1>1, <1>3, <2>3 DEF ClientInv
<1>4. CASE client = "caller" /\ ClientNext
  <2>1. \/ CallerSteps \/ DecoderSteps
        \/ CollectBegin \/ Collect \/ CollectFrame \/ CollectFails \/ CollectEnds
    BY <1>4 DEF ClientNext, ClientStep, Begin, StoppedBefore, Advance, NoMore, RenderFails,
       SkipFrame, GiveFrame, HasFrame
  <2>2. CollectInv
    BY <1>4 DEF ClientInv
  <2>3. CollectInv'
    BY <2>1, <2>2, CallerStepCollects, CollectSteps
  <2>4. QED
    BY <1>1, <1>4, <2>3 DEF ClientInv
<1>5. QED
  BY <1>2, <1>3, <1>4 DEF ClientInv

LEMMA ClientInvariance == ClientSpec => []ClientInv
<1>1. ClientSpec => []DecoderInv
  BY ClientsDriveTheDecoder, DecoderInvariance
<1>2. QED
  BY <1>1, InitClient, NextClient, PTL DEF ClientSpec

(* The adapter gives out a run of the file from start_frame_index, as the   *)
(* eager semantics shows it, after whatever failures.                       *)
THEOREM AdapterGivesTheFile == ClientSpec => []GivenIsFile
<1>1. ClientInv => GivenIsFile
  <2> SUFFICES ASSUME ClientInv, client = "animation"
               PROVE  /\ \A k \in DOMAIN given : given[k] = Due(k)
                      /\ answer = "end" => start + Len(given) >= Headed
    BY DEF GivenIsFile, Due
  <2>1. GivenInv
    BY DEF ClientInv
  <2>2. DOMAIN given = 1 .. Len(given)
    BY <2>1 DEF GivenInv
  <2>3. QED
    BY <2>1, <2>2 DEF GivenInv
<1>2. QED
  BY <1>1, ClientInvariance, PTL

(* A result of decode_all, the first or a later one, has what the decoder   *)
(* delivered since the call began, up to the end of the file; and until a   *)
(* call of the decoder fails these are the frames of the file from there    *)
(* on, as the eager semantics shows them.                                   *)
THEOREM CollectsTheFile == ClientSpec => []CollectedIsFile
<1>1. ClientInv /\ DecoderInv => CollectedIsFile
  <2> SUFFICES ASSUME ClientInv, DecoderInv, client = "caller", answer = "end"
               PROVE  /\ finished
                      /\ start + Len(given) = Len(delivered)
                      /\ \A k \in DOMAIN given : given[k] = delivered[start + k]
                      /\ errors = 0 =>
                           /\ start + Len(given) = Headed
                           /\ \A k \in DOMAIN given :
                                /\ given[k].index = start + k - 1
                                /\ given[k].canvas = Eager[start + k].shown
    BY DEF CollectedIsFile
  <2>1. CollectInv
    BY DEF ClientInv
  <2>2. Collects(0) /\ finished /\ start \in Nat
        /\ Len(given) \in Nat /\ DOMAIN given = 1 .. Len(given)
    BY <2>1 DEF CollectInv
  <2>3. /\ start + Len(given) = Len(delivered)
        /\ \A k \in 1 .. Len(given) : given[k] = delivered[start + k]
    BY <2>2 DEF Collects
  <2>4. Len(delivered) \in Nat /\ DOMAIN delivered = 1 .. Len(delivered)
    BY DEF DecoderInv, LimitsInv
  <2>5. ASSUME errors = 0
        PROVE  /\ start + Len(given) = Headed
               /\ \A k \in 1 .. Len(given) :
                    /\ given[k].index = start + k - 1
                    /\ given[k].canvas = Eager[start + k].shown
    <3>1. Len(delivered) = Headed
      BY <2>2, <2>5, FinishedAll
    <3>2. \A k \in 1 .. Len(delivered) :
            delivered[k].index = k - 1 /\ delivered[k].canvas = Eager[k].shown
      BY <2>4, <2>5, FileInvGives DEF DecoderInv, DeliveredIsFile
    <3> DEFINE n == Len(given)
               m == Len(delivered)
    <3>3. \A k \in 1 .. n : start + k \in 1 .. m
      <4>1. start \in Nat /\ n \in Nat /\ m \in Nat /\ start + n = m
        BY <2>2, <2>3, <2>4
      <4> HIDE DEF n, m
      <4>2. QED
        BY <4>1
    <3>4. start + n = Headed
      BY <2>3, <3>1
    <3>5. ASSUME NEW k \in 1 .. n
          PROVE  given[k].index = start + k - 1 /\ given[k].canvas = Eager[start + k].shown
      <4>1. PICK j \in 1 .. m : j = start + k
        BY <3>3
      <4>2. given[k] = delivered[j]
        BY <2>3, <4>1
      <4>3. delivered[j].index = j - 1 /\ delivered[j].canvas = Eager[j].shown
        BY <3>2
      <4>4. j - 1 = start + k - 1
        BY <2>2, <4>1
      <4>5. QED
        BY <4>1, <4>2, <4>3, <4>4
    <3>6. QED
      BY <3>4, <3>5
  <2>6. QED
    BY <2>2, <2>3, <2>5
<1>2. ClientSpec => []DecoderInv
  BY ClientsDriveTheDecoder, DecoderInvariance
<1>3. QED
  BY <1>1, <1>2, ClientInvariance, PTL

-----------------------------------------------------------------------------
(* The decoder on its screen: it composes as the whole-canvas compositor    *)
(* does, and never draws on a canvas it gave away, whatever is read,        *)
(* refused or tried again, and whoever calls.                               *)
THEOREM DecoderComposites == ClientSpec => ImplementsCompositor /\ TakenIsFinal
<1>1. DecoderInit => Abstract!Init
  BY SameOperators, DefaultDisposalDoesNothing DEF DecoderInit, Abstract!Init
<1>2. MemoryInv /\ [DecoderNext]_all =>
        [Next]_vars \/ UNCHANGED <<pixels, disposal, canvasTaken, output, input>>
  <2> SUFFICES ASSUME MemoryInv, [DecoderNext]_all
               PROVE  [Next]_vars \/ UNCHANGED <<pixels, disposal, canvasTaken, output, input>>
    OBVIOUS
  <2>1. CASE Compose \/ ComposeFails
    <3>1. PICK f \in Frames : frame = <<f>>
      BY <2>1 DEF MemoryInv, FrameThere, Compose, ComposeFails
    <3>2. frame[1] = f
      BY <3>1
    <3>3. QED
      BY <2>1, <3>2 DEF Compose, ComposeFails, Next
  <2>2. CASE ~(Compose \/ ComposeFails)
    BY <2>2 DEF DecoderNext, Call, EndOfFile, ReadFails, BoundsFail, HeaderRefused, ReadHeader,
       GrowthFails, PixelsFail, ReadPixels, Deliver, TooLong, all, vars
  <2>3. QED
    BY <2>1, <2>2
<1>3. MemoryInv /\ MemoryInv' /\ [DecoderNext]_all => [Abstract!Next]_(Abstract!vars)
  <2> SUFFICES ASSUME MemoryInv, MemoryInv', [DecoderNext]_all
               PROVE  [Abstract!Next]_(Abstract!vars)
    OBVIOUS
  <2>1. CASE [Next]_vars
    BY <2>1, StepRefines DEF MemoryInv
  <2>2. CASE UNCHANGED <<pixels, disposal, canvasTaken, output, input>>
    BY <2>2 DEF Abstract!vars
  <2>3. QED
    BY <1>2, <2>1, <2>2
<1>4. MemoryInv /\ [DecoderNext]_all =>
        (canvasTaken => UNCHANGED <<pixels, output, canvasTaken>>) \/ UNCHANGED vars
  <2> SUFFICES ASSUME MemoryInv, [DecoderNext]_all, canvasTaken
               PROVE  UNCHANGED <<pixels, output, canvasTaken>>
    OBVIOUS
  <2>1. [Next]_vars => UNCHANGED <<pixels, output, canvasTaken>>
    BY DEF Next, ProcessFrameInPlace, ProcessFrame, CopyFails, ProcessFrameTake, Draw,
       BackupFails, Composites, Reset, vars
  <2>2. QED
    BY <1>2, <2>1
<1>5. DecoderSpec => []MemoryInv
  BY InitMemoryInv, NextMemoryInv, PTL DEF DecoderSpec
<1>6. QED
  BY <1>1, <1>3, <1>4, <1>5, ClientsDriveTheDecoder, PTL
     DEF DecoderSpec, ImplementsCompositor, Abstract!Spec, TakenIsFinal
=============================================================================
