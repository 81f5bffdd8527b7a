------------------------------- MODULE DecodeJob --------------------------------
(***************************************************************************)
(* GifDecodeJob, src/src/codec.rs: what the adapter does with a file.      *)
(* `inventory` walks it (Inventory); every other operation probes its      *)
(* headers, a probe that fails being no obstacle, and makes a Decoder,     *)
(* which reads the extensions in front of the first image at once; decode  *)
(* takes one frame, probe_full and a caller of the animation decoder take  *)
(* them all.  A stop may fire once at any poll, whoever polls it: the      *)
(* probe, Decoder::new, each frame, and StopCheckingRead whenever the      *)
(* reader needs more bytes.  `reader` is no ghost here.                    *)
(***************************************************************************)
EXTENDS Inventory

VARIABLES
  op,        \* the operation
  job,       \* where it is
  oversize,  \* the file is larger than max_input_bytes of the config or the job
  animates,  \* the job's policy allows animations
  result     \* what it returned

jobVars == <<op, job, oversize, animates, result>>

Ops == {"inventory", "probe", "probe_full", "output_info", "decode", "animation"}

JobInit ==
  /\ Init
  /\ op \in Ops /\ job = "asked" /\ result = "none"
  /\ oversize \in BOOLEAN /\ animates \in BOOLEAN
  /\ op # "animation" => animates
  /\ oversize => animates

Resolves(answer) == job' = "done" /\ result' = answer

\* output_info cannot be stopped.
Stoppable == op # "output_info"

\* Who polls has the reason; the next poll may be quiet again.
StopFires ==
  /\ Stoppable /\ fired' = TRUE
  /\ UNCHANGED latched

\* Refused before any byte is read: by the policy, then by the size.
Refuse ==
  /\ job = "asked" /\ (~animates \/ oversize)
  /\ Resolves(IF ~animates THEN "Unsupported" ELSE "FileTooLarge")
  /\ UNCHANGED <<vars, op, oversize, animates>>

Start ==
  /\ job = "asked" /\ animates /\ ~oversize
  /\ job' = IF op = "inventory" THEN "walk" ELSE "probe"
  /\ UNCHANGED <<vars, op, oversize, animates, result>>

\* The polls of animation_frame_decoder around its probe; Decoder::new's own.
StoppedOutside ==
  /\ \/ job = "asked" /\ op = "animation" /\ animates /\ ~oversize
     \/ job = "new"
  /\ StopFires
  /\ Resolves("Cancelled")
  /\ UNCHANGED <<file, phase, at, walker, found, facts, loops, parts, reply, reader, probe,
                 op, oversize, animates>>

-----------------------------------------------------------------------------
(* inventory                                                                *)

WalkOn ==
  /\ job = "walk" /\ reply = "none"
  /\ Next
  /\ UNCHANGED jobVars

\* max_memory / BYTES_PER_PART decides whether the cap is a memory limit.
WalkAnswer ==
  CASE reply = "cancelled" -> "Cancelled"
    [] reply = "parts"     -> "TooManyParts"
    [] OTHER               -> "ok"

EndWalk ==
  /\ job = "walk" /\ reply # "none"
  /\ Resolves(WalkAnswer)
  /\ UNCHANGED <<vars, op, oversize, animates>>

-----------------------------------------------------------------------------
(* optional_probe                                                           *)

JobProbe ==
  /\ job = "probe"
  /\ ProbeStep(file)
  /\ UNCHANGED <<file, phase, at, walker, found, facts, loops, parts, reply, token, reader, jobVars>>

JobProbeStopped ==
  /\ job = "probe" /\ ProbePolls(probe, file)
  /\ ProbeStopped
  /\ StopFires
  /\ UNCHANGED <<file, phase, at, walker, found, facts, loops, parts, reply, reader, jobVars>>

\* Any failure of the probe is no obstacle.
ProbeToleratesAny == TRUE

\* A failure of the probe is no obstacle, a stop is final.
ProbeTolerated == probe.answer # "Cancelled"

EndJobProbe ==
  /\ job = "probe" /\ probe.answer # "none"
  /\ IF ProbeTolerated THEN job' = "new" /\ result' = result ELSE Resolves("Cancelled")
  /\ UNCHANGED <<vars, op, oversize, animates>>

\* What ImageInfo says: alpha without a probe, an animation only with one.
HasAlpha == probe.answer = "ok" => probe.transparency

SaysAnimation == probe.answer = "ok" /\ IsAnimated(probe)

-----------------------------------------------------------------------------
(* The decoder under the operation                                          *)

\* pre_validate_header, the palette and the charges for canvas and buffer.
New ==
  /\ job = "new"
  /\ IF reader.open THEN job' = "header" /\ at' = 1 /\ result' = result
     ELSE Resolves("Failed") /\ at' = at
  /\ UNCHANGED <<file, phase, walker, found, facts, loops, parts, reply, token, reader, probe,
                 op, oversize, animates>>

Here == file.blocks[at]

AtExtension == at <= Len(file.blocks) /\ Here.kind \in {"control", "loop", "other"}

\* read_info: the extensions up to the first other block, the end or an error.
ReadInfo ==
  /\ job = "header" /\ AtExtension
  /\ reader' = Read(file, reader, at) /\ at' = at + 1
  /\ IF reader'.open THEN UNCHANGED <<job, result>> ELSE Resolves("Failed")
  /\ UNCHANGED <<file, phase, walker, found, facts, loops, parts, reply, token, probe,
                 op, oversize, animates>>

EndInfo ==
  /\ job = "header" /\ ~AtExtension
  /\ CASE at > Len(file.blocks) -> Resolves("Failed")
       [] at <= Len(file.blocks) /\ op \in {"probe", "output_info"} -> Resolves("ok")
       [] OTHER -> job' = "frames" /\ result' = result
  /\ UNCHANGED <<vars, op, oversize, animates>>

\* A cut anywhere, in the data of a frame too.
CutAnywhere(b) == CutOff(b)

\* The end of the input in the middle of next_frame_info; the frame's place
\* is checked in front of its table.
CutShort(b) ==
  \/ b.kind \in {"control", "loop", "other", "unknown"} /\ ~b.whole
  \/ b.kind = "image" /\ b.reads = "descriptor"
  \/ b.kind = "image" /\ b.reads = "table" /\ b.inside

\* "Tolerate missing trailer": once a frame was decoded.
EndsFrames(b) == b.kind = "trailer" \/ (CutShort(b) /\ reader.delivered # {})

\* No frame is no image for decode.
AtTheEnd == IF op = "decode" THEN "UnexpectedEof" ELSE "ok"

ReadFrames ==
  /\ job = "frames" /\ at <= Len(file.blocks)
  /\ reader' = Read(file, reader, at) /\ at' = at + 1
  /\ CASE EndsFrames(Here) -> Resolves(AtTheEnd)
       [] ~EndsFrames(Here) /\ ~reader'.going -> Resolves("Failed")
       [] ~EndsFrames(Here) /\ reader'.going /\ op = "decode" /\ at \in reader'.delivered ->
            Resolves("ok")
       [] OTHER -> UNCHANGED <<job, result>>
  /\ UNCHANGED <<file, phase, walker, found, facts, loops, parts, reply, token, probe,
                 op, oversize, animates>>

EndOfInput ==
  /\ job = "frames" /\ at > Len(file.blocks)
  /\ Resolves(IF reader.delivered # {} THEN AtTheEnd ELSE "Failed")
  /\ UNCHANGED <<vars, op, oversize, animates>>

\* CancelledRead inside io::Error::other is not retried and keeps its reason.
ReadFailsWith == Resolves("Cancelled")

ReadStopped ==
  /\ job \in {"header", "frames"} /\ ~fired
  /\ StopFires
  /\ ReadFailsWith
  /\ UNCHANGED <<file, phase, at, walker, found, facts, loops, parts, reply, reader, probe,
                 op, oversize, animates>>

-----------------------------------------------------------------------------
JobNext ==
  \/ Refuse \/ Start \/ StoppedOutside
  \/ WalkOn \/ EndWalk
  \/ JobProbe \/ JobProbeStopped \/ EndJobProbe
  \/ New \/ ReadInfo \/ EndInfo \/ ReadFrames \/ EndOfInput \/ ReadStopped

JobSpec == JobInit /\ [][JobNext]_<<vars, jobVars>>

-----------------------------------------------------------------------------
(* "Re-polling cannot recover a reason from a token that fires once"       *)
(* (codec.rs:38): whatever operation polls it, and wherever, a stop that   *)
(* has fired is what the operation returns; it is taken neither for a file *)
(* the probe cannot read nor for the end of the input.                     *)
StopIsReported == fired /\ job = "done" => result = "Cancelled"

(* What the headers promised is what is decoded: where both walkers read   *)
(* the same blocks, an animation decoded to its end has the frames the     *)
(* probe counted, but for one whose colour table is cut off, and the two   *)
(* agree on whether it is an animation but for that.                       *)
FramesAsProbed ==
  op \in {"probe_full", "animation"} /\ result = "ok" /\ Plain /\ probe.answer = "ok" =>
    LET cut == {i \in DOMAIN file.blocks :
                  /\ file.blocks[i].kind = "image" /\ file.blocks[i].reads = "table"
                  /\ \A j \in 1 .. i - 1 : file.blocks[j].kind # "trailer"}
    IN probe.frames = Cardinality(reader.delivered) + Cardinality(cut)

(* "Deliberately conservative" (detect.rs:79): in a plain file without a   *)
(* frame that restores what it covers, a canvas the probe calls opaque is, *)
(* but where a delivered frame has an index beyond its colour table, which *)
(* no header tells.                                                        *)
OpaqueUnlessRestored ==
  ~HasAlpha /\ Plain /\ RestoresNothing =>
    \A x \in reader.clear : \E i \in reader.delivered : x \in file.blocks[i].beyond

=============================================================================
