------------------------------ MODULE RoundTrip -------------------------------
(***************************************************************************)
(* The encoder with a viewer at the other end of its output: the blocks    *)
(* that were handed out are composited as the decoder composites them      *)
(* (Screen::process_frame, here without memory limits), while the file is  *)
(* still being made, and in a loop once it is complete.  A loop draws the  *)
(* first frame after the disposal of the last, on the same canvas, which   *)
(* is what write_pending_frame of the last frame provides for.             *)
(***************************************************************************)
EXTENDS Encoder

CONSTANT MaxRounds  \* bound of the model: how often the viewer rewinds

ASSUME RoundTripAssumption ==
  /\ Inputs \subseteq [pixels : [Points -> Pixel], delay : Nat]
  /\ MaxRounds \in Nat

VARIABLES
  shown,     \* the viewer's canvas
  disposal,  \* how the frame on it is to be disposed of
  seen,      \* history: the displays of this round, as FrameInputs
  rounds     \* history: rounds completed

viewer == <<shown, disposal, seen, rounds>>

InitAll ==
  /\ Init
  /\ shown = Blank /\ disposal = DefaultDisposal
  /\ seen = <<>> /\ rounds = 0

\* How many frames were handed out.
Arrived == FramesIn(sent, Len(sent))

\* A frame whose indices are read with a table they were not made for.
Garbled == [p \in Points |-> Skip]

TableOf(g) == IF g.table = "omitted" THEN table ELSE g.table

\* process_frame_in_place: the last disposal, the new one, the blit.
Display(g) ==
  LET base == Disposed(shown, disposal)
  IN /\ shown' = IF TableOf(g) = g.indices THEN Blit(base, g) ELSE Garbled
     /\ disposal' = DisposalFor(g, base)

Show ==
  /\ \E i \in DOMAIN sent :
       /\ sent[i].kind = "frame" /\ FramesIn(sent, i) = Len(seen) + 1
       /\ Display(sent[i])
       /\ seen' = Append(seen, [pixels |-> shown', delay |-> sent[i].delay])
  /\ UNCHANGED <<vars, rounds>>

Rewind ==
  /\ reply = "file" /\ config.repeats
  /\ seen # <<>> /\ Len(seen) = Arrived
  /\ rounds < MaxRounds
  /\ seen' = <<>>
  /\ rounds' = rounds + 1
  /\ UNCHANGED <<vars, shown, disposal>>

NextAll == (Next /\ UNCHANGED viewer) \/ Show \/ Rewind

\* The viewer goes on as long as there is something to show.
SpecAll == InitAll /\ [][NextAll]_<<vars, viewer>> /\ WF_<<vars, viewer>>(Show)

-----------------------------------------------------------------------------
(* Differencing, lookahead, clearing and lazy disposal are invisible: each *)
(* display is the canvas that was added, on the first round and on every   *)
(* later one, where the first frame is drawn over what the last one left.  *)
Abstract == INSTANCE Playback WITH
  added <- accepted, seen <- seen, complete <- reply = "file"

ImplementsPlayback == Abstract!Spec

(* No frame stays behind in a buffer or in the canvas held back: when a    *)
(* file is complete, every frame added comes to be seen.                   *)
EveryFrameSeen == [](reply = "file" => <>(seen = accepted))
=============================================================================
