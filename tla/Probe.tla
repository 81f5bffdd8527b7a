-------------------------------- MODULE Probe ---------------------------------
(***************************************************************************)
(* Header detection, src/src/detect.rs: probe_located walks the blocks     *)
(* with a grammar of its own.  It takes a control's first sub-block, a     *)
(* loop count wherever one stands, and steps over an unknown introducer by *)
(* one byte, so that it reads blocks the decoder swallows.                 *)
(***************************************************************************)
EXTENDS BlockStream

CONSTANT ProbePollInterval  \* PROBE_STOP_POLL_INTERVAL

ASSUME ProbeAssumption == ProbePollInterval \in Nat \ {0}

VARIABLE probe  \* the local variables of probe_located, and its verdict

ProbeInit(f) ==
  [at |-> 1, frames |-> 0, duration |-> 0, transparency |-> FALSE,
   repeatAt |-> 0, pending |-> NoControl, answer |-> IF f.screen = "short" THEN "TooShort" ELSE "none"]

\* What the probe walks: each block with the place it is found at, 0 when it
\* is hidden behind an unknown introducer.
Walked(f) ==
  LET from[i \in 1 .. Len(f.blocks) + 1] ==
        IF i > Len(f.blocks) THEN <<>>
        ELSE LET b == f.blocks[i]
                 seen == IF b.kind = "unknown"
                         THEN [j \in DOMAIN b.hides |-> [at |-> 0, block |-> b.hides[j]]]
                         ELSE <<[at |-> i, block |-> b]>>
             IN seen \o from[i + 1]
  IN IF f.colours = "cut" THEN <<>> ELSE from[1]

\* A control whose first sub-block is not four bytes leaves the last one.
ProbeControl(p, b) == IF b.first # NoControl THEN [p EXCEPT !.pending = b.first] ELSE p

\* Only what lies around the first frame is looked for.
FirstFrameOnly(p, b) == p.frames = 0 /\ b.area # Points

\* The canvas may show through: a transparent index, a border left by the
\* first frame, or a frame cleared to the background.
MayShowThrough(p, b) ==
  \/ p.pending.transparent
  \/ p.frames = 0 /\ b.area # Points
  \/ p.pending.dispose = "background"

\* The delay and the flag are used up; the disposal stays.
ProbeImage(p, b) ==
  IF b.reads = "descriptor" THEN p
  ELSE IF p.frames >= MaxFrames THEN [p EXCEPT !.answer = "TooManyFrames"]
  ELSE [p EXCEPT !.frames = @ + 1,
                 !.duration = @ + p.pending.delay,
                 !.transparency = @ \/ MayShowThrough(p, b),
                 !.pending = [@ EXCEPT !.delay = 0, !.transparent = FALSE]]

ProbeBlock(p, at, b) ==
  LET next == [p EXCEPT !.at = @ + 1]
  IN CASE b.kind = "image" -> ProbeImage(next, b)
       [] b.kind = "control" -> ProbeControl(next, b)
       [] b.kind = "loop" /\ b.counts -> [next EXCEPT !.repeatAt = at]
       [] b.kind = "trailer" -> [next EXCEPT !.answer = "ok"]
       [] OTHER -> next

\* The stop token is polled at every block while the frame count stands at a
\* multiple of the interval.
ProbePolls(p, f) == p.at <= Len(Walked(f)) /\ p.frames % ProbePollInterval = 0

ProbeStep(f) ==
  /\ probe.answer = "none"
  /\ probe' = IF probe.at > Len(Walked(f)) THEN [probe EXCEPT !.answer = "ok"]
              ELSE ProbeBlock(probe, Walked(f)[probe.at].at, Walked(f)[probe.at].block)

ProbeStopped ==
  /\ probe.answer = "none"
  /\ probe' = [probe EXCEPT !.answer = "Cancelled"]

IsAnimated(p) == p.frames > 1
=============================================================================
