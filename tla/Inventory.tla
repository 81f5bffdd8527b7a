------------------------------ MODULE Inventory -------------------------------
(***************************************************************************)
(* The structural inventory, src/src/inventory.rs: walk lists the parts of *)
(* a file and says which of them decoding consumes.  It walks the blocks   *)
(* twice, since what becomes of a block can depend on later ones, and in   *)
(* between asks the probe which loop count it reports.  The stop token may *)
(* fire at any poll and be quiet again at the next, and the list of parts  *)
(* has a maximal length.                                                   *)
(*                                                                         *)
(* `reader` is a ghost: the decoder of BlockStream reading along in the    *)
(* first pass, with which the walker's guesses are compared.               *)
(***************************************************************************)
EXTENDS Probe, SequencesExt

CONSTANTS
  MaxParts,      \* the cap given to walk
  StopPollParts  \* STOP_POLL_PARTS

ASSUME InventoryAssumption == MaxParts \in Nat /\ StopPollParts \in Nat \ {0}

VARIABLES
  file,      \* what is walked
  phase,     \* where walk is
  at,        \* the block the walker stands at
  walker,    \* the walker's own state
  found,     \* Walker::found: what this pass learned
  facts,     \* Walker::facts: what the first pass learned
  loops,     \* Walker::netscapes of the first pass
  parts,     \* the inventory of this pass, [at, what, verdict, child]
  latched,   \* LatchedStop::reason is set
  reply,     \* what walk returned
  fired,     \* history: the stop token has fired
  reader     \* ghost: the decoder

token == <<latched, fired>>
vars == <<file, phase, at, walker, found, facts, loops, parts, reply, token, reader, probe>>

NoFacts == [controls |-> {}, loops |-> {}, colours |-> FALSE, reach |-> 0,
            headerFatal |-> FALSE, good |-> 0]

-----------------------------------------------------------------------------
(* The walker at one block                                                  *)

WalkerInit(f) ==
  [images |-> 0, fatal |-> f.screen # "ok", pending |-> 0, delay |-> 0,
   elapsed |-> 0, header |-> TRUE]

FoundInit(f) == [NoFacts EXCEPT !.headerFatal = f.screen # "ok"]

\* The decoder rejects this image before reading its data, and it is the
\* first one it rejects.
Problem(w, b) ==
  ~w.fatal /\ (w.images >= MaxFrames \/ ~b.inside \/ (~b.own /\ file.colours = "none"))

Reachable(w, b) == ~w.fatal /\ ~Problem(w, b)

Lasting(w) == w.elapsed + (IF w.pending = 0 THEN 0 ELSE w.delay)

\* A walker that forgets the limit on the duration.
DecodesHoweverLong(w, b) == Reachable(w, b) /\ b.reads = "whole"

\* The whole frame decodes, within the duration.
Decodes(w, b) == Reachable(w, b) /\ b.reads = "whole" /\ Lasting(w) <= MaxDuration

\* A walker that lets a rejected frame through to the next ones.
WalkImageAlone(w, b) ==
  IF b.reads = "descriptor" THEN [w EXCEPT !.header = FALSE]
  ELSE [w EXCEPT !.images = @ + 1, !.pending = 0, !.delay = 0, !.header = FALSE,
                 !.elapsed = IF Reachable(w, b) THEN Lasting(w) ELSE @]

\* image: the pending control is used up; a rejected frame is the last one.
WalkImage(w, b) ==
  IF b.reads = "descriptor" THEN [w EXCEPT !.header = FALSE]
  ELSE [w EXCEPT !.images = @ + 1, !.pending = 0, !.delay = 0, !.header = FALSE,
                 !.elapsed = IF Reachable(w, b) THEN Lasting(w) ELSE @,
                 !.fatal = @ \/ Problem(w, b)
                             \/ (b.reads \in {"whole", "fails"} /\ ~Decodes(w, b))]

\* graphic_control
WalkControl(w, i, b) ==
  IF b.whole /\ b.last # NoControl
  THEN [w EXCEPT !.pending = i, !.delay = b.last.delay]
  ELSE [w EXCEPT !.fatal = TRUE]

Walk(w, i) ==
  LET b == file.blocks[i]
  IN CASE b.kind = "image" -> WalkImage(w, b)
       [] b.kind = "control" -> WalkControl(w, i, b)
       [] b.kind \in {"loop", "other"} -> w
       [] OTHER -> [w EXCEPT !.header = FALSE]

\* A table that is cut where the last frame's codes end.
FindLastReach(w, fs, b) ==
  [fs EXCEPT !.controls = IF Reachable(w, b) /\ w.pending # 0 /\ b.reads # "descriptor"
                          THEN @ \cup {w.pending} ELSE @,
             !.colours = @ \/ (Decodes(w, b) /\ ~b.own),
             !.reach = IF Decodes(w, b) /\ ~b.own THEN b.code ELSE @,
             !.good = IF Decodes(w, b) THEN @ + 1 ELSE @]

\* image: the facts are those of frames the decoder reaches, the global table
\* is read by the ones that decode, up to what their codes can reach.
FindImage(w, fs, b) ==
  [fs EXCEPT !.controls = IF Reachable(w, b) /\ w.pending # 0 /\ b.reads # "descriptor"
                          THEN @ \cup {w.pending} ELSE @,
             !.colours = @ \/ (Decodes(w, b) /\ ~b.own),
             !.reach = IF Decodes(w, b) /\ ~b.own /\ b.code > @ THEN b.code ELSE @,
             !.good = IF Decodes(w, b) THEN @ + 1 ELSE @]

Find(w, fs, i) ==
  LET b == file.blocks[i]
  IN CASE b.kind = "image" -> FindImage(w, fs, b)
       [] b.kind = "control" ->
            [fs EXCEPT !.headerFatal = @ \/ (w.header /\ ~(b.whole /\ b.last # NoControl))]
       [] OTHER -> fs
-----------------------------------------------------------------------------
(* The parts of one block, in the order they are pushed                     *)

Part(i, what, verdict)  == [at |-> i, what |-> what, verdict |-> verdict, child |-> FALSE]
Child(i, what, verdict) == [Part(i, what, verdict) EXCEPT !.child = TRUE]

\* colour_table: a table that is read is split where no index can reach.
ColourTable(i, what, read, unread, code) ==
  IF ~read THEN <<Part(i, what, unread)>>
  ELSE IF 2 ^ code >= file.entries THEN <<Part(i, what, "ImageData")>>
  ELSE <<Part(i, "split", "ImageData"), Child(i, what, "ImageData"),
         Child(i, "unreachable", "Dropped")>>

\* walk_inner, before the loop.
HeaderParts ==
  IF file.screen = "short" THEN <<Part(0, "header", "Malformed")>>
  ELSE <<Part(0, "header", "Structure")>> \o
       (CASE file.colours = "none"  -> <<>>
          [] file.colours = "cut"   -> <<Part(0, "table", "Malformed")>>
          [] file.colours = "whole" ->
               ColourTable(0, "table", facts.colours, "Dropped", facts.reach))

DescriptorVerdict(w, b) ==
  CASE Problem(w, b) -> "Malformed" [] w.fatal -> "Skipped" [] OTHER -> "Structure"

DataVerdict(w, b) ==
  CASE b.reads = "cut"    -> "Malformed"
    [] b.reads # "cut" /\ ~Reachable(w, b) -> "Skipped"
    [] b.reads # "cut" /\ Decodes(w, b)    -> "ImageData"
    [] OTHER -> "Malformed"

ImageParts(w, i, b) ==
  IF b.reads = "descriptor" THEN <<Part(i, "descriptor", "Malformed")>>
  ELSE <<Part(i, "descriptor", DescriptorVerdict(w, b))>> \o
       (CASE ~b.own -> <<>>
          [] b.own /\ b.reads = "table" -> <<Part(i, "table", "Malformed")>>
          [] OTHER -> ColourTable(i, "table", Decodes(w, b), "Skipped", b.code)) \o
       (IF b.reads = "table" THEN <<>> ELSE <<Part(i, "data", DataVerdict(w, b))>>)

\* graphic_control and split_extension: a control that is used is listed whole
\* when all of it is read.
ControlParts(i, b) ==
  IF ~b.whole \/ b.last = NoControl THEN <<Part(i, "control", "Malformed")>>
  ELSE IF i \notin facts.controls THEN <<Part(i, "control", "Dropped")>>
  ELSE IF b.first = b.last /\ b.last.transparent THEN <<Part(i, "control", "Animation")>>
  ELSE <<Part(i, "split", "Structure")>> \o
       (IF b.first # b.last THEN <<Child(i, "unread", "Dropped")>> ELSE <<>>) \o
       <<Child(i, "control", "Animation")>> \o
       (IF ~b.last.transparent THEN <<Child(i, "unread", "Dropped")>> ELSE <<>>) \o
       <<Child(i, "terminator", "Structure")>>

\* netscape, and application for one without its loop count.
LoopParts(i, b) ==
  <<Part(i, "loop", CASE ~b.whole -> "Malformed"
                      [] b.whole /\ b.counts /\ i \in facts.loops -> "Animation"
                      [] OTHER -> "Dropped")>>

\* extension, application, xmp: nothing else reaches the caller.
OtherParts(i, b) ==
  IF ~b.whole THEN <<Part(i, "other", "Malformed")>>
  ELSE <<Part(i, "other", "Skipped")>> \o
       [k \in 1 .. b.children |-> Child(i, "other", "Skipped")]

\* unknown_block: bytes the probe may read as blocks are not just unknown.
UnknownParts(i, b) ==
  <<Part(i, "unknown", IF b.whole /\ b.hides = <<>> THEN "Unknown" ELSE "Malformed")>>

TrailerParts(i) ==
  <<Part(i, "trailer", "Structure")>> \o
  (IF i < Len(file.blocks) THEN <<Part(i, "rest", "Trailing")>> ELSE <<>>)

Listing(w, i) ==
  IF i = 0 THEN HeaderParts
  ELSE LET b == file.blocks[i]
       IN CASE b.kind = "image"   -> ImageParts(w, i, b)
            [] b.kind = "control" -> ControlParts(i, b)
            [] b.kind = "loop"    -> LoopParts(i, b)
            [] b.kind = "other"   -> OtherParts(i, b)
            [] b.kind = "unknown" -> UnknownParts(i, b)
            [] OTHER              -> TrailerParts(i)

-----------------------------------------------------------------------------
(* The stop token and the cap                                               *)

\* LatchedStop::check: once fired, never quiet again.
Quiet == ~latched

Polled == Quiet /\ UNCHANGED token

Fires == latched' = TRUE /\ fired' = TRUE

Returns(answer) == phase' = "done" /\ reply' = answer

\* push polls at every StopPollParts-th part; push_child counts but never polls.
PollsIn(new) ==
  {k \in DOMAIN new : ~new[k].child /\ (Len(parts) + k) % StopPollParts = 0}

Push(new) ==
  /\ Len(parts) + Len(new) <= MaxParts
  /\ parts' = parts \o new
  /\ PollsIn(new) # {} => Quiet
  /\ UNCHANGED token

PushCapped ==
  /\ phase \in {"first", "second"} /\ at <= Len(file.blocks)
  /\ Len(parts) + Len(Listing(walker, at)) > MaxParts
  /\ Returns("parts")
  /\ UNCHANGED <<file, at, walker, found, facts, loops, parts, token, reader, probe>>

PushStopped ==
  /\ phase \in {"first", "second"} /\ at <= Len(file.blocks)
  /\ \E k \in PollsIn(Listing(walker, at)) : Len(parts) + k - 1 <= MaxParts
  /\ Fires
  /\ Returns("cancelled")
  /\ UNCHANGED <<file, at, walker, found, facts, loops, parts, reader, probe>>

-----------------------------------------------------------------------------
(* walk                                                                     *)

Init ==
  /\ file \in Files /\ phase = "start" /\ at = 0
  /\ walker = WalkerInit(file) /\ found = FoundInit(file)
  /\ facts = NoFacts /\ loops = <<>> /\ parts = <<>>
  /\ latched = FALSE /\ fired = FALSE
  /\ reply = "none" /\ reader = ReaderInit(file) /\ probe = ProbeInit(file)

\* stop.check before the first pass, and before the second.
Begin ==
  /\ phase \in {"start", "between"}
  /\ Polled
  /\ phase' = IF phase = "start" THEN "first" ELSE "second"
  /\ at' = 0 /\ walker' = WalkerInit(file) /\ found' = FoundInit(file)
  /\ parts' = <<>>
  /\ UNCHANGED <<file, facts, loops, reply, reader, probe>>

BeginStopped ==
  /\ phase \in {"start", "between"}
  /\ Fires
  /\ Returns("cancelled")
  /\ UNCHANGED <<file, at, walker, found, facts, loops, parts, reader, probe>>

\* Nothing is walked behind a bad header or a table that is cut off.
WalkHeader ==
  /\ phase \in {"first", "second"} /\ at = 0
  /\ Push(Listing(walker, at))
  /\ at' = IF file.screen = "short" \/ file.colours = "cut"
           THEN Len(file.blocks) + 1 ELSE 1
  /\ UNCHANGED <<file, phase, walker, found, facts, loops, reply, reader, probe>>

\* A loop count the walker knows, and whether the header was still being read.
Loops(w, i) ==
  LET b == file.blocks[i]
  IN IF b.kind = "loop" /\ b.whole /\ b.counts
     THEN Append(loops, [at |-> i, early |-> w.header]) ELSE loops

WalkBlock ==
  /\ phase \in {"first", "second"} /\ at \in 1 .. Len(file.blocks)
  /\ Push(Listing(walker, at))
  /\ walker' = Walk(walker, at)
  /\ found' = Find(walker, found, at)
  /\ loops' = IF phase = "first" THEN Loops(walker, at) ELSE loops
  /\ reader' = IF phase = "first" THEN Read(file, reader, at) ELSE reader
  /\ at' = IF file.blocks[at].kind = "trailer" THEN Len(file.blocks) + 1 ELSE at + 1
  /\ UNCHANGED <<file, phase, facts, reply, probe>>

\* The last loop count, wherever it stands.
LastOfAll(s) == DOMAIN s

EarlyLoops(s) == {k \in DOMAIN s : s[k].early}

\* The decoder reports the last loop count of the header, if a frame decodes.
EndFirst ==
  /\ phase = "first" /\ at > Len(file.blocks)
  /\ facts' = [found EXCEPT !.loops =
                 IF ~found.headerFatal /\ found.good > 0 /\ EarlyLoops(loops) # {}
                 THEN {loops[Max(EarlyLoops(loops))].at} ELSE {}]
  /\ phase' = IF found.headerFatal THEN "between" ELSE "probe"
  /\ UNCHANGED <<file, at, walker, found, loops, parts, reply, token, reader, probe>>

\* probe_located, to its end; its errors are swallowed.
WalkProbe ==
  /\ phase = "probe"
  /\ ProbeStep(file)
  /\ IF ProbePolls(probe, file) THEN Polled ELSE UNCHANGED token
  /\ UNCHANGED <<file, phase, at, walker, found, facts, loops, parts, reply, reader>>

WalkProbeStopped ==
  /\ phase = "probe" /\ ProbePolls(probe, file)
  /\ ProbeStopped
  /\ Fires
  /\ UNCHANGED <<file, phase, at, walker, found, facts, loops, parts, reply, reader>>

\* The probe reports the loop count of an animation.
EndProbe ==
  /\ phase = "probe" /\ probe.answer # "none"
  /\ facts' = [facts EXCEPT !.loops =
                 IF probe.answer = "ok" /\ IsAnimated(probe) THEN @ \cup {probe.repeatAt} ELSE @]
  /\ phase' = "between"
  /\ UNCHANGED <<file, at, walker, found, loops, parts, reply, token, reader, probe>>

EndSecond ==
  /\ phase = "second" /\ at > Len(file.blocks)
  /\ Returns("ok")
  /\ UNCHANGED <<file, at, walker, found, facts, loops, parts, token, reader, probe>>

Next ==
  \/ Begin \/ BeginStopped
  \/ WalkHeader \/ WalkBlock \/ PushCapped \/ PushStopped
  \/ EndFirst \/ WalkProbe \/ WalkProbeStopped \/ EndProbe \/ EndSecond

Spec == Init /\ [][Next]_vars

-----------------------------------------------------------------------------
(* Properties                                                               *)

TypeOK ==
  /\ file.blocks \in Seq(Blocks)
  /\ phase \in {"start", "first", "probe", "between", "second", "done"}
  /\ at \in 0 .. Len(file.blocks) + 1
  /\ walker.fatal \in BOOLEAN /\ walker.header \in BOOLEAN
  /\ walker.images \in Nat /\ walker.elapsed \in Nat /\ walker.delay \in Nat
  /\ walker.pending \in 0 .. Len(file.blocks)
  /\ found.controls \subseteq 1 .. Len(file.blocks) /\ found.good \in Nat
  /\ Len(parts) <= MaxParts
  /\ latched \in BOOLEAN /\ fired \in BOOLEAN
  /\ reply \in {"none", "ok", "cancelled", "parts"}

(* The first pass knows the decoder: as long as both go on, the walker     *)
(* holds the same control, delay and duration, it has met a fatal block    *)
(* exactly when the decoder has stopped, and what it found are the frames  *)
(* that were delivered and the controls that were applied.                 *)
WalksAsDecoder ==
  phase = "first" /\ at \in 1 .. Len(file.blocks) =>
    /\ walker.fatal <=> ~reader.going
    /\ found.headerFatal <=> ~reader.open
    /\ found.controls = reader.applied
    /\ found.good = Cardinality(reader.delivered)
    /\ ~walker.fatal =>
         /\ walker.header = reader.header /\ walker.pending = reader.control
         /\ walker.images = reader.images /\ walker.elapsed = reader.elapsed

\* An inventory that was given to the caller.
Listed == reply = "ok"

PartsAs(what, verdict) ==
  {parts[k].at : k \in {j \in DOMAIN parts :
                          parts[j].what = what /\ parts[j].verdict = verdict}}

(* What the inventory calls image data, the animation decoder delivers,    *)
(* and nothing else: the frames with their local tables, the controls that *)
(* were applied.  A second pass that has lost its way would list otherwise. *)
ListedAsDecoded ==
  Listed =>
    /\ PartsAs("data", "ImageData") = reader.delivered
    /\ PartsAs("control", "Animation") = reader.applied
    /\ PartsAs("table", "ImageData") \ {0} =
         {i \in reader.delivered : file.blocks[i].own}

(* The global table is listed as read exactly when a delivered frame has   *)
(* no table of its own, and no index of such a frame lies in the part that *)
(* is listed as unreachable.                                               *)
TableReachCovers ==
  Listed =>
    LET readers == {i \in reader.delivered : ~file.blocks[i].own}
    IN /\ 0 \in PartsAs("table", "ImageData") <=> readers # {}
       /\ 0 \in PartsAs("unreachable", "Dropped") =>
            \A i \in readers : 2 ^ file.blocks[i].code < file.entries

(* A loop count is listed as read exactly when the animation decoder or    *)
(* probe() reports that very one; neither does when Decoder::new fails.    *)
LoopsAsReported ==
  Listed =>
    PartsAs("loop", "Animation") =
      {i \in DOMAIN file.blocks :
         /\ reader.open /\ file.blocks[i].kind = "loop" /\ file.blocks[i].whole
         /\ \/ i = reader.loopAt /\ reader.delivered # {}
            \/ i = probe.repeatAt /\ probe.answer = "ok" /\ probe.frames > 1}

\* Files both walkers read as the same blocks, with controls of one sub-block.
Plain ==
  \A i \in DOMAIN file.blocks :
    /\ file.blocks[i].kind = "unknown" => file.blocks[i].hides = <<>>
    /\ file.blocks[i].kind = "control" => file.blocks[i].first = file.blocks[i].last

RestoresNothing ==
  \A i \in DOMAIN file.blocks :
    file.blocks[i].kind = "control" => file.blocks[i].last.dispose # "previous"
=============================================================================
