---------------------------- MODULE DecodeJobProofs ----------------------------
(***************************************************************************)
(* What the operations on a file tell of it, for every set of files, every *)
(* cap and every polling interval: a stop is reported whoever polls it,    *)
(* the inventory lists what the decoder does, and what the probe counts    *)
(* and says of transparency is what decoding shows.                        *)
(*                                                                         *)
(* It begins with the inventory on its own.  A pass over the blocks is an  *)
(* induction over data.  It is had from what the steps of the pass keep:   *)
(* a file has a history of the walk, in front of each block the walk       *)
(* stands where the decoder would, and so what is listed is what the       *)
(* decoder does.  Where an operator is defined by recursion (the probe's   *)
(* view of a file) it is had from the least element of a set of numbers.   *)
(***************************************************************************)
EXTENDS DecodeJob, SumProofs

-----------------------------------------------------------------------------
(* The walk, the facts it finds and the decoder, block by block.           *)

(* What both passes of the inventory walk: the blocks up to the first      *)
(* trailer, behind a header that has its tables.                           *)
Parsed ==
  {i \in 1 .. Len(file.blocks) :
     /\ file.screen # "short" /\ file.colours # "cut"
     /\ \A j \in 1 .. i - 1 : file.blocks[j].kind # "trailer"}

\* The blocks a pass has behind it in front of block n.
Before(n) == {i \in Parsed : i < n}

\* The records that the walk, the decoder and the facts are.
WalkerStates ==
  [images : Nat, fatal : BOOLEAN, pending : Nat, delay : Nat, elapsed : Nat,
   header : BOOLEAN]

ReaderStates ==
  [open : BOOLEAN, going : BOOLEAN, header : BOOLEAN, control : Nat,
   pending : Controls \cup {NoControl}, elapsed : Nat, images : Nat,
   applied : SUBSET Nat, delivered : SUBSET Nat, loopAt : Nat,
   base : SUBSET Points, clear : SUBSET Points]

FactStates ==
  [controls : SUBSET Nat, loops : SUBSET Nat, colours : BOOLEAN, reach : Nat,
   headerFatal : BOOLEAN, good : Nat]

\* Where the walk goes from block i.
After(i) == IF file.blocks[i].kind = "trailer" THEN Len(file.blocks) + 1 ELSE i + 1

\* The walker's states in front of each block, up to block n.
IsWalk(t, n) ==
  /\ t \in [1 .. Len(file.blocks) + 1 -> WalkerStates]
  /\ t[1] = WalkerInit(file)
  /\ \A i \in Before(n) : t[i + 1] = Walk(t[i], i)

\* What the walk says of block i: it is a frame the decoder delivers.
Delivers(w, i) == file.blocks[i].kind = "image" /\ Decodes(w, file.blocks[i])

\* It is an image that takes the control waiting for one.
Applies(w, i) ==
  /\ file.blocks[i].kind = "image" /\ file.blocks[i].reads # "descriptor"
  /\ Reachable(w, file.blocks[i]) /\ w.pending # 0

\* A control the decoder takes.
GoodControl(i) ==
  /\ file.blocks[i].kind = "control" /\ file.blocks[i].whole
  /\ file.blocks[i].last # NoControl

\* Up to block n, the walk foretells what the decoder delivers and applies.
Foretold(t, n, r) ==
  /\ r.delivered = {i \in Before(n) : Delivers(t[i], i)}
  /\ r.applied = {t[i].pending : i \in {j \in Before(n) : Applies(t[j], j)}}
  /\ r.applied \subseteq {i \in Before(n) : GoodControl(i)}

\* The frames that look up the global table.
GlobalReaders(r) == {i \in r.delivered : ~file.blocks[i].own}

\* What a pass found are the decoder's frames and controls.
Gathered(fs, r) ==
  /\ fs.controls = r.applied
  /\ fs.colours <=> GlobalReaders(r) # {}
  /\ fs.reach \in 0 .. 8
  /\ \A i \in GlobalReaders(r) : file.blocks[i].code <= fs.reach
  /\ fs.good = Cardinality(r.delivered)

\* Walker and decoder at the same block.
SameState(w, r) ==
  /\ w.header = r.header /\ w.pending = r.control
  /\ w.images = r.images /\ w.elapsed = r.elapsed
  /\ r.pending = IF w.pending = 0 THEN NoControl ELSE file.blocks[w.pending].last
  /\ w.pending # 0 => w.delay = file.blocks[w.pending].last.delay

\* Walker and decoder at block n have stopped at the same places, and while
\* neither has they are in the same state.
Lockstep(w, fs, r, n) ==
  /\ w.fatal <=> ~r.going
  /\ fs.headerFatal <=> ~r.open
  /\ w.fatal /\ w.header => fs.headerFatal
  /\ w.pending # 0 => w.pending \in Before(n) /\ GoodControl(w.pending)
  /\ ~w.fatal => SameState(w, r)

\* The place behind the last block.
Eof == Len(file.blocks) + 1

-----------------------------------------------------------------------------
(* What the blocks of a file are.                                          *)
LEMMA BlocksOfFile ==
  ASSUME file \in Files
  PROVE  /\ Len(file.blocks) \in Nat
         /\ DOMAIN file.blocks = 1 .. Len(file.blocks)
         /\ \A i \in 1 .. Len(file.blocks) :
              /\ file.blocks[i] \in Blocks
              /\ BlockOK(file.blocks[i])
              /\ CutOff(file.blocks[i]) => i = Len(file.blocks)
<1>1. FileOK(file)
  BY BlockAssumption
<1>2. file.blocks \in Seq(Blocks)
  BY <1>1 DEF FileOK
<1>3. QED
  BY <1>1, <1>2, BlockAssumption DEF FileOK

(* The kinds of block and their fields.                                    *)
LEMMA BlockKinds ==
  ASSUME NEW b, BlockOK(b)
  PROVE  /\ b.kind \in {"image", "control", "loop", "other", "unknown", "trailer"}
         /\ b.kind = "image" => ImageOK(b)
         /\ b.kind = "control" => b.whole \in BOOLEAN
         /\ b.kind = "control" => b.first \in Controls \cup {NoControl}
         /\ b.kind = "control" => b.last \in Controls \cup {NoControl}
         /\ b.kind = "loop" => b.whole \in BOOLEAN /\ b.counts \in BOOLEAN
         /\ b.kind = "other" => b.whole \in BOOLEAN /\ b.children \in Nat
         /\ b.kind = "unknown" => b.whole \in BOOLEAN /\ b.hides \in Seq(Blocks)
BY DEF BlockOK, ImageOK, OtherOK

(* The walker's fields keep their types.                                   *)
LEMMA WalkType ==
  ASSUME file \in Files, NEW i \in 1 .. Len(file.blocks), NEW w \in WalkerStates
  PROVE  Walk(w, i) \in WalkerStates
<1> DEFINE b == file.blocks[i]
<1>1. BlockOK(b)
  BY BlocksOfFile
<1>2. CASE b.kind = "image"
  <2>1. Lasting(w) \in Nat
    BY DEF Lasting, WalkerStates
  <2>2. (IF Reachable(w, b) THEN Lasting(w) ELSE w.elapsed) \in Nat
    BY <2>1 DEF WalkerStates
  <2> DEFINE stops == w.fatal \/ Problem(w, b)
                              \/ (b.reads \in {"whole", "fails"} /\ ~Decodes(w, b))
  <2>3. stops \in BOOLEAN
    BY Zenon DEF WalkerStates
  <2>4. w.images + 1 \in Nat
    BY DEF WalkerStates
  <2> HIDE DEF stops
  <2>5. [w EXCEPT !.images = @ + 1, !.pending = 0, !.delay = 0, !.header = FALSE,
                 !.elapsed = IF Reachable(w, b) THEN Lasting(w) ELSE @,
                 !.fatal = stops] \in WalkerStates
    BY <2>2, <2>3, <2>4 DEF WalkerStates
  <2>6. WalkImage(w, b) \in WalkerStates
    BY <2>5 DEF WalkImage, WalkerStates, stops
  <2>7. QED
    BY <1>2, <2>6 DEF Walk
<1>3. CASE b.kind = "control"
  <2>1. b.last # NoControl => b.last \in Controls
    BY <1>1, <1>3, BlockKinds
  <2>2. b.last # NoControl => b.last.delay \in Nat
    BY <2>1 DEF Controls
  <2>3. WalkControl(w, i, b) \in WalkerStates
    BY <2>2, BlocksOfFile, i \in Nat DEF WalkControl, WalkerStates
  <2>4. QED
    BY <1>3, <2>3 DEF Walk
<1>4. CASE b.kind \notin {"image", "control"}
  BY <1>4 DEF Walk, WalkerStates
<1>5. QED
  BY <1>2, <1>3, <1>4

(* Both passes and the decoder begin as records of their types.            *)
LEMMA InitTypes ==
  file \in Files => /\ WalkerInit(file) \in WalkerStates
                    /\ FoundInit(file) \in FactStates
                    /\ ReaderInit(file) \in ReaderStates
BY DEF WalkerInit, FoundInit, ReaderInit, WalkerStates, FactStates, ReaderStates, NoFacts, NoControl

(* What a pass notes of a block keeps the types of the facts.              *)
LEMMA FindType ==
  ASSUME file \in Files, NEW i \in 1 .. Len(file.blocks), NEW w \in WalkerStates,
         NEW fs \in FactStates
  PROVE  Find(w, fs, i) \in FactStates
<1> DEFINE b == file.blocks[i]
<1>1. BlockOK(b)
  BY BlocksOfFile
<1>2. CASE b.kind = "image"
  <2>1. b.code \in Nat /\ b.own \in BOOLEAN
    BY <1>1, <1>2, BlockKinds DEF ImageOK
  <2> DEFINE controls == IF Reachable(w, b) /\ w.pending # 0 /\ b.reads # "descriptor"
                         THEN fs.controls \cup {w.pending} ELSE fs.controls
             colours == fs.colours \/ (Decodes(w, b) /\ ~b.own)
             reach == IF Decodes(w, b) /\ ~b.own /\ b.code > fs.reach THEN b.code ELSE fs.reach
             good == IF Decodes(w, b) THEN fs.good + 1 ELSE fs.good
  <2>2. /\ controls \in SUBSET Nat /\ reach \in Nat /\ good \in Nat
        /\ colours \in BOOLEAN
    <3>1. controls \in SUBSET Nat /\ reach \in Nat /\ good \in Nat
      BY <2>1 DEF FactStates, WalkerStates
    <3>2. colours \in BOOLEAN
      BY Zenon
    <3>3. QED
      BY <3>1, <3>2
  <2>4. FindImage(w, fs, b) = [fs EXCEPT !.controls = controls, !.colours = colours,
                                         !.reach = reach, !.good = good]
    BY DEF FindImage
  <2> HIDE DEF controls, colours, reach, good
  <2>5. FindImage(w, fs, b) \in FactStates
    BY <2>2, <2>4 DEF FactStates
  <2>6. QED
    BY <1>2, <2>5 DEF Find
<1>3. CASE b.kind # "image"
  BY <1>3 DEF Find, FactStates, WalkerStates
<1>4. QED
  BY <1>2, <1>3

(* Reading a block keeps the types of the decoder's fields.                *)
LEMMA ReadType ==
  ASSUME file \in Files, NEW i \in 1 .. Len(file.blocks), NEW r \in ReaderStates
  PROVE  Read(file, r, i) \in ReaderStates
<1> DEFINE b == file.blocks[i]
<1>1. BlockOK(b) /\ i \in Nat
  BY BlocksOfFile
<1>2. CASE b.kind = "image"
  <2>1. r.pending.delay \in Nat
    BY DEF ReaderStates, Controls, NoControl
  <2>2. b.area \subseteq Points /\ b.beyond \subseteq Points
    BY <1>1, <1>2, BlockKinds DEF ImageOK
  <2>3. Shown(r, b) \in SUBSET Points
    BY <2>2 DEF Shown, ReaderStates
  <2>4. Under(r, b) \in SUBSET Points
    BY <2>2, <2>3 DEF Under, ReaderStates
  <2>5. NoControl \in Controls \cup {NoControl}
    OBVIOUS
  <2>6. (r.clear \cup Shown(r, b)) \in SUBSET Points
    BY <2>3 DEF ReaderStates
  <2> DEFINE begun == [r EXCEPT !.header = FALSE, !.images = @ + 1,
                         !.applied = IF r.control = 0 THEN @ ELSE @ \cup {r.control},
                         !.control = 0, !.pending = NoControl,
                         !.elapsed = @ + r.pending.delay]
  <2>7. begun \in ReaderStates
    <3> DEFINE applied == IF r.control = 0 THEN r.applied ELSE r.applied \cup {r.control}
               elapsed == r.elapsed + r.pending.delay
    <3>1. applied \in SUBSET Nat /\ elapsed \in Nat /\ r.images + 1 \in Nat
      BY <2>1 DEF ReaderStates
    <3>2. begun = [r EXCEPT !.header = FALSE, !.images = r.images + 1, !.applied = applied,
                     !.control = 0, !.pending = NoControl, !.elapsed = elapsed]
      OBVIOUS
    <3> HIDE DEF applied, elapsed, begun
    <3>3. QED
      BY <2>5, <3>1, <3>2 DEF ReaderStates
  <2>8. [r EXCEPT !.going = FALSE, !.header = FALSE] \in ReaderStates
    BY DEF ReaderStates
  <2>9. /\ begun.delivered = r.delivered /\ begun.clear = r.clear
    BY DEF ReaderStates
  <2>10. ReadImage(file, r, i, b) \in
           {[r EXCEPT !.going = FALSE, !.header = FALSE], [begun EXCEPT !.going = FALSE],
            [begun EXCEPT !.delivered = @ \cup {i}, !.base = Under(r, b),
                          !.clear = @ \cup Shown(r, b)]}
    BY Zenon DEF ReadImage
  <2> HIDE DEF begun
  <2>11. [begun EXCEPT !.going = FALSE] \in ReaderStates
    BY <2>7 DEF ReaderStates
  <2>12. (begun.clear \cup Shown(r, b)) \in SUBSET Points
    BY <2>6, <2>9
  <2>13. [begun EXCEPT !.delivered = @ \cup {i}, !.base = Under(r, b),
                       !.clear = @ \cup Shown(r, b)] \in ReaderStates
    BY <1>1, <2>4, <2>7, <2>12 DEF ReaderStates
  <2>14. QED
    BY <1>2, <2>8, <2>10, <2>11, <2>13 DEF Read
<1>3. CASE b.kind = "control"
  <2>1. b.last \in Controls \cup {NoControl}
    BY <1>1, <1>3, BlockKinds
  <2>2. ReadControl(r, i, b) \in ReaderStates
    BY <1>1, <2>1 DEF ReadControl, ReadFailure, ReaderStates
  <2>3. QED
    BY <1>3, <2>2 DEF Read
<1>4. CASE b.kind \notin {"image", "control"}
  <2>1. ReadFailure(r) \in ReaderStates /\ ReadLoop(r, i, b) \in ReaderStates
    BY <1>1 DEF ReadFailure, ReadLoop, ReaderStates
  <2>2. [r EXCEPT !.header = FALSE, !.going = FALSE] \in ReaderStates
        /\ [r EXCEPT !.going = FALSE, !.header = FALSE] \in ReaderStates
    BY DEF ReaderStates
  <2>3. b.kind = "unknown" => [r EXCEPT !.header = FALSE, !.going = b.whole] \in ReaderStates
    BY <1>1, BlockKinds DEF ReaderStates
  <2>4. QED
    BY <1>4, <2>1, <2>2, <2>3 DEF Read
<1>5. QED
  BY <1>2, <1>3, <1>4

(* The blocks parsed are the first ones, up to a trailer, taken one by     *)
(* one.                                                                    *)
LEMMA BeforeFacts ==
  ASSUME file \in Files
  PROVE  /\ Parsed \subseteq 1 .. Len(file.blocks)
         /\ \A n : Before(n) \subseteq Parsed
         /\ \A n \in Parsed : n \notin Before(n) /\ Before(n + 1) = Before(n) \cup {n}
         /\ \A n \in Parsed : file.blocks[n].kind = "trailer" =>
              Before(Eof) = Before(n) \cup {n}
         /\ \A n \in Parsed : file.blocks[n].kind # "trailer" /\ n < Len(file.blocks) =>
              n + 1 \in Parsed
         /\ Before(0) = {} /\ Before(1) = {} /\ Before(Eof) = Parsed
<1> USE BlocksOfFile DEF Parsed, Before, Eof
<1>1. Parsed \subseteq 1 .. Len(file.blocks) /\ \A n : Before(n) \subseteq Parsed
  OBVIOUS
<1>2. \A n \in Parsed : n \notin Before(n) /\ Before(n + 1) = Before(n) \cup {n}
  OBVIOUS
<1>3. \A n \in Parsed : file.blocks[n].kind = "trailer" => Before(Eof) = Before(n) \cup {n}
  OBVIOUS
<1>4. \A n \in Parsed : file.blocks[n].kind # "trailer" /\ n < Len(file.blocks) =>
              n + 1 \in Parsed
  OBVIOUS
<1>5. Before(0) = {} /\ Before(1) = {} /\ Before(Eof) = Parsed
  OBVIOUS
<1>6. QED
  BY <1>1, <1>2, <1>3, <1>4, <1>5

(* Walker and decoder reject the same images, for the same reasons.        *)
LEMMA SameVerdict ==
  ASSUME file \in Files, NEW i \in Parsed, NEW w \in WalkerStates,
         NEW r \in ReaderStates, NEW fs \in FactStates, Lockstep(w, fs, r, i), ~w.fatal,
         NEW b
  PROVE  /\ r.going
         /\ Refused(file, r, b) <=> b.reads = "descriptor" \/ Problem(w, b)
         /\ Lasting(w) = r.elapsed + r.pending.delay
         /\ r.control = w.pending
<1>1. SameState(w, r) /\ r.going
  BY DEF Lockstep, ReaderStates
<1>2. Refused(file, r, b) <=> b.reads = "descriptor" \/ Problem(w, b)
  BY <1>1 DEF Refused, Problem, SameState
<1>3. Lasting(w) = r.elapsed + r.pending.delay
  <2>1. CASE w.pending = 0
    <3>1. r.pending.delay = 0
      BY <1>1, <2>1 DEF SameState, NoControl
    <3>2. QED
      BY <1>1, <2>1, <3>1 DEF SameState, Lasting, WalkerStates
  <2>2. CASE w.pending # 0
    BY <1>1, <2>2 DEF SameState, Lasting, WalkerStates
  <2>3. QED
    BY <2>1, <2>2
<1>4. QED
  BY <1>1, <1>2, <1>3 DEF SameState

(* The decoder delivers a frame, and applies a control, when the walker    *)
(* says so.                                                                *)
LEMMA ReadAsForetold ==
  ASSUME file \in Files, NEW i \in Parsed, NEW w \in WalkerStates,
         NEW r \in ReaderStates, NEW fs \in FactStates, Lockstep(w, fs, r, i)
  PROVE  /\ Read(file, r, i).delivered =
              r.delivered \cup (IF Delivers(w, i) THEN {i} ELSE {})
         /\ Read(file, r, i).applied =
              r.applied \cup (IF Applies(w, i) THEN {w.pending} ELSE {})
<1> DEFINE b == file.blocks[i]
<1>0. i \in 1 .. Len(file.blocks) /\ BlockOK(b)
  BY BlocksOfFile, BeforeFacts
<1>1. CASE ~r.going
  <2>1. w.fatal /\ Read(file, r, i) = r
    BY <1>1 DEF Lockstep, Read
  <2>2. ~Delivers(w, i) /\ ~Applies(w, i)
    BY <2>1 DEF Delivers, Applies, Decodes, Reachable
  <2>3. QED
    BY <2>1, <2>2
<1>2. CASE r.going /\ b.kind = "image"
  <2>1. ~w.fatal
    BY <1>2 DEF Lockstep
  <2>2. /\ Refused(file, r, b) <=> b.reads = "descriptor" \/ Problem(w, b)
        /\ Lasting(w) = r.elapsed + r.pending.delay
        /\ r.control = w.pending
    BY <2>1, SameVerdict
  <2>3. Read(file, r, i) = ReadImage(file, r, i, b)
    BY <1>2 DEF Read
  <2>4. CASE Refused(file, r, b)
    <3>1. ~Delivers(w, i) /\ ~Applies(w, i)
      BY <2>2, <2>4 DEF Delivers, Applies, Decodes, Reachable
    <3>2. QED
      BY <2>3, <2>4, <3>1 DEF ReadImage, ReaderStates
  <2>5. CASE ~Refused(file, r, b)
    <3>1. Reachable(w, b) /\ b.reads # "descriptor"
      BY <2>1, <2>2, <2>5 DEF Reachable
    <3>2. Delivers(w, i) <=> b.reads = "whole" /\ r.elapsed + r.pending.delay <= MaxDuration
      BY <1>2, <2>2, <3>1 DEF Delivers, Decodes
    <3>3. Applies(w, i) <=> r.control # 0
      BY <1>2, <2>2, <3>1 DEF Applies
    <3> DEFINE begun == [r EXCEPT !.header = FALSE, !.images = @ + 1,
                           !.applied = IF r.control = 0 THEN @ ELSE @ \cup {r.control},
                           !.control = 0, !.pending = NoControl,
                           !.elapsed = @ + r.pending.delay]
    <3>4. /\ begun.elapsed = r.elapsed + r.pending.delay
          /\ begun.delivered = r.delivered
          /\ begun.applied = IF r.control = 0 THEN r.applied ELSE r.applied \cup {r.control}
      BY DEF ReaderStates
    <3>5. "delivered" \in DOMAIN begun /\ "applied" \in DOMAIN begun
      BY DEF ReaderStates
    <3>6. ReadImage(file, r, i, b) =
            IF b.reads # "whole" \/ begun.elapsed > MaxDuration
            THEN [begun EXCEPT !.going = FALSE]
            ELSE [begun EXCEPT !.delivered = @ \cup {i}, !.base = Under(r, b),
                               !.clear = @ \cup Shown(r, b)]
      BY <2>5 DEF ReadImage
    <3>7. b.reads # "whole" \/ begun.elapsed > MaxDuration <=> ~Delivers(w, i)
      BY <2>2, <3>2, <3>4, BlockAssumption DEF Lasting, WalkerStates
    <3> HIDE DEF begun
    <3>8. /\ ReadImage(file, r, i, b).applied = begun.applied
          /\ ReadImage(file, r, i, b).delivered =
               IF Delivers(w, i) THEN begun.delivered \cup {i} ELSE begun.delivered
      BY <3>5, <3>6, <3>7
    <3>9. QED
      BY <2>2, <2>3, <3>3, <3>4, <3>8
  <2>6. QED
    BY <2>4, <2>5
<1>3. CASE r.going /\ b.kind # "image"
  <2>1. ~Delivers(w, i) /\ ~Applies(w, i)
    BY <1>3 DEF Delivers, Applies
  <2>2. /\ Read(file, r, i).delivered = r.delivered
        /\ Read(file, r, i).applied = r.applied
    BY <1>3 DEF Read, ReadControl, ReadLoop, ReadFailure, ReaderStates
  <2>3. QED
    BY <2>1, <2>2
<1>4. QED
  BY <1>1, <1>2, <1>3 DEF ReaderStates

(* One block further, walker and decoder still agree: it is not the last   *)
(* one, where either may notice a cut that the other does not.             *)
LEMMA LockstepStep ==
  ASSUME file \in Files, NEW i \in Parsed, i < Len(file.blocks),
         file.blocks[i].kind # "trailer",
         NEW w \in WalkerStates, NEW r \in ReaderStates, NEW fs \in FactStates,
         Lockstep(w, fs, r, i)
  PROVE  Lockstep(Walk(w, i), Find(w, fs, i), Read(file, r, i), i + 1)
<1> DEFINE b == file.blocks[i]
           w1 == Walk(w, i)
           f1 == Find(w, fs, i)
           r1 == Read(file, r, i)
<1>0. /\ i \in 1 .. Len(file.blocks) /\ BlockOK(b) /\ ~CutOff(b) /\ i \in Nat
      /\ i \notin Before(i) /\ Before(i + 1) = Before(i) \cup {i}
  BY BlocksOfFile, BeforeFacts
<1>1. CASE b.kind = "image"
  <2>1. w1 = WalkImage(w, b) /\ f1 = FindImage(w, fs, b)
    BY <1>1 DEF Walk, Find
  <2>2. b.reads \in {"whole", "fails"}
    BY <1>0, <1>1, BlockKinds DEF CutOff, ImageOK
  <2>3. /\ w1.header = FALSE /\ w1.pending = 0 /\ w1.images = w.images + 1
        /\ w1.elapsed = IF Reachable(w, b) THEN Lasting(w) ELSE w.elapsed
        /\ w1.fatal <=> w.fatal \/ Problem(w, b) \/ ~Decodes(w, b)
    BY <2>1, <2>2 DEF WalkImage, WalkerStates
  <2>4. f1.headerFatal = fs.headerFatal
    BY <2>1 DEF FindImage, FactStates
  <2>5. CASE w.fatal
    <3>1. r1 = r /\ ~r.going
      BY <2>5 DEF Lockstep, Read
    <3>2. QED
      BY <2>3, <2>4, <2>5, <3>1 DEF Lockstep
  <2>6. CASE ~w.fatal
    <3>1. /\ r.going
          /\ Refused(file, r, b) <=> Problem(w, b)
          /\ Lasting(w) = r.elapsed + r.pending.delay
          /\ r.control = w.pending
      BY <2>2, <2>6, SameVerdict
    <3>2. SameState(w, r)
      BY <2>6 DEF Lockstep
    <3>3. r1 = ReadImage(file, r, i, b)
      BY <1>1, <3>1 DEF Read
    <3>4. CASE Problem(w, b)
      <4>1. r1 = [r EXCEPT !.going = FALSE, !.header = FALSE]
        BY <3>1, <3>3, <3>4 DEF ReadImage
      <4>2. r1.going = FALSE /\ r1.open = r.open
        BY <4>1 DEF ReaderStates
      <4>3. QED
        BY <2>3, <2>4, <3>4, <4>2 DEF Lockstep
    <3>5. CASE ~Problem(w, b)
      <4> DEFINE begun == [r EXCEPT !.header = FALSE, !.images = @ + 1,
                             !.applied = IF r.control = 0 THEN @ ELSE @ \cup {r.control},
                             !.control = 0, !.pending = NoControl,
                             !.elapsed = @ + r.pending.delay]
      <4>1. /\ begun.elapsed = r.elapsed + r.pending.delay /\ begun.images = r.images + 1
            /\ begun.header = FALSE /\ begun.control = 0 /\ begun.pending = NoControl
            /\ begun.open = r.open /\ begun.going = r.going
        BY DEF ReaderStates
      <4>2. /\ {"delivered", "base", "clear", "going"} \subseteq DOMAIN begun
        BY DEF ReaderStates
      <4>3. r1 = IF b.reads # "whole" \/ begun.elapsed > MaxDuration
                 THEN [begun EXCEPT !.going = FALSE]
                 ELSE [begun EXCEPT !.delivered = @ \cup {i}, !.base = Under(r, b),
                                    !.clear = @ \cup Shown(r, b)]
        BY <3>1, <3>3, <3>5 DEF ReadImage
      <4>4. Decodes(w, b) <=> ~(b.reads # "whole" \/ begun.elapsed > MaxDuration)
        BY <2>6, <3>1, <3>5, <4>1, BlockAssumption
           DEF Decodes, Reachable, Lasting, WalkerStates
      <4> HIDE DEF begun
      <4>5. /\ r1.elapsed = begun.elapsed /\ r1.images = begun.images
            /\ r1.header = begun.header /\ r1.control = begun.control
            /\ r1.pending = begun.pending /\ r1.open = begun.open
            /\ r1.going = IF Decodes(w, b) THEN begun.going ELSE FALSE
        <5>1. CASE Decodes(w, b)
          <6>1. r1 = [begun EXCEPT !.delivered = @ \cup {i}, !.base = Under(r, b),
                                   !.clear = @ \cup Shown(r, b)]
            BY <4>3, <4>4, <5>1
          <6>2. QED
            BY ONLY <4>2, <5>1, <6>1
        <5>2. CASE ~Decodes(w, b)
          <6>1. r1 = [begun EXCEPT !.going = FALSE]
            BY <4>3, <4>4, <5>2
          <6>2. QED
            BY ONLY <4>2, <5>2, <6>1
        <5>3. QED
          BY <5>1, <5>2
      <4>6. Reachable(w, b)
        BY <2>6, <3>5 DEF Reachable
      <4>7. SameState(w1, r1)
        BY <2>3, <3>1, <3>2, <4>1, <4>5, <4>6 DEF SameState
      <4>8. w1.fatal <=> ~r1.going
        BY <2>3, <2>6, <3>1, <3>5, <4>1, <4>5
      <4>9. w1.pending = 0 /\ ~w1.header
        BY <2>3
      <4>10. f1.headerFatal <=> ~r1.open
        BY <2>4, <4>1, <4>5 DEF Lockstep
      <4>11. QED
        BY <4>7, <4>8, <4>9, <4>10 DEF Lockstep
    <3>6. QED
      BY <3>4, <3>5
  <2>7. QED
    BY <2>5, <2>6
<1>2. CASE b.kind = "control"
  <2>1. b.whole
    BY <1>0, <1>2, BlockKinds DEF CutOff
  <2>2. /\ w1 = WalkControl(w, i, b)
        /\ f1 = [fs EXCEPT !.headerFatal = @ \/ (w.header /\ ~(b.whole /\ b.last # NoControl))]
    BY <1>2 DEF Walk, Find
  <2>3. f1.headerFatal = (fs.headerFatal \/ (w.header /\ b.last = NoControl))
    BY <2>1, <2>2 DEF FactStates
  <2>4. CASE b.last = NoControl
    <3>1. w1 = [w EXCEPT !.fatal = TRUE]
      BY <2>2, <2>4 DEF WalkControl
    <3>2. w1.fatal /\ w1.header = w.header /\ w1.pending = w.pending
      BY <3>1 DEF WalkerStates
    <3>3. ~r1.going /\ (r1.open <=> r.open /\ (w.fatal \/ ~r.header))
      <4>1. CASE r.going
        BY <1>2, <2>4, <4>1 DEF Read, ReadControl, ReadFailure, ReaderStates, Lockstep
      <4>2. CASE ~r.going
        BY <4>2 DEF Read, Lockstep
      <4>3. QED
        BY <4>1, <4>2
    <3>4. f1.headerFatal <=> ~r1.open
      BY <2>3, <2>4, <3>3 DEF Lockstep, SameState, WalkerStates, ReaderStates
    <3>5. QED
      BY <1>0, <2>3, <2>4, <3>2, <3>3, <3>4 DEF Lockstep
  <2>5. CASE b.last # NoControl
    <3>1. w1 = [w EXCEPT !.pending = i, !.delay = b.last.delay]
      BY <2>1, <2>2, <2>5 DEF WalkControl
    <3>2. /\ w1.fatal = w.fatal /\ w1.header = w.header /\ w1.pending = i
          /\ w1.delay = b.last.delay /\ w1.images = w.images /\ w1.elapsed = w.elapsed
      BY <3>1 DEF WalkerStates
    <3>3. GoodControl(i)
      BY <1>2, <2>1, <2>5 DEF GoodControl
    <3>4. f1.headerFatal <=> fs.headerFatal
      BY <2>3, <2>5
    <3>5. CASE r.going
      <4>1. r1 = [r EXCEPT !.control = i, !.pending = b.last]
        BY <1>2, <2>1, <2>5, <3>5 DEF Read, ReadControl
      <4>2. /\ r1.going = r.going /\ r1.open = r.open /\ r1.header = r.header
            /\ r1.control = i /\ r1.pending = b.last /\ r1.images = r.images
            /\ r1.elapsed = r.elapsed
        BY <4>1 DEF ReaderStates
      <4>3. i # 0
        BY <1>0
      <4>4. ~w.fatal /\ SameState(w, r)
        BY <3>5 DEF Lockstep
      <4>5. SameState(w1, r1)
        BY <3>2, <4>2, <4>3, <4>4 DEF SameState
      <4>6. QED
        BY <1>0, <3>2, <3>3, <3>4, <3>5, <4>2, <4>4, <4>5 DEF Lockstep
    <3>6. CASE ~r.going
      <4>1. r1 = r
        BY <3>6 DEF Read
      <4>2. w.fatal
        BY <3>6 DEF Lockstep
      <4>3. QED
        BY <1>0, <3>2, <3>3, <3>4, <3>6, <4>1, <4>2 DEF Lockstep
    <3>7. QED
      BY <3>5, <3>6
  <2>6. QED
    BY <2>4, <2>5
<1>3. CASE b.kind \in {"loop", "other"}
  <2>1. b.whole
    BY <1>0, <1>3, BlockKinds DEF CutOff
  <2>2. w1 = w /\ f1 = fs
    BY <1>3 DEF Walk, Find
  <2>3. r1 = r \/ r1 = [r EXCEPT !.loopAt = i]
    BY <1>3, <2>1 DEF Read, ReadLoop
  <2>4. /\ r1.going = r.going /\ r1.open = r.open /\ r1.header = r.header
        /\ r1.control = r.control /\ r1.pending = r.pending /\ r1.images = r.images
        /\ r1.elapsed = r.elapsed
    BY <2>3 DEF ReaderStates
  <2>5. QED
    BY <1>0, <2>2, <2>4 DEF Lockstep, SameState
<1>4. CASE b.kind = "unknown"
  <2>1. b.whole = TRUE
    BY <1>0, <1>4, BlockKinds DEF CutOff
  <2>2. w1 = [w EXCEPT !.header = FALSE] /\ f1 = fs
    BY <1>4 DEF Walk, Find
  <2>3. /\ w1.fatal = w.fatal /\ w1.header = FALSE /\ w1.pending = w.pending
        /\ w1.delay = w.delay /\ w1.images = w.images /\ w1.elapsed = w.elapsed
    BY <2>2 DEF WalkerStates
  <2>4. r1 = IF r.going THEN [r EXCEPT !.header = FALSE, !.going = TRUE] ELSE r
    BY <1>4, <2>1 DEF Read
  <2>5. /\ r1.going = r.going /\ r1.open = r.open
        /\ r1.header = IF r.going THEN FALSE ELSE r.header
        /\ r1.control = r.control /\ r1.pending = r.pending /\ r1.images = r.images
        /\ r1.elapsed = r.elapsed
    BY <2>4 DEF ReaderStates
  <2>6. QED
    BY <1>0, <2>2, <2>3, <2>5 DEF Lockstep, SameState
<1>5. QED
  BY <1>0, <1>1, <1>2, <1>3, <1>4, BlockKinds

(* A pass goes on behind each block, to the end behind a trailer.          *)
LEMMA AfterFacts ==
  ASSUME file \in Files, NEW i \in Parsed
  PROVE  /\ After(i) \in 1 .. Eof
         /\ Before(After(i)) = Before(i) \cup {i}
         /\ After(i) \in 1 .. Len(file.blocks) =>
              /\ After(i) \in Parsed /\ After(i) = i + 1 /\ i < Len(file.blocks)
              /\ file.blocks[i].kind # "trailer"
BY BlocksOfFile, BeforeFacts DEF After, Eof

(* The walk is a function of the file: what it has done stays when it goes *)
(* on.                                                                     *)
LEMMA WalkGrows ==
  ASSUME file \in Files, NEW i \in Parsed, NEW t, IsWalk(t, i),
         NEW t1, t1 = [t EXCEPT ![i + 1] = Walk(t[i], i)]
  PROVE  /\ IsWalk(t1, After(i))
         /\ \A j \in 1 .. i : t1[j] = t[j]
         /\ t1[i + 1] = Walk(t[i], i)
         /\ t[i] \in WalkerStates
<1>1. i \in 1 .. Len(file.blocks) /\ Before(i) \subseteq 1 .. i - 1
  BY BlocksOfFile, BeforeFacts DEF Before
<1>2. t[i] \in WalkerStates /\ Walk(t[i], i) \in WalkerStates
  BY <1>1, WalkType, BlocksOfFile DEF IsWalk
<1>3. /\ t1 \in [1 .. Len(file.blocks) + 1 -> WalkerStates]
      /\ \A j \in 1 .. i : t1[j] = t[j]
      /\ t1[i + 1] = Walk(t[i], i)
  BY <1>1, <1>2, BlocksOfFile DEF IsWalk
<1>4. ASSUME NEW j \in Before(After(i)) PROVE t1[j + 1] = Walk(t1[j], j)
  <2>1. j \in Before(i) \/ j = i
    BY AfterFacts
  <2>2. CASE j \in Before(i)
    <3>1. j \in 1 .. i /\ j + 1 \in 1 .. i
      BY <1>1, <2>2, BlocksOfFile
    <3>2. QED
      BY <1>3, <2>2, <3>1 DEF IsWalk
  <2>3. CASE j = i
    BY <1>1, <1>3, <2>3
  <2>4. QED
    BY <2>1, <2>2, <2>3
<1>5. t1[1] = WalkerInit(file)
  BY <1>1, <1>3 DEF IsWalk
<1>6. QED
  BY <1>2, <1>3, <1>4, <1>5 DEF IsWalk

(* One block further, the walker's trace still foretells the decoder.      *)
LEMMA ForetoldStep ==
  ASSUME file \in Files, NEW i \in Parsed, NEW t, IsWalk(t, i),
         NEW t1, t1 = [t EXCEPT ![i + 1] = Walk(t[i], i)],
         NEW r \in ReaderStates, NEW fs \in FactStates,
         Lockstep(t[i], fs, r, i), Foretold(t, i, r)
  PROVE  Foretold(t1, After(i), Read(file, r, i))
<1> DEFINE w == t[i]
           r1 == Read(file, r, i)
<1>1. /\ Before(After(i)) = Before(i) \cup {i} /\ i \notin Before(i)
      /\ i \in 1 .. Len(file.blocks) /\ Before(i) \subseteq 1 .. i
  BY AfterFacts, BeforeFacts, BlocksOfFile DEF Before
<1>2. \A j \in Before(i) \cup {i} : t1[j] = t[j]
  BY <1>1, WalkGrows, BlocksOfFile
<1>3. w \in WalkerStates
  BY WalkGrows
<1>4. /\ r1.delivered = r.delivered \cup (IF Delivers(w, i) THEN {i} ELSE {})
      /\ r1.applied = r.applied \cup (IF Applies(w, i) THEN {w.pending} ELSE {})
  BY <1>3, ReadAsForetold
<1>5. r1.delivered = {j \in Before(i) \cup {i} : Delivers(t1[j], j)}
  BY <1>2, <1>4 DEF Foretold
<1>6. r1.applied = {t1[j].pending : j \in {k \in Before(i) \cup {i} : Applies(t1[k], k)}}
  <2>1. {k \in Before(i) \cup {i} : Applies(t1[k], k)} =
          {k \in Before(i) : Applies(t[k], k)} \cup (IF Applies(w, i) THEN {i} ELSE {})
    BY <1>2
  <2>2. QED
    BY <1>2, <1>4, <2>1 DEF Foretold
<1>7. r1.applied \subseteq {j \in Before(i) \cup {i} : GoodControl(j)}
  <2>1. Applies(w, i) => w.pending \in Before(i) /\ GoodControl(w.pending)
    BY DEF Applies, Lockstep
  <2>2. QED
    BY <1>4, <2>1 DEF Foretold
<1>8. QED
  BY <1>1, <1>5, <1>6, <1>7 DEF Foretold

(* One block further, what the pass found is still about the decoder's own *)
(* frames and controls.                                                    *)
LEMMA GatheredStep ==
  ASSUME file \in Files, NEW i \in Parsed, NEW w \in WalkerStates,
         NEW r \in ReaderStates, NEW fs \in FactStates, Lockstep(w, fs, r, i),
         \A j \in r.delivered : j \in Before(i) /\ file.blocks[j].kind = "image", Gathered(fs, r)
  PROVE  Gathered(Find(w, fs, i), Read(file, r, i))
<1> DEFINE b == file.blocks[i]
           r1 == Read(file, r, i)
           f1 == Find(w, fs, i)
<1>1. /\ r1.delivered = r.delivered \cup (IF Delivers(w, i) THEN {i} ELSE {})
      /\ r1.applied = r.applied \cup (IF Applies(w, i) THEN {w.pending} ELSE {})
  BY ReadAsForetold
<1>2. i \notin r.delivered /\ BlockOK(b) /\ IsFiniteSet(r.delivered)
  <2>1. IsFiniteSet(1 .. Len(file.blocks))
    BY BlocksOfFile, FS_Interval
  <2>2. QED
    BY <2>1, BeforeFacts, BlocksOfFile, FS_Subset
<1>3. CASE b.kind = "image"
  <2>1. f1 = FindImage(w, fs, b)
    BY <1>3 DEF Find
  <2>2. /\ Delivers(w, i) <=> Decodes(w, b)
        /\ Applies(w, i) <=> Reachable(w, b) /\ w.pending # 0 /\ b.reads # "descriptor"
    BY <1>3 DEF Delivers, Applies
  <2>3. b.code \in 1 .. 8 /\ b.own \in BOOLEAN
    BY <1>2, <1>3, BlockKinds DEF ImageOK
  <2>4. /\ f1.controls = IF Applies(w, i) THEN fs.controls \cup {w.pending} ELSE fs.controls
        /\ f1.colours = (fs.colours \/ (Delivers(w, i) /\ ~b.own))
        /\ f1.reach = IF Delivers(w, i) /\ ~b.own /\ b.code > fs.reach THEN b.code ELSE fs.reach
        /\ f1.good = IF Delivers(w, i) THEN fs.good + 1 ELSE fs.good
    BY <2>1, <2>2 DEF FindImage, FactStates
  <2>5. f1.controls = r1.applied
    BY <1>1, <2>4 DEF Gathered
  <2>6. GlobalReaders(r1) = GlobalReaders(r) \cup (IF Delivers(w, i) /\ ~b.own THEN {i} ELSE {})
    BY <1>1, <1>2 DEF GlobalReaders
  <2>7. f1.colours <=> GlobalReaders(r1) # {}
    BY <2>4, <2>6 DEF Gathered
  <2>8. /\ f1.reach \in 0 .. 8
        /\ \A j \in GlobalReaders(r1) : file.blocks[j].code <= f1.reach
    <3>1. ASSUME NEW j \in GlobalReaders(r) PROVE file.blocks[j].code \in 1 .. 8
      <4>1. j \in Parsed /\ j \in 1 .. Len(file.blocks)
        BY BeforeFacts DEF GlobalReaders
      <4>2. BlockOK(file.blocks[j])
        BY <4>1, BlocksOfFile
      <4>3. j \in r.delivered
        BY DEF GlobalReaders
      <4>4. QED
        BY <4>2, <4>3, BlockKinds DEF ImageOK
    <3>2. QED
      BY <2>3, <2>4, <2>6, <3>1 DEF Gathered
  <2>9. f1.good = Cardinality(r1.delivered)
    <3>1. CASE Delivers(w, i)
      <4>1. r1.delivered = r.delivered \cup {i}
        BY <1>1, <3>1
      <4>2. Cardinality(r1.delivered) = Cardinality(r.delivered) + 1
        BY ONLY <1>2, <4>1, FS_AddElement
      <4>3. QED
        BY <2>4, <3>1, <4>2 DEF Gathered
    <3>2. CASE ~Delivers(w, i)
      <4>1. r1.delivered = r.delivered
        BY <1>1, <3>2
      <4>2. QED
        BY <2>4, <3>2, <4>1 DEF Gathered
    <3>3. QED
      BY <3>1, <3>2
  <2>10. QED
    BY <2>5, <2>7, <2>8, <2>9 DEF Gathered
<1>4. CASE b.kind # "image"
  <2>1. ~Delivers(w, i) /\ ~Applies(w, i)
    BY <1>4 DEF Delivers, Applies
  <2>2. /\ f1.controls = fs.controls /\ f1.colours = fs.colours
        /\ f1.reach = fs.reach /\ f1.good = fs.good
    BY <1>4 DEF Find, FactStates
  <2>3. r1.delivered = r.delivered /\ r1.applied = r.applied
    BY <1>1, <2>1
  <2>4. QED
    BY <2>2, <2>3 DEF Gathered, GlobalReaders
<1>5. QED
  BY <1>3, <1>4

-----------------------------------------------------------------------------
(* Loop counts.                                                            *)

\* The loop count the decoder holds is the last one the walker met in the
\* header, unless the header is bad.
LoopsKept(ls, fs, r) ==
  /\ ls \in Seq([at : Nat \ {0}, early : BOOLEAN])
  /\ ~fs.headerFatal =>
       IF EarlyLoops(ls) = {} THEN r.loopAt = 0
       ELSE ls[Max(EarlyLoops(ls))].at = r.loopAt

(* One block further, the loop count that would be used is still the       *)
(* decoder's: a count outside the header is kept by neither.               *)
LEMMA LoopsStep ==
  ASSUME file \in Files, NEW i \in Parsed, NEW w \in WalkerStates,
         NEW r \in ReaderStates, NEW fs \in FactStates, Lockstep(w, fs, r, i),
         LoopsKept(loops, fs, r)
  PROVE  LoopsKept(Loops(w, i), Find(w, fs, i), Read(file, r, i))
<1> DEFINE b == file.blocks[i]
           ls == Loops(w, i)
           f1 == Find(w, fs, i)
           r1 == Read(file, r, i)
<1>0. i \in Nat \ {0} /\ BlockOK(b)
  BY BlocksOfFile, BeforeFacts
<1>1. fs.headerFatal => f1.headerFatal
  <2>1. CASE b.kind = "image"
    BY <2>1 DEF Find, FindImage, FactStates
  <2>2. CASE b.kind # "image"
    BY <2>2 DEF Find, FactStates
  <2>3. QED
    BY <2>1, <2>2
<1>2. CASE b.kind = "loop" /\ b.whole /\ b.counts
  <2> DEFINE e == [at |-> i, early |-> w.header]
  <2>1. ls = Append(loops, e) /\ e \in [at : Nat \ {0}, early : BOOLEAN]
    BY <1>0, <1>2 DEF Loops, WalkerStates
  <2>2. f1 = fs
    BY <1>2 DEF Find
  <2>3. /\ loops \in Seq([at : Nat \ {0}, early : BOOLEAN]) /\ Len(loops) \in Nat
        /\ ls \in Seq([at : Nat \ {0}, early : BOOLEAN])
        /\ DOMAIN ls = 1 .. Len(loops) + 1
        /\ ls[Len(loops) + 1] = e
        /\ \A k \in 1 .. Len(loops) : ls[k] = loops[k]
        /\ DOMAIN loops = 1 .. Len(loops)
    BY <2>1 DEF LoopsKept
  <2>4. CASE w.header
    <3>1. EarlyLoops(ls) = EarlyLoops(loops) \cup {Len(loops) + 1}
      BY <2>3, <2>4 DEF EarlyLoops
    <3>2. EarlyLoops(loops) \subseteq 1 .. Len(loops)
      BY <2>3 DEF EarlyLoops
    <3>3. Max(EarlyLoops(ls)) = Len(loops) + 1
      BY ONLY <2>3, <3>1, <3>2 DEF Max
    <3>4. ~fs.headerFatal => r1.loopAt = i
      <4>1. ~fs.headerFatal => ~w.fatal /\ r.going /\ r.header
        BY <2>4 DEF Lockstep, SameState, ReaderStates, WalkerStates
      <4>2. QED
        BY <1>2, <4>1 DEF Read, ReadLoop, ReaderStates
    <3>5. QED
      BY <2>2, <2>3, <3>1, <3>3, <3>4 DEF LoopsKept
  <2>5. CASE ~w.header
    <3>1. EarlyLoops(ls) = EarlyLoops(loops)
      BY <2>3, <2>5 DEF EarlyLoops
    <3>2. EarlyLoops(loops) \subseteq 1 .. Len(loops)
      BY <2>3 DEF EarlyLoops
    <3>3. EarlyLoops(loops) # {} => Max(EarlyLoops(loops)) \in EarlyLoops(loops)
      BY <2>3, <3>2, MaxOfNats, EarlyLoops(loops) \subseteq 0 .. Len(loops)
    <3>4. EarlyLoops(loops) # {} => ls[Max(EarlyLoops(ls))] = loops[Max(EarlyLoops(loops))]
      BY <2>3, <3>1, <3>2, <3>3
    <3>5. ~fs.headerFatal => r1.loopAt = r.loopAt
      <4>1. ~fs.headerFatal => ~r.going \/ ~r.header
        BY <2>5 DEF Lockstep, SameState, ReaderStates, WalkerStates
      <4>2. QED
        BY <1>2, <4>1 DEF Read, ReadLoop, ReaderStates
    <3>6. QED
      BY <2>2, <2>3, <3>1, <3>4, <3>5 DEF LoopsKept
  <2>6. QED
    BY <2>4, <2>5
<1>3. CASE ~(b.kind = "loop" /\ b.whole /\ b.counts)
  <2>1. ls = loops
    BY <1>3 DEF Loops
  <2>2. r1.loopAt = r.loopAt
    <3>1. CASE b.kind = "image" /\ r.going
      <4> DEFINE begun == [r EXCEPT !.header = FALSE, !.images = @ + 1,
                             !.applied = IF r.control = 0 THEN @ ELSE @ \cup {r.control},
                             !.control = 0, !.pending = NoControl,
                             !.elapsed = @ + r.pending.delay]
      <4>1. begun.loopAt = r.loopAt /\ DOMAIN begun = DOMAIN r
        BY DEF ReaderStates
      <4>2. r1 = ReadImage(file, r, i, b)
        BY <3>1 DEF Read
      <4>3. r1 \in {[r EXCEPT !.going = FALSE, !.header = FALSE], [begun EXCEPT !.going = FALSE],
                    [begun EXCEPT !.delivered = @ \cup {i}, !.base = Under(r, b),
                                  !.clear = @ \cup Shown(r, b)]}
        BY <4>2, Zenon DEF ReadImage
      <4> HIDE DEF begun
      <4>4. QED
        BY <4>1, <4>3 DEF ReaderStates
    <3>2. CASE b.kind = "loop" /\ r.going
      BY <1>3, <3>2 DEF Read, ReadLoop, ReadFailure, ReaderStates
    <3>3. CASE ~(b.kind \in {"image", "loop"} /\ r.going)
      BY <3>3 DEF Read, ReadControl, ReadFailure, ReaderStates
    <3>4. QED
      BY <3>1, <3>2, <3>3
  <2>3. QED
    BY <1>1, <2>1, <2>2 DEF LoopsKept
<1>4. QED
  BY <1>2, <1>3

-----------------------------------------------------------------------------
(* The parts that are listed.                                              *)

\* What the parts of an inventory are called.
Whats == {"header", "table", "split", "unreachable", "descriptor", "data", "control",
          "unread", "terminator", "loop", "other", "unknown", "trailer", "rest"}

Verdicts == {"Structure", "Malformed", "ImageData", "Dropped", "Skipped", "Animation",
             "Unknown", "Trailing"}

Parts == [at : Nat, what : Whats, verdict : Verdicts, child : BOOLEAN]

\* The blocks that have a part of some kind with some verdict.
PartsIn(S, what, verdict) == {p.at : p \in {q \in S : q.what = what /\ q.verdict = verdict}}

(* The fields of a part.                                                   *)
LEMMA PartFields ==
  ASSUME NEW i \in Nat, NEW what \in Whats, NEW verdict \in Verdicts
  PROVE  /\ Part(i, what, verdict) \in Parts /\ Child(i, what, verdict) \in Parts
         /\ Part(i, what, verdict).at = i /\ Child(i, what, verdict).at = i
         /\ Part(i, what, verdict).what = what /\ Child(i, what, verdict).what = what
         /\ Part(i, what, verdict).verdict = verdict
         /\ Child(i, what, verdict).verdict = verdict
BY DEF Part, Child, Parts

(* The properties read the parts off the sequence, the proofs off its      *)
(* range.                                                                  *)
LEMMA PartsAsRange ==
  ASSUME NEW what, NEW verdict
  PROVE  PartsAs(what, verdict) = PartsIn(Range(parts), what, verdict)
BY DEF PartsAs, PartsIn, Range

(* Concatenation adds up the parts.                                        *)
LEMMA RangeConcat ==
  ASSUME NEW s \in Seq(Parts), NEW u \in Seq(Parts)
  PROVE  /\ s \o u \in Seq(Parts)
         /\ Range(s \o u) = Range(s) \cup Range(u)
<1>1. /\ s \o u \in Seq(Parts) /\ Len(s \o u) = Len(s) + Len(u)
      /\ Len(s) \in Nat /\ Len(u) \in Nat
      /\ DOMAIN s = 1 .. Len(s) /\ DOMAIN u = 1 .. Len(u)
      /\ DOMAIN (s \o u) = 1 .. Len(s) + Len(u)
      /\ \A k \in 1 .. Len(s) : (s \o u)[k] = s[k]
      /\ \A k \in 1 .. Len(u) : (s \o u)[Len(s) + k] = u[k]
  OBVIOUS
<1>2. ASSUME NEW x \in Range(s \o u) PROVE x \in Range(s) \cup Range(u)
  <2>1. PICK k \in 1 .. Len(s) + Len(u) : x = (s \o u)[k]
    BY <1>1 DEF Range
  <2>2. CASE k <= Len(s)
    BY <1>1, <2>1, <2>2 DEF Range
  <2>3. CASE k > Len(s)
    <3>1. k - Len(s) \in 1 .. Len(u) /\ Len(s) + (k - Len(s)) = k
      BY <1>1, <2>3
    <3>2. QED
      BY <1>1, <2>1, <3>1 DEF Range
  <2>4. QED
    BY <1>1, <2>2, <2>3
<1>3. ASSUME NEW x \in Range(s) PROVE x \in Range(s \o u)
  BY <1>1 DEF Range
<1>4. ASSUME NEW x \in Range(u) PROVE x \in Range(s \o u)
  <2>1. PICK k \in 1 .. Len(u) : x = u[k]
    BY <1>1 DEF Range
  <2>2. Len(s) + k \in DOMAIN (s \o u) /\ (s \o u)[Len(s) + k] = x
    BY <1>1, <2>1
  <2>3. QED
    BY <2>2 DEF Range
<1>5. QED
  BY <1>1, <1>2, <1>3, <1>4

(* Listings of a block have no part, one or two at each place.             *)
LEMMA RangeOfFew ==
  ASSUME NEW S, NEW a \in S, NEW b \in S
  PROVE  /\ <<>> \in Seq(S) /\ Range(<<>>) = {}
         /\ <<a>> \in Seq(S) /\ Range(<<a>>) = {a}
         /\ <<a, b>> \in Seq(S) /\ Range(<<a, b>>) = {a, b}
<1>1. <<>> \in Seq(S) /\ Range(<<>>) = {}
  BY DEF Range
<1>2. <<a>> \in Seq(S) /\ Range(<<a>>) = {a}
  BY DEF Range
<1>3. <<a, b>> \in Seq(S) /\ Range(<<a, b>>) = {a, b}
  BY DEF Range
<1>4. QED
  BY <1>1, <1>2, <1>3

(* Parts are picked from a union piece by piece.                           *)
LEMMA PartsInUnion ==
  ASSUME NEW S, NEW T, NEW what, NEW verdict
  PROVE  /\ PartsIn(S \cup T, what, verdict) = PartsIn(S, what, verdict) \cup PartsIn(T, what, verdict)
         /\ PartsIn({}, what, verdict) = {}
BY DEF PartsIn

(* Picking from few parts.                                                 *)
LEMMA PartsInOne ==
  ASSUME NEW p, NEW what, NEW verdict
  PROVE  PartsIn({p}, what, verdict) =
           IF p.what = what /\ p.verdict = verdict THEN {p.at} ELSE {}
BY DEF PartsIn

(* A colour table that is read has the verdict of what is read in it, and  *)
(* is split where no index reaches.                                        *)
LEMMA TableParts ==
  ASSUME NEW i \in Nat, NEW read \in BOOLEAN, NEW unread \in {"Dropped", "Skipped"},
         NEW code \in Nat, NEW s, s = ColourTable(i, "table", read, unread, code)
  PROVE  /\ s \in Seq(Parts)
         /\ \A p \in Range(s) : p.at = i /\ p.what \in {"table", "split", "unreachable"}
         /\ PartsIn(Range(s), "table", "ImageData") = IF read THEN {i} ELSE {}
         /\ PartsIn(Range(s), "unreachable", "Dropped") =
              IF read /\ ~(2 ^ code >= file.entries) THEN {i} ELSE {}
<1> DEFINE e == 2 ^ code >= file.entries
<1>1. CASE ~read
  <2> DEFINE p == Part(i, "table", unread)
  <2>1. p \in Parts /\ p.at = i /\ p.what = "table" /\ p.verdict = unread
    BY DEF Part, Child, Parts, Whats, Verdicts
  <2>2. s = <<p>>
    BY <1>1 DEF ColourTable
  <2> HIDE DEF p
  <2>3. s \in Seq(Parts) /\ Range(s) = {p}
    BY ONLY <2>1, <2>2, RangeOfFew
  <2>4. PartsIn(Range(s), "table", "ImageData") = {} /\ PartsIn(Range(s), "unreachable", "Dropped") = {}
    BY <2>1, <2>3, PartsInOne
  <2>5. QED
    BY <1>1, <2>1, <2>3, <2>4
<1>2. CASE read /\ e
  <2> DEFINE p == Part(i, "table", "ImageData")
  <2>1. p \in Parts /\ p.at = i /\ p.what = "table" /\ p.verdict = "ImageData"
    BY DEF Part, Child, Parts, Whats, Verdicts
  <2>2. s = <<p>>
    BY <1>2 DEF ColourTable
  <2> HIDE DEF p
  <2>3. s \in Seq(Parts) /\ Range(s) = {p}
    BY <2>1, <2>2, RangeOfFew
  <2>4. PartsIn(Range(s), "table", "ImageData") = {i} /\ PartsIn(Range(s), "unreachable", "Dropped") = {}
    BY <2>1, <2>3, PartsInOne
  <2>5. QED
    BY <1>2, <2>1, <2>3, <2>4
<1>3. CASE read /\ ~e
  <2> DEFINE p == Part(i, "split", "ImageData")
             q == Child(i, "table", "ImageData")
             u == Child(i, "unreachable", "Dropped")
  <2>1. /\ p \in Parts /\ p.at = i /\ p.what = "split" /\ p.verdict = "ImageData"
        /\ q \in Parts /\ q.at = i /\ q.what = "table" /\ q.verdict = "ImageData"
        /\ u \in Parts /\ u.at = i /\ u.what = "unreachable" /\ u.verdict = "Dropped"
    BY DEF Part, Child, Parts, Whats, Verdicts
  <2>2. s = <<p, q, u>>
    BY <1>3 DEF ColourTable
  <2> HIDE DEF p, q, u
  <2>3. s \in Seq(Parts) /\ Range(s) = {p, q, u}
    <3>1. s \in Seq(Parts)
      BY ONLY <2>1, <2>2
    <3>2. Range(s) = {p, q, u}
      BY ONLY <2>2 DEF Range
    <3>3. QED
      BY <3>1, <3>2
  <2>4. PartsIn(Range(s), "table", "ImageData") = {i} /\ PartsIn(Range(s), "unreachable", "Dropped") = {i}
    BY <2>1, <2>3 DEF PartsIn
  <2>5. QED
    BY <1>3, <2>1, <2>3, <2>4
<1>4. QED
  BY <1>1, <1>2, <1>3

\* A loop count that some operation reports.
UsedLoop(i) ==
  /\ file.blocks[i].kind = "loop" /\ file.blocks[i].whole /\ file.blocks[i].counts
  /\ i \in facts.loops

(* The parts of an image: its data counts as image data when the decoder   *)
(* delivers it, its own table when, in addition, it has one.               *)
LEMMA ImageListing ==
  ASSUME file \in Files, NEW i \in 1 .. Len(file.blocks), NEW w,
         file.blocks[i].kind = "image"
  PROVE  LET s == ImageParts(w, i, file.blocks[i])
         IN  /\ s \in Seq(Parts)
             /\ \A p \in Range(s) : p.at = i /\ p.what \in {"descriptor", "table", "split", "unreachable", "data"}
             /\ PartsIn(Range(s), "data", "ImageData") = IF Delivers(w, i) THEN {i} ELSE {}
             /\ PartsIn(Range(s), "table", "ImageData") =
                  IF Delivers(w, i) /\ file.blocks[i].own THEN {i} ELSE {}
<1> DEFINE b == file.blocks[i]
           s == ImageParts(w, i, b)
           table == CASE ~b.own -> <<>>
                      [] b.own /\ b.reads = "table" -> <<Part(i, "table", "Malformed")>>
                      [] OTHER -> ColourTable(i, "table", Decodes(w, b), "Skipped", b.code)
           data == IF b.reads = "table" THEN <<>> ELSE <<Part(i, "data", DataVerdict(w, b))>>
           desc == <<Part(i, "descriptor", DescriptorVerdict(w, b))>>
<1>0. i \in Nat /\ ImageOK(b)
  BY BlocksOfFile, BlockKinds
<1>1. /\ b.own \in BOOLEAN
      /\ Delivers(w, i) <=> Decodes(w, b)
      /\ Decodes(w, b) => b.reads = "whole" /\ Reachable(w, b)
  BY <1>0 DEF ImageOK, Delivers, Decodes
<1>2. CASE b.reads = "descriptor"
  <2> DEFINE p == Part(i, "descriptor", "Malformed")
  <2>1. p \in Parts /\ p.at = i /\ p.what = "descriptor"
    BY <1>0 DEF Part, Parts, Whats, Verdicts
  <2>2. s = <<p>>
    BY <1>2 DEF ImageParts
  <2> HIDE DEF p, s
  <2>3. s \in Seq(Parts) /\ Range(s) = {p}
    BY <2>1, <2>2, RangeOfFew
  <2>4. PartsIn(Range(s), "data", "ImageData") = {} /\ PartsIn(Range(s), "table", "ImageData") = {}
    BY <2>1, <2>3, PartsInOne
  <2>5. ~Delivers(w, i)
    BY <1>1, <1>2
  <2>6. QED
    BY <2>1, <2>3, <2>4, <2>5 DEF s
<1>3. CASE b.reads # "descriptor"
  <2>1. s = desc \o table \o data
    BY <1>3 DEF ImageParts
  <2>2. /\ desc \in Seq(Parts)
        /\ \A p \in Range(desc) : p.at = i /\ p.what = "descriptor"
    <3> DEFINE p == Part(i, "descriptor", DescriptorVerdict(w, b))
    <3>1. DescriptorVerdict(w, b) \in Verdicts
      BY DEF DescriptorVerdict, Verdicts
    <3>2. p \in Parts /\ p.at = i /\ p.what = "descriptor"
      BY <1>0, <3>1 DEF Part, Parts, Whats
    <3> HIDE DEF p
    <3>3. <<p>> \in Seq(Parts) /\ Range(<<p>>) = {p}
      BY <3>2, RangeOfFew
    <3>4. QED
      BY <3>2, <3>3 DEF p
  <2>3. /\ data \in Seq(Parts)
        /\ \A p \in Range(data) : p.at = i /\ p.what = "data"
        /\ PartsIn(Range(data), "data", "ImageData") = IF Delivers(w, i) THEN {i} ELSE {}
    <3> DEFINE p == Part(i, "data", DataVerdict(w, b))
    <3>1. DataVerdict(w, b) \in Verdicts
      BY DEF DataVerdict, Verdicts
    <3>2. DataVerdict(w, b) = "ImageData" <=> Delivers(w, i)
      BY <1>1 DEF DataVerdict
    <3>3. p \in Parts /\ p.at = i /\ p.what = "data" /\ p.verdict = DataVerdict(w, b)
      BY <1>0, <3>1 DEF Part, Parts, Whats
    <3> HIDE DEF p
    <3>4. CASE b.reads = "table"
      <4>1. data = <<>> /\ ~Delivers(w, i)
        BY <1>1, <3>4
      <4>2. data \in Seq(Parts) /\ Range(data) = {}
        BY <4>1 DEF Range
      <4>3. QED
        BY <4>1, <4>2, PartsInUnion
    <3>5. CASE b.reads # "table"
      <4>1. data = <<p>>
        BY <3>5 DEF p
      <4>2. data \in Seq(Parts) /\ Range(data) = {p}
        BY <3>3, <4>1, RangeOfFew
      <4>3. PartsIn({p}, "data", "ImageData") = IF Delivers(w, i) THEN {i} ELSE {}
        BY <3>2, <3>3, PartsInOne
      <4> HIDE DEF data
      <4>4. QED
        BY <3>3, <4>2, <4>3
    <3>6. QED
      BY <3>4, <3>5
  <2>4. /\ table \in Seq(Parts)
        /\ \A p \in Range(table) : p.at = i /\ p.what \in {"table", "split", "unreachable"}
        /\ PartsIn(Range(table), "table", "ImageData") =
             IF Delivers(w, i) /\ b.own THEN {i} ELSE {}
    <3>1. CASE ~b.own
      <4>1. table = <<>>
        BY <3>1
      <4>2. table \in Seq(Parts) /\ Range(table) = {}
        <5> HIDE DEF table
        <5>1. QED
          BY <4>1 DEF Range
      <4>3. QED
        BY <3>1, <4>2, PartsInUnion
    <3>2. CASE b.own /\ b.reads = "table"
      <4> DEFINE p == Part(i, "table", "Malformed")
      <4>1. p \in Parts /\ p.at = i /\ p.what = "table" /\ p.verdict = "Malformed"
        BY <1>0 DEF Part, Parts, Whats, Verdicts
      <4>2. table = <<p>>
        BY <3>2
      <4> HIDE DEF p, table
      <4>3. table \in Seq(Parts) /\ Range(table) = {p}
        BY <4>1, <4>2, RangeOfFew
      <4>4. ~Delivers(w, i)
        BY <1>1, <3>2
      <4>5. QED
        BY <4>1, <4>3, <4>4, PartsInOne
    <3>3. CASE b.own /\ b.reads # "table"
      <4>1. table = ColourTable(i, "table", Decodes(w, b), "Skipped", b.code)
        BY <3>3
      <4>2. Decodes(w, b) \in BOOLEAN
        BY DEF Decodes
      <4> DEFINE read == Decodes(w, b)
                 code == b.code
                 skipped == "Skipped"
      <4>3. read \in BOOLEAN /\ code \in Nat /\ skipped \in {"Dropped", "Skipped"}
        BY <1>0, <4>2 DEF ImageOK
      <4>4. (IF Delivers(w, i) /\ b.own THEN {i} ELSE {}) = IF read THEN {i} ELSE {}
        BY <1>1, <3>3
      <4>5. table = ColourTable(i, "table", read, skipped, code)
        BY <4>1
      <4> HIDE DEF table, read, skipped, code, b
      <4>6. /\ table \in Seq(Parts)
            /\ \A p \in Range(table) : p.at = i /\ p.what \in {"table", "split", "unreachable"}
            /\ PartsIn(Range(table), "table", "ImageData") = IF read THEN {i} ELSE {}
        BY <1>0, <4>3, <4>5, TableParts
      <4>7. QED
        BY <4>4, <4>6
    <3>4. QED
      BY <1>1, <3>1, <3>2, <3>3
  <2> HIDE DEF table, data, desc, s
  <2>5. desc \o table \in Seq(Parts) /\ Range(desc \o table) = Range(desc) \cup Range(table)
    BY <2>2, <2>4, RangeConcat
  <2>6. s \in Seq(Parts) /\ Range(s) = Range(desc) \cup Range(table) \cup Range(data)
    BY <2>1, <2>3, <2>5, RangeConcat
  <2>7. /\ PartsIn(Range(desc), "data", "ImageData") = {}
        /\ PartsIn(Range(desc), "table", "ImageData") = {}
        /\ PartsIn(Range(table), "data", "ImageData") = {}
        /\ PartsIn(Range(data), "table", "ImageData") = {}
    BY <2>2, <2>3, <2>4 DEF PartsIn
  <2>8. PartsIn(Range(s), "data", "ImageData") = IF Delivers(w, i) THEN {i} ELSE {}
    BY <2>3, <2>6, <2>7 DEF PartsIn
  <2>9. PartsIn(Range(s), "table", "ImageData") = IF Delivers(w, i) /\ b.own THEN {i} ELSE {}
    BY <2>4, <2>6, <2>7 DEF PartsIn
  <2>10. QED
    BY <2>2, <2>3, <2>4, <2>6, <2>8, <2>9 DEF s
<1>4. QED
  BY <1>2, <1>3

(* The parts of a control: it counts for the animation when the first pass *)
(* found a frame that applied it.                                          *)
LEMMA ControlListing ==
  ASSUME file \in Files, NEW i \in 1 .. Len(file.blocks),
         file.blocks[i].kind = "control"
  PROVE  LET s == ControlParts(i, file.blocks[i])
         IN  /\ s \in Seq(Parts)
             /\ \A p \in Range(s) : p.at = i /\ p.what \in {"control", "split", "unread", "terminator"}
             /\ PartsIn(Range(s), "control", "Animation") =
                  IF GoodControl(i) /\ i \in facts.controls THEN {i} ELSE {}
<1> DEFINE b == file.blocks[i]
           s == ControlParts(i, b)
           used == Part(i, "control", "Animation")
           unread == Child(i, "unread", "Dropped")
           inner == Child(i, "control", "Animation")
           split == Part(i, "split", "Structure")
           term == Child(i, "terminator", "Structure")
           what == {"control", "split", "unread", "terminator"}
<1>0. i \in Nat
  BY BlocksOfFile
<1>1. GoodControl(i) <=> b.whole /\ b.last # NoControl
  BY DEF GoodControl
<1>2. ASSUME NEW verdict \in {"Malformed", "Dropped"}, s = <<Part(i, "control", verdict)>>,
             ~(GoodControl(i) /\ i \in facts.controls)
      PROVE  /\ s \in Seq(Parts)
             /\ \A p \in Range(s) : p.at = i /\ p.what \in what
             /\ PartsIn(Range(s), "control", "Animation") =
                  IF GoodControl(i) /\ i \in facts.controls THEN {i} ELSE {}
  <2> DEFINE p == Part(i, "control", verdict)
  <2>1. p \in Parts /\ p.at = i /\ p.what = "control" /\ p.verdict = verdict
    BY <1>0 DEF Part, Parts, Whats, Verdicts
  <2> HIDE DEF p, s
  <2>2. s = <<p>>
    BY <1>2 DEF p
  <2>3. s \in Seq(Parts) /\ Range(s) = {p}
    BY <2>1, <2>2, RangeOfFew
  <2>4. PartsIn({p}, "control", "Animation") = {}
    BY <2>1, PartsInOne
  <2>5. QED
    BY <1>2, <2>1, <2>3, <2>4
<1>3. CASE ~GoodControl(i)
  BY <1>1, <1>2, <1>3 DEF ControlParts
<1>4. CASE GoodControl(i) /\ i \notin facts.controls
  BY <1>1, <1>2, <1>4 DEF ControlParts
<1>5. CASE GoodControl(i) /\ i \in facts.controls
  <2>1. /\ used \in Parts /\ used.at = i /\ used.what = "control" /\ used.verdict = "Animation"
        /\ unread \in Parts /\ unread.at = i /\ unread.what = "unread"
        /\ inner \in Parts /\ inner.at = i /\ inner.what = "control" /\ inner.verdict = "Animation"
        /\ split \in Parts /\ split.at = i /\ split.what = "split"
        /\ term \in Parts /\ term.at = i /\ term.what = "terminator"
    BY <1>0 DEF Part, Child, Parts, Whats, Verdicts
  <2>2. CASE b.first = b.last /\ b.last.transparent
    <3>1. s = <<used>>
      BY <1>1, <1>5, <2>2 DEF ControlParts
    <3> HIDE DEF s, used
    <3>2. s \in Seq(Parts) /\ Range(s) = {used}
      BY <2>1, <3>1, RangeOfFew
    <3>3. PartsIn({used}, "control", "Animation") = {i}
      BY <2>1, PartsInOne
    <3>4. QED
      BY <1>5, <2>1, <3>2, <3>3 DEF s
  <2>3. CASE ~(b.first = b.last /\ b.last.transparent)
    <3> DEFINE mid == IF b.first # b.last THEN <<unread>> ELSE <<>>
               tail == IF ~b.last.transparent THEN <<unread>> ELSE <<>>
    <3>1. s = <<split>> \o mid \o <<inner>> \o tail \o <<term>>
      BY <1>1, <1>5, <2>3 DEF ControlParts
    <3> DEFINE s1 == <<split>>
               s2 == <<inner>>
               s3 == <<term>>
    <3> HIDE DEF unread, inner, split, term, s
    <3>2. /\ s1 \in Seq(Parts) /\ Range(s1) = {split}
          /\ s2 \in Seq(Parts) /\ Range(s2) = {inner}
          /\ s3 \in Seq(Parts) /\ Range(s3) = {term}
          /\ <<unread>> \in Seq(Parts) /\ Range(<<unread>>) = {unread}
          /\ <<>> \in Seq(Parts) /\ Range(<<>>) = {}
      BY <2>1, RangeOfFew
    <3>3. /\ mid \in Seq(Parts) /\ Range(mid) \subseteq {unread}
          /\ tail \in Seq(Parts) /\ Range(tail) \subseteq {unread}
      BY <3>2
    <3> HIDE DEF mid, tail, s1, s2, s3
    <3>4. s1 \o mid \in Seq(Parts) /\ Range(s1 \o mid) = {split} \cup Range(mid)
      BY <3>2, <3>3, RangeConcat
    <3>5. /\ s1 \o mid \o s2 \in Seq(Parts)
          /\ Range(s1 \o mid \o s2) = {split} \cup Range(mid) \cup {inner}
      <4> DEFINE u == s1 \o mid
      <4> HIDE DEF u
      <4>1. u \in Seq(Parts) /\ Range(u) = {split} \cup Range(mid)
        BY <3>4 DEF u
      <4>2. u \o s2 \in Seq(Parts) /\ Range(u \o s2) = Range(u) \cup Range(s2)
        BY <3>2, <4>1, RangeConcat
      <4>3. Range(u \o s2) = {split} \cup Range(mid) \cup {inner}
        BY <3>2, <4>1, <4>2
      <4>4. QED
        BY <4>2, <4>3 DEF u
    <3>6. /\ s1 \o mid \o s2 \o tail \in Seq(Parts)
          /\ Range(s1 \o mid \o s2 \o tail) =
               {split} \cup Range(mid) \cup {inner} \cup Range(tail)
      BY <3>3, <3>5, RangeConcat
    <3>7. /\ s \in Seq(Parts)
          /\ Range(s) = {split} \cup Range(mid) \cup {inner} \cup Range(tail) \cup {term}
      BY <3>1, <3>2, <3>6, RangeConcat DEF s1, s2, s3
    <3>8. \A p \in Range(s) : p \in {split, unread, inner, term}
      BY <3>3, <3>7
    <3>9. PartsIn(Range(s), "control", "Animation") = {i}
      BY <2>1, <3>7, <3>8 DEF PartsIn
    <3>10. \A p \in Range(s) : p.at = i /\ p.what \in what
      BY <2>1, <3>8
    <3>11. QED
      BY <1>5, <3>7, <3>9, <3>10 DEF s
  <2>4. QED
    BY <2>2, <2>3
<1>6. QED
  BY <1>3, <1>4, <1>5

(* A loop counts when the first pass chose it; comments, text, other       *)
(* applications, unknown introducers and the trailer count for nothing.    *)
LEMMA OtherListing ==
  ASSUME file \in Files, NEW i \in 1 .. Len(file.blocks), NEW w,
         file.blocks[i].kind \notin {"image", "control"}
  PROVE  LET s == Listing(w, i)
         IN  /\ s \in Seq(Parts)
             /\ \A p \in Range(s) : p.at = i /\ p.what \in {"loop", "other", "unknown", "trailer", "rest"}
             /\ PartsIn(Range(s), "loop", "Animation") = IF UsedLoop(i) THEN {i} ELSE {}
<1> DEFINE b == file.blocks[i]
           s == Listing(w, i)
           kinds == {"loop", "other", "unknown", "trailer", "rest"}
<1>0. i \in Nat /\ i # 0 /\ BlockOK(b)
  BY BlocksOfFile
<1>1. CASE b.kind = "loop"
  <2> DEFINE verdict == CASE ~b.whole -> "Malformed"
                          [] b.whole /\ b.counts /\ i \in facts.loops -> "Animation"
                          [] OTHER -> "Dropped"
             p == Part(i, "loop", verdict)
  <2>1. verdict \in Verdicts /\ (verdict = "Animation" <=> UsedLoop(i))
    BY <1>1 DEF Verdicts, UsedLoop
  <2>2. s = <<p>>
    BY <1>0, <1>1 DEF Listing, LoopParts
  <2> HIDE DEF verdict, s
  <2>3. p \in Parts /\ p.at = i /\ p.what = "loop" /\ p.verdict = verdict
    BY <1>0, <2>1 DEF Part, Parts, Whats
  <2> HIDE DEF p
  <2>4. s \in Seq(Parts) /\ Range(s) = {p}
    BY <2>2, <2>3, RangeOfFew
  <2>5. PartsIn({p}, "loop", "Animation") = IF UsedLoop(i) THEN {i} ELSE {}
    BY <2>1, <2>3, PartsInOne
  <2>6. QED
    BY <2>3, <2>4, <2>5 DEF s
<1>2. ASSUME b.kind # "loop", s \in Seq(Parts),
             \A p \in Range(s) : p.at = i /\ p.what \in kinds \ {"loop"}
      PROVE  /\ s \in Seq(Parts)
             /\ \A p \in Range(s) : p.at = i /\ p.what \in kinds
             /\ PartsIn(Range(s), "loop", "Animation") = IF UsedLoop(i) THEN {i} ELSE {}
  <2>1. ~UsedLoop(i)
    BY <1>2 DEF UsedLoop
  <2>2. PartsIn(Range(s), "loop", "Animation") = {}
    BY <1>2 DEF PartsIn
  <2>3. QED
    BY <1>2, <2>1, <2>2
<1>3. CASE b.kind = "other"
  <2> DEFINE p == Part(i, "other", "Malformed")
             q == Part(i, "other", "Skipped")
             c == Child(i, "other", "Skipped")
             tail == [k \in 1 .. b.children |-> c]
  <2>1. /\ p \in Parts /\ p.at = i /\ p.what = "other"
        /\ q \in Parts /\ q.at = i /\ q.what = "other"
        /\ c \in Parts /\ c.at = i /\ c.what = "other"
    BY <1>0 DEF Part, Child, Parts, Whats, Verdicts
  <2>2. CASE ~b.whole
    <3>1. s = <<p>>
      BY <1>0, <1>3, <2>2 DEF Listing, OtherParts
    <3> HIDE DEF s, p
    <3>2. s \in Seq(Parts) /\ Range(s) = {p}
      BY <2>1, <3>1, RangeOfFew
    <3>3. QED
      BY <1>2, <1>3, <2>1, <3>2 DEF s
  <2>3. CASE b.whole
    <3>1. s = <<q>> \o tail
      BY <1>0, <1>3, <2>3 DEF Listing, OtherParts
    <3>2. b.children \in Nat
      BY <1>0, <1>3, BlockKinds
    <3> DEFINE one == <<q>>
               n == b.children
    <3> HIDE DEF s, q, c, n
    <3>3. one \in Seq(Parts) /\ Range(one) = {q}
      BY <2>1, RangeOfFew
    <3>4. tail \in Seq(Parts) /\ Range(tail) \subseteq {c}
      BY <2>1, <3>2 DEF Range, n
    <3> HIDE DEF one, tail
    <3>5. s \in Seq(Parts) /\ Range(s) = Range(one) \cup Range(tail)
      BY <3>1, <3>3, <3>4, RangeConcat DEF one
    <3>6. QED
      BY <1>2, <1>3, <2>1, <3>3, <3>4, <3>5 DEF s
  <2>4. QED
    BY <2>2, <2>3
<1>4. CASE b.kind = "unknown"
  <2> DEFINE v == IF b.whole /\ b.hides = <<>> THEN "Unknown" ELSE "Malformed"
             p == Part(i, "unknown", v)
  <2>1. p \in Parts /\ p.at = i /\ p.what = "unknown"
    BY <1>0 DEF Part, Parts, Whats, Verdicts
  <2>2. s = <<p>>
    BY <1>0, <1>4 DEF Listing, UnknownParts
  <2> HIDE DEF p, s
  <2>3. s \in Seq(Parts) /\ Range(s) = {p}
    BY <2>1, <2>2, RangeOfFew
  <2>4. QED
    BY <1>2, <1>4, <2>1, <2>3 DEF s
<1>5. CASE b.kind = "trailer"
  <2> DEFINE p == Part(i, "trailer", "Structure")
             q == Part(i, "rest", "Trailing")
             one == <<p>>
             tail == IF i < Len(file.blocks) THEN <<q>> ELSE <<>>
  <2>1. /\ p \in Parts /\ p.at = i /\ p.what = "trailer"
        /\ q \in Parts /\ q.at = i /\ q.what = "rest"
    BY <1>0 DEF Part, Parts, Whats, Verdicts
  <2>2. s = one \o tail
    BY <1>0, <1>5 DEF Listing, TrailerParts
  <2> HIDE DEF p, q, s
  <2>3. one \in Seq(Parts) /\ Range(one) = {p}
    BY <2>1, RangeOfFew
  <2>4. tail \in Seq(Parts) /\ Range(tail) \subseteq {q}
    <3>1. <<q>> \in Seq(Parts) /\ Range(<<q>>) = {q} /\ <<>> \in Seq(Parts) /\ Range(<<>>) = {}
      BY <2>1, RangeOfFew
    <3>2. QED
      BY <3>1
  <2> HIDE DEF one, tail
  <2>5. s \in Seq(Parts) /\ Range(s) = Range(one) \cup Range(tail)
    BY <2>2, <2>3, <2>4, RangeConcat
  <2>6. QED
    BY <1>2, <1>5, <2>1, <2>3, <2>4, <2>5 DEF s
<1>6. b.kind \in {"image", "control", "loop", "other", "unknown", "trailer"}
  BY <1>0, BlockKinds
<1>7. QED
  BY <1>1, <1>3, <1>4, <1>5, <1>6

(* What a block adds to the inventory.                                     *)
LEMMA BlockListing ==
  ASSUME file \in Files, NEW i \in 1 .. Len(file.blocks), NEW w
  PROVE  LET s == Listing(w, i)
         IN  /\ s \in Seq(Parts)
             /\ \A p \in Range(s) : p.at = i
             /\ PartsIn(Range(s), "data", "ImageData") = IF Delivers(w, i) THEN {i} ELSE {}
             /\ PartsIn(Range(s), "control", "Animation") =
                  IF GoodControl(i) /\ i \in facts.controls THEN {i} ELSE {}
             /\ PartsIn(Range(s), "table", "ImageData") =
                  IF Delivers(w, i) /\ file.blocks[i].own THEN {i} ELSE {}
             /\ PartsIn(Range(s), "loop", "Animation") = IF UsedLoop(i) THEN {i} ELSE {}
<1> DEFINE b == file.blocks[i]
           s == Listing(w, i)
<1>0. i # 0
  BY BlocksOfFile
<1>1. CASE b.kind = "image"
  <2>1. s = ImageParts(w, i, b)
    BY <1>0, <1>1 DEF Listing
  <2>2. /\ s \in Seq(Parts)
        /\ \A p \in Range(s) : p.at = i /\ p.what \in {"descriptor", "table", "split", "unreachable", "data"}
        /\ PartsIn(Range(s), "data", "ImageData") = IF Delivers(w, i) THEN {i} ELSE {}
        /\ PartsIn(Range(s), "table", "ImageData") = IF Delivers(w, i) /\ b.own THEN {i} ELSE {}
    <3> HIDE DEF s, b
    <3>1. b.kind = "image" /\ b = file.blocks[i]
      BY <1>1 DEF b
    <3>2. QED
      BY <2>1, <3>1, ImageListing
  <2>3. ~GoodControl(i) /\ ~UsedLoop(i)
    BY <1>1 DEF GoodControl, UsedLoop
  <2> HIDE DEF s
  <2>4. PartsIn(Range(s), "control", "Animation") = {} /\ PartsIn(Range(s), "loop", "Animation") = {}
    BY <2>2 DEF PartsIn
  <2>5. QED
    BY <2>2, <2>3, <2>4 DEF s
<1>2. CASE b.kind = "control"
  <2>1. s = ControlParts(i, b)
    BY <1>0, <1>2 DEF Listing
  <2>2. /\ s \in Seq(Parts)
        /\ \A p \in Range(s) : p.at = i /\ p.what \in {"control", "split", "unread", "terminator"}
        /\ PartsIn(Range(s), "control", "Animation") =
             IF GoodControl(i) /\ i \in facts.controls THEN {i} ELSE {}
    BY <1>2, <2>1, ControlListing
  <2>3. ~Delivers(w, i) /\ ~UsedLoop(i)
    BY <1>2 DEF Delivers, UsedLoop
  <2> HIDE DEF s
  <2>4. /\ PartsIn(Range(s), "data", "ImageData") = {} /\ PartsIn(Range(s), "loop", "Animation") = {}
        /\ PartsIn(Range(s), "table", "ImageData") = {}
    BY <2>2 DEF PartsIn
  <2>5. QED
    BY <2>2, <2>3, <2>4 DEF s
<1>3. CASE b.kind \notin {"image", "control"}
  <2>1. /\ s \in Seq(Parts)
        /\ \A p \in Range(s) : p.at = i /\ p.what \in {"loop", "other", "unknown", "trailer", "rest"}
        /\ PartsIn(Range(s), "loop", "Animation") = IF UsedLoop(i) THEN {i} ELSE {}
    BY <1>3, OtherListing
  <2>2. ~Delivers(w, i) /\ ~GoodControl(i)
    BY <1>3 DEF Delivers, GoodControl
  <2> HIDE DEF s
  <2>3. /\ PartsIn(Range(s), "data", "ImageData") = {} /\ PartsIn(Range(s), "control", "Animation") = {}
        /\ PartsIn(Range(s), "table", "ImageData") = {}
    BY <2>1 DEF PartsIn
  <2>4. QED
    BY <2>1, <2>2, <2>3 DEF s
<1>4. QED
  BY <1>1, <1>2, <1>3

\* The global table, split where no index reaches.
TableRead == file.screen # "short" /\ file.colours = "whole" /\ facts.colours

(* What the header adds to the inventory.                                  *)
LEMMA HeaderListing ==
  ASSUME file \in Files, facts.colours \in BOOLEAN, facts.reach \in Nat, NEW w
  PROVE  LET s == Listing(w, 0)
         IN  /\ s \in Seq(Parts)
             /\ \A p \in Range(s) : p.at = 0
             /\ PartsIn(Range(s), "data", "ImageData") = {}
             /\ PartsIn(Range(s), "control", "Animation") = {}
             /\ PartsIn(Range(s), "loop", "Animation") = {}
             /\ PartsIn(Range(s), "table", "ImageData") = IF TableRead THEN {0} ELSE {}
             /\ PartsIn(Range(s), "unreachable", "Dropped") =
                  IF TableRead /\ ~(2 ^ facts.reach >= file.entries) THEN {0} ELSE {}
<1> DEFINE s == Listing(w, 0)
           bad == <<Part(0, "header", "Malformed")>>
           good == <<Part(0, "header", "Structure")>>
           table == CASE file.colours = "none"  -> <<>>
                      [] file.colours = "cut"   -> <<Part(0, "table", "Malformed")>>
                      [] file.colours = "whole" ->
                           ColourTable(0, "table", facts.colours, "Dropped", facts.reach)
<1>0. s = IF file.screen = "short" THEN bad ELSE good \o table
  BY DEF Listing, HeaderParts
<1>1. /\ bad \in Seq(Parts) /\ \A p \in Range(bad) : p.at = 0 /\ p.what = "header"
      /\ good \in Seq(Parts) /\ \A p \in Range(good) : p.at = 0 /\ p.what = "header"
  <2> DEFINE p == Part(0, "header", "Malformed")
             q == Part(0, "header", "Structure")
  <2>1. /\ p \in Parts /\ p.at = 0 /\ p.what = "header"
        /\ q \in Parts /\ q.at = 0 /\ q.what = "header"
    BY DEF Part, Parts, Whats, Verdicts
  <2> HIDE DEF p, q
  <2>2. <<p>> \in Seq(Parts) /\ Range(<<p>>) = {p} /\ <<q>> \in Seq(Parts) /\ Range(<<q>>) = {q}
    BY <2>1, RangeOfFew
  <2>3. QED
    BY <2>1, <2>2 DEF p, q
<1>2. file.colours \in {"none", "cut", "whole"}
  BY BlockAssumption DEF FileOK
<1> DEFINE read == file.colours = "whole" /\ facts.colours
<1>3. /\ table \in Seq(Parts)
      /\ \A p \in Range(table) : p.at = 0 /\ p.what \in {"table", "split", "unreachable"}
      /\ PartsIn(Range(table), "table", "ImageData") = IF read THEN {0} ELSE {}
      /\ PartsIn(Range(table), "unreachable", "Dropped") =
           IF read /\ ~(2 ^ facts.reach >= file.entries) THEN {0} ELSE {}
  <2>1. CASE file.colours = "none"
    <3>1. table = <<>> /\ ~read
      BY <2>1
    <3> HIDE DEF table
    <3>2. table \in Seq(Parts) /\ Range(table) = {}
      BY <3>1 DEF Range
    <3>3. QED
      BY <3>1, <3>2, PartsInUnion
  <2>2. CASE file.colours = "cut"
    <3> DEFINE p == Part(0, "table", "Malformed")
    <3>1. table = <<p>> /\ ~read
      BY <2>2
    <3>2. p \in Parts /\ p.at = 0 /\ p.what = "table" /\ p.verdict = "Malformed"
      BY DEF Part, Parts, Whats, Verdicts
    <3> HIDE DEF table, p
    <3>3. table \in Seq(Parts) /\ Range(table) = {p}
      BY <3>1, <3>2, RangeOfFew
    <3>4. QED
      BY <3>1, <3>2, <3>3, PartsInOne
  <2>3. CASE file.colours = "whole"
    <3> DEFINE c == facts.colours
               code == facts.reach
               dropped == "Dropped"
               zero == 0
    <3>1. table = ColourTable(zero, "table", c, dropped, code)
      BY <2>3
    <3>2. c \in BOOLEAN /\ dropped \in {"Dropped", "Skipped"} /\ zero \in Nat /\ code \in Nat
      OBVIOUS
    <3>3. read <=> c
      BY <2>3
    <3> HIDE DEF c, code, dropped, table, read, zero
    <3>4. /\ table \in Seq(Parts)
          /\ \A p \in Range(table) : p.at = zero /\ p.what \in {"table", "split", "unreachable"}
          /\ PartsIn(Range(table), "table", "ImageData") = IF c THEN {zero} ELSE {}
          /\ PartsIn(Range(table), "unreachable", "Dropped") =
               IF c /\ ~(2 ^ code >= file.entries) THEN {zero} ELSE {}
      BY ONLY <3>1, <3>2, TableParts
    <3>5. QED
      BY <3>3, <3>4 DEF code, zero
  <2>4. QED
    BY <1>2, <2>1, <2>2, <2>3
<1> HIDE DEF s, bad, good, table, read
<1>4. CASE file.screen = "short"
  <2>1. s = bad /\ ~TableRead
    BY <1>0, <1>4 DEF TableRead
  <2>2. QED
    BY <1>1, <2>1 DEF PartsIn, s
<1>5. CASE file.screen # "short"
  <2>1. s \in Seq(Parts) /\ Range(s) = Range(good) \cup Range(table)
    BY <1>0, <1>1, <1>3, <1>5, RangeConcat
  <2>2. read <=> TableRead
    BY <1>5 DEF read, TableRead
  <2>3. /\ PartsIn(Range(s), "table", "ImageData") = PartsIn(Range(table), "table", "ImageData")
        /\ PartsIn(Range(s), "unreachable", "Dropped") = PartsIn(Range(table), "unreachable", "Dropped")
    BY <1>1, <2>1 DEF PartsIn
  <2>4. /\ PartsIn(Range(s), "data", "ImageData") = {}
        /\ PartsIn(Range(s), "control", "Animation") = {}
        /\ PartsIn(Range(s), "loop", "Animation") = {}
    BY <1>1, <1>3, <2>1 DEF PartsIn
  <2>5. QED
    BY <1>1, <1>3, <2>1, <2>2, <2>3, <2>4 DEF s
<1>6. QED
  BY <1>4, <1>5

-----------------------------------------------------------------------------
(* What the decoder has read.                                              *)

\* The blocks a header may contain.
Extensions == {"control", "loop", "other"}

\* A loop count that can be read.
GoodLoop(i) ==
  file.blocks[i].kind = "loop" /\ file.blocks[i].whole /\ file.blocks[i].counts

\* What the decoder's state says of the blocks it has read.
ReaderFacts(r, n) ==
  /\ r.loopAt # 0 => r.loopAt \in Before(n) /\ GoodLoop(r.loopAt)
  /\ r.delivered # {} => r.open /\ ~r.header
  /\ r.going => r.open
  /\ r.going /\ r.header => \A j \in 1 .. n - 1 : file.blocks[j].kind \in Extensions

\* A file that no walker finds a frame in.
NoFrames ==
  \/ file.colours = "cut"
  \/ \A j \in 1 .. Len(file.blocks) : file.blocks[j].kind \in Extensions

\* At the end the walker may have missed that the header was cut off.
EndState(fs, r) ==
  /\ fs.headerFatal => ~r.open
  /\ r.open \/ fs.headerFatal \/ NoFrames

(* One block further, the decoder's state still says so much of the        *)
(* blocks.                                                                 *)
LEMMA ReaderStep ==
  ASSUME file \in Files, NEW i \in Parsed, NEW r \in ReaderStates, ReaderFacts(r, i)
  PROVE  ReaderFacts(Read(file, r, i), After(i))
<1> DEFINE b == file.blocks[i]
           r1 == Read(file, r, i)
<1>0. /\ BlockOK(b) /\ i \in 1 .. Len(file.blocks) /\ i \in Nat
      /\ Before(After(i)) = Before(i) \cup {i}
      /\ After(i) = Eof \/ After(i) = i + 1
  BY BlocksOfFile, BeforeFacts, AfterFacts DEF After, Eof
<1>1. CASE ~r.going
  BY <1>0, <1>1 DEF Read, ReaderFacts
<1>2. CASE r.going /\ b.kind = "image"
  <2> DEFINE begun == [r EXCEPT !.header = FALSE, !.images = @ + 1,
                         !.applied = IF r.control = 0 THEN @ ELSE @ \cup {r.control},
                         !.control = 0, !.pending = NoControl,
                         !.elapsed = @ + r.pending.delay]
  <2>1. /\ begun.loopAt = r.loopAt /\ DOMAIN begun = DOMAIN r /\ begun.header = FALSE
        /\ begun.delivered = r.delivered /\ begun.open = r.open
    BY DEF ReaderStates
  <2>2. r1 = ReadImage(file, r, i, b)
    BY <1>2 DEF Read
  <2>3. r1 \in {[r EXCEPT !.going = FALSE, !.header = FALSE], [begun EXCEPT !.going = FALSE],
                [begun EXCEPT !.delivered = @ \cup {i}, !.base = Under(r, b),
                              !.clear = @ \cup Shown(r, b)]}
    BY <2>2, Zenon DEF ReadImage
  <2> HIDE DEF begun
  <2>4. /\ r1.loopAt = r.loopAt /\ r1.header = FALSE /\ r1.open = r.open
    BY <2>1, <2>3 DEF ReaderStates
  <2>5. r.open
    BY <1>2 DEF ReaderFacts
  <2>6. QED
    BY <1>0, <2>4, <2>5 DEF ReaderFacts
<1>3. CASE r.going /\ b.kind = "control"
  <2>1. r1 = ReadControl(r, i, b)
    BY <1>3 DEF Read
  <2>2. /\ r1.loopAt = r.loopAt /\ r1.header = r.header /\ r1.delivered = r.delivered
        /\ (r1.open = r.open /\ r1.going = r.going) \/ (r.header /\ r1.going = FALSE)
             \/ (r1.open = r.open /\ r1.going = FALSE)
    BY <2>1 DEF ReadControl, ReadFailure, ReaderStates
  <2>3. After(i) = i + 1
    BY <1>3 DEF After
  <2>4. \A j \in 1 .. After(i) - 1 : j \in 1 .. i - 1 \/ j = i
    BY <1>0, <2>3
  <2>5. r1.loopAt # 0 => r1.loopAt \in Before(After(i)) /\ GoodLoop(r1.loopAt)
    BY <1>0, <2>2 DEF ReaderFacts
  <2>6. /\ r1.delivered # {} => r1.open /\ ~r1.header
        /\ r1.going => r1.open
    BY <2>2 DEF ReaderFacts
  <2>7. r1.going /\ r1.header => \A j \in 1 .. After(i) - 1 : file.blocks[j].kind \in Extensions
    BY <1>3, <2>2, <2>4 DEF ReaderFacts, Extensions
  <2>8. QED
    BY <2>5, <2>6, <2>7 DEF ReaderFacts
<1>4. CASE r.going /\ b.kind = "loop"
  <2>1. r1 = ReadLoop(r, i, b)
    BY <1>4 DEF Read
  <2>2. /\ r1.header = r.header /\ r1.delivered = r.delivered
        /\ (r1.open = r.open /\ r1.going = r.going) \/ (r.header /\ r1.going = FALSE)
             \/ (r1.open = r.open /\ r1.going = FALSE)
        /\ r1.loopAt = r.loopAt \/ (r1.loopAt = i /\ GoodLoop(i))
    BY <1>4, <2>1 DEF ReadLoop, ReadFailure, ReaderStates, GoodLoop
  <2>3. After(i) = i + 1
    BY <1>4 DEF After
  <2>4. \A j \in 1 .. After(i) - 1 : j \in 1 .. i - 1 \/ j = i
    BY <1>0, <2>3
  <2>5. r1.loopAt # 0 => r1.loopAt \in Before(After(i)) /\ GoodLoop(r1.loopAt)
    BY <1>0, <2>2 DEF ReaderFacts
  <2>6. /\ r1.delivered # {} => r1.open /\ ~r1.header
        /\ r1.going => r1.open
    BY <2>2 DEF ReaderFacts
  <2>7. r1.going /\ r1.header => \A j \in 1 .. After(i) - 1 : file.blocks[j].kind \in Extensions
    BY <1>4, <2>2, <2>4 DEF ReaderFacts, Extensions
  <2>8. QED
    BY <2>5, <2>6, <2>7 DEF ReaderFacts
<1>5. CASE r.going /\ b.kind = "other"
  <2>1. r1 = IF b.whole THEN r ELSE ReadFailure(r)
    BY <1>5 DEF Read
  <2>2. /\ r1.loopAt = r.loopAt /\ r1.header = r.header /\ r1.delivered = r.delivered
        /\ (r1.open = r.open /\ r1.going = r.going) \/ (r.header /\ r1.going = FALSE)
             \/ (r1.open = r.open /\ r1.going = FALSE)
    BY <2>1 DEF ReadFailure, ReaderStates
  <2>3. After(i) = i + 1
    BY <1>5 DEF After
  <2>4. \A j \in 1 .. After(i) - 1 : j \in 1 .. i - 1 \/ j = i
    BY <1>0, <2>3
  <2>5. r1.loopAt # 0 => r1.loopAt \in Before(After(i)) /\ GoodLoop(r1.loopAt)
    BY <1>0, <2>2 DEF ReaderFacts
  <2>6. /\ r1.delivered # {} => r1.open /\ ~r1.header
        /\ r1.going => r1.open
    BY <2>2 DEF ReaderFacts
  <2>7. r1.going /\ r1.header => \A j \in 1 .. After(i) - 1 : file.blocks[j].kind \in Extensions
    BY <1>5, <2>2, <2>4 DEF ReaderFacts, Extensions
  <2>8. QED
    BY <2>5, <2>6, <2>7 DEF ReaderFacts
<1>6. CASE r.going /\ b.kind \in {"unknown", "trailer"}
  <2>1. r1 \in {[r EXCEPT !.header = FALSE, !.going = b.whole], [r EXCEPT !.going = FALSE, !.header = FALSE]}
    BY <1>6 DEF Read
  <2>2. /\ r1.loopAt = r.loopAt /\ r1.header = FALSE /\ r1.delivered = r.delivered
        /\ r1.open = r.open
    BY <2>1 DEF ReaderStates
  <2>3. r.open
    BY <1>6 DEF ReaderFacts
  <2>4. QED
    BY <1>0, <2>2, <2>3 DEF ReaderFacts
<1>7. QED
  BY <1>0, <1>1, <1>2, <1>3, <1>4, <1>5, <1>6, BlockKinds

(* Where the first pass ends, walker and decoder agree on whether the      *)
(* decoder could be made, unless a cut leaves a file without frames.       *)
LEMMA EndStep ==
  ASSUME file \in Files, NEW i \in Parsed, NEW w \in WalkerStates,
         NEW r \in ReaderStates, NEW fs \in FactStates, Lockstep(w, fs, r, i),
         ReaderFacts(r, i), After(i) = Eof
  PROVE  EndState(Find(w, fs, i), Read(file, r, i))
<1> DEFINE b == file.blocks[i]
           r1 == Read(file, r, i)
           f1 == Find(w, fs, i)
<1>0. /\ i \in 1 .. Len(file.blocks) /\ BlockOK(b) /\ i \in Nat
      /\ b.kind # "trailer" => i = Len(file.blocks)
  BY BlocksOfFile, BeforeFacts DEF After, Eof
<1>1. CASE b.kind \notin Extensions \/ (b.kind # "control" /\ ~(r.going /\ r.header))
  <2>1. f1.headerFatal = fs.headerFatal
    <3>1. CASE b.kind = "image"
      BY <3>1 DEF Find, FindImage, FactStates
    <3>2. CASE b.kind # "image"
      BY <1>1, <3>2 DEF Find, Extensions
    <3>3. QED
      BY <3>1, <3>2
  <2>2. r1.open = r.open
    <3>1. CASE b.kind = "image" /\ r.going
      <4> DEFINE begun == [r EXCEPT !.header = FALSE, !.images = @ + 1,
                             !.applied = IF r.control = 0 THEN @ ELSE @ \cup {r.control},
                             !.control = 0, !.pending = NoControl,
                             !.elapsed = @ + r.pending.delay]
      <4>1. begun.open = r.open /\ DOMAIN begun = DOMAIN r
        BY DEF ReaderStates
      <4>2. r1 = ReadImage(file, r, i, b)
        BY <3>1 DEF Read
      <4>3. r1 \in {[r EXCEPT !.going = FALSE, !.header = FALSE], [begun EXCEPT !.going = FALSE],
                    [begun EXCEPT !.delivered = @ \cup {i}, !.base = Under(r, b),
                                  !.clear = @ \cup Shown(r, b)]}
        BY <4>2, Zenon DEF ReadImage
      <4> HIDE DEF begun
      <4>4. QED
        BY <4>1, <4>3 DEF ReaderStates
    <3>2. CASE ~r.going
      BY <3>2 DEF Read
    <3>3. CASE b.kind # "image" /\ r.going
      BY <1>1, <3>3 DEF Read, ReadControl, ReadLoop, ReadFailure, ReaderStates, Extensions
    <3>4. QED
      BY <3>1, <3>2, <3>3
  <2>3. QED
    BY <2>1, <2>2 DEF EndState, Lockstep
<1>2. CASE b.kind = "control"
  <2>1. f1.headerFatal = (fs.headerFatal \/ (w.header /\ ~(b.whole /\ b.last # NoControl)))
    BY <1>2 DEF Find, FactStates
  <2>2. CASE ~r.going
    <3>1. r1 = r
      BY <2>2 DEF Read
    <3>2. w.header => fs.headerFatal
      BY <2>2 DEF Lockstep
    <3>3. QED
      BY <2>1, <3>1, <3>2 DEF EndState, Lockstep
  <2>3. CASE r.going
    <3>1. r1.open <=> r.open /\ ((b.whole /\ b.last # NoControl) \/ ~r.header)
      BY <1>2, <2>3 DEF Read, ReadControl, ReadFailure, ReaderStates
    <3>2. w.header = r.header
      BY <2>3 DEF Lockstep, SameState
    <3>3. QED
      BY <2>1, <3>1, <3>2 DEF EndState, Lockstep, ReaderStates, WalkerStates
  <2>4. QED
    BY <2>2, <2>3 DEF ReaderStates
<1>3. CASE b.kind \in Extensions /\ b.kind # "control" /\ r.going /\ r.header
  <2>1. i = Len(file.blocks)
    BY <1>0, <1>3 DEF Extensions
  <2>2. \A j \in 1 .. Len(file.blocks) : j \in 1 .. i - 1 \/ j = i
    BY <1>0, <2>1
  <2>3. NoFrames
    BY <1>3, <2>2 DEF NoFrames, ReaderFacts
  <2>4. f1 = fs
    BY <1>3 DEF Find, Extensions
  <2>5. ~fs.headerFatal
    BY <1>3 DEF Lockstep, ReaderFacts
  <2>6. QED
    BY <2>3, <2>4, <2>5 DEF EndState
<1>4. QED
  BY <1>1, <1>2, <1>3 DEF Extensions

-----------------------------------------------------------------------------
(* The probe sees the file through a recursive function.                   *)

\* What the probe sees of block i, and of the blocks from i on.
SeenAt(i) ==
  LET b == file.blocks[i]
  IN IF b.kind = "unknown" THEN [j \in DOMAIN b.hides |-> [at |-> 0, block |-> b.hides[j]]]
     ELSE <<[at |-> i, block |-> b]>>

\* The recursive function that the probe's view is taken from, unfolded once.
TailAt(g, i) == IF i > Len(file.blocks) THEN <<>> ELSE SeenAt(i) \o g[i + 1]

IsTail(g) == g = [i \in 1 .. Len(file.blocks) + 1 |-> TailAt(g, i)]

\* An element of the probe's view.
Finds == [at : Nat, block : Blocks]

\* How the probe's blocks relate to the file's from block n on: what is seen
\* at a place is the block there, places are seen in order and none but an
\* unknown introducer is missed.
SeesFrom(s, n) ==
  /\ s \in Seq(Finds)
  /\ \A k \in DOMAIN s :
       \/ s[k].at = 0 /\ \E j \in n .. Len(file.blocks) :
                            file.blocks[j].kind = "unknown" /\ file.blocks[j].hides # <<>>
       \/ /\ s[k].at \in n .. Len(file.blocks) /\ s[k].block = file.blocks[s[k].at]
          /\ s[k].block.kind # "unknown"
          /\ \A j \in n .. s[k].at - 1 :
               file.blocks[j].kind # "unknown" => \E l \in 1 .. k - 1 : s[l].at = j
          /\ \A l \in 1 .. k - 1 : s[l].at < s[k].at
  /\ \A j \in n .. Len(file.blocks) :
       file.blocks[j].kind # "unknown" => \E k \in DOMAIN s : s[k].at = j

(* The equations of that function have a solution: it is built from the    *)
(* last block backwards.                                                   *)
LEMMA TailExists == file \in Files => \E g : IsTail(g)
<1> SUFFICES ASSUME file \in Files PROVE \E g : IsTail(g)
  OBVIOUS
<1> DEFINE n == Len(file.blocks)
           partial(g, m) ==
             /\ g = [i \in 1 .. n + 1 |-> g[i]]
             /\ \A i \in 1 .. n + 1 : n + 1 - m <= i => g[i] = TailAt(g, i)
           S == {m \in Nat : \E g : partial(g, m)}
<1>1. n \in Nat
  BY BlocksOfFile
<1>2. 0 \in S
  <2> DEFINE g == [i \in 1 .. n + 1 |-> <<>>]
  <2>1. partial(g, 0)
    BY <1>1 DEF TailAt
  <2>2. QED
    BY <2>1
<1>3. ASSUME NEW m \in Nat, m \in S PROVE m + 1 \in S
  <2>1. PICK g : partial(g, m)
    BY <1>3
  <2> DEFINE i0 == n - m
             h == [i \in 1 .. n + 1 |-> IF i = i0 THEN TailAt(g, i0) ELSE g[i]]
  <2>2. \A i \in 1 .. n + 1 : n + 1 - (m + 1) <= i => h[i] = TailAt(h, i)
    <3>0. \A i \in 1 .. n + 1 : n + 1 - (m + 1) <= i => n - m <= i
      <4> HIDE DEF n
      <4>1. QED
        BY <1>1
    <3> SUFFICES ASSUME NEW i \in 1 .. n + 1, n - m <= i PROVE h[i] = TailAt(h, i)
      BY <3>0
    <3>1. i <= n => i + 1 \in 1 .. n + 1 /\ i + 1 # i0
      BY <1>1
    <3>2. TailAt(h, i) = TailAt(g, i)
      BY <3>1, <1>1 DEF TailAt
    <3>3. CASE i = i0
      BY <3>2, <3>3
    <3>4. CASE i # i0
      <4>1. h[i] = g[i] /\ n + 1 - m <= i
        BY <1>1, <3>4
      <4>2. g[i] = TailAt(g, i)
        BY <2>1, <4>1
      <4>3. QED
        BY <3>2, <4>1, <4>2
    <3>5. QED
      BY <3>3, <3>4
  <2>3. h = [i \in 1 .. n + 1 |-> h[i]]
    OBVIOUS
  <2> HIDE DEF h
  <2>4. partial(h, m + 1)
    BY <2>2, <2>3
  <2>5. QED
    BY <2>4
<1> HIDE DEF S
<1>4. n + 1 \in S
  BY <1>1, <1>2, <1>3, NatInductionOnSets
<1>5. PICK g : partial(g, n + 1)
  BY <1>4 DEF S
<1>6. \A i \in 1 .. n + 1 : g[i] = TailAt(g, i)
  BY <1>1, <1>5
<1>7. IsTail(g)
  <2>1. g = [i \in 1 .. n + 1 |-> g[i]]
    BY <1>5
  <2>2. [i \in 1 .. n + 1 |-> g[i]] = [i \in 1 .. n + 1 |-> TailAt(g, i)]
    BY <1>6
  <2>3. QED
    BY <2>1, <2>2 DEF IsTail
<1>8. QED
  BY <1>7

(* One block more in front, the probe's view still relates to the file's   *)
(* blocks so.                                                              *)
LEMMA SeesFromStep ==
  ASSUME file \in Files, NEW n \in 1 .. Len(file.blocks), NEW s, SeesFrom(s, n + 1)
  PROVE  SeesFrom(SeenAt(n) \o s, n)
<1> DEFINE b == file.blocks[n]
           a == SeenAt(n)
           u == a \o s
           N == Len(file.blocks)
<1>0. /\ BlockOK(b) /\ b \in Blocks /\ n \in Nat /\ N \in Nat /\ n # 0
      /\ \A j \in n .. N : j = n \/ j \in n + 1 .. N
      /\ s \in Seq(Finds)
  BY BlocksOfFile DEF SeesFrom
<1>1. /\ a \in Seq(Finds)
      /\ \A k \in DOMAIN a : IF b.kind = "unknown" THEN a[k].at = 0 /\ b.hides # <<>>
                             ELSE a[k] = [at |-> n, block |-> b]
      /\ b.kind # "unknown" => Len(a) = 1
  <2>1. CASE b.kind = "unknown"
    <3>1. b.hides \in Seq(Blocks)
      BY <1>0, <2>1, BlockKinds
    <3>2. a = [j \in DOMAIN b.hides |-> [at |-> 0, block |-> b.hides[j]]]
      BY <2>1 DEF SeenAt
    <3> DEFINE h == b.hides
    <3> HIDE DEF h
    <3>3. /\ Len(h) \in Nat /\ DOMAIN h = 1 .. Len(h) /\ \A j \in 1 .. Len(h) : h[j] \in Blocks
      BY <3>1 DEF h
    <3>4. a = [j \in 1 .. Len(h) |-> [at |-> 0, block |-> h[j]]]
      BY <3>2, <3>3 DEF h
    <3>5. \A j \in 1 .. Len(h) : [at |-> 0, block |-> h[j]] \in Finds
      BY <3>3 DEF Finds
    <3>6. a \in Seq(Finds) /\ \A k \in DOMAIN a : a[k].at = 0
      BY ONLY <3>3, <3>4, <3>5
    <3>7. h = <<>> => DOMAIN a = {}
      BY <3>3, <3>4
    <3>8. QED
      BY <2>1, <3>6, <3>7 DEF h
  <2>2. CASE b.kind # "unknown"
    <3> DEFINE e == [at |-> n, block |-> b]
    <3>1. a = <<e>> /\ e \in Finds
      BY <1>0, <2>2 DEF SeenAt, Finds
    <3> HIDE DEF e, a
    <3>2. a \in Seq(Finds) /\ Len(a) = 1 /\ \A k \in DOMAIN a : a[k] = e
      BY <3>1
    <3>3. QED
      BY <2>2, <3>2 DEF e, a
  <2>3. QED
    BY <2>1, <2>2
<1> HIDE DEF a
<1> DEFINE m == Len(a)
<1>2. /\ u \in Seq(Finds) /\ m \in Nat /\ Len(s) \in Nat
      /\ DOMAIN a = 1 .. m /\ DOMAIN s = 1 .. Len(s) /\ DOMAIN u = 1 .. m + Len(s)
      /\ \A k \in 1 .. m : u[k] = a[k]
      /\ \A k \in 1 .. Len(s) : u[m + k] = s[k]
  BY <1>0, <1>1
<1> HIDE DEF u, m
<1>3. ASSUME NEW k \in DOMAIN u
      PROVE  \/ k \in 1 .. m /\ u[k] = a[k]
             \/ /\ k - m \in 1 .. Len(s) /\ u[k] = s[k - m] /\ m + (k - m) = k
  <2>1. k \in 1 .. m + Len(s)
    BY <1>2
  <2>2. CASE k <= m
    BY <1>2, <2>1, <2>2
  <2>3. CASE k > m
    <3>1. k - m \in 1 .. Len(s) /\ m + (k - m) = k
      BY <1>2, <2>1, <2>3
    <3>2. QED
      BY <1>2, <3>1
  <2>4. QED
    BY <1>2, <2>1, <2>2, <2>3
<1>4. ASSUME NEW j \in n .. N, file.blocks[j].kind # "unknown" PROVE \E k \in DOMAIN u : u[k].at = j
  <2>1. CASE j = n
    <3>1. m = 1 /\ a[1] = [at |-> n, block |-> b]
      BY <1>1, <1>2, <1>4, <2>1 DEF m
    <3>2. 1 \in DOMAIN u /\ u[1].at = n
      BY <1>2, <3>1
    <3>3. QED
      BY <2>1, <3>2
  <2>2. CASE j \in n + 1 .. N
    <3>1. PICK k \in DOMAIN s : s[k].at = j
      BY <1>4, <2>2 DEF SeesFrom
    <3>2. m + k \in DOMAIN u /\ u[m + k].at = j
      BY <1>2, <3>1
    <3>3. QED
      BY <3>2
  <2>3. QED
    BY <1>0, <2>1, <2>2
<1> DEFINE hidden(x, lo) == x.at = 0 /\ \E j \in lo .. N :
                              file.blocks[j].kind = "unknown" /\ file.blocks[j].hides # <<>>
           placed(q, k, lo) ==
             /\ q[k].at \in lo .. N /\ q[k].block = file.blocks[q[k].at]
             /\ q[k].block.kind # "unknown"
             /\ \A j \in lo .. q[k].at - 1 :
                  file.blocks[j].kind # "unknown" => \E l \in 1 .. k - 1 : q[l].at = j
             /\ \A l \in 1 .. k - 1 : q[l].at < q[k].at
<1>5. ASSUME NEW k \in DOMAIN u PROVE hidden(u[k], n) \/ placed(u, k, n)
  <2>1. CASE k \in 1 .. m /\ u[k] = a[k]
    <3>1. CASE b.kind = "unknown"
      <4>1. k \in DOMAIN a /\ u[k].at = 0 /\ b.hides # <<>>
        BY <1>1, <1>2, <2>1, <3>1
      <4>2. n \in n .. N
        BY <1>0
      <4>3. hidden(u[k], n)
        BY <3>1, <4>1, <4>2
      <4>4. QED
        BY <4>3
    <3>2. CASE b.kind # "unknown"
      <4>1. m = 1 /\ k = 1 /\ u[k].at = n /\ u[k].block = b
        BY <1>1, <1>2, <2>1, <3>2 DEF m
      <4>2. n .. n - 1 = {} /\ 1 .. 1 - 1 = {} /\ n \in n .. N
        BY <1>0
      <4>3. placed(u, k, n)
        BY <3>2, <4>1, <4>2
      <4>4. QED
        BY <4>3
    <3>3. QED
      BY <3>1, <3>2
  <2>2. CASE k - m \in 1 .. Len(s) /\ u[k] = s[k - m] /\ m + (k - m) = k
    <3> DEFINE k0 == k - m
    <3>1. k0 \in DOMAIN s
      BY <1>2, <2>2
    <3>2. hidden(s[k0], n + 1) \/ placed(s, k0, n + 1)
      BY <3>1 DEF SeesFrom
    <3>3. CASE hidden(s[k0], n + 1)
      BY <1>0, <2>2, <3>3
    <3>4. CASE placed(s, k0, n + 1)
      <4>1. /\ u[k].at \in n + 1 .. N /\ u[k].block = file.blocks[u[k].at]
            /\ u[k].block.kind # "unknown"
        BY <2>2, <3>4
      <4>2. ASSUME NEW l \in 1 .. k - 1 PROVE u[l].at < u[k].at
        <5>0. l \in DOMAIN u
          BY <1>2, <2>2
        <5>1. CASE l \in 1 .. m /\ u[l] = a[l]
          <6>1. u[l].at = 0 \/ u[l].at = n
            BY <1>1, <1>2, <5>1
          <6>2. QED
            BY <1>0, <4>1, <6>1
        <5>2. CASE l - m \in 1 .. Len(s) /\ u[l] = s[l - m]
          <6>1. l - m \in 1 .. k0 - 1
            BY <1>2, <2>2, <5>2
          <6>2. QED
            BY <2>2, <3>4, <5>2, <6>1
        <5>3. QED
          BY <1>3, <5>0, <5>1, <5>2
      <4>3. ASSUME NEW j \in n .. u[k].at - 1, file.blocks[j].kind # "unknown"
            PROVE  \E l \in 1 .. k - 1 : u[l].at = j
        <5>1. CASE j = n
          <6>1. m = 1 /\ a[1] = [at |-> n, block |-> b]
            BY <1>1, <1>2, <4>3, <5>1 DEF m
          <6>2. 1 \in 1 .. k - 1 /\ u[1].at = n
            BY <1>2, <2>2, <6>1
          <6>3. QED
            BY <5>1, <6>2
        <5>2. CASE j # n
          <6>1. j \in n + 1 .. s[k0].at - 1
            BY <1>0, <2>2, <4>1, <5>2
          <6>2. PICK l \in 1 .. k0 - 1 : s[l].at = j
            BY <3>4, <4>3, <6>1
          <6>3. l \in 1 .. Len(s) /\ m + l \in 1 .. k - 1
            BY <1>2, <2>2
          <6>4. u[m + l].at = j
            BY <1>2, <6>2, <6>3
          <6>5. QED
            BY <6>3, <6>4
        <5>3. QED
          BY <5>1, <5>2
      <4>4. u[k].at \in n .. N
        BY <1>0, <4>1
      <4>5. placed(u, k, n)
        BY <4>1, <4>2, <4>3, <4>4
      <4>6. QED
        BY <4>5
    <3>5. QED
      BY <3>2, <3>3, <3>4
  <2>3. QED
    BY <1>3, <2>1, <2>2
<1> HIDE DEF hidden, placed
<1>6. SeesFrom(u, n)
  BY <1>2, <1>4, <1>5 DEF SeesFrom, hidden, placed
<1>7. QED
  BY <1>6 DEF u, a

(* What the probe walks, behind a whole table.                             *)
LEMMA WalkedSees ==
  ASSUME file \in Files
  PROVE  /\ Walked(file) \in Seq(Finds)
         /\ IF file.colours = "cut" THEN Walked(file) = <<>> ELSE SeesFrom(Walked(file), 1)
<1> DEFINE g == CHOOSE g : IsTail(g)
           N == Len(file.blocks)
<1>1. IsTail(g)
  BY TailExists
<1>2. Walked(file) = IF file.colours = "cut" THEN <<>> ELSE g[1]
  BY DEF Walked, IsTail, TailAt, SeenAt
<1>3. N \in Nat
  BY BlocksOfFile
<1> HIDE DEF g
<1>4. \A i \in 1 .. N + 1 : g[i] = TailAt(g, i)
  BY <1>1 DEF IsTail
<1> DEFINE S == {m \in Nat : m <= N => SeesFrom(g[N + 1 - m], N + 1 - m)}
<1>5. 0 \in S
  <2>1. N + 1 - 0 = N + 1 /\ g[N + 1] = <<>>
    BY <1>3, <1>4 DEF TailAt
  <2>2. SeesFrom(<<>>, N + 1)
    BY <1>3 DEF SeesFrom
  <2>3. QED
    BY <2>1, <2>2
<1>6. ASSUME NEW m \in Nat, m \in S PROVE m + 1 \in S
  <2>0. CASE ~(m + 1 <= N)
    BY <1>6, <2>0
  <2>1. CASE m + 1 <= N
    <3> DEFINE i == N - m
    <3>1. i \in 1 .. N /\ i \in 1 .. N + 1 /\ i + 1 = N + 1 - m /\ N + 1 - (m + 1) = i /\ m <= N
          /\ ~(i > N)
      <4> HIDE DEF N
      <4>1. QED
        BY <1>3, <2>1
    <3> HIDE DEF i
    <3>2. SeesFrom(g[i + 1], i + 1)
      BY <1>6, <3>1
    <3>3. g[i] = SeenAt(i) \o g[i + 1]
      <4>1. g[i] = TailAt(g, i)
        BY <1>4, <3>1
      <4>2. QED
        BY <3>1, <4>1 DEF TailAt
    <3>4. SeesFrom(g[i], i)
      BY <3>1, <3>2, <3>3, SeesFromStep
    <3>5. SeesFrom(g[N + 1 - (m + 1)], N + 1 - (m + 1))
      BY <3>1, <3>4
    <3>6. m + 1 \in Nat
      OBVIOUS
    <3>7. QED
      BY ONLY <3>5, <3>6, Zenon
  <2>2. QED
    BY <2>0, <2>1
<1> HIDE DEF S
<1>7. N \in S
  BY <1>3, <1>5, <1>6, NatInductionOnSets
<1>8. SeesFrom(g[1], 1)
  <2>1. N + 1 - N = 1 /\ N <= N
    BY <1>3
  <2>2. QED
    BY <1>7, <2>1 DEF S
<1>9. SeesFrom(g[1], 1) => g[1] \in Seq(Finds)
  BY DEF SeesFrom
<1>10. <<>> \in Seq(Finds)
  OBVIOUS
<1>11. CASE file.colours = "cut"
  <2>1. Walked(file) = <<>>
    BY <1>2, <1>11
  <2>2. QED
    BY <1>10, <1>11, <2>1
<1>12. CASE file.colours # "cut"
  <2>1. Walked(file) = g[1]
    BY <1>2, <1>12
  <2>2. QED
    BY <1>8, <1>9, <1>12, <2>1
<1>13. QED
  BY <1>11, <1>12

\* The records that the probe is.
ProbeStates ==
  [at : Nat \ {0}, frames : Nat, duration : Nat, transparency : BOOLEAN, repeatAt : Nat,
   pending : [delay : Nat, transparent : BOOLEAN,
              dispose : {"keep", "background", "previous", "malformed"}],
   answer : {"none", "ok", "TooShort", "TooManyFrames", "Cancelled"}]

\* Where the probe is, and what its state says of the blocks it has walked.
ProbeFacts(p) ==
  /\ p \in ProbeStates
  /\ p.answer \in {"none", "ok"} => file.screen # "short"
  /\ p.answer = "none" =>
       \A k \in DOMAIN Walked(file) :
         k < p.at => Walked(file)[k].block.kind # "trailer"
  /\ NoFrames => p.frames = 0
  /\ p.repeatAt # 0 =>
       /\ p.repeatAt \in Parsed /\ file.blocks[p.repeatAt].kind = "loop"
       /\ file.blocks[p.repeatAt].counts

(* Controls, and none, are what the probe may hold.                        *)
LEMMA ControlAsPending ==
  ASSUME NEW c \in Controls \cup {NoControl}
  PROVE  c \in [delay : Nat, transparent : BOOLEAN,
                dispose : {"keep", "background", "previous", "malformed"}]
<1> DEFINE d == {"keep", "background", "previous", "malformed"}
<1>1. CASE c \in Controls
  <2>1. PICK x \in Nat, y \in BOOLEAN, z \in {"keep", "background", "previous"} :
             c = [delay |-> x, transparent |-> y, dispose |-> z]
    BY <1>1 DEF Controls
  <2>2. QED
    BY <2>1
<1>2. CASE c = NoControl
  BY <1>2 DEF NoControl
<1>3. QED
  BY <1>1, <1>2

(* A probe begins with nothing counted.                                    *)
LEMMA ProbeFactsInit ==
  ASSUME file \in Files, NEW p, p = ProbeInit(file) PROVE ProbeFacts(p)
<1> DEFINE answer == IF file.screen = "short" THEN "TooShort" ELSE "none"
<1>1. answer \in {"none", "TooShort"} /\ (answer = "none" => file.screen # "short")
  OBVIOUS
<1>2. p = [at |-> 1, frames |-> 0, duration |-> 0, transparency |-> FALSE, repeatAt |-> 0,
               pending |-> NoControl, answer |-> answer]
  BY DEF ProbeInit
<1>3. NoControl \in [delay : Nat, transparent : BOOLEAN,
                     dispose : {"keep", "background", "previous", "malformed"}]
  BY ControlAsPending
<1> HIDE DEF answer
<1>4. p \in ProbeStates
  BY <1>1, <1>2, <1>3 DEF ProbeStates
<1>5. /\ p.at = 1 /\ p.frames = 0 /\ p.repeatAt = 0 /\ p.answer = answer
  BY <1>2
<1>6. ASSUME NEW k \in DOMAIN Walked(file), k < p.at PROVE FALSE
  <2>1. k \in 1 .. Len(Walked(file))
    BY WalkedSees
  <2>2. QED
    BY <1>5, <1>6, <2>1
<1>7. QED
  BY <1>1, <1>4, <1>5, <1>6 DEF ProbeFacts

(* What one block changes in the probe.                                    *)
LEMMA ProbeBlockType ==
  ASSUME NEW p \in ProbeStates, NEW n \in Nat, NEW b, BlockOK(b)
  PROVE  /\ ProbeBlock(p, n, b) \in ProbeStates
         /\ ProbeBlock(p, n, b).at = p.at + 1
         /\ b.kind # "image" => ProbeBlock(p, n, b).frames = p.frames
         /\ b.kind = "image" =>
              ProbeBlock(p, n, b).frames =
                IF b.reads # "descriptor" /\ p.frames < MaxFrames THEN p.frames + 1 ELSE p.frames
         /\ ProbeBlock(p, n, b).repeatAt =
              IF b.kind = "loop" /\ b.counts THEN n ELSE p.repeatAt
         /\ b.kind = "trailer" => ProbeBlock(p, n, b).answer = "ok"
         /\ p.answer = "none" /\ b.kind # "trailer" =>
              ProbeBlock(p, n, b).answer \in {"none", "TooManyFrames"}
         /\ p.answer = "none" /\ b.kind = "image" =>
              (ProbeBlock(p, n, b).answer = "TooManyFrames" <=>
                 b.reads # "descriptor" /\ p.frames >= MaxFrames)
         /\ p.answer = "none" /\ b.kind \notin {"image", "trailer"} =>
              ProbeBlock(p, n, b).answer = "none"
<1> DEFINE next == [p EXCEPT !.at = @ + 1]
           q == ProbeBlock(p, n, b)
<1>1. /\ next \in ProbeStates /\ next.at = p.at + 1 /\ next.frames = p.frames
      /\ next.repeatAt = p.repeatAt /\ next.answer = p.answer /\ next.pending = p.pending
  BY DEF ProbeStates
<1>2. b.kind \in {"image", "control", "loop", "other", "unknown", "trailer"}
  BY BlockKinds
<1>3. CASE b.kind = "image"
  <2>1. q = ProbeImage(next, b)
    BY <1>3 DEF ProbeBlock
  <2> HIDE DEF next, q
  <2>2. CASE b.reads = "descriptor"
    <3>1. q = next
      BY <2>1, <2>2 DEF ProbeImage
    <3>2. QED
      BY <1>1, <1>3, <2>2, <3>1 DEF q
  <2>3. CASE b.reads # "descriptor" /\ next.frames >= MaxFrames
    <3>1. q = [next EXCEPT !.answer = "TooManyFrames"]
      BY <2>1, <2>3 DEF ProbeImage
    <3>2. /\ q \in ProbeStates /\ q.at = next.at /\ q.frames = next.frames
          /\ q.repeatAt = next.repeatAt /\ q.answer = "TooManyFrames"
      BY <1>1, <3>1 DEF ProbeStates
    <3>3. ~(p.frames < MaxFrames) /\ p.frames >= MaxFrames
      BY <1>1, <2>3, BlockAssumption DEF ProbeStates
    <3>4. QED
      BY <1>1, <1>3, <2>3, <3>2, <3>3 DEF q
  <2>4. CASE b.reads # "descriptor" /\ ~(next.frames >= MaxFrames)
    <3> DEFINE show == next.transparency \/ MayShowThrough(next, b)
               pend == [next.pending EXCEPT !.delay = 0, !.transparent = FALSE]
    <3>1. q = [next EXCEPT !.frames = @ + 1, !.duration = @ + next.pending.delay,
                           !.transparency = show, !.pending = pend]
      BY <2>1, <2>4 DEF ProbeImage
    <3>2. show \in BOOLEAN
      BY Zenon
    <3> DEFINE old == next.pending
    <3>a. old \in [delay : Nat, transparent : BOOLEAN,
                   dispose : {"keep", "background", "previous", "malformed"}]
      BY <1>1 DEF ProbeStates
    <3>b. pend = [old EXCEPT !.delay = 0, !.transparent = FALSE]
      OBVIOUS
    <3> HIDE DEF old, pend
    <3>c. pend \in [delay : Nat, transparent : BOOLEAN,
                    dispose : {"keep", "background", "previous", "malformed"}]
      BY <3>a, <3>b
    <3>3. /\ next.pending.delay \in Nat /\ next.frames + 1 \in Nat
          /\ next.duration + next.pending.delay \in Nat
      BY <1>1, <3>a DEF ProbeStates, old
    <3> HIDE DEF show, pend
    <3>4. /\ q \in ProbeStates /\ q.at = next.at /\ q.frames = next.frames + 1
          /\ q.repeatAt = next.repeatAt /\ q.answer = next.answer
      BY <1>1, <3>1, <3>2, <3>c, <3>3 DEF ProbeStates
    <3>5. p.frames < MaxFrames /\ ~(p.frames >= MaxFrames)
      BY <1>1, <2>4, BlockAssumption DEF ProbeStates
    <3>6. QED
      BY <1>1, <1>3, <2>4, <3>4, <3>5 DEF q
  <2>5. QED
    BY <2>2, <2>3, <2>4
<1>4. CASE b.kind = "control"
  <2>1. q = ProbeControl(next, b)
    BY <1>4 DEF ProbeBlock
  <2>2. b.first \in [delay : Nat, transparent : BOOLEAN,
                     dispose : {"keep", "background", "previous", "malformed"}]
    BY <1>4, BlockKinds, ControlAsPending
  <2> HIDE DEF next, q
  <2>3. /\ q \in ProbeStates /\ q.at = next.at /\ q.frames = next.frames
        /\ q.repeatAt = next.repeatAt /\ q.answer = next.answer
    BY <1>1, <2>1, <2>2 DEF ProbeControl, ProbeStates
  <2>4. QED
    BY <1>1, <1>4, <2>3 DEF q
<1>5. CASE b.kind \notin {"image", "control"}
  <2>1. q = CASE b.kind = "loop" /\ b.counts -> [next EXCEPT !.repeatAt = n]
              [] b.kind = "trailer" -> [next EXCEPT !.answer = "ok"]
              [] OTHER -> next
    BY <1>5 DEF ProbeBlock
  <2> HIDE DEF next, q
  <2>2. CASE b.kind = "loop" /\ b.counts
    <3>1. q = [next EXCEPT !.repeatAt = n]
      BY <2>1, <2>2
    <3>2. /\ q \in ProbeStates /\ q.at = next.at /\ q.frames = next.frames
          /\ q.repeatAt = n /\ q.answer = next.answer
      BY <1>1, <3>1 DEF ProbeStates
    <3>3. QED
      BY <1>1, <1>5, <2>2, <3>2 DEF q
  <2>3. CASE b.kind = "trailer"
    <3>1. q = [next EXCEPT !.answer = "ok"]
      BY <2>1, <2>3
    <3>2. /\ q \in ProbeStates /\ q.at = next.at /\ q.frames = next.frames
          /\ q.repeatAt = next.repeatAt /\ q.answer = "ok"
      BY <1>1, <3>1 DEF ProbeStates
    <3>3. QED
      BY <1>1, <2>3, <3>2 DEF q
  <2>4. CASE ~(b.kind = "loop" /\ b.counts) /\ b.kind # "trailer"
    <3>1. q = next
      BY <2>1, <2>4
    <3>2. QED
      BY <1>1, <1>5, <2>4, <3>1 DEF q
  <2>5. QED
    BY <2>2, <2>3, <2>4
<1>6. QED
  BY <1>2, <1>3, <1>4, <1>5

(* A block the probe sees at a place is parsed by the walker.              *)
LEMMA SeenIsParsed ==
  ASSUME file \in Files, file.screen # "short", NEW k \in DOMAIN Walked(file),
         Walked(file)[k].at # 0,
         \A l \in 1 .. k - 1 : Walked(file)[l].block.kind # "trailer"
  PROVE  /\ Walked(file)[k].at \in Parsed
         /\ Walked(file)[k].block = file.blocks[Walked(file)[k].at]
<1> DEFINE s == Walked(file)
           i == s[k].at
<1>1. file.colours # "cut" /\ SeesFrom(s, 1)
  <2>1. CASE file.colours = "cut"
    <3>1. s = <<>>
      BY <2>1, WalkedSees
    <3>2. QED
      BY <3>1
  <2>2. QED
    BY <2>1, WalkedSees
<1> HIDE DEF s
<1>2. /\ i \in 1 .. Len(file.blocks) /\ s[k].block = file.blocks[i]
      /\ \A j \in 1 .. i - 1 : file.blocks[j].kind # "unknown" => \E l \in 1 .. k - 1 : s[l].at = j
      /\ \A l \in DOMAIN s : s[l].at # 0 => s[l].block = file.blocks[s[l].at]
  BY <1>1 DEF SeesFrom, s
<1>3. k \in 1 .. Len(s) /\ \A l \in 1 .. k - 1 : l \in DOMAIN s
  <2>1. s \in Seq(Finds)
    BY <1>1 DEF SeesFrom
  <2>2. QED
    BY <2>1 DEF s
<1>4. ASSUME NEW j \in 1 .. i - 1 PROVE file.blocks[j].kind # "trailer"
  <2>1. CASE file.blocks[j].kind = "unknown"
    BY <2>1
  <2>2. CASE file.blocks[j].kind # "unknown"
    <3>1. PICK l \in 1 .. k - 1 : s[l].at = j
      BY <1>2, <2>2
    <3>0. j # 0 /\ l \in DOMAIN s
      BY <1>2, <1>3
    <3>2. s[l].block = file.blocks[j]
      BY <1>2, <3>0, <3>1
    <3>3. QED
      BY <3>2 DEF s
  <2>3. QED
    BY <2>1, <2>2
<1>5. QED
  BY <1>1, <1>2, <1>4 DEF Parsed, s

(* A step of the probe keeps what its state says of the file.              *)
LEMMA ProbeFactsStep ==
  ASSUME file \in Files, NEW p, ProbeFacts(p), p.answer = "none", NEW q,
         q = IF p.at > Len(Walked(file)) THEN [p EXCEPT !.answer = "ok"]
             ELSE ProbeBlock(p, Walked(file)[p.at].at, Walked(file)[p.at].block)
  PROVE  ProbeFacts(q)
<1> DEFINE s == Walked(file)
           f == s[p.at]
<1>0. p \in ProbeStates /\ s \in Seq(Finds) /\ file.screen # "short"
  BY WalkedSees DEF ProbeFacts
<1>1. CASE p.at > Len(s)
  <2>1. q = [p EXCEPT !.answer = "ok"]
    BY <1>1
  <2>2. /\ q \in ProbeStates /\ q.at = p.at /\ q.frames = p.frames /\ q.repeatAt = p.repeatAt
        /\ q.answer = "ok"
    BY <1>0, <2>1 DEF ProbeStates
  <2>3. QED
    BY <1>0, <2>2 DEF ProbeFacts
<1>2. CASE ~(p.at > Len(s))
  <2>0. p.at \in DOMAIN s /\ p.at \in Nat
    BY <1>0, <1>2 DEF ProbeStates
  <2>1. f.at \in Nat /\ BlockOK(f.block) /\ q = ProbeBlock(p, f.at, f.block)
    <3>1. f \in Finds
      BY <1>0, <2>0
    <3>2. f.at \in Nat /\ f.block \in Blocks
      BY <3>1 DEF Finds
    <3>3. QED
      BY <1>2, <3>2, BlockAssumption
  <2> HIDE DEF f
  <2>2. /\ q \in ProbeStates /\ q.at = p.at + 1
        /\ f.block.kind # "image" => q.frames = p.frames
        /\ q.repeatAt = IF f.block.kind = "loop" /\ f.block.counts THEN f.at ELSE p.repeatAt
        /\ f.block.kind = "trailer" => q.answer = "ok"
    <3> DEFINE n == f.at
               b == f.block
    <3>1. n \in Nat /\ BlockOK(b) /\ q = ProbeBlock(p, n, b)
      BY <2>1
    <3> HIDE DEF n, b
    <3>2. /\ q \in ProbeStates /\ q.at = p.at + 1
          /\ b.kind # "image" => q.frames = p.frames
          /\ q.repeatAt = IF b.kind = "loop" /\ b.counts THEN n ELSE p.repeatAt
          /\ b.kind = "trailer" => q.answer = "ok"
      <4>1. p \in ProbeStates
        BY <1>0
      <4>2. QED
        BY ONLY <3>1, <4>1, ProbeBlockType
    <3>3. QED
      BY <3>2 DEF n, b
  <2> HIDE DEF s
  <2>3. \A k \in DOMAIN s : k < p.at => s[k].block.kind # "trailer"
    BY DEF ProbeFacts, s
  <2>4. ASSUME q.answer = "none", NEW k \in DOMAIN s, k < q.at PROVE s[k].block.kind # "trailer"
    <3>1. k < p.at \/ k = p.at
      BY <1>0, <2>0, <2>2, <2>4
    <3>2. f.block.kind # "trailer"
      BY <2>2, <2>4
    <3>3. QED
      BY <2>3, <3>1, <3>2 DEF f
  <2>5. ASSUME NoFrames PROVE q.frames = 0
    <3>1. file.colours # "cut" /\ SeesFrom(s, 1)
      <4>1. CASE file.colours = "cut"
        <5>1. s = <<>>
          BY <4>1, WalkedSees DEF s
        <5>2. QED
          BY <2>0, <5>1
      <4>2. QED
        BY <4>1, WalkedSees DEF s
    <3>2. \A j \in 1 .. Len(file.blocks) : file.blocks[j].kind \in Extensions
      BY <2>5, <3>1 DEF NoFrames
    <3>3. f.block.kind # "image"
      BY <2>0, <3>1, <3>2 DEF SeesFrom, Extensions, f
    <3>4. QED
      BY <2>2, <2>5, <3>3 DEF ProbeFacts
  <2>6. ASSUME q.repeatAt # 0
        PROVE  /\ q.repeatAt \in Parsed /\ file.blocks[q.repeatAt].kind = "loop"
               /\ file.blocks[q.repeatAt].counts
    <3>1. CASE f.block.kind = "loop" /\ f.block.counts
      <4>1. \A l \in 1 .. p.at - 1 : s[l].block.kind # "trailer"
        <5>1. \A l \in 1 .. p.at - 1 : l \in DOMAIN s /\ l < p.at
          BY <1>0, <2>0
        <5>2. QED
          BY <2>3, <5>1
      <4>2. f.at \in Parsed /\ f.block = file.blocks[f.at]
        BY <1>0, <2>0, <2>2, <2>6, <3>1, <4>1, SeenIsParsed DEF s, f
      <4>3. QED
        BY <2>2, <3>1, <4>2
    <3>2. CASE ~(f.block.kind = "loop" /\ f.block.counts)
      BY <2>2, <2>6, <3>2 DEF ProbeFacts
    <3>3. QED
      BY <3>1, <3>2
  <2>7. QED
    BY <1>0, <2>2, <2>4, <2>5, <2>6 DEF ProbeFacts, s
<1>3. QED
  BY <1>1, <1>2

(* So does a stop.                                                         *)
LEMMA ProbeFactsStopped ==
  ASSUME NEW p, ProbeFacts(p), p.answer = "none", NEW q, q = [p EXCEPT !.answer = "Cancelled"]
  PROVE  ProbeFacts(q)
<1>1. /\ q \in ProbeStates /\ q.at = p.at /\ q.frames = p.frames /\ q.repeatAt = p.repeatAt
      /\ q.answer = "Cancelled"
  BY DEF ProbeFacts, ProbeStates
<1>2. QED
  BY <1>1 DEF ProbeFacts

-----------------------------------------------------------------------------
(* The invariant.                                                          *)

(* Where the first pass stands: t is its history up to block n.            *)
InFirstPass(t, w, fs, ls, r, n) ==
  /\ IsWalk(t, n) /\ Foretold(t, n, r) /\ Gathered(fs, r)
  /\ fs \in FactStates /\ fs.loops = {} /\ w \in WalkerStates
  /\ ReaderFacts(r, n) /\ LoopsKept(ls, fs, r)
  /\ n = 0 => w = WalkerInit(file) /\ fs = FoundInit(file) /\ r = ReaderInit(file)
  /\ n \in 1 .. Len(file.blocks) => n \in Parsed
  /\ n \in Parsed => w = t[n] /\ Lockstep(w, fs, r, n)
  /\ n = Eof => EndState(fs, r)

\* The loop counts the two sources report.
DecodedLoop(fs, r) ==
  IF ~fs.headerFatal /\ fs.good > 0 /\ r.loopAt # 0 THEN {r.loopAt} ELSE {}

\* The other source: a probe's count, when it saw an animation.
ProbedLoop(fs, p) ==
  IF ~fs.headerFatal /\ p.answer = "ok" /\ IsAnimated(p) THEN {p.repeatAt} ELSE {}

\* What the first pass learned of the decoder, t being its history.
Learned(t, fs, r) ==
  /\ IsWalk(t, Eof) /\ Foretold(t, Eof, r) /\ Gathered(fs, r)
  /\ fs \in FactStates /\ EndState(fs, r) /\ ReaderFacts(r, Eof)

\* The parts listed of the blocks in front of block n.
PartsListed(t, fs, ps, n) ==
  /\ ps \in Seq(Parts)
  /\ PartsIn(Range(ps), "data", "ImageData") = {i \in Before(n) : Delivers(t[i], i)}
  /\ PartsIn(Range(ps), "control", "Animation") =
       {i \in Before(n) : GoodControl(i) /\ i \in fs.controls}
  /\ PartsIn(Range(ps), "table", "ImageData") \ {0} =
       {i \in Before(n) : Delivers(t[i], i) /\ file.blocks[i].own}
  /\ PartsIn(Range(ps), "loop", "Animation") =
       {i \in Before(n) : GoodLoop(i) /\ i \in fs.loops}
  /\ n > 0 => /\ 0 \in PartsIn(Range(ps), "table", "ImageData") <=>
                   file.screen # "short" /\ file.colours = "whole" /\ fs.colours
              /\ 0 \in PartsIn(Range(ps), "unreachable", "Dropped") =>
                   ~(2 ^ fs.reach >= file.entries)

\* Where the second pass stands.
InSecondPass(t, w, fs, ps, n) ==
  /\ PartsListed(t, fs, ps, n)
  /\ n = 0 => ps = <<>> /\ w = WalkerInit(file)
  /\ n \in 1 .. Len(file.blocks) => n \in Parsed
  /\ n \in Parsed => w = t[n]

\* The first pass has some history, and what it found is the decoder's.
FirstPass == \E t : InFirstPass(t, walker, found, loops, reader, at)

\* From the end of the first pass on its history is whole, the loops grow by
\* the probe's, and the second pass walks along the same history.
LaterOn ==
  \E t :
    /\ Learned(t, facts, reader)
    /\ facts.loops = DecodedLoop(facts, reader) \cup
                     (IF phase = "probe" THEN {} ELSE ProbedLoop(facts, probe))
    /\ phase = "second" \/ reply = "ok" => InSecondPass(t, walker, facts, parts, at)
    /\ reply = "ok" => at = Eof
    /\ phase = "probe" => ~facts.headerFatal

\* The inductive invariant of the walk: where each phase stands.
WalkInv ==
  /\ file \in Files /\ reader \in ReaderStates /\ ProbeFacts(probe)
  /\ phase \in {"start", "first", "probe", "between", "second", "done"}
  /\ at \in 0 .. Eof
  /\ phase = "start" => at = 0 /\ loops = <<>> /\ reader = ReaderInit(file)
  /\ phase = "first" => FirstPass
  /\ phase \in {"probe", "between", "second"} \/ reply = "ok" => LaterOn
  /\ phase # "done" => reply = "none"

-----------------------------------------------------------------------------
(* The file never changes, and what is said of it stays true.              *)
LEMMA SameWalk ==
  ASSUME file' = file, NEW t, NEW n
  PROVE  /\ IsWalk(t, n)' <=> IsWalk(t, n)
         /\ (n \in Parsed)' <=> n \in Parsed
         /\ WalkerInit(file)' = WalkerInit(file)
         /\ FoundInit(file)' = FoundInit(file)
         /\ ReaderInit(file)' = ReaderInit(file)
         /\ Eof' = Eof
BY DEF IsWalk, Before, Parsed, Walk, WalkImage, WalkControl, WalkerInit, Reachable, Problem,
       Lasting, Decodes, Eof, FoundInit, ReaderInit

(* The same of what the walk foretells.                                    *)
LEMMA SameForetold ==
  ASSUME file' = file, NEW t, NEW n, NEW r
  PROVE  Foretold(t, n, r)' <=> Foretold(t, n, r)
BY DEF Foretold, Before, Parsed, Reachable, Problem, Lasting, Decodes, Delivers, Applies, GoodControl

(* The same of what it found, and of the decoder's state.                  *)
LEMMA SameGathered ==
  ASSUME file' = file, NEW fs, NEW n, NEW r, NEW w
  PROVE  /\ Gathered(fs, r)' <=> Gathered(fs, r)
         /\ ReaderFacts(r, n)' <=> ReaderFacts(r, n)
         /\ Lockstep(w, fs, r, n)' <=> Lockstep(w, fs, r, n)
         /\ EndState(fs, r)' <=> EndState(fs, r)
BY DEF Gathered, ReaderFacts, Before, Parsed, GlobalReaders, GoodLoop, Lockstep, GoodControl,
       SameState, EndState, NoFrames

(* The same of the parts listed.                                           *)
LEMMA SamePartsListed ==
  ASSUME file' = file, NEW t, NEW fs, NEW ps, NEW n
  PROVE  PartsListed(t, fs, ps, n)' <=> PartsListed(t, fs, ps, n)
BY DEF PartsListed, Before, Parsed, Reachable, Problem, Lasting, Decodes, Delivers, GoodControl, GoodLoop

(* The same of the probe.                                                  *)
LEMMA SameProbeFacts ==
  ASSUME file' = file, NEW p
  PROVE  ProbeFacts(p)' <=> ProbeFacts(p)
BY DEF ProbeFacts, Walked, NoFrames, Parsed

(* The same of both passes as wholes.                                      *)
LEMMA SamePasses ==
  ASSUME file' = file
  PROVE  /\ \A t, w, fs, ls, r, n : InFirstPass(t, w, fs, ls, r, n)' <=> InFirstPass(t, w, fs, ls, r, n)
         /\ \A t, w, fs, ps, n : InSecondPass(t, w, fs, ps, n)' <=> InSecondPass(t, w, fs, ps, n)
         /\ \A t, fs, r : Learned(t, fs, r)' <=> Learned(t, fs, r)
         /\ \A p : ProbeFacts(p)' <=> ProbeFacts(p)
<1>1. ASSUME NEW t, NEW w, NEW fs, NEW ls, NEW r, NEW n
      PROVE  InFirstPass(t, w, fs, ls, r, n)' <=> InFirstPass(t, w, fs, ls, r, n)
  BY SameWalk, SameForetold, SameGathered DEF InFirstPass
<1>2. ASSUME NEW t, NEW w, NEW fs, NEW ps, NEW n
      PROVE  InSecondPass(t, w, fs, ps, n)' <=> InSecondPass(t, w, fs, ps, n)
  BY SameWalk, SamePartsListed DEF InSecondPass
<1>3. ASSUME NEW t, NEW fs, NEW r
      PROVE  Learned(t, fs, r)' <=> Learned(t, fs, r)
  <2>1. Eof' = Eof
    BY DEF Eof
  <2>2. QED
    BY <2>1, SameWalk, SameForetold, SameGathered DEF Learned
<1>4. QED
  BY <1>1, <1>2, <1>3, SameProbeFacts

-----------------------------------------------------------------------------
(* The first pass.                                                         *)

(* A pass has a history of no block when it begins.                        *)
LEMMA PassBegins ==
  ASSUME file \in Files
  PROVE  \E t : InFirstPass(t, WalkerInit(file), FoundInit(file), <<>>, ReaderInit(file), 0)
<1> DEFINE t == [i \in 1 .. Len(file.blocks) + 1 |-> WalkerInit(file)]
           fs == FoundInit(file)
           r == ReaderInit(file)
<1>0. /\ Before(0) = {} /\ WalkerInit(file) \in WalkerStates /\ fs \in FactStates
      /\ r \in ReaderStates /\ Len(file.blocks) \in Nat
  BY BeforeFacts, InitTypes, BlocksOfFile
<1>1. IsWalk(t, 0)
  <2>1. 1 \in 1 .. Len(file.blocks) + 1
    BY <1>0
  <2>2. QED
    BY <1>0, <2>1 DEF IsWalk
<1>2. /\ r.delivered = {} /\ r.applied = {} /\ r.loopAt = 0 /\ r.going = r.open
  BY DEF ReaderInit
<1>3. /\ fs.controls = {} /\ ~fs.colours /\ fs.reach = 0 /\ fs.good = 0 /\ fs.loops = {}
  BY DEF FoundInit, NoFacts
<1> HIDE DEF t, fs, r
<1>4. Foretold(t, 0, r)
  BY <1>0, <1>2 DEF Foretold
<1>5. Gathered(fs, r)
  <2>1. Cardinality({}) = 0
    BY FS_EmptySet
  <2>2. QED
    BY <1>2, <1>3, <2>1 DEF Gathered, GlobalReaders
<1>6. ReaderFacts(r, 0)
  <2>1. \A j \in 1 .. 0 - 1 : file.blocks[j].kind \in Extensions
    OBVIOUS
  <2>2. QED
    BY <1>2, <2>1 DEF ReaderFacts
<1>7. LoopsKept(<<>>, fs, r)
  <2>1. EarlyLoops(<<>>) = {}
    BY DEF EarlyLoops
  <2>2. QED
    BY <1>2, <2>1 DEF LoopsKept
<1>8. /\ 0 \notin 1 .. Len(file.blocks) /\ 0 \notin Parsed /\ 0 # Eof
  BY <1>0, BeforeFacts DEF Eof
<1>9. InFirstPass(t, WalkerInit(file), fs, <<>>, r, 0)
  BY <1>0, <1>1, <1>3, <1>4, <1>5, <1>6, <1>7, <1>8 DEF InFirstPass, fs, r
<1>10. QED
  BY <1>9 DEF fs, r

\* Where the header leads.
Behind ==
  IF file.screen = "short" \/ file.colours = "cut" THEN Len(file.blocks) + 1 ELSE 1

(* Behind the header is the first block, or the end when no block can be   *)
(* reached.                                                                *)
LEMMA BehindHeader ==
  ASSUME file \in Files
  PROVE  /\ Behind \in 1 .. Eof /\ Before(Behind) = {} /\ Before(0) = {}
         /\ Behind \in 1 .. Len(file.blocks) => Behind \in Parsed /\ Behind = 1
         /\ Behind \in Parsed => Behind = 1 /\ file.screen # "short" /\ file.colours # "cut"
         /\ Behind = Eof => file.screen = "short" \/ NoFrames
<1>0. Len(file.blocks) \in Nat /\ Before(0) = {} /\ Before(1) = {} /\ Before(Eof) = Parsed
      /\ Parsed \subseteq 1 .. Len(file.blocks)
  BY BlocksOfFile, BeforeFacts
<1>1. CASE file.screen = "short" \/ file.colours = "cut"
  <2>1. Parsed = {}
    BY <1>1 DEF Parsed
  <2>2. QED
    BY <1>0, <1>1, <2>1 DEF Behind, Eof, NoFrames
<1>2. CASE ~(file.screen = "short" \/ file.colours = "cut")
  <2>1. Behind = 1
    BY <1>2 DEF Behind
  <2>2. 1 \in 1 .. Len(file.blocks) => 1 \in Parsed
    <3>1. \A j \in 1 .. 1 - 1 : FALSE
      OBVIOUS
    <3>2. QED
      BY <1>2, <3>1 DEF Parsed
  <2>3. Behind = Eof => Len(file.blocks) = 0
    BY <1>0, <2>1 DEF Eof
  <2>4. Len(file.blocks) = 0 => NoFrames
    BY DEF NoFrames
  <2>5. QED
    BY <1>0, <1>2, <2>1, <2>2, <2>3, <2>4 DEF Eof
<1>3. QED
  BY <1>1, <1>2

(* The header leaves the first pass where it began.                        *)
LEMMA FirstHeader ==
  ASSUME file \in Files, NEW t, NEW w, NEW fs, NEW ls, NEW r, InFirstPass(t, w, fs, ls, r, 0)
  PROVE  InFirstPass(t, w, fs, ls, r, Behind)
<1> DEFINE n == Behind
<1>0. /\ w = WalkerInit(file) /\ fs = FoundInit(file) /\ r = ReaderInit(file)
      /\ IsWalk(t, 0) /\ Foretold(t, 0, r) /\ ReaderFacts(r, 0)
  BY DEF InFirstPass
<1>1. /\ n \in 1 .. Eof /\ Before(n) = {} /\ Before(0) = {} /\ n # 0 /\ n \in Int
  BY BehindHeader DEF Eof
<1>2. /\ r.delivered = {} /\ r.applied = {} /\ r.loopAt = 0 /\ r.control = 0
      /\ r.going <=> file.screen = "ok" /\ file.colours # "cut"
      /\ r.open <=> file.screen = "ok" /\ file.colours # "cut"
      /\ r.header = TRUE /\ r.images = 0 /\ r.elapsed = 0 /\ r.pending = NoControl
  BY <1>0 DEF ReaderInit
<1>3. /\ w.fatal <=> file.screen # "ok"
      /\ fs.headerFatal <=> file.screen # "ok"
      /\ w.header = TRUE /\ w.pending = 0 /\ w.images = 0 /\ w.elapsed = 0
  BY <1>0 DEF WalkerInit, FoundInit, NoFacts
<1>4. IsWalk(t, n) /\ Foretold(t, n, r)
  BY <1>0, <1>1 DEF IsWalk, Foretold
<1>5. ReaderFacts(r, n)
  <2>1. r.going => n = 1 \/ NoFrames
    BY <1>2, BehindHeader DEF Behind, Eof
  <2>2. r.going => \A j \in 1 .. n - 1 : file.blocks[j].kind \in Extensions
    <3>1. ASSUME r.going, n = 1 PROVE \A j \in 1 .. n - 1 : file.blocks[j].kind \in Extensions
      BY <3>1
    <3>2. ASSUME r.going PROVE n = 1
      BY <1>2, <3>2 DEF Behind
    <3>3. QED
      BY <3>1, <3>2
  <2>3. QED
    BY <1>2, <2>2 DEF ReaderFacts
<1>6. n \in Parsed => w = t[n] /\ Lockstep(w, fs, r, n)
  <2> SUFFICES ASSUME n \in Parsed PROVE w = t[n] /\ Lockstep(w, fs, r, n)
    OBVIOUS
  <2>1. n = 1 /\ file.screen # "short" /\ file.colours # "cut"
    BY BehindHeader
  <2>2. w = t[1]
    BY <1>0 DEF IsWalk
  <2>3. QED
    BY <1>2, <1>3, <2>1, <2>2 DEF Lockstep, SameState
<1>7. n = Eof => EndState(fs, r)
  <2>1. n = Eof => file.screen = "short" \/ NoFrames
    BY BehindHeader
  <2>2. QED
    BY <1>2, <1>3, <2>1 DEF EndState
<1>8. n \in 1 .. Len(file.blocks) => n \in Parsed
  BY BehindHeader
<1>9. QED
  BY <1>1, <1>4, <1>5, <1>6, <1>7, <1>8 DEF InFirstPass

(* A block takes the first pass on: the lemmas above, together.            *)
LEMMA FirstBlock ==
  ASSUME file \in Files, NEW i \in 1 .. Len(file.blocks), NEW t, NEW w, NEW fs,
         NEW r \in ReaderStates, InFirstPass(t, w, fs, loops, r, i)
  PROVE  \E t1 : InFirstPass(t1, Walk(w, i), Find(w, fs, i), Loops(w, i), Read(file, r, i), After(i))
<1> DEFINE t1 == [t EXCEPT ![i + 1] = Walk(t[i], i)]
           w1 == Walk(w, i)
           fs1 == Find(w, fs, i)
           ls1 == Loops(w, i)
           r1 == Read(file, r, i)
           n == After(i)
<1>0. /\ i \in Parsed /\ w = t[i] /\ Lockstep(w, fs, r, i)
      /\ IsWalk(t, i) /\ Foretold(t, i, r) /\ Gathered(fs, r)
      /\ fs \in FactStates /\ fs.loops = {} /\ w \in WalkerStates
      /\ ReaderFacts(r, i) /\ LoopsKept(loops, fs, r)
  BY DEF InFirstPass
<1>1. /\ IsWalk(t1, n) /\ t1[i + 1] = Walk(t[i], i)
  BY <1>0, WalkGrows
<1>2. Foretold(t1, n, r1)
  BY <1>0, ForetoldStep
<1>3. Gathered(fs1, r1)
  <2>1. \A j \in r.delivered : j \in Before(i) /\ file.blocks[j].kind = "image"
    BY <1>0 DEF Foretold, Delivers
  <2>2. QED
    BY <1>0, <2>1, GatheredStep
<1>4. fs1 \in FactStates /\ w1 \in WalkerStates
  BY <1>0, FindType, WalkType
<1>5. fs1.loops = {}
  <2>1. CASE file.blocks[i].kind = "image"
    BY <1>0, <2>1 DEF Find, FindImage, FactStates
  <2>2. CASE file.blocks[i].kind # "image"
    BY <1>0, <2>2 DEF Find, FactStates
  <2>3. QED
    BY <2>1, <2>2
<1>6. ReaderFacts(r1, n)
  BY <1>0, ReaderStep
<1>7. LoopsKept(ls1, fs1, r1)
  BY <1>0, LoopsStep
<1>8. n \in 1 .. Eof /\ n # 0 /\ (n \in 1 .. Len(file.blocks) => n \in Parsed)
  BY <1>0, AfterFacts
<1>9. n \in Parsed => w1 = t1[n] /\ Lockstep(w1, fs1, r1, n)
  <2> SUFFICES ASSUME n \in Parsed PROVE w1 = t1[n] /\ Lockstep(w1, fs1, r1, n)
    OBVIOUS
  <2>1. n \in 1 .. Len(file.blocks)
    BY BeforeFacts
  <2>2. n = i + 1 /\ i < Len(file.blocks) /\ file.blocks[i].kind # "trailer"
    BY <1>0, <2>1, AfterFacts
  <2>3. QED
    BY <1>0, <1>1, <2>2, LockstepStep
<1>10. n = Eof => EndState(fs1, r1)
  BY <1>0, EndStep
<1> HIDE DEF t1, w1, fs1, ls1, r1, n
<1>11. InFirstPass(t1, w1, fs1, ls1, r1, n)
  BY <1>1, <1>2, <1>3, <1>4, <1>5, <1>6, <1>7, <1>8, <1>9, <1>10 DEF InFirstPass
<1>12. QED
  BY <1>11 DEF w1, fs1, ls1, r1, n

\* The loop count the decoder reports, as far as the first pass knows it.
LoopsLearned(fs) ==
  IF ~fs.headerFatal /\ fs.good > 0 /\ EarlyLoops(loops) # {}
  THEN {loops[Max(EarlyLoops(loops))].at} ELSE {}

\* The facts the first pass hands on.
FactsLearned(fs) == [fs EXCEPT !.loops = LoopsLearned(fs)]

(* At its end the first pass knows the decoder's frames, controls, table   *)
(* and loop count.                                                         *)
LEMMA FirstEnds ==
  ASSUME file \in Files, NEW t, NEW w, NEW fs, NEW r \in ReaderStates,
         InFirstPass(t, w, fs, loops, r, Eof),
         NEW f1, f1 = FactsLearned(fs)
  PROVE  Learned(t, f1, r) /\ f1.loops = DecodedLoop(f1, r)
<1> DEFINE ls == LoopsLearned(fs)
<1>0. /\ IsWalk(t, Eof) /\ Foretold(t, Eof, r) /\ Gathered(fs, r) /\ fs \in FactStates
      /\ ReaderFacts(r, Eof) /\ LoopsKept(loops, fs, r) /\ EndState(fs, r)
  BY DEF InFirstPass
<1>1. ls = DecodedLoop(fs, r) /\ ls \in SUBSET Nat
  <2>0. r.loopAt \in Nat
    BY DEF ReaderStates
  <2>1. CASE ~fs.headerFatal /\ fs.good > 0 /\ EarlyLoops(loops) # {}
    <3>1. ls = {loops[Max(EarlyLoops(loops))].at} /\ loops[Max(EarlyLoops(loops))].at = r.loopAt
      BY <1>0, <2>1 DEF LoopsKept, LoopsLearned
    <3>2. r.loopAt # 0
      <4>1. DOMAIN loops = 1 .. Len(loops) /\ Len(loops) \in Nat
            /\ \A k \in 1 .. Len(loops) : loops[k].at # 0
        <5> DEFINE R == [at : Nat \ {0}, early : BOOLEAN]
        <5>1. loops \in Seq(R)
          BY <1>0 DEF LoopsKept
        <5>2. \A x \in R : x.at # 0
          OBVIOUS
        <5> HIDE DEF R
        <5>3. QED
          BY <5>1, <5>2
      <4>2. EarlyLoops(loops) \subseteq 0 .. Len(loops) /\ EarlyLoops(loops) \subseteq DOMAIN loops
        BY <4>1 DEF EarlyLoops
      <4>3. Max(EarlyLoops(loops)) \in EarlyLoops(loops)
        BY <2>1, <4>1, <4>2, MaxOfNats
      <4>4. QED
        BY <3>1, <4>1, <4>2, <4>3
    <3>3. QED
      BY <2>0, <2>1, <3>1, <3>2 DEF DecodedLoop
  <2>2. CASE ~(~fs.headerFatal /\ fs.good > 0 /\ EarlyLoops(loops) # {})
    <3>1. ~fs.headerFatal /\ fs.good > 0 => r.loopAt = 0
      BY <1>0, <2>2 DEF LoopsKept
    <3>2. QED
      BY <2>2, <3>1 DEF DecodedLoop, LoopsLearned
  <2>3. QED
    BY <2>1, <2>2
<1> HIDE DEF ls
<1>2. f1 = [fs EXCEPT !.loops = ls]
  BY DEF ls, FactsLearned
<1>3. /\ f1 \in FactStates /\ f1.loops = ls /\ f1.controls = fs.controls
      /\ f1.colours = fs.colours /\ f1.reach = fs.reach /\ f1.headerFatal = fs.headerFatal
      /\ f1.good = fs.good
  BY <1>0, <1>1, <1>2 DEF FactStates
<1>4. Gathered(f1, r) /\ EndState(f1, r)
  BY <1>0, <1>3 DEF Gathered, EndState
<1>5. QED
  BY <1>0, <1>1, <1>3, <1>4 DEF Learned, DecodedLoop

-----------------------------------------------------------------------------
(* The second pass.                                                        *)

(* The second pass begins with nothing listed.                             *)
LEMMA SecondBegins ==
  ASSUME file \in Files, NEW t, NEW fs, NEW r, Learned(t, fs, r)
  PROVE  InSecondPass(t, WalkerInit(file), fs, <<>>, 0)
<1> DEFINE ps == <<>>
<1>0. /\ Before(0) = {} /\ Len(file.blocks) \in Nat /\ 0 \notin 1 .. Len(file.blocks)
      /\ 0 \notin Parsed
  BY BlocksOfFile, BeforeFacts
<1>1. ps \in Seq(Parts) /\ Range(ps) = {}
  BY DEF Range
<1> HIDE DEF ps
<1>2. \A what, verdict : PartsIn(Range(ps), what, verdict) = {}
  BY <1>1 DEF PartsIn
<1>3. PartsListed(t, fs, ps, 0)
  BY <1>0, <1>1, <1>2 DEF PartsListed
<1>4. QED
  BY <1>0, <1>3 DEF InSecondPass, ps

(* The header's parts: the global table counts as image data when some     *)
(* frame reads it.                                                         *)
LEMMA SecondHeader ==
  ASSUME file \in Files, NEW t, NEW w, NEW r, NEW ps, Learned(t, facts, r),
         InSecondPass(t, w, facts, ps, 0), NEW s, s = Listing(w, 0)
  PROVE  InSecondPass(t, w, facts, ps \o s, Behind)
<1> DEFINE n == Behind
           us == ps \o s
<1>0. /\ n \in 1 .. Eof /\ n > 0 /\ Before(n) = {} /\ Before(0) = {} /\ n # 0
      /\ n \in 1 .. Len(file.blocks) => n \in Parsed
      /\ n \in Parsed => n = 1
  BY BehindHeader DEF Eof
<1>1. /\ ps \in Seq(Parts) /\ Range(ps) = {} /\ w = WalkerInit(file)
  BY DEF InSecondPass, PartsListed, Range
<1>2. facts.colours \in BOOLEAN /\ facts.reach \in Nat /\ t[1] = WalkerInit(file)
  BY DEF Learned, FactStates, IsWalk
<1>3. /\ s \in Seq(Parts)
      /\ PartsIn(Range(s), "data", "ImageData") = {}
      /\ PartsIn(Range(s), "control", "Animation") = {}
      /\ PartsIn(Range(s), "loop", "Animation") = {}
      /\ PartsIn(Range(s), "table", "ImageData") = IF TableRead THEN {0} ELSE {}
      /\ PartsIn(Range(s), "unreachable", "Dropped") =
           IF TableRead /\ ~(2 ^ facts.reach >= file.entries) THEN {0} ELSE {}
  BY <1>2, HeaderListing
<1>4. us \in Seq(Parts) /\ Range(us) = Range(s)
  <2>1. ps \o s \in Seq(Parts) /\ Range(ps \o s) = Range(ps) \cup Range(s)
    <3>1. ps \in Seq(Parts) /\ s \in Seq(Parts)
      BY <1>1, <1>3
    <3>2. QED
      BY ONLY <3>1, RangeConcat
  <2>2. QED
    BY <1>1, <2>1
<1> HIDE DEF n, us
<1>5. PartsListed(t, facts, us, n)
  <2>2. /\ PartsIn(Range(us), "data", "ImageData") = {i \in Before(n) : Delivers(t[i], i)}
        /\ PartsIn(Range(us), "control", "Animation") =
             {i \in Before(n) : GoodControl(i) /\ i \in facts.controls}
        /\ PartsIn(Range(us), "loop", "Animation") =
             {i \in Before(n) : GoodLoop(i) /\ i \in facts.loops}
        /\ {i \in Before(n) : Delivers(t[i], i) /\ file.blocks[i].own} = {}
    BY <1>0, <1>3, <1>4
  <2>3. /\ PartsIn(Range(us), "table", "ImageData") = IF TableRead THEN {0} ELSE {}
        /\ PartsIn(Range(us), "unreachable", "Dropped") =
             IF TableRead /\ ~(2 ^ facts.reach >= file.entries) THEN {0} ELSE {}
    BY <1>3, <1>4
  <2>4. /\ PartsIn(Range(us), "table", "ImageData") \ {0} = {}
        /\ 0 \in PartsIn(Range(us), "table", "ImageData") <=> TableRead
        /\ 0 \in PartsIn(Range(us), "unreachable", "Dropped") => ~(2 ^ facts.reach >= file.entries)
    BY <2>3
  <2>5. QED
    BY <1>4, <2>2, <2>4 DEF PartsListed, TableRead
<1>6. QED
  BY <1>0, <1>1, <1>2, <1>5 DEF InSecondPass, n, us

(* A block's parts are listed as the first pass foretold.                  *)
LEMMA SecondBlock ==
  ASSUME file \in Files, NEW i \in 1 .. Len(file.blocks), NEW t, NEW w, NEW r, NEW ps,
         Learned(t, facts, r), InSecondPass(t, w, facts, ps, i), NEW s, s = Listing(w, i)
  PROVE  InSecondPass(t, Walk(w, i), facts, ps \o s, After(i))
<1> DEFINE n == After(i)
           us == ps \o s
           old == Range(ps)
           new == Range(s)
<1>0. /\ i \in Parsed /\ w = t[i] /\ i \in Nat /\ i > 0 /\ i # 0
      /\ PartsListed(t, facts, ps, i) /\ IsWalk(t, Eof)
  BY BlocksOfFile DEF InSecondPass, Learned
<1>1. /\ n \in 1 .. Eof /\ n # 0 /\ n > 0
      /\ Before(n) = Before(i) \cup {i} /\ i \in Before(Eof)
      /\ n \in 1 .. Len(file.blocks) => n \in Parsed /\ n = i + 1
  BY <1>0, AfterFacts, BeforeFacts DEF Eof
<1>2. /\ s \in Seq(Parts)
      /\ \A p \in new : p.at = i
      /\ PartsIn(new, "data", "ImageData") = IF Delivers(w, i) THEN {i} ELSE {}
      /\ PartsIn(new, "control", "Animation") =
           IF GoodControl(i) /\ i \in facts.controls THEN {i} ELSE {}
      /\ PartsIn(new, "table", "ImageData") =
           IF Delivers(w, i) /\ file.blocks[i].own THEN {i} ELSE {}
      /\ PartsIn(new, "loop", "Animation") = IF UsedLoop(i) THEN {i} ELSE {}
  BY BlockListing
<1>3. us \in Seq(Parts) /\ Range(us) = old \cup new
  BY <1>0, <1>2, RangeConcat DEF PartsListed
<1> HIDE DEF n, us, old, new
<1>4. \A what, verdict : PartsIn(Range(us), what, verdict) =
                           PartsIn(old, what, verdict) \cup PartsIn(new, what, verdict)
  BY <1>3, PartsInUnion
<1>5. \A what, verdict : 0 \notin PartsIn(new, what, verdict)
  BY <1>0, <1>2 DEF PartsIn
<1>6. PartsIn(Range(us), "data", "ImageData") = {j \in Before(n) : Delivers(t[j], j)}
  BY <1>0, <1>1, <1>2, <1>4 DEF PartsListed, old
<1>7. PartsIn(Range(us), "control", "Animation") =
        {j \in Before(n) : GoodControl(j) /\ j \in facts.controls}
  BY <1>0, <1>1, <1>2, <1>4 DEF PartsListed, old
<1>8. PartsIn(Range(us), "table", "ImageData") \ {0} =
        {j \in Before(n) : Delivers(t[j], j) /\ file.blocks[j].own}
  BY <1>0, <1>1, <1>2, <1>4 DEF PartsListed, old
<1>9. PartsIn(Range(us), "loop", "Animation") = {j \in Before(n) : GoodLoop(j) /\ j \in facts.loops}
  BY <1>0, <1>1, <1>2, <1>4 DEF PartsListed, old, UsedLoop, GoodLoop
<1>10. /\ 0 \in PartsIn(Range(us), "table", "ImageData") <=>
            file.screen # "short" /\ file.colours = "whole" /\ facts.colours
       /\ 0 \in PartsIn(Range(us), "unreachable", "Dropped") => ~(2 ^ facts.reach >= file.entries)
  BY <1>0, <1>4, <1>5 DEF PartsListed, old
<1>11. PartsListed(t, facts, us, n)
  BY <1>3, <1>6, <1>7, <1>8, <1>9, <1>10 DEF PartsListed
<1>12. n \in Parsed => Walk(w, i) = t[n]
  <2>1. t[i + 1] = Walk(t[i], i)
    BY <1>0, <1>1 DEF IsWalk
  <2>2. n \in Parsed => n = i + 1
    BY <1>1, BeforeFacts
  <2>3. QED
    BY <1>0, <2>1, <2>2
<1>13. QED
  BY <1>1, <1>11, <1>12 DEF InSecondPass, n, us

-----------------------------------------------------------------------------
(* The steps of the walk.                                                  *)

(* Every step of the walk keeps the invariant.                             *)
LEMMA WalkKeepsInv == WalkInv /\ reply = "none" /\ Next => WalkInv'
<1> SUFFICES ASSUME WalkInv, reply = "none", Next PROVE WalkInv'
  OBVIOUS
<1> USE DEF token
<1>0. file' = file
  BY DEF Next, Begin, BeginStopped, WalkHeader, WalkBlock, PushCapped, PushStopped, EndFirst,
         WalkProbe, WalkProbeStopped, EndProbe, EndSecond
<1>1. /\ \A t, w, fs, ls, r, n : InFirstPass(t, w, fs, ls, r, n)' <=> InFirstPass(t, w, fs, ls, r, n)
      /\ \A t, w, fs, ps, n : InSecondPass(t, w, fs, ps, n)' <=> InSecondPass(t, w, fs, ps, n)
      /\ \A t, fs, r : Learned(t, fs, r)' <=> Learned(t, fs, r)
      /\ \A p : ProbeFacts(p)' <=> ProbeFacts(p)
      /\ Eof' = Eof
      /\ ReaderInit(file)' = ReaderInit(file)
  BY <1>0, SamePasses, SameWalk
<1>2. /\ file \in Files /\ reader \in ReaderStates /\ ProbeFacts(probe) /\ at \in 0 .. Eof
      /\ Len(file.blocks) \in Nat /\ Eof = Len(file.blocks) + 1
  BY BlocksOfFile DEF WalkInv, Eof
<1>3. CASE Begin /\ phase = "start"
  <2>1. /\ phase' = "first" /\ at' = 0 /\ walker' = WalkerInit(file) /\ found' = FoundInit(file)
        /\ loops' = <<>> /\ reader' = ReaderInit(file) /\ reader' = reader /\ probe' = probe
        /\ reply' = "none"
    BY <1>3 DEF Begin, WalkInv
  <2>2. FirstPass'
    <3>1. PICK t : InFirstPass(t, WalkerInit(file), FoundInit(file), <<>>, ReaderInit(file), 0)
      BY <1>2, PassBegins
    <3>2. InFirstPass(t, walker', found', loops', reader', at')
      BY <2>1, <3>1
    <3>3. QED
      BY <1>1, <3>2 DEF FirstPass
  <2>3. QED
    BY <1>0, <1>1, <1>2, <2>1, <2>2 DEF WalkInv
<1>4. CASE Begin /\ phase = "between"
  <2>1. /\ phase' = "second" /\ at' = 0 /\ walker' = WalkerInit(file) /\ parts' = <<>>
        /\ facts' = facts /\ reader' = reader /\ probe' = probe /\ reply' = "none"
    BY <1>4 DEF Begin
  <2>2. LaterOn'
    <3>1. PICK t : Learned(t, facts, reader)
                   /\ facts.loops = DecodedLoop(facts, reader) \cup ProbedLoop(facts, probe)
      BY <1>4 DEF WalkInv, LaterOn
    <3>2. InSecondPass(t, WalkerInit(file), facts, <<>>, 0)
      BY <1>2, <3>1, SecondBegins
    <3>3. InSecondPass(t, walker', facts', parts', at') /\ Learned(t, facts', reader')
      BY <2>1, <3>1, <3>2
    <3>4. facts'.loops = DecodedLoop(facts', reader') \cup ProbedLoop(facts', probe')
      BY <2>1, <3>1
    <3>5. QED
      BY <1>1, <2>1, <3>3, <3>4 DEF LaterOn, DecodedLoop, ProbedLoop, IsAnimated
  <2>3. QED
    BY <1>0, <1>1, <1>2, <2>1, <2>2 DEF WalkInv
<1>5. CASE BeginStopped \/ PushCapped \/ PushStopped
  <2>1. /\ phase' = "done" /\ reply' \in {"cancelled", "parts"} /\ at' = at /\ reader' = reader
        /\ probe' = probe
    BY <1>5 DEF BeginStopped, PushCapped, PushStopped, Returns
  <2>2. QED
    BY <1>0, <1>1, <1>2, <2>1 DEF WalkInv
<1>6. CASE WalkHeader /\ phase = "first"
  <2>1. /\ phase' = "first" /\ at = 0 /\ at' = Behind /\ walker' = walker /\ found' = found
        /\ loops' = loops /\ reader' = reader /\ probe' = probe /\ reply' = "none"
    BY <1>6 DEF WalkHeader, Behind
  <2>2. FirstPass'
    <3>1. PICK t : InFirstPass(t, walker, found, loops, reader, 0)
      BY <1>6, <2>1 DEF WalkInv, FirstPass
    <3>2. InFirstPass(t, walker', found', loops', reader', at')
      BY <1>2, <2>1, <3>1, FirstHeader
    <3>3. QED
      BY <1>1, <3>2 DEF FirstPass
  <2>3. at' \in 0 .. Eof
    BY <1>2, <2>1, BehindHeader
  <2>4. QED
    BY <1>0, <1>1, <1>2, <2>1, <2>2, <2>3 DEF WalkInv
<1>7. CASE WalkHeader /\ phase = "second"
  <2>1. /\ phase' = "second" /\ at = 0 /\ at' = Behind /\ walker' = walker /\ facts' = facts
        /\ reader' = reader /\ probe' = probe /\ reply' = "none"
        /\ parts' = parts \o Listing(walker, 0)
    BY <1>7 DEF WalkHeader, Behind, Push
  <2>2. LaterOn'
    <3>1. PICK t : /\ Learned(t, facts, reader) /\ InSecondPass(t, walker, facts, parts, 0)
                   /\ facts.loops = DecodedLoop(facts, reader) \cup ProbedLoop(facts, probe)
      BY <1>7, <2>1 DEF WalkInv, LaterOn
    <3>2. InSecondPass(t, walker', facts', parts', at') /\ Learned(t, facts', reader')
      <4>1. InSecondPass(t, walker, facts, parts \o Listing(walker, 0), Behind)
        BY <1>2, <3>1, SecondHeader
      <4>2. QED
        BY <2>1, <3>1, <4>1
    <3>3. QED
      BY <1>1, <2>1, <3>1, <3>2 DEF LaterOn, DecodedLoop, ProbedLoop, IsAnimated
  <2>3. at' \in 0 .. Eof
    BY <1>2, <2>1, BehindHeader
  <2>4. QED
    BY <1>0, <1>1, <1>2, <2>1, <2>2, <2>3 DEF WalkInv
<1>8. CASE WalkBlock /\ phase = "first"
  <2>1. /\ phase' = "first" /\ at \in 1 .. Len(file.blocks) /\ at' = After(at)
        /\ walker' = Walk(walker, at) /\ found' = Find(walker, found, at)
        /\ loops' = Loops(walker, at) /\ reader' = Read(file, reader, at)
        /\ probe' = probe /\ reply' = "none"
    BY <1>8 DEF WalkBlock, After
  <2>2. PICK t : InFirstPass(t, walker, found, loops, reader, at)
    BY <1>8 DEF WalkInv, FirstPass
  <2>3. FirstPass'
    <3>1. PICK t1 : InFirstPass(t1, Walk(walker, at), Find(walker, found, at), Loops(walker, at),
                                Read(file, reader, at), After(at))
      BY <1>2, <2>1, <2>2, FirstBlock
    <3>2. InFirstPass(t1, walker', found', loops', reader', at')
      BY <2>1, <3>1
    <3>3. QED
      BY <1>1, <3>2 DEF FirstPass
  <2>4. at' \in 0 .. Eof /\ reader' \in ReaderStates
    <3>1. at \in Parsed
      BY <2>1, <2>2 DEF InFirstPass
    <3>2. QED
      BY <1>2, <2>1, <3>1, AfterFacts, ReadType
  <2>5. QED
    BY <1>0, <1>1, <1>2, <2>1, <2>3, <2>4 DEF WalkInv
<1>9. CASE WalkBlock /\ phase = "second"
  <2>1. /\ phase' = "second" /\ at \in 1 .. Len(file.blocks) /\ at' = After(at)
        /\ walker' = Walk(walker, at) /\ facts' = facts /\ reader' = reader /\ probe' = probe
        /\ reply' = "none" /\ parts' = parts \o Listing(walker, at)
    BY <1>9 DEF WalkBlock, After, Push
  <2>2. PICK t : /\ Learned(t, facts, reader) /\ InSecondPass(t, walker, facts, parts, at)
                 /\ facts.loops = DecodedLoop(facts, reader) \cup ProbedLoop(facts, probe)
    BY <1>9 DEF WalkInv, LaterOn
  <2>3. LaterOn'
    <3>1. InSecondPass(t, walker', facts', parts', at') /\ Learned(t, facts', reader')
      <4>1. InSecondPass(t, Walk(walker, at), facts, parts \o Listing(walker, at), After(at))
        BY <1>2, <2>1, <2>2, SecondBlock
      <4>2. QED
        BY <2>1, <2>2, <4>1
    <3>2. QED
      BY <1>1, <2>1, <2>2, <3>1 DEF LaterOn, DecodedLoop, ProbedLoop, IsAnimated
  <2>4. at' \in 0 .. Eof
    <3>1. at \in Parsed
      BY <2>1, <2>2 DEF InSecondPass
    <3>2. QED
      BY <1>2, <2>1, <3>1, AfterFacts
  <2>5. QED
    BY <1>0, <1>1, <1>2, <2>1, <2>3, <2>4 DEF WalkInv
<1>10. CASE EndFirst
  <2> DEFINE ls == LoopsLearned(found)
  <2>1. /\ phase = "first" /\ at = Eof /\ at' = at /\ reader' = reader /\ probe' = probe
        /\ reply' = "none" /\ facts' = [found EXCEPT !.loops = ls]
        /\ phase' = IF found.headerFatal THEN "between" ELSE "probe"
    BY <1>2, <1>10 DEF EndFirst, LoopsLearned
  <2>2. PICK t : InFirstPass(t, walker, found, loops, reader, Eof)
    BY <2>1 DEF WalkInv, FirstPass
  <2>3. Learned(t, facts', reader) /\ facts'.loops = DecodedLoop(facts', reader)
    <3> DEFINE f1 == facts'
    <3>1. f1 = FactsLearned(found)
      BY <2>1 DEF FactsLearned
    <3> HIDE DEF f1
    <3>2. Learned(t, f1, reader) /\ f1.loops = DecodedLoop(f1, reader)
      BY ONLY <1>2, <2>2, <3>1, FirstEnds
    <3>3. QED
      BY <3>2 DEF f1
  <2>4. /\ phase' = "between" => ProbedLoop(facts', probe) = {}
        /\ phase' = "probe" => ~facts'.headerFatal
    <3>1. facts'.headerFatal = found.headerFatal
      BY <2>1, <2>2 DEF InFirstPass, FactStates
    <3>2. QED
      BY <2>1, <3>1 DEF ProbedLoop
  <2> HIDE DEF ls
  <2>5. LaterOn'
    BY <1>1, <2>1, <2>3, <2>4 DEF LaterOn, DecodedLoop, ProbedLoop, IsAnimated
  <2>6. QED
    BY <1>0, <1>1, <1>2, <2>1, <2>5 DEF WalkInv
<1>11. CASE WalkProbe \/ WalkProbeStopped
  <2>1. /\ phase = "probe" /\ phase' = "probe" /\ at' = at /\ reader' = reader /\ facts' = facts
        /\ reply' = "none"
    BY <1>11 DEF WalkProbe, WalkProbeStopped
  <2>2. ProbeFacts(probe')
    <3>1. CASE WalkProbe
      BY <1>2, <3>1, ProbeFactsStep DEF WalkProbe, ProbeStep
    <3>2. CASE WalkProbeStopped
      BY <1>2, <3>2, ProbeFactsStopped DEF WalkProbeStopped, ProbeStopped
    <3>3. QED
      BY <1>11, <3>1, <3>2
  <2>3. LaterOn'
    <3>1. PICK t : /\ Learned(t, facts, reader) /\ facts.loops = DecodedLoop(facts, reader)
                   /\ ~facts.headerFatal
      BY <2>1 DEF WalkInv, LaterOn
    <3>2. QED
      BY <1>1, <2>1, <3>1 DEF LaterOn, DecodedLoop
  <2>4. QED
    BY <1>0, <1>1, <1>2, <2>1, <2>2, <2>3 DEF WalkInv
<1>12. CASE EndProbe
  <2> DEFINE ls == IF probe.answer = "ok" /\ IsAnimated(probe) THEN facts.loops \cup {probe.repeatAt}
                   ELSE facts.loops
  <2>1. /\ phase = "probe" /\ phase' = "between" /\ at' = at /\ reader' = reader /\ probe' = probe
        /\ reply' = "none" /\ facts' = [facts EXCEPT !.loops = ls]
    BY <1>12 DEF EndProbe
  <2>2. PICK t : /\ Learned(t, facts, reader) /\ facts.loops = DecodedLoop(facts, reader)
                 /\ ~facts.headerFatal
    BY <2>1 DEF WalkInv, LaterOn
  <2>3. facts \in FactStates /\ probe.repeatAt \in Nat
    BY <1>2, <2>2 DEF Learned, ProbeFacts, ProbeStates
  <2>4. ls \in SUBSET Nat /\ ls = DecodedLoop(facts, reader) \cup ProbedLoop(facts, probe)
    BY <2>2, <2>3 DEF FactStates, ProbedLoop
  <2> HIDE DEF ls
  <2>5. /\ facts' \in FactStates /\ facts'.loops = ls /\ facts'.controls = facts.controls
        /\ facts'.colours = facts.colours /\ facts'.reach = facts.reach
        /\ facts'.headerFatal = facts.headerFatal /\ facts'.good = facts.good
    BY <2>1, <2>3, <2>4 DEF FactStates
  <2> DEFINE fs == facts'
  <2>6. Learned(t, fs, reader)
    <3> HIDE DEF fs
    <3>1. /\ fs \in FactStates /\ fs.controls = facts.controls /\ fs.colours = facts.colours
          /\ fs.reach = facts.reach /\ fs.headerFatal = facts.headerFatal /\ fs.good = facts.good
      BY <2>5 DEF fs
    <3>2. QED
      BY <2>2, <3>1 DEF Learned, Gathered, EndState
  <2>7. LaterOn'
    BY <1>1, <2>1, <2>2, <2>4, <2>5, <2>6 DEF LaterOn, DecodedLoop, ProbedLoop, IsAnimated
  <2>8. QED
    BY <1>0, <1>1, <1>2, <2>1, <2>7 DEF WalkInv
<1>13. CASE EndSecond
  <2>1. /\ phase = "second" /\ phase' = "done" /\ reply' = "ok" /\ at = Eof /\ at' = at
        /\ reader' = reader /\ probe' = probe /\ facts' = facts /\ walker' = walker
        /\ parts' = parts
    BY <1>2, <1>13 DEF EndSecond, Returns
  <2>2. LaterOn'
    <3>1. PICK t : /\ Learned(t, facts, reader) /\ InSecondPass(t, walker, facts, parts, at)
                   /\ facts.loops = DecodedLoop(facts, reader) \cup ProbedLoop(facts, probe)
      BY <2>1 DEF WalkInv, LaterOn
    <3>2. QED
      BY <1>1, <2>1, <3>1 DEF LaterOn, DecodedLoop, ProbedLoop, IsAnimated
  <2>3. QED
    BY <1>0, <1>1, <1>2, <2>1, <2>2 DEF WalkInv
<1>14. QED
  <2>1. WalkHeader \/ WalkBlock => phase \in {"first", "second"}
    BY DEF WalkHeader, WalkBlock
  <2>2. Begin => phase \in {"start", "between"}
    BY DEF Begin
  <2>3. QED
    BY <1>3, <1>4, <1>5, <1>6, <1>7, <1>8, <1>9, <1>10, <1>11, <1>12, <1>13, <2>1, <2>2 DEF Next

-----------------------------------------------------------------------------
(* A stop.                                                                 *)

\* Where the reason is while an inventory is walked: in its reply, or latched
\* in front of a poll that the walk cannot pass.
WalkIsStopped ==
  \/ reply = "cancelled"
  \/ latched /\ reply = "none" /\ phase \in {"probe", "between"}

\* Where the reason is once the stop has fired.
ReasonIsKept ==
  fired => \/ job = "done" /\ result = "Cancelled"
           \/ job = "walk" /\ WalkIsStopped
           \/ job = "probe" /\ probe.answer = "Cancelled"

\* The probe's verdict has a place.
ProbeHasAnswer == "answer" \in DOMAIN probe

StopInv == ReasonIsKept /\ ProbeHasAnswer

-----------------------------------------------------------------------------
LEMMA StopInitInv == JobInit => StopInv
BY DEF JobInit, Init, StopInv, ReasonIsKept, ProbeHasAnswer, ProbeInit

(* A block changes fields of the probe and removes none.                   *)
LEMMA ProbeBlockKeepsAnswer ==
  ASSUME NEW p, "answer" \in DOMAIN p, NEW at0, NEW b
  PROVE  "answer" \in DOMAIN ProbeBlock(p, at0, b)
<1> DEFINE next == [p EXCEPT !.at = @ + 1]
<1>1. "answer" \in DOMAIN next
  OBVIOUS
<1>2. "answer" \in DOMAIN ProbeImage(next, b)
  BY <1>1 DEF ProbeImage
<1>3. "answer" \in DOMAIN ProbeControl(next, b)
  BY <1>1 DEF ProbeControl
<1>4. "answer" \in DOMAIN [next EXCEPT !.repeatAt = at0]
  BY <1>1
<1>5. "answer" \in DOMAIN [next EXCEPT !.answer = "ok"]
  BY <1>1
<1>6. ProbeBlock(p, at0, b) \in {ProbeImage(next, b), ProbeControl(next, b),
                                [next EXCEPT !.repeatAt = at0],
                                [next EXCEPT !.answer = "ok"], next}
  BY DEF ProbeBlock
<1>7. QED
  BY <1>1, <1>2, <1>3, <1>4, <1>5, <1>6

LEMMA ProbeStepKeepsAnswer == ProbeHasAnswer /\ ProbeStep(file) => ProbeHasAnswer'
<1> SUFFICES ASSUME ProbeHasAnswer, ProbeStep(file) PROVE "answer" \in DOMAIN probe'
  BY DEF ProbeHasAnswer
<1> DEFINE here == Walked(file)[probe.at]
<1>1. "answer" \in DOMAIN ProbeBlock(probe, here.at, here.block)
  BY ProbeBlockKeepsAnswer DEF ProbeHasAnswer
<1>2. "answer" \in DOMAIN [probe EXCEPT !.answer = "ok"]
  BY DEF ProbeHasAnswer
<1>3. probe' \in {[probe EXCEPT !.answer = "ok"], ProbeBlock(probe, here.at, here.block)}
  BY DEF ProbeStep
<1>4. QED
  BY <1>1, <1>2, <1>3

LEMMA ProbeStoppedAnswers ==
  ProbeHasAnswer /\ ProbeStopped => ProbeHasAnswer' /\ probe'.answer = "Cancelled"
BY DEF ProbeHasAnswer, ProbeStopped

-----------------------------------------------------------------------------
(* No step of the walk loses the reason: what fires is latched, and from   *)
(* the poll in front of the second pass nothing but a reply leads on.      *)
LEMMA WalkKeepsReason == StopInv /\ job = "walk" /\ WalkOn => StopInv'
<1> SUFFICES ASSUME StopInv, job = "walk", reply = "none", Next, UNCHANGED jobVars
             PROVE  StopInv'
  BY DEF WalkOn
<1> USE DEF StopInv, ReasonIsKept, WalkIsStopped, ProbeHasAnswer, jobVars, token, Returns
<1>1. CASE Begin
  BY <1>1 DEF Begin, Polled, Quiet
<1>2. CASE BeginStopped
  BY <1>2 DEF BeginStopped, Fires
<1>3. CASE WalkHeader
  BY <1>3 DEF WalkHeader, Push
<1>4. CASE WalkBlock
  BY <1>4 DEF WalkBlock, Push
<1>5. CASE PushCapped
  BY <1>5 DEF PushCapped
<1>6. CASE PushStopped
  BY <1>6 DEF PushStopped, Fires
<1>7. CASE EndFirst
  BY <1>7 DEF EndFirst
<1>8. CASE WalkProbe
  <2>1. ProbeHasAnswer'
    BY <1>8, ProbeStepKeepsAnswer DEF WalkProbe
  <2>2. ReasonIsKept'
    BY <1>8 DEF WalkProbe, Polled
  <2>3. QED
    BY <2>1, <2>2
<1>9. CASE WalkProbeStopped
  BY <1>9, ProbeStoppedAnswers DEF WalkProbeStopped, Fires
<1>10. CASE EndProbe
  BY <1>10 DEF EndProbe
<1>11. CASE EndSecond
  BY <1>11 DEF EndSecond
<1>12. QED
  BY <1>1, <1>2, <1>3, <1>4, <1>5, <1>6, <1>7, <1>8, <1>9, <1>10, <1>11 DEF Next

LEMMA StopNextInv == StopInv /\ [JobNext]_<<vars, jobVars>> => StopInv'
<1> SUFFICES ASSUME StopInv, [JobNext]_<<vars, jobVars>> PROVE StopInv'
  OBVIOUS
<1> USE DEF StopInv, ReasonIsKept, WalkIsStopped, ProbeHasAnswer, vars, jobVars, token, Resolves
<1>1. CASE Refuse
  BY <1>1 DEF Refuse
<1>2. CASE Start
  BY <1>2 DEF Start
<1>3. CASE StoppedOutside
  BY <1>3 DEF StoppedOutside, StopFires
<1>4. CASE WalkOn
  BY <1>4, WalkKeepsReason DEF WalkOn
<1>5. CASE EndWalk
  BY <1>5 DEF EndWalk, WalkAnswer
<1>6. CASE JobProbe
  <2>1. ProbeHasAnswer'
    BY <1>6, ProbeStepKeepsAnswer DEF JobProbe
  <2>2. ReasonIsKept'
    BY <1>6 DEF JobProbe, ProbeStep
  <2>3. QED
    BY <2>1, <2>2
<1>7. CASE JobProbeStopped
  BY <1>7, ProbeStoppedAnswers DEF JobProbeStopped, StopFires
<1>8. CASE EndJobProbe
  BY <1>8 DEF EndJobProbe, ProbeTolerated
<1>9. CASE New
  BY <1>9 DEF New
<1>10. CASE ReadInfo
  BY <1>10 DEF ReadInfo
<1>11. CASE EndInfo
  BY <1>11 DEF EndInfo
<1>12. CASE ReadFrames
  BY <1>12 DEF ReadFrames
<1>13. CASE EndOfInput
  BY <1>13 DEF EndOfInput
<1>14. CASE ReadStopped
  BY <1>14 DEF ReadStopped, StopFires, ReadFailsWith
<1>15. CASE UNCHANGED <<vars, jobVars>>
  BY <1>15
<1>16. QED
  BY <1>1, <1>2, <1>3, <1>4, <1>5, <1>6, <1>7, <1>8, <1>9, <1>10, <1>11, <1>12, <1>13,
     <1>14, <1>15 DEF JobNext

(* codec.rs:38, "re-polling cannot recover a reason from a token that      *)
(* fires once": whichever operation polls the token, and wherever, that it *)
(* has fired is what the operation returns, for every file.                *)
THEOREM StopsAreReported == JobSpec => []StopIsReported
<1>1. StopInv => StopIsReported
  BY DEF StopInv, ReasonIsKept, StopIsReported
<1>2. QED
  BY StopInitInv, StopNextInv, <1>1, PTL DEF JobSpec

-----------------------------------------------------------------------------
(* The inventory lists what the decoder does.                              *)

\* The walk belongs to the inventory; the other operations never start it.
JobInv ==
  /\ op = "inventory" => job \in {"asked", "walk", "done"} /\ WalkInv
  /\ op # "inventory" => phase = "start" /\ reply = "none" /\ job # "walk"

(* Every operation begins with it.                                         *)
LEMMA JobInitInv == JobInit => JobInv
<1> SUFFICES ASSUME JobInit PROVE JobInv
  OBVIOUS
<1>1. /\ file \in Files /\ phase = "start" /\ at = 0 /\ loops = <<>> /\ reply = "none"
      /\ reader = ReaderInit(file) /\ probe = ProbeInit(file) /\ job = "asked"
  BY DEF JobInit, Init
<1>2. reader \in ReaderStates /\ ProbeFacts(probe)
  BY <1>1, InitTypes, ProbeFactsInit
<1>3. at \in 0 .. Eof
  BY <1>1, BlocksOfFile DEF Eof
<1>4. WalkInv
  BY <1>1, <1>2, <1>3 DEF WalkInv
<1>5. QED
  BY <1>1, <1>4 DEF JobInv

(* No operation breaks it: the walk's steps are those of the lemma above,  *)
(* and no other operation touches what the walk keeps.                     *)
LEMMA JobStepInv == JobInv /\ [JobNext]_<<vars, jobVars>> => JobInv'
<1> SUFFICES ASSUME JobInv, [JobNext]_<<vars, jobVars>> PROVE JobInv'
  OBVIOUS
<1> DEFINE walkVars == <<file, phase, at, walker, found, facts, loops, parts, reply, reader, probe>>
<1>1. ASSUME UNCHANGED walkVars, WalkInv PROVE WalkInv'
  <2>1. /\ \A t, w, fs, ls, r, n : InFirstPass(t, w, fs, ls, r, n)' <=> InFirstPass(t, w, fs, ls, r, n)
        /\ \A t, w, fs, ps, n : InSecondPass(t, w, fs, ps, n)' <=> InSecondPass(t, w, fs, ps, n)
        /\ \A t, fs, r : Learned(t, fs, r)' <=> Learned(t, fs, r)
        /\ \A p : ProbeFacts(p)' <=> ProbeFacts(p)
        /\ Eof' = Eof
        /\ ReaderInit(file)' = ReaderInit(file)
    BY <1>1, SamePasses, SameWalk
  <2>2. phase = "first" => FirstPass'
    BY <1>1, <2>1 DEF WalkInv, FirstPass
  <2>3. phase \in {"probe", "between", "second"} \/ reply = "ok" => LaterOn'
    BY <1>1, <2>1 DEF WalkInv, LaterOn, DecodedLoop, ProbedLoop, IsAnimated
  <2>4. QED
    BY <1>1, <2>1, <2>2, <2>3 DEF WalkInv
<1>2. CASE UNCHANGED <<vars, jobVars>>
  <2>1. UNCHANGED walkVars /\ op' = op /\ job' = job
    BY <1>2 DEF vars, jobVars
  <2> HIDE DEF walkVars
  <2>2. phase' = phase /\ reply' = reply
    BY <2>1 DEF walkVars
  <2>3. QED
    BY <1>1, <2>1, <2>2 DEF JobInv
<1>3. CASE Refuse \/ Start \/ StoppedOutside \/ EndWalk
  <2>1. UNCHANGED walkVars /\ op' = op /\ job' \in {"done", IF op = "inventory" THEN "walk" ELSE "probe"}
    BY <1>3 DEF Refuse, Start, StoppedOutside, EndWalk, Resolves, vars
  <2>2. phase' = phase /\ reply' = reply
    BY <2>1
  <2> HIDE DEF walkVars
  <2>3. QED
    BY <1>1, <2>1, <2>2 DEF JobInv
<1>4. CASE WalkOn
  <2>1. job = "walk" /\ reply = "none" /\ Next /\ op' = op /\ job' = job
    BY <1>4 DEF WalkOn, jobVars
  <2>2. op = "inventory" /\ WalkInv
    BY <2>1 DEF JobInv
  <2>3. WalkInv'
    BY <2>1, <2>2, WalkKeepsInv
  <2>4. QED
    BY <2>1, <2>2, <2>3 DEF JobInv
<1>5. CASE JobProbe \/ JobProbeStopped \/ EndJobProbe \/ New \/ ReadInfo \/ EndInfo
           \/ ReadFrames \/ EndOfInput \/ ReadStopped
  <2>1. /\ job \in {"probe", "new", "header", "frames"} /\ job' # "walk" /\ op' = op
        /\ phase' = phase /\ reply' = reply
    BY <1>5 DEF JobProbe, JobProbeStopped, EndJobProbe, New, ReadInfo, EndInfo, ReadFrames,
                EndOfInput, ReadStopped, ReadFailsWith, Resolves, vars, jobVars
  <2>2. op # "inventory"
    BY <2>1 DEF JobInv
  <2>3. QED
    BY <2>1, <2>2 DEF JobInv
<1>6. QED
  BY <1>2, <1>3, <1>4, <1>5 DEF JobNext

(* So it holds throughout.                                                 *)
LEMMA JobInvIsKept == JobSpec => []JobInv
<1>1. JobInit => JobInv
  BY JobInitInv
<1>2. JobInv /\ [JobNext]_<<vars, jobVars>> => JobInv'
  BY JobStepInv
<1>3. QED
  BY <1>1, <1>2, PTL DEF JobSpec

(* detect.rs walks a file twice and never decodes it: in front of every    *)
(* block, for every file, limit and polling interval, the first pass knows *)
(* where the decoder would stand, what it would have delivered and which   *)
(* controls it would have applied.                                         *)
THEOREM FirstPassKnowsTheDecoder == JobSpec => []WalksAsDecoder
<1>1. JobInv => WalksAsDecoder
  <2> SUFFICES ASSUME JobInv, phase = "first", at \in 1 .. Len(file.blocks)
               PROVE  /\ walker.fatal <=> ~reader.going
                      /\ found.headerFatal <=> ~reader.open
                      /\ found.controls = reader.applied
                      /\ found.good = Cardinality(reader.delivered)
                      /\ ~walker.fatal =>
                           /\ walker.header = reader.header /\ walker.pending = reader.control
                           /\ walker.images = reader.images /\ walker.elapsed = reader.elapsed
    BY DEF WalksAsDecoder
  <2>1. PICK t : InFirstPass(t, walker, found, loops, reader, at)
    BY DEF JobInv, WalkInv, FirstPass
  <2>2. Lockstep(walker, found, reader, at) /\ Gathered(found, reader)
    BY <2>1 DEF InFirstPass
  <2>3. QED
    BY <2>2 DEF Lockstep, Gathered, SameState
<1>2. QED
  BY <1>1, JobInvIsKept, PTL

(* The facts of a listed inventory.                                        *)
LEMMA ListedFacts ==
  ASSUME JobInv, Listed
  PROVE  /\ op = "inventory" /\ file \in Files /\ ProbeFacts(probe) /\ reader \in ReaderStates
         /\ \E t :
              /\ Learned(t, facts, reader) /\ PartsListed(t, facts, parts, Eof)
              /\ facts.loops = DecodedLoop(facts, reader) \cup ProbedLoop(facts, probe)
<1>1. op = "inventory" /\ WalkInv /\ reply = "ok"
  BY DEF JobInv, Listed
<1>2. phase = "done"
  BY <1>1 DEF WalkInv
<1>3. QED
  BY <1>1, <1>2 DEF WalkInv, LaterOn, InSecondPass

(* A listed inventory gives image data to exactly the frames the decoder   *)
(* delivers, their own tables to those that have one, and a control to the *)
(* animation exactly when the decoder applies it, for every file.          *)
THEOREM InventoryIsDecoded == JobSpec => []ListedAsDecoded
<1>1. JobInv => ListedAsDecoded
  <2> SUFFICES ASSUME JobInv, Listed
               PROVE  /\ PartsAs("data", "ImageData") = reader.delivered
                      /\ PartsAs("control", "Animation") = reader.applied
                      /\ PartsAs("table", "ImageData") \ {0} =
                           {i \in reader.delivered : file.blocks[i].own}
    BY DEF ListedAsDecoded
  <2>1. PICK t : Learned(t, facts, reader) /\ PartsListed(t, facts, parts, Eof)
    BY ListedFacts
  <2>2. Foretold(t, Eof, reader) /\ facts.controls = reader.applied
    BY <2>1 DEF Learned, Gathered
  <2>3. /\ PartsIn(Range(parts), "data", "ImageData") = reader.delivered
        /\ PartsIn(Range(parts), "table", "ImageData") \ {0} =
                           {i \in reader.delivered : file.blocks[i].own}
    BY <2>1, <2>2 DEF Foretold, PartsListed
  <2>4. PartsIn(Range(parts), "control", "Animation") = reader.applied
    BY <2>1, <2>2 DEF Foretold, PartsListed
  <2>5. QED
    BY <2>3, <2>4, PartsAsRange
<1>2. QED
  BY <1>1, JobInvIsKept, PTL

(* Powers of two grow, as far as a code size goes.                         *)
LEMMA PowersGrow ==
  ASSUME NEW a \in 0 .. 8, NEW b \in 0 .. 8, a <= b PROVE 2 ^ a <= 2 ^ b /\ 2 ^ a \in Nat
<1>1. /\ 2 ^ 0 = 1 /\ 2 ^ 1 = 2 /\ 2 ^ 2 = 4 /\ 2 ^ 3 = 8 /\ 2 ^ 4 = 16 /\ 2 ^ 5 = 32
      /\ 2 ^ 6 = 64 /\ 2 ^ 7 = 128 /\ 2 ^ 8 = 256
  OBVIOUS
<1>2. a \in {0, 1, 2, 3, 4, 5, 6, 7, 8} /\ b \in {0, 1, 2, 3, 4, 5, 6, 7, 8}
  OBVIOUS
<1> DEFINE p(x) == 2 ^ x
<1>3. /\ p(0) = 1 /\ p(1) = 2 /\ p(2) = 4 /\ p(3) = 8 /\ p(4) = 16 /\ p(5) = 32
      /\ p(6) = 64 /\ p(7) = 128 /\ p(8) = 256
  BY <1>1
<1> HIDE DEF p
<1>4. p(a) <= p(b) /\ p(a) \in Nat
  BY <1>2, <1>3
<1>5. QED
  BY <1>4 DEF p

(* The global table is listed as image data exactly when a delivered frame *)
(* reads it, and only entries that no frame's code size reaches are called *)
(* unreachable, for every file.                                            *)
THEOREM TableIsReached == JobSpec => []TableReachCovers
<1>1. JobInv => TableReachCovers
  <2> DEFINE readers == {i \in reader.delivered : ~file.blocks[i].own}
  <2> SUFFICES ASSUME JobInv, Listed
               PROVE  /\ 0 \in PartsAs("table", "ImageData") <=> readers # {}
                      /\ 0 \in PartsAs("unreachable", "Dropped") =>
                           \A i \in readers : 2 ^ file.blocks[i].code < file.entries
    BY DEF TableReachCovers
  <2>1. PICK t : Learned(t, facts, reader) /\ PartsListed(t, facts, parts, Eof)
    BY ListedFacts
  <2>2. /\ facts.colours <=> readers # {}
        /\ facts.reach \in 0 .. 8
        /\ \A i \in readers : file.blocks[i].code <= facts.reach
        /\ reader.delivered = {i \in Before(Eof) : Delivers(t[i], i)}
    BY <2>1 DEF Learned, Gathered, GlobalReaders, Foretold
  <2>3. file \in Files /\ FileOK(file)
    BY ListedFacts, BlockAssumption
  <2>4. \A i \in reader.delivered :
          /\ i \in 1 .. Len(file.blocks) /\ ImageOK(file.blocks[i])
          /\ i \in Parsed /\ ~Problem(t[i], file.blocks[i]) /\ ~t[i].fatal
    <3> SUFFICES ASSUME NEW i \in reader.delivered
                 PROVE  /\ i \in 1 .. Len(file.blocks) /\ ImageOK(file.blocks[i])
                        /\ i \in Parsed /\ ~Problem(t[i], file.blocks[i]) /\ ~t[i].fatal
      OBVIOUS
    <3>1. i \in Parsed /\ i \in 1 .. Len(file.blocks) /\ Delivers(t[i], i)
      BY <2>2, <2>3, BeforeFacts
    <3>2. BlockOK(file.blocks[i])
      BY <2>3, <3>1, BlocksOfFile
    <3>3. QED
      BY <3>1, <3>2, BlockKinds DEF Delivers, Decodes, Reachable
  <2>5. readers # {} => file.screen # "short" /\ file.colours = "whole"
    <3> SUFFICES ASSUME NEW i \in readers PROVE file.screen # "short" /\ file.colours = "whole"
      OBVIOUS
    <3>1. file.screen # "short" /\ file.colours # "cut"
      BY <2>4 DEF Parsed
    <3>2. file.colours # "none"
      BY <2>4 DEF Problem
    <3>3. QED
      BY <2>3, <3>1, <3>2 DEF FileOK
  <2>6. 0 \in PartsIn(Range(parts), "table", "ImageData") <=> readers # {}
    <3>1. Eof > 0
      BY <2>3, BlocksOfFile DEF Eof
    <3>2. QED
      BY <2>1, <2>2, <2>5, <3>1 DEF PartsListed
  <2>7. ASSUME 0 \in PartsIn(Range(parts), "unreachable", "Dropped"), NEW i \in readers
        PROVE  2 ^ file.blocks[i].code < file.entries
    <3>1. Eof > 0
      BY <2>3, BlocksOfFile DEF Eof
    <3>2. ~(2 ^ facts.reach >= file.entries)
      BY <2>1, <2>7, <3>1 DEF PartsListed
    <3> DEFINE c == file.blocks[i].code
               e == file.entries
               m == facts.reach
    <3>3. c \in 0 .. 8 /\ m \in 0 .. 8 /\ c <= m /\ e \in Nat
      BY <2>2, <2>3, <2>4 DEF ImageOK, FileOK
    <3> HIDE DEF c, e, m
    <3>4. 2 ^ c <= 2 ^ m /\ 2 ^ c \in Nat /\ 2 ^ m \in Nat
      <4>1. c <= 8 /\ c <= c
        BY <3>3
      <4>2. 2 ^ c <= 2 ^ m /\ 2 ^ c \in Nat
        BY ONLY <3>3, PowersGrow
      <4>3. m <= m
        BY <3>3
      <4>4. 2 ^ m \in Nat
        BY ONLY <3>3, <4>3, PowersGrow
      <4>5. QED
        BY <4>2, <4>4
    <3> DEFINE x == 2 ^ c
               y == 2 ^ m
    <3>5. ~(y >= e)
      BY <3>2 DEF m, e
    <3> HIDE DEF x, y
    <3>6. x < e
      BY <3>3, <3>4, <3>5 DEF x, y
    <3>7. QED
      BY <3>6 DEF x, c, e
  <2>8. QED
    BY <2>6, <2>7, PartsAsRange
<1>2. QED
  BY <1>1, JobInvIsKept, PTL

(* The loop extensions that a listed inventory gives to the animation are  *)
(* exactly those whose count the decoder or the probe reports, for every   *)
(* file: a count outside the header, or of a file without frames, is not   *)
(* among them.                                                             *)
THEOREM LoopsAreReported == JobSpec => []LoopsAsReported
<1>1. JobInv => LoopsAsReported
  <2> DEFINE used(i) == /\ reader.open /\ file.blocks[i].kind = "loop" /\ file.blocks[i].whole
                        /\ \/ i = reader.loopAt /\ reader.delivered # {}
                           \/ i = probe.repeatAt /\ probe.answer = "ok" /\ probe.frames > 1
  <2> SUFFICES ASSUME JobInv, Listed
               PROVE  PartsAs("loop", "Animation") = {i \in DOMAIN file.blocks : used(i)}
    BY DEF LoopsAsReported
  <2>1. PICK t : /\ Learned(t, facts, reader) /\ PartsListed(t, facts, parts, Eof)
                 /\ facts.loops = DecodedLoop(facts, reader) \cup ProbedLoop(facts, probe)
    BY ListedFacts
  <2>2. file \in Files /\ ProbeFacts(probe) /\ reader \in ReaderStates
    BY ListedFacts
  <2>3. /\ DOMAIN file.blocks = 1 .. Len(file.blocks) /\ Parsed \subseteq 1 .. Len(file.blocks)
        /\ Before(Eof) = Parsed /\ Len(file.blocks) \in Nat
    BY <2>2, BlocksOfFile, BeforeFacts
  <2>4. PartsAs("loop", "Animation") = {i \in Parsed : GoodLoop(i) /\ i \in facts.loops}
    BY <2>1, <2>3, PartsAsRange DEF PartsListed
  <2>5. facts.good > 0 <=> reader.delivered # {}
    <3>1. facts.good = Cardinality(reader.delivered)
      BY <2>1 DEF Learned, Gathered
    <3>2. reader.delivered \subseteq 1 .. Len(file.blocks)
      BY <2>1, <2>3 DEF Learned, Foretold
    <3>3. IsFiniteSet(reader.delivered)
      <4>1. IsFiniteSet(1 .. Len(file.blocks))
        BY <2>3, FS_Interval
      <4>2. QED
        BY ONLY <3>2, <4>1, FS_Subset
    <3>4. Cardinality(reader.delivered) \in Nat
          /\ (Cardinality(reader.delivered) = 0 <=> reader.delivered = {})
      BY <3>3, FS_CardinalityType, FS_EmptySet
    <3>5. QED
      BY <3>1, <3>4
  <2>6. /\ facts.headerFatal => ~reader.open
        /\ reader.open \/ facts.headerFatal \/ NoFrames
        /\ reader.loopAt # 0 => reader.loopAt \in Parsed /\ GoodLoop(reader.loopAt)
        /\ reader.delivered # {} => reader.open
    BY <2>1, <2>3 DEF Learned, EndState, ReaderFacts
  <2>7. /\ NoFrames => probe.frames = 0
        /\ probe.repeatAt # 0 => probe.repeatAt \in Parsed /\ file.blocks[probe.repeatAt].counts
    BY <2>2 DEF ProbeFacts
  <2>8. ASSUME NEW i \in Parsed, GoodLoop(i), i \in facts.loops PROVE used(i)
    <3>1. CASE i \in DecodedLoop(facts, reader)
      BY <2>5, <2>6, <2>8, <3>1 DEF DecodedLoop, GoodLoop
    <3>2. CASE i \in ProbedLoop(facts, probe)
      <4>1. ~facts.headerFatal /\ probe.answer = "ok" /\ probe.frames > 1 /\ i = probe.repeatAt
        BY <3>2 DEF ProbedLoop, IsAnimated
      <4>2. ~NoFrames
        BY <2>7, <4>1
      <4>3. QED
        BY <2>6, <2>8, <4>1, <4>2 DEF GoodLoop
    <3>3. QED
      BY <2>1, <2>8, <3>1, <3>2
  <2>9. ASSUME NEW i \in DOMAIN file.blocks, used(i)
        PROVE  i \in Parsed /\ GoodLoop(i) /\ i \in facts.loops
    <3>0. i # 0 /\ ~facts.headerFatal
      BY <2>3, <2>6, <2>9
    <3>1. CASE i = reader.loopAt /\ reader.delivered # {}
      BY <2>1, <2>5, <2>6, <3>0, <3>1 DEF DecodedLoop
    <3>2. CASE i = probe.repeatAt /\ probe.answer = "ok" /\ probe.frames > 1
      BY <2>1, <2>7, <2>9, <3>0, <3>2 DEF ProbedLoop, IsAnimated, GoodLoop
    <3>3. QED
      BY <2>9, <3>1, <3>2
  <2> HIDE DEF used
  <2>10. QED
    BY <2>3, <2>4, <2>8, <2>9
<1>2. QED
  BY <1>1, JobInvIsKept, PTL

-----------------------------------------------------------------------------
(* What the probe counts.                                                  *)

\* A frame whose descriptor can be read, as the probe counts them.
IsFrame(b) == b.kind = "image" /\ b.reads # "descriptor"

\* The control the probe holds at k was seen at l.
HeldFrom(s, l, k) ==
  /\ l \in 1 .. k - 1 /\ s[l].block.kind = "control" /\ s[l].block.first # NoControl
  /\ \A m \in l + 1 .. k - 1 : s[m].block.kind \notin {"control", "image"}

\* What makes the canvas show through at the probe's k-th block.
OpensSeen(s, k) ==
  /\ IsFrame(s[k].block)
  /\ \/ \E l : HeldFrom(s, l, k) /\ (s[l].block.first.transparent \/ s[l].block.first.dispose = "background")
     \/ s[k].block.area # Points /\ \A l \in 1 .. k - 1 : s[l].block.kind # "image"

\* The same for the blocks of the file.
InForce(j, i) ==
  /\ j \in 1 .. i - 1 /\ file.blocks[j].kind = "control" /\ file.blocks[j].last # NoControl
  /\ \A m \in j + 1 .. i - 1 : file.blocks[m].kind \notin {"control", "image"}

\* The same, for the i-th block of the file.
Opens(i) ==
  /\ IsFrame(file.blocks[i])
  /\ \/ \E j : InForce(j, i) /\ (file.blocks[j].last.transparent \/ file.blocks[j].last.dispose = "background")
     \/ file.blocks[i].area # Points /\ \A m \in 1 .. i - 1 : file.blocks[m].kind # "image"

\* What the probe has counted of the blocks s it has walked.
Tally(s, p) ==
  /\ p.at \in 1 .. Len(s) + 1
  /\ p.frames = Cardinality({s[k].at : k \in {m \in 1 .. p.at - 1 : IsFrame(s[m].block)}})
  /\ \A l : HeldFrom(s, l, p.at) => p.pending = s[l].block.first
  /\ (\A l \in 1 .. p.at - 1 : s[l].block.kind # "image") => p.frames = 0
  /\ ~p.transparency => \A k \in 1 .. p.at - 1 : ~OpensSeen(s, k)
  /\ \A k \in 1 .. p.at - 1 : s[k].block.kind = "trailer" => p.answer = "ok" /\ k = p.at - 1
  /\ p.answer = "ok" /\ p.at # Len(s) + 1 => p.at > 1 /\ s[p.at - 1].block.kind = "trailer"

\* In a plain file a probe that has neither refused nor stopped has counted.
ProbeTally(p) == Plain /\ p.answer \in {"none", "ok"} => Tally(Walked(file), p)

(* In a plain file the probe sees the very blocks.                         *)
LEMMA PlainSees ==
  ASSUME file \in Files, Plain, NEW s, s = Walked(file)
  PROVE  /\ s \in Seq(Finds) /\ Len(s) \in Nat /\ DOMAIN s = 1 .. Len(s)
         /\ \A k \in 1 .. Len(s) :
              /\ s[k].at \in 1 .. Len(file.blocks) /\ s[k].block = file.blocks[s[k].at]
              /\ s[k].block \in Blocks
              /\ \A l \in 1 .. k - 1 : s[l].at < s[k].at
         /\ file.colours # "cut" =>
              \A j \in 1 .. Len(file.blocks) :
                file.blocks[j].kind # "unknown" => \E k \in 1 .. Len(s) : s[k].at = j
<1>1. CASE file.colours = "cut"
  <2>1. s = <<>>
    BY <1>1, WalkedSees
  <2>2. s \in Seq(Finds) /\ Len(s) = 0 /\ DOMAIN s = 1 .. Len(s)
    BY <2>1
  <2>3. QED
    BY <1>1, <2>2
<1>2. CASE file.colours # "cut"
  <2>1. SeesFrom(s, 1)
    BY <1>2, WalkedSees
  <2>2. s \in Seq(Finds)
    BY <2>1 DEF SeesFrom
  <2>3. Len(s) \in Nat /\ DOMAIN s = 1 .. Len(s) /\ \A k \in 1 .. Len(s) : s[k] \in Finds
    BY <2>2
  <2>4. \A k \in 1 .. Len(s) : s[k].block \in Blocks
    BY <2>3 DEF Finds
  <2>5. ~\E j \in 1 .. Len(file.blocks) :
          file.blocks[j].kind = "unknown" /\ file.blocks[j].hides # <<>>
    BY BlocksOfFile DEF Plain
  <2>6. ASSUME NEW k \in 1 .. Len(s)
        PROVE  /\ s[k].at \in 1 .. Len(file.blocks) /\ s[k].block = file.blocks[s[k].at]
               /\ \A l \in 1 .. k - 1 : s[l].at < s[k].at
    BY <2>1, <2>3, <2>5 DEF SeesFrom
  <2>7. \A j \in 1 .. Len(file.blocks) :
          file.blocks[j].kind # "unknown" => \E k \in 1 .. Len(s) : s[k].at = j
    BY <2>1, <2>3 DEF SeesFrom
  <2>8. QED
    BY <2>2, <2>3, <2>4, <2>6, <2>7
<1>3. QED
  BY <1>1, <1>2

(* A probe begins with nothing counted.                                    *)
LEMMA TallyInit ==
  ASSUME file \in Files, NEW p, p = ProbeInit(file) PROVE ProbeTally(p)
<1> SUFFICES ASSUME Plain, p.answer \in {"none", "ok"} PROVE Tally(Walked(file), p)
  BY DEF ProbeTally
<1> DEFINE s == Walked(file)
<1>1. s \in Seq(Finds) /\ Len(s) \in Nat
  BY PlainSees
<1>2. p.at = 1 /\ p.frames = 0 /\ p.answer = IF file.screen = "short" THEN "TooShort" ELSE "none"
  BY DEF ProbeInit
<1>3. p.answer # "ok"
  BY <1>2
<1>4. 1 .. p.at - 1 = {}
  BY <1>2
<1>5. {s[k].at : k \in {m \in 1 .. p.at - 1 : IsFrame(s[m].block)}} = {}
  BY <1>4
<1>6. Cardinality({}) = 0
  BY FS_EmptySet
<1>7. p.at \in 1 .. Len(s) + 1
  BY <1>1, <1>2
<1> HIDE DEF s
<1>8. \A l : ~HeldFrom(s, l, p.at)
  BY <1>4 DEF HeldFrom
<1>9. Tally(s, p)
  BY <1>2, <1>3, <1>4, <1>5, <1>6, <1>7, <1>8 DEF Tally
<1>10. QED
  BY <1>9 DEF s

(* When the probe answers it has counted every frame, and when it saw no   *)
(* transparency no frame opens the canvas.                                 *)
LEMMA TallyVerdict ==
  ASSUME file \in Files, Plain, NEW p, ProbeFacts(p), ProbeTally(p), p.answer = "ok"
  PROVE  /\ p.frames = Cardinality({i \in Parsed : IsFrame(file.blocks[i])})
         /\ ~p.transparency => \A i \in Parsed : ~Opens(i)
<1> DEFINE s == Walked(file)
           seen == {s[k].at : k \in {m \in 1 .. p.at - 1 : IsFrame(s[m].block)}}
           frames == {i \in Parsed : IsFrame(file.blocks[i])}
           N == Len(file.blocks)
<1>0. /\ Tally(s, p) /\ file.screen # "short" /\ p.at \in Nat
      /\ Parsed \subseteq 1 .. N /\ N \in Nat
  BY BlocksOfFile, BeforeFacts DEF ProbeTally, ProbeFacts, ProbeStates
<1>1. /\ Len(s) \in Nat /\ DOMAIN s = 1 .. Len(s)
      /\ \A k \in 1 .. Len(s) :
              /\ s[k].at \in 1 .. N /\ s[k].block = file.blocks[s[k].at]
              /\ \A l \in 1 .. k - 1 : s[l].at < s[k].at
      /\ file.colours # "cut" =>
              \A j \in 1 .. N :
                file.blocks[j].kind # "unknown" => \E k \in 1 .. Len(s) : s[k].at = j
  BY PlainSees
<1> HIDE DEF N
<1>2. ASSUME NEW i \in Parsed, IsFrame(file.blocks[i])
      PROVE  \E k \in 1 .. p.at - 1 : k \in 1 .. Len(s) /\ s[k].at = i
  <2>1. file.colours # "cut" /\ file.blocks[i].kind # "unknown" /\ i \in 1 .. N
    BY <1>0, <1>2 DEF Parsed, IsFrame
  <2>2. PICK k \in 1 .. Len(s) : s[k].at = i
    BY <1>1, <2>1
  <2> HIDE DEF s
  <2>3. ASSUME ~(k < p.at) PROVE FALSE
    <3>1. p.at # Len(s) + 1 /\ p.at \in 1 .. Len(s) + 1
      BY <1>0, <1>1, <2>3 DEF Tally
    <3>2. p.at > 1 /\ s[p.at - 1].block.kind = "trailer"
      BY <1>0, <3>1 DEF Tally
    <3>3. p.at - 1 \in 1 .. k - 1 /\ p.at - 1 \in 1 .. Len(s)
      BY <1>0, <1>1, <2>3, <3>1, <3>2
    <3> DEFINE q == p.at - 1
    <3>4. s[q].at < i /\ s[q].at \in 1 .. N /\ s[q].block = file.blocks[s[q].at]
      BY <1>1, <2>2, <3>3
    <3>5. s[q].at \in 1 .. i - 1
      BY <1>0, <2>1, <3>4
    <3>6. file.blocks[s[q].at].kind # "trailer"
      BY <3>5 DEF Parsed
    <3>7. QED
      BY <3>2, <3>4, <3>6
  <2>4. k \in 1 .. p.at - 1
    BY <1>0, <1>1, <2>3
  <2>5. QED
    BY <2>2, <2>4
<1>3. seen = frames
  <2>1. ASSUME NEW k \in 1 .. p.at - 1, IsFrame(s[k].block) PROVE s[k].at \in frames
    <3>1. k \in DOMAIN s /\ s[k].at \in 1 .. N /\ s[k].block = file.blocks[s[k].at]
          /\ s[k].at # 0
      <4>1. k \in 1 .. Len(s)
        BY <1>0, <1>1 DEF Tally
      <4>2. QED
        BY <1>1, <4>1
    <3>2. \A l \in 1 .. k - 1 : s[l].block.kind # "trailer"
      <4>1. \A l \in 1 .. k - 1 : l \in 1 .. p.at - 1 /\ l # p.at - 1
        BY <1>0
      <4>2. QED
        BY <1>0, <4>1 DEF Tally
    <3>3. s[k].at \in Parsed
      BY <1>0, <3>1, <3>2, SeenIsParsed
    <3>4. QED
      BY <2>1, <3>1, <3>3
  <2>2. ASSUME NEW i \in frames PROVE i \in seen
    <3>1. PICK k \in 1 .. p.at - 1 : k \in 1 .. Len(s) /\ s[k].at = i
      BY <1>2
    <3>2. IsFrame(s[k].block)
      BY <1>1, <3>1
    <3>3. QED
      BY <3>1, <3>2
  <2> HIDE DEF s, frames
  <2>3. QED
    BY <2>1, <2>2
<1>4. ASSUME ~p.transparency, NEW i \in Parsed, Opens(i) PROVE FALSE
  <2>1. PICK k \in 1 .. p.at - 1 : k \in 1 .. Len(s) /\ s[k].at = i
    BY <1>2, <1>4 DEF Opens
  <2> HIDE DEF s
  <2>2. s[k].block = file.blocks[i] /\ i \in 1 .. N
    BY <1>0, <1>1, <2>1
  <2>3. ~OpensSeen(s, k)
    BY <1>0, <1>4, <2>1 DEF Tally
  <2>4. IsFrame(s[k].block)
    BY <1>4, <2>2 DEF Opens
  <2>5. ASSUME NEW m \in 1 .. k - 1
        PROVE  m \in 1 .. Len(s) /\ s[m].at \in 1 .. i - 1 /\ s[m].block = file.blocks[s[m].at]
    <3>1. m \in 1 .. Len(s)
      BY <1>1, <2>1
    <3>2. s[m].at < i /\ s[m].at \in 1 .. N
      BY <1>1, <2>1, <3>1
    <3>3. QED
      BY <1>0, <1>1, <2>2, <3>1, <3>2
  <2>6. CASE file.blocks[i].area # Points /\ \A m \in 1 .. i - 1 : file.blocks[m].kind # "image"
    BY <2>2, <2>3, <2>4, <2>5, <2>6 DEF OpensSeen
  <2>7. ASSUME NEW j, InForce(j, i),
               file.blocks[j].last.transparent \/ file.blocks[j].last.dispose = "background"
        PROVE  FALSE
    <3>1. j \in 1 .. N /\ j \in 1 .. i - 1 /\ file.blocks[j].kind = "control" /\ file.colours # "cut"
      BY <1>0, <2>2, <2>7 DEF InForce, Parsed
    <3>2. PICK l \in 1 .. Len(s) : s[l].at = j
      BY <1>1, <3>1
    <3>3. l \in 1 .. k - 1
      <4>1. l # k
        BY <2>1, <2>2, <3>1, <3>2
      <4>2. ASSUME l > k PROVE FALSE
        <5>1. k \in 1 .. l - 1
          BY <1>1, <2>1, <4>2
        <5>2. i < j
          BY <1>1, <2>1, <3>2, <5>1
        <5>3. QED
          BY <2>2, <3>1, <5>2
      <4>3. QED
        BY <1>1, <2>1, <4>1, <4>2
    <3>4. s[l].block = file.blocks[j]
      BY <1>1, <3>2
    <3>5. file.blocks[j].first = file.blocks[j].last
      <4>1. j \in DOMAIN file.blocks
        BY <3>1, BlocksOfFile DEF N
      <4>2. QED
        BY <3>1, <4>1 DEF Plain
    <3>6. ASSUME NEW m \in l + 1 .. k - 1 PROVE s[m].block.kind \notin {"control", "image"}
      <4>1. m \in 1 .. k - 1 /\ l \in 1 .. m - 1
        BY <1>1, <2>1, <3>3
      <4>2. s[m].at \in 1 .. i - 1 /\ s[m].block = file.blocks[s[m].at] /\ m \in 1 .. Len(s)
        BY <2>5, <4>1
      <4>3. s[m].at > j
        BY <1>1, <3>2, <4>1, <4>2
      <4>4. s[m].at \in j + 1 .. i - 1
        BY <2>2, <3>1, <4>2, <4>3
      <4>5. QED
        BY <2>7, <4>2, <4>4 DEF InForce
    <3>7. HeldFrom(s, l, k)
      BY <2>7, <3>1, <3>3, <3>4, <3>5, <3>6 DEF HeldFrom, InForce
    <3>8. QED
      BY <2>3, <2>4, <2>7, <3>4, <3>5, <3>7 DEF OpensSeen
  <2>8. QED
    BY <1>4, <2>6, <2>7 DEF Opens
<1>5. p.frames = Cardinality(frames)
  BY <1>0, <1>3 DEF Tally
<1>6. QED
  BY <1>4, <1>5

(* What one block changes in what the probe has counted.                   *)
LEMMA ProbeBlockSees ==
  ASSUME NEW p \in ProbeStates, NEW n \in Nat, NEW b, BlockOK(b), NEW q, q = ProbeBlock(p, n, b),
         p.answer = "none", q.answer \in {"none", "ok"}
  PROVE  /\ q.frames = IF IsFrame(b) THEN p.frames + 1 ELSE p.frames
         /\ b.kind # "image" => q.transparency = p.transparency
         /\ b.kind = "image" =>
              (q.transparency <=> p.transparency \/ (IsFrame(b) /\ MayShowThrough(p, b)))
         /\ b.kind \notin {"control", "image"} => q.pending = p.pending
         /\ b.kind = "control" /\ b.first # NoControl => q.pending = b.first
<1> DEFINE next == [p EXCEPT !.at = @ + 1]
<1>1. /\ next.frames = p.frames /\ next.pending = p.pending /\ next.answer = p.answer
      /\ next.transparency = p.transparency /\ next \in ProbeStates
  BY DEF ProbeStates
<1>2. CASE b.kind = "image"
  <2>1. q = ProbeImage(next, b)
    BY <1>2 DEF ProbeBlock
  <2> HIDE DEF next
  <2>2. CASE b.reads = "descriptor"
    BY <1>1, <1>2, <2>1, <2>2 DEF ProbeImage, IsFrame
  <2>3. CASE b.reads # "descriptor"
    <3>1. ~(next.frames >= MaxFrames)
      <4>1. next.frames >= MaxFrames => q = [next EXCEPT !.answer = "TooManyFrames"]
        BY <2>1, <2>3 DEF ProbeImage
      <4>2. [next EXCEPT !.answer = "TooManyFrames"].answer = "TooManyFrames"
        BY <1>1 DEF ProbeStates
      <4>3. QED
        BY <4>1, <4>2
    <3> DEFINE show == next.transparency \/ MayShowThrough(next, b)
               pend == [next.pending EXCEPT !.delay = 0, !.transparent = FALSE]
    <3>2. q = [next EXCEPT !.frames = @ + 1, !.duration = @ + next.pending.delay,
                           !.transparency = show, !.pending = pend]
      BY <2>1, <2>3, <3>1 DEF ProbeImage
    <3>3. show <=> p.transparency \/ MayShowThrough(p, b)
      BY <1>1 DEF MayShowThrough
    <3> HIDE DEF show, pend
    <3>4. q.frames = next.frames + 1 /\ q.transparency = show
      BY <1>1, <3>2 DEF ProbeStates
    <3>5. QED
      BY <1>1, <1>2, <2>3, <3>3, <3>4 DEF IsFrame
  <2>4. QED
    BY <2>2, <2>3
<1>3. CASE b.kind = "control"
  <2>1. q = ProbeControl(next, b)
    BY <1>3 DEF ProbeBlock
  <2> HIDE DEF next
  <2>2. /\ q.frames = next.frames /\ q.transparency = next.transparency
        /\ b.first # NoControl => q.pending = b.first
    BY <1>1, <2>1 DEF ProbeControl, ProbeStates
  <2>3. QED
    BY <1>1, <1>3, <2>2 DEF IsFrame
<1>4. CASE b.kind \notin {"image", "control"}
  <2>1. q = CASE b.kind = "loop" /\ b.counts -> [next EXCEPT !.repeatAt = n]
              [] b.kind = "trailer" -> [next EXCEPT !.answer = "ok"]
              [] OTHER -> next
    BY <1>4 DEF ProbeBlock
  <2> HIDE DEF next
  <2>2. q \in {[next EXCEPT !.repeatAt = n], [next EXCEPT !.answer = "ok"], next}
    <3>1. CASE b.kind = "loop" /\ b.counts
      BY <2>1, <3>1
    <3>2. CASE b.kind = "trailer"
      BY <2>1, <3>2
    <3>3. CASE ~(b.kind = "loop" /\ b.counts) /\ b.kind # "trailer"
      BY <2>1, <3>3
    <3>4. QED
      BY <3>1, <3>2, <3>3
  <2>3. q.frames = next.frames /\ q.transparency = next.transparency /\ q.pending = next.pending
    BY <1>1, <2>2 DEF ProbeStates
  <2>4. QED
    BY <1>1, <1>4, <2>3 DEF IsFrame
<1>5. QED
  BY <1>2, <1>3, <1>4

(* A step of the probe keeps the tally.                                    *)
LEMMA TallyStep ==
  ASSUME file \in Files, NEW p, ProbeFacts(p), ProbeTally(p), p.answer = "none", NEW q,
         q = IF p.at > Len(Walked(file)) THEN [p EXCEPT !.answer = "ok"]
             ELSE ProbeBlock(p, Walked(file)[p.at].at, Walked(file)[p.at].block)
  PROVE  ProbeTally(q)
<1> SUFFICES ASSUME Plain, q.answer \in {"none", "ok"} PROVE Tally(Walked(file), q)
  BY DEF ProbeTally
<1> DEFINE s == Walked(file)
           n == p.at
           N == Len(file.blocks)
           placed(m) == {s[k].at : k \in {l \in 1 .. m : IsFrame(s[l].block)}}
<1>0. Tally(s, p) /\ p \in ProbeStates /\ n \in Nat
  BY DEF ProbeTally, ProbeFacts, ProbeStates
<1>1. /\ Len(s) \in Nat /\ DOMAIN s = 1 .. Len(s)
      /\ \A k \in 1 .. Len(s) :
              /\ s[k].at \in 1 .. N /\ s[k].block \in Blocks
              /\ \A l \in 1 .. k - 1 : s[l].at < s[k].at
  BY PlainSees
<1>2. CASE n > Len(s)
  <2>1. q = [p EXCEPT !.answer = "ok"] /\ n = Len(s) + 1
    BY <1>0, <1>1, <1>2 DEF Tally
  <2>2. /\ q.at = n /\ q.frames = p.frames /\ q.pending = p.pending
        /\ q.transparency = p.transparency /\ q.answer = "ok"
    BY <1>0, <2>1 DEF ProbeStates
  <2> HIDE DEF s
  <2>3. QED
    BY <1>0, <2>1, <2>2 DEF Tally, s
<1>3. CASE ~(n > Len(s))
  <2> DEFINE b == s[n].block
             i == s[n].at
  <2>1. n \in 1 .. Len(s) /\ 1 .. n + 1 - 1 = 1 .. n
    BY <1>0, <1>1, <1>3 DEF Tally
  <2>2. i \in Nat /\ BlockOK(b) /\ q = ProbeBlock(p, i, b) /\ i \in 1 .. N
    BY <1>1, <1>3, <2>1, BlockAssumption
  <2> HIDE DEF b, i
  <2>3. /\ q \in ProbeStates /\ q.at = n + 1
        /\ b.kind = "trailer" => q.answer = "ok"
        /\ b.kind # "trailer" => q.answer # "ok"
    <3>1. /\ q \in ProbeStates /\ q.at = n + 1
          /\ b.kind = "trailer" => q.answer = "ok"
          /\ b.kind # "trailer" => q.answer \in {"none", "TooManyFrames"}
      <4>1. p \in ProbeStates /\ p.answer = "none"
        BY <1>0
      <4> HIDE DEF n
      <4>2. /\ q \in ProbeStates /\ q.at = p.at + 1
            /\ b.kind = "trailer" => q.answer = "ok"
            /\ b.kind # "trailer" => q.answer \in {"none", "TooManyFrames"}
        BY ONLY <4>1, <2>2, ProbeBlockType
      <4>3. QED
        BY <4>2 DEF n
    <3>2. QED
      BY <3>1
  <2>4. /\ q.frames = IF IsFrame(b) THEN p.frames + 1 ELSE p.frames
        /\ b.kind # "image" => q.transparency = p.transparency
        /\ b.kind = "image" =>
              (q.transparency <=> p.transparency \/ (IsFrame(b) /\ MayShowThrough(p, b)))
        /\ b.kind \notin {"control", "image"} => q.pending = p.pending
        /\ b.kind = "control" /\ b.first # NoControl => q.pending = b.first
    <3>1. p \in ProbeStates /\ p.answer = "none" /\ q.answer \in {"none", "ok"}
      BY <1>0
    <3>2. QED
      BY ONLY <3>1, <2>2, ProbeBlockSees
  <2>5. q.frames = Cardinality(placed(n))
    <3>1. p.frames = Cardinality(placed(n - 1))
      BY <1>0 DEF Tally
    <3>2. placed(n) = IF IsFrame(b) THEN placed(n - 1) \cup {i} ELSE placed(n - 1)
      <4> HIDE DEF s, n
      <4>1. \A l \in 1 .. n : l = n \/ l \in 1 .. n - 1
        BY <2>1
      <4>2. \A l \in 1 .. n - 1 : l \in 1 .. n
        BY <2>1
      <4>3. n \in 1 .. n
        BY <2>1
      <4>4. QED
        BY <4>1, <4>2, <4>3 DEF b, i
    <3>3. i \notin placed(n - 1)
      <4>1. \A k \in 1 .. n - 1 : s[k].at < i /\ s[k].at \in Nat
        <5>1. \A k \in 1 .. n - 1 : k \in 1 .. Len(s)
          BY <1>1, <2>1
        <5>2. QED
          BY <1>1, <2>1, <5>1 DEF i
      <4> HIDE DEF s, n
      <4>2. QED
        BY <2>2, <4>1
    <3>4. IsFiniteSet(placed(n - 1))
      <4>1. placed(n - 1) \subseteq 1 .. N
        <5>1. \A k \in 1 .. n - 1 : k \in 1 .. Len(s)
          BY <1>1, <2>1
        <5> HIDE DEF s, n
        <5>2. QED
          BY <1>1, <5>1
      <4>2. N \in Nat
        BY BlocksOfFile
      <4> HIDE DEF placed, N
      <4>3. IsFiniteSet(1 .. N)
        BY ONLY <4>2, FS_Interval
      <4>4. QED
        BY ONLY <4>1, <4>3, FS_Subset
    <3> DEFINE old == placed(n - 1)
    <3> HIDE DEF placed, old
    <3>5. Cardinality(old \cup {i}) = Cardinality(old) + 1
      BY <3>3, <3>4, FS_AddElement DEF old
    <3>6. QED
      BY <2>4, <3>1, <3>2, <3>5 DEF old
  <2> HIDE DEF placed, s, n
  <2>6. ASSUME NEW l, HeldFrom(s, l, n + 1) PROVE q.pending = s[l].block.first
    <3>1. l \in 1 .. n /\ s[l].block.kind = "control" /\ s[l].block.first # NoControl
      BY <2>1, <2>6 DEF HeldFrom
    <3>2. CASE l = n
      BY <2>4, <3>1, <3>2 DEF b
    <3>3. CASE l # n
      <4>1. l \in 1 .. n - 1 /\ n \in l + 1 .. n + 1 - 1
        BY <2>1, <3>1, <3>3
      <4>2. b.kind \notin {"control", "image"}
        BY <2>6, <4>1 DEF HeldFrom, b
      <4>3. \A m \in l + 1 .. n - 1 : m \in l + 1 .. n + 1 - 1
        BY <2>1, <3>1
      <4>4. HeldFrom(s, l, n)
        BY <2>6, <3>1, <4>1, <4>3 DEF HeldFrom
      <4>5. QED
        BY <1>0, <2>4, <4>2, <4>4 DEF Tally, n
    <3>4. QED
      BY <3>2, <3>3
  <2>7. ASSUME \A l \in 1 .. n : s[l].block.kind # "image" PROVE q.frames = 0
    <3>1. b.kind # "image" /\ \A l \in 1 .. n - 1 : s[l].block.kind # "image"
      BY <2>1, <2>7 DEF b
    <3>2. QED
      BY <1>0, <2>4, <3>1 DEF Tally, n, IsFrame
  <2>8. ASSUME ~q.transparency, NEW k \in 1 .. n, OpensSeen(s, k) PROVE FALSE
    <3>1. ~p.transparency
      BY <2>4, <2>8
    <3>2. k = n
      <4>1. k \notin 1 .. n - 1
        BY <1>0, <2>8, <3>1 DEF Tally, n
      <4>2. QED
        BY <2>1, <4>1
    <3>3. IsFrame(b) /\ b.kind = "image"
      BY <2>8, <3>2 DEF OpensSeen, IsFrame, b
    <3>4. ~MayShowThrough(p, b)
      BY <2>4, <2>8, <3>3
    <3>5. ASSUME NEW l, HeldFrom(s, l, n),
                 s[l].block.first.transparent \/ s[l].block.first.dispose = "background"
          PROVE  FALSE
      <4>1. p.pending = s[l].block.first
        BY <1>0, <3>5 DEF Tally, n
      <4>2. QED
        BY <3>4, <3>5, <4>1 DEF MayShowThrough
    <3>6. CASE b.area # Points /\ \A l \in 1 .. n - 1 : s[l].block.kind # "image"
      <4>1. p.frames = 0
        BY <1>0, <3>6 DEF Tally, n
      <4>2. QED
        BY <3>4, <3>6, <4>1 DEF MayShowThrough
    <3>7. QED
      BY <2>8, <3>2, <3>5, <3>6 DEF OpensSeen, b
  <2>9. ASSUME NEW k \in 1 .. n, s[k].block.kind = "trailer" PROVE q.answer = "ok" /\ k = n
    <3>1. k \notin 1 .. n - 1
      BY <1>0, <2>9 DEF Tally, n
    <3>2. k = n
      BY <2>1, <3>1
    <3>3. QED
      BY <2>3, <2>9, <3>2 DEF b
  <2>10. q.answer = "ok" => s[n].block.kind = "trailer"
    BY <2>3 DEF b
  <2>11. q.at \in 1 .. Len(s) + 1 /\ q.at - 1 = n /\ q.at > 1 /\ 1 .. q.at - 1 = 1 .. n
    BY <1>1, <2>1, <2>3
  <2>12. Tally(s, q)
    <3>1. q.frames = Cardinality({s[k].at : k \in {m \in 1 .. q.at - 1 : IsFrame(s[m].block)}})
      BY <2>5, <2>11 DEF placed
    <3>2. \A l : HeldFrom(s, l, q.at) => q.pending = s[l].block.first
      BY <2>3, <2>6
    <3>3. QED
      BY <2>7, <2>8, <2>9, <2>10, <2>11, <3>1, <3>2 DEF Tally
  <2>13. QED
    BY <2>12 DEF s
<1>4. QED
  BY <1>2, <1>3

-----------------------------------------------------------------------------
(* What the decoder has read, and what shows through.                      *)

\* A file no frame of which opens the canvas.
Closed == RestoresNothing /\ \A i \in Parsed : ~Opens(i)

\* Each of the points is where a frame delivered has an index beyond its table.
Strays(r, points) ==
  \A x \in points : \E i \in r.delivered : x \in file.blocks[i].beyond

\* The reader in front of block n of such a file.
StaysCovered(r, n) ==
  /\ Strays(r, r.clear)
  /\ r.going => /\ r.pending = NoControl \/ \E j : InForce(j, n) /\ r.pending = file.blocks[j].last
                /\ (\E m \in 1 .. n - 1 : file.blocks[m].kind = "image") => Strays(r, r.base)

\* The reader in front of block n, everything before it being read.
Reads(r, n) ==
  /\ file.screen = "ok" /\ file.colours # "cut" /\ n \in 1 .. Eof
  /\ \A j \in 1 .. n - 1 : file.blocks[j].kind # "trailer"
  /\ r.going /\ r.open
  /\ r.delivered = {j \in 1 .. n - 1 : file.blocks[j].kind = "image"}
  /\ \A j \in 1 .. n - 1 : file.blocks[j].kind = "image" => file.blocks[j].reads = "whole"

\* Every frame was delivered but one whose table is cut off.
AllRead(r) ==
  /\ file.screen = "ok" /\ file.colours # "cut"
  /\ r.delivered \subseteq {i \in Parsed : IsFrame(file.blocks[i]) /\ file.blocks[i].reads = "whole"}
  /\ \A i \in Parsed : IsFrame(file.blocks[i]) => i \in r.delivered \/ file.blocks[i].reads = "table"

(* What one block does to a reader that goes on.                           *)
LEMMA ReadFields ==
  ASSUME file \in Files, NEW i \in 1 .. Len(file.blocks), NEW r \in ReaderStates, r.going,
         NEW b, b = file.blocks[i], NEW r1, r1 = Read(file, r, i)
  PROVE  /\ b.kind = "image" =>
              \/ ~r1.going /\ r1.delivered = r.delivered /\ r1.clear = r.clear
              \/ /\ r1.going /\ b.reads = "whole" /\ r1.delivered = r.delivered \cup {i}
                 /\ r1.base = Under(r, b) /\ r1.clear = r.clear \cup Shown(r, b)
                 /\ r1.pending = NoControl /\ r1.open = r.open
         /\ b.kind # "image" =>
              /\ r1.delivered = r.delivered /\ r1.clear = r.clear /\ r1.base = r.base
              /\ b.kind = "trailer" => ~r1.going
              /\ b.kind = "control" => ~r1.going \/ (b.last # NoControl /\ r1.pending = b.last)
              /\ b.kind # "control" => r1.pending = r.pending
              /\ r1.going => r1.open = r.open
         /\ b.kind \in Extensions =>
              /\ r1.header = r.header
              /\ r.header => (r1.open => r1.going)
<1>0. BlockOK(b) /\ i \in Nat
  BY BlocksOfFile
<1>1. CASE b.kind = "image"
  <2> DEFINE begun == [r EXCEPT !.header = FALSE, !.images = @ + 1,
                  !.applied = IF r.control = 0 THEN @ ELSE @ \cup {r.control},
                  !.control = 0, !.pending = NoControl,
                  !.elapsed = @ + r.pending.delay]
  <2>1. r1 = IF Refused(file, r, b) THEN [r EXCEPT !.going = FALSE, !.header = FALSE]
             ELSE IF b.reads # "whole" \/ begun.elapsed > MaxDuration
             THEN [begun EXCEPT !.going = FALSE]
             ELSE [begun EXCEPT !.delivered = @ \cup {i}, !.base = Under(r, b),
                                !.clear = @ \cup Shown(r, b)]
    BY <1>1 DEF Read, ReadImage
  <2>2. /\ begun.delivered = r.delivered /\ begun.clear = r.clear /\ begun.going = r.going
        /\ begun.open = r.open /\ begun.pending = NoControl
    BY DEF ReaderStates
  <2>8. begun \in ReaderStates
    <3> DEFINE applied == IF r.control = 0 THEN r.applied ELSE r.applied \cup {r.control}
               elapsed == r.elapsed + r.pending.delay
    <3>1. r.pending.delay \in Nat /\ NoControl \in Controls \cup {NoControl}
      BY DEF ReaderStates, Controls, NoControl
    <3>2. applied \in SUBSET Nat /\ elapsed \in Nat /\ r.images + 1 \in Nat
      BY <3>1 DEF ReaderStates
    <3>3. begun = [r EXCEPT !.header = FALSE, !.images = r.images + 1, !.applied = applied,
                     !.control = 0, !.pending = NoControl, !.elapsed = elapsed]
      OBVIOUS
    <3> HIDE DEF applied, elapsed, begun
    <3>4. QED
      BY <3>1, <3>2, <3>3 DEF ReaderStates
  <2> DEFINE open == r.clear \cup Shown(r, b)
  <2>3. r1 = IF Refused(file, r, b) THEN [r EXCEPT !.going = FALSE, !.header = FALSE]
             ELSE IF b.reads # "whole" \/ begun.elapsed > MaxDuration
             THEN [begun EXCEPT !.going = FALSE]
             ELSE [begun EXCEPT !.delivered = @ \cup {i}, !.base = Under(r, b), !.clear = open]
    <3> HIDE DEF begun
    <3>1. QED
      BY <2>1, <2>2
  <2> HIDE DEF begun, open
  <2>4. CASE Refused(file, r, b)
    BY <1>1, <2>3, <2>4 DEF ReaderStates, Extensions
  <2>5. CASE ~Refused(file, r, b) /\ (b.reads # "whole" \/ begun.elapsed > MaxDuration)
    <3>1. r1 = [begun EXCEPT !.going = FALSE]
      BY <2>3, <2>5
    <3>2. QED
      BY <1>1, <2>2, <2>8, <3>1 DEF Extensions, ReaderStates
  <2>6. CASE ~Refused(file, r, b) /\ ~(b.reads # "whole" \/ begun.elapsed > MaxDuration)
    <3>1. r1 = [begun EXCEPT !.delivered = @ \cup {i}, !.base = Under(r, b), !.clear = open]
      BY <2>3, <2>6
    <3>2. /\ r1.going = r.going /\ r1.delivered = r.delivered \cup {i} /\ r1.base = Under(r, b)
          /\ r1.clear = open /\ r1.pending = NoControl /\ r1.open = r.open
      BY <2>2, <2>8, <3>1 DEF ReaderStates
    <3>3. QED
      BY <1>1, <2>6, <3>2 DEF Extensions, open
  <2>7. QED
    BY <2>4, <2>5, <2>6
<1>2. CASE b.kind = "control"
  <2>1. r1 = IF b.whole /\ b.last # NoControl THEN [r EXCEPT !.control = i, !.pending = b.last]
             ELSE [r EXCEPT !.going = FALSE, !.open = r.open /\ ~r.header]
    BY <1>2 DEF Read, ReadControl, ReadFailure
  <2>2. CASE b.whole /\ b.last # NoControl
    BY <1>2, <2>1, <2>2 DEF ReaderStates, Extensions
  <2>3. CASE ~(b.whole /\ b.last # NoControl)
    <3>1. /\ r1.delivered = r.delivered /\ r1.clear = r.clear /\ r1.base = r.base /\ ~r1.going
          /\ r1.header = r.header /\ r1.open = (r.open /\ ~r.header)
      BY <2>1, <2>3 DEF ReaderStates
    <3>2. QED
      BY <1>2, <3>1 DEF Extensions
  <2>4. QED
    BY <2>2, <2>3
<1>3. CASE b.kind \in {"loop", "other"}
  <2>1. r1 \in {r, [r EXCEPT !.loopAt = i], [r EXCEPT !.going = FALSE, !.open = r.open /\ ~r.header]}
    BY <1>3 DEF Read, ReadLoop, ReadFailure
  <2>2. CASE r1 = r
    BY <1>3, <2>2 DEF Extensions
  <2>3. CASE r1 = [r EXCEPT !.loopAt = i]
    BY <1>3, <2>3 DEF Extensions, ReaderStates
  <2>4. CASE r1 = [r EXCEPT !.going = FALSE, !.open = r.open /\ ~r.header]
    <3>1. /\ r1.delivered = r.delivered /\ r1.clear = r.clear /\ r1.base = r.base /\ ~r1.going
          /\ r1.header = r.header /\ r1.open = (r.open /\ ~r.header) /\ r1.pending = r.pending
      BY <2>4 DEF ReaderStates
    <3>2. QED
      BY <1>3, <3>1 DEF Extensions
  <2>5. QED
    BY <2>1, <2>2, <2>3, <2>4
<1>4. CASE b.kind \in {"unknown", "trailer"}
  <2>1. r1 = IF b.kind = "unknown" THEN [r EXCEPT !.header = FALSE, !.going = b.whole]
             ELSE [r EXCEPT !.going = FALSE, !.header = FALSE]
    BY <1>4 DEF Read
  <2>2. /\ r1.delivered = r.delivered /\ r1.clear = r.clear /\ r1.base = r.base
        /\ r1.pending = r.pending /\ r1.open = r.open
        /\ b.kind = "trailer" => ~r1.going
    BY <1>4, <2>1 DEF ReaderStates
  <2>3. QED
    BY <1>4, <2>2 DEF Extensions
<1>5. QED
  BY <1>0, <1>1, <1>2, <1>3, <1>4, BlockKinds

(* A decoder begins with a covered canvas.                                 *)
LEMMA StaysCoveredInit ==
  ASSUME file \in Files
  PROVE  /\ StaysCovered(ReaderInit(file), 0)
         /\ StaysCovered(ReaderInit(file), Behind)
         /\ StaysCovered(ReaderInit(file), 1)
<1> DEFINE r == ReaderInit(file)
<1>1. r.clear = {} /\ r.pending = NoControl /\ (r.going <=> file.screen = "ok" /\ file.colours # "cut")
  BY DEF ReaderInit
<1>2. r.going => Behind = 1
  BY <1>1 DEF Behind
<1> HIDE DEF r
<1>3. 1 .. 0 - 1 = {} /\ 1 .. 1 - 1 = {}
  OBVIOUS
<1>4. QED
  BY <1>1, <1>2, <1>3 DEF StaysCovered, Strays, r

(* In a file where nothing opens the canvas, no block uncovers it: a frame *)
(* is laid over all of it, or over an earlier one, and shows through only  *)
(* where its own indices are beyond its table.                             *)
LEMMA StaysCoveredStep ==
  ASSUME file \in Files, NEW i \in Parsed, NEW r \in ReaderStates, Closed, StaysCovered(r, i),
         NEW r1, r1 = Read(file, r, i)
  PROVE  StaysCovered(r1, After(i))
<1> DEFINE b == file.blocks[i]
<1>0. i \in 1 .. Len(file.blocks) /\ BlockOK(b) /\ i \in Nat
  BY BlocksOfFile, BeforeFacts
<1>1. CASE ~r.going
  <2>1. r1 = r
    BY <1>1 DEF Read
  <2>2. QED
    BY <1>1, <2>1 DEF StaysCovered
<1>2. CASE r.going /\ b.kind = "image"
  <2>1. \/ ~r1.going /\ r1.delivered = r.delivered /\ r1.clear = r.clear
        \/ /\ r1.going /\ b.reads = "whole" /\ r1.delivered = r.delivered \cup {i}
           /\ r1.base = Under(r, b) /\ r1.clear = r.clear \cup Shown(r, b)
           /\ r1.pending = NoControl
    <3> HIDE DEF b
    <3>1. r.going /\ b = file.blocks[i] /\ r1 = Read(file, r, i) /\ file \in Files
          /\ i \in 1 .. Len(file.blocks) /\ r \in ReaderStates
      BY <1>0, <1>2 DEF b
    <3>2. QED
      BY ONLY <1>2, <3>1, ReadFields
  <2>2. CASE ~r1.going /\ r1.delivered = r.delivered /\ r1.clear = r.clear
    BY <2>2 DEF StaysCovered, Strays
  <2>3. CASE /\ r1.going /\ b.reads = "whole" /\ r1.delivered = r.delivered \cup {i}
             /\ r1.base = Under(r, b) /\ r1.clear = r.clear \cup Shown(r, b)
             /\ r1.pending = NoControl
    <3>1. IsFrame(b) /\ ~Opens(i)
      BY <1>2, <2>3 DEF IsFrame, Closed
    <3>2. ~r.pending.transparent /\ r.pending.dispose \notin {"background", "previous"}
      <4>1. CASE r.pending = NoControl
        BY <4>1 DEF NoControl
      <4>2. ASSUME NEW j, InForce(j, i), r.pending = file.blocks[j].last
            PROVE  ~r.pending.transparent /\ r.pending.dispose \notin {"background", "previous"}
        <5>1. ~r.pending.transparent /\ r.pending.dispose # "background"
          BY <3>1, <4>2 DEF Opens
        <5>2. j \in DOMAIN file.blocks /\ file.blocks[j].kind = "control"
          BY <1>0, <4>2, BlocksOfFile DEF InForce
        <5>3. QED
          BY <4>2, <5>1, <5>2 DEF Closed, RestoresNothing
      <4>3. QED
        BY <1>2, <4>1, <4>2 DEF StaysCovered
    <3>3. Strays(r1, Shown(r, b))
      <4>1. Shown(r, b) = (r.base \ b.area) \cup b.beyond
        BY <3>2 DEF Shown
      <4>0. Strays(r1, b.beyond)
        BY <2>3 DEF Strays
      <4>2. CASE \A m \in 1 .. i - 1 : file.blocks[m].kind # "image"
        <5>1. b.area = Points
          BY <3>1, <4>2 DEF Opens
        <5>2. r.base \subseteq Points
          BY DEF ReaderStates
        <5>3. Shown(r, b) = b.beyond
          BY ONLY <4>1, <5>1, <5>2
        <5>4. QED
          BY <4>0, <5>3
      <4>3. CASE \E m \in 1 .. i - 1 : file.blocks[m].kind = "image"
        <5>1. Strays(r1, r.base)
          BY <1>2, <2>3, <4>3 DEF StaysCovered, Strays
        <5>2. QED
          BY <4>0, <4>1, <5>1 DEF Strays
      <4>4. QED
        BY <4>2, <4>3
    <3>4. Under(r, b) = Shown(r, b)
      BY <3>2 DEF Under
    <3>5. Strays(r1, r1.clear)
      BY <2>3, <3>3 DEF StaysCovered, Strays
    <3>6. QED
      BY <2>3, <3>3, <3>4, <3>5 DEF StaysCovered
  <2>4. QED
    BY <2>1, <2>2, <2>3
<1>3. CASE r.going /\ b.kind # "image"
  <2>1. /\ r1.delivered = r.delivered /\ r1.clear = r.clear /\ r1.base = r.base
        /\ b.kind = "trailer" => ~r1.going
        /\ b.kind = "control" => ~r1.going \/ (b.last # NoControl /\ r1.pending = b.last)
        /\ b.kind # "control" => r1.pending = r.pending
    BY <1>0, <1>3, ReadFields
  <2>2. CASE ~r1.going
    BY <2>1, <2>2 DEF StaysCovered, Strays
  <2>3. CASE r1.going
    <3>1. After(i) = i + 1
      BY <2>1, <2>3 DEF After
    <3>2. r1.pending = NoControl \/ \E j : InForce(j, i + 1) /\ r1.pending = file.blocks[j].last
      <4>1. CASE b.kind = "control"
        <5>1. InForce(i, i + 1)
          <6>1. i \in 1 .. (i + 1) - 1 /\ i + 1 .. (i + 1) - 1 = {}
            BY <1>0
          <6>2. QED
            BY <2>1, <2>3, <4>1, <6>1 DEF InForce
        <5>2. QED
          BY <2>1, <2>3, <4>1, <5>1
      <4>2. CASE b.kind # "control"
        <5>1. ASSUME NEW j, InForce(j, i) PROVE InForce(j, i + 1)
          <6>1. j \in 1 .. (i + 1) - 1
            BY <1>0, <5>1 DEF InForce
          <6>2. ASSUME NEW m \in j + 1 .. (i + 1) - 1
                PROVE  file.blocks[m].kind \notin {"control", "image"}
            <7>1. CASE m = i
              BY <1>3, <4>2, <7>1
            <7>2. CASE m # i
              <8>1. m \in j + 1 .. i - 1
                BY <1>0, <6>1, <7>2
              <8>2. QED
                BY <5>1, <8>1 DEF InForce
            <7>3. QED
              BY <7>1, <7>2
          <6>3. file.blocks[j].kind = "control" /\ file.blocks[j].last # NoControl
            BY <5>1 DEF InForce
          <6>4. QED
            BY ONLY <6>1, <6>2, <6>3 DEF InForce
        <5>2. QED
          BY <1>3, <2>1, <4>2, <5>1 DEF StaysCovered
      <4>3. QED
        BY <4>1, <4>2
    <3>3. (\E m \in 1 .. (i + 1) - 1 : file.blocks[m].kind = "image") => Strays(r1, r1.base)
      <4>1. \A m \in 1 .. (i + 1) - 1 : m = i \/ m \in 1 .. i - 1
        BY <1>0
      <4>2. QED
        BY <1>3, <2>1, <4>1 DEF StaysCovered, Strays
    <3>4. Strays(r1, r1.clear)
      BY <2>1 DEF StaysCovered, Strays
    <3>5. StaysCovered(r1, i + 1)
      BY ONLY <3>2, <3>3, <3>4 DEF StaysCovered
    <3>6. QED
      BY <3>1, <3>5
  <2>4. QED
    BY <2>2, <2>3
<1>4. QED
  BY <1>1, <1>2, <1>3

(* A decoder that reads a block and goes on has read everything before the *)
(* next; at a trailer or a cut it has read every frame.                    *)
LEMMA ReadsStep ==
  ASSUME file \in Files, NEW i \in 1 .. Len(file.blocks), NEW r \in ReaderStates, Reads(r, i),
         NEW r1, r1 = Read(file, r, i)
  PROVE  /\ r1.going => Reads(r1, i + 1)
         /\ file.blocks[i].kind = "trailer" \/ CutShort(file.blocks[i]) => AllRead(r1)
         /\ i \in Parsed /\ After(i) = IF file.blocks[i].kind = "trailer" THEN Eof ELSE i + 1
<1> DEFINE b == file.blocks[i]
           N == Len(file.blocks)
<1>0. /\ N \in Nat /\ Eof = N + 1 /\ BlockOK(b) /\ i \in Nat /\ i \in Parsed /\ r.going /\ r.open
      /\ CutOff(b) => i = N
      /\ Parsed \subseteq 1 .. N
  BY BlocksOfFile, BeforeFacts DEF Reads, Parsed, Eof
<1>1. /\ b.kind = "image" =>
              \/ ~r1.going /\ r1.delivered = r.delivered
              \/ r1.going /\ b.reads = "whole" /\ r1.delivered = r.delivered \cup {i} /\ r1.open = r.open
      /\ b.kind # "image" =>
              /\ r1.delivered = r.delivered
              /\ b.kind = "trailer" => ~r1.going
              /\ r1.going => r1.open = r.open
  <2> HIDE DEF b
  <2>1. r.going /\ b = file.blocks[i] /\ r1 = Read(file, r, i) /\ file \in Files
        /\ i \in 1 .. Len(file.blocks) /\ r \in ReaderStates
    BY <1>0 DEF b
  <2>2. QED
    BY ONLY <2>1, ReadFields
<1>2. ASSUME r1.going PROVE Reads(r1, i + 1)
  <2> HIDE DEF N
  <2>1. i + 1 \in 1 .. Eof /\ (i + 1) - 1 = i
    BY <1>0, i \in 1 .. N DEF N
  <2>2. \A j \in 1 .. i : j = i \/ j \in 1 .. i - 1
    BY <1>0
  <2>3. \A j \in 1 .. i - 1 : j \in 1 .. i
    BY <1>0
  <2>4. i \in 1 .. i
    BY <1>0
  <2>5. b.kind # "trailer" /\ (b.kind = "image" => b.reads = "whole") /\ r1.open
    BY <1>0, <1>1, <1>2
  <2>6. r1.delivered = {j \in 1 .. i : file.blocks[j].kind = "image"}
    <3>1. r1.delivered = r.delivered \cup (IF b.kind = "image" THEN {i} ELSE {})
      BY <1>1, <1>2
    <3>2. QED
      BY <2>2, <2>3, <2>4, <3>1 DEF Reads
  <2>7. QED
    BY <1>2, <2>1, <2>2, <2>5, <2>6 DEF Reads
<1>3. ASSUME b.kind = "trailer" \/ CutShort(b) PROVE AllRead(r1)
  <2>1. r1.delivered = r.delivered
    BY <1>1, <1>3 DEF CutShort
  <2>2. CutShort(b) => i = N
    BY <1>0 DEF CutShort, CutOff
  <2>3. r.delivered \subseteq {j \in Parsed : IsFrame(file.blocks[j]) /\ file.blocks[j].reads = "whole"}
    <3> SUFFICES ASSUME NEW j \in r.delivered
                 PROVE  j \in Parsed /\ IsFrame(file.blocks[j]) /\ file.blocks[j].reads = "whole"
      OBVIOUS
    <3>1. j \in 1 .. i - 1 /\ file.blocks[j].kind = "image" /\ file.blocks[j].reads = "whole"
      BY DEF Reads
    <3>2. j \in 1 .. N /\ \A m \in 1 .. j - 1 : m \in 1 .. i - 1
      BY <1>0, <3>1
    <3>3. j \in Parsed
      BY <1>0, <3>2 DEF Parsed, Reads
    <3>4. QED
      BY <3>1, <3>3 DEF IsFrame
  <2>4. ASSUME NEW j \in Parsed, IsFrame(file.blocks[j])
        PROVE  j \in r.delivered \/ file.blocks[j].reads = "table"
    <3>1. j \in 1 .. N /\ \A m \in 1 .. j - 1 : file.blocks[m].kind # "trailer"
      BY <1>0 DEF Parsed
    <3>2. CASE j < i
      <4>1. j \in 1 .. i - 1
        BY <1>0, <3>1, <3>2
      <4>2. QED
        BY <2>4, <4>1 DEF Reads, IsFrame
    <3>3. CASE j = i
      BY <1>3, <2>4, <3>3 DEF IsFrame, CutShort
    <3>4. CASE j > i
      <4>1. i \in 1 .. j - 1 /\ i # N
        BY <1>0, <3>1, <3>4
      <4>2. QED
        BY <1>3, <2>2, <3>1, <4>1
    <3>5. QED
      BY <1>0, <3>1, <3>2, <3>3, <3>4
  <2>5. QED
    BY <2>1, <2>3, <2>4 DEF AllRead, Reads
<1>4. QED
  BY <1>0, <1>2, <1>3 DEF After

(* So it has when the input ends.                                          *)
LEMMA ReadsToEnd ==
  ASSUME file \in Files, NEW r \in ReaderStates, NEW n, Reads(r, n), n > Len(file.blocks)
  PROVE  AllRead(r)
<1> DEFINE N == Len(file.blocks)
<1>0. N \in Nat /\ Eof = N + 1 /\ Parsed \subseteq 1 .. N
  BY BlocksOfFile, BeforeFacts DEF Eof
<1>1. n = N + 1 /\ n - 1 = N
  BY <1>0 DEF Reads
<1> HIDE DEF N
<1>2. 1 .. n - 1 = 1 .. N
  BY <1>1
<1>3. Parsed = 1 .. N
  <2>1. ASSUME NEW i \in 1 .. N PROVE i \in Parsed
    <3>1. \A j \in 1 .. i - 1 : j \in 1 .. n - 1
      BY <1>0, <1>1
    <3>2. QED
      BY <3>1 DEF Reads, Parsed, N
  <2>2. QED
    BY <1>0, <2>1
<1>4. /\ r.delivered = {j \in 1 .. N : file.blocks[j].kind = "image"}
      /\ \A j \in 1 .. N : file.blocks[j].kind = "image" => file.blocks[j].reads = "whole"
  BY <1>2 DEF Reads
<1>5. QED
  BY <1>3, <1>4 DEF AllRead, Reads, IsFrame

(* Where each operation stands: what the probe has counted, what the       *)
(* decoder has read, and whether its canvas can have an opening.           *)
PlayInv ==
  /\ file \in Files /\ reader \in ReaderStates /\ ProbeFacts(probe) /\ ProbeTally(probe)
  /\ op # "inventory" =>
       /\ job \in {"asked", "probe", "new"} => reader = ReaderInit(file)
       /\ job \in {"header", "frames"} => Reads(reader, at)
       /\ job = "header" => reader.header
  /\ op \in {"probe_full", "animation"} /\ result = "ok" => AllRead(reader)
  /\ job # "done" => result = "none"
  /\ Closed =>
       /\ Strays(reader, reader.clear)
       /\ op = "inventory" /\ phase = "first" => StaysCovered(reader, at)
       /\ op # "inventory" /\ job \in {"header", "frames"} => StaysCovered(reader, at)

(* The file never changes, and what is said of its frames stays true.      *)
LEMMA SameOpens ==
  ASSUME file' = file
  PROVE  /\ Closed' <=> Closed
         /\ \A r, n : StaysCovered(r, n)' <=> StaysCovered(r, n)
         /\ \A r, points : Strays(r, points)' <=> Strays(r, points)
BY DEF Closed, Opens, InForce, IsFrame, Parsed, RestoresNothing, StaysCovered, Strays

(* The same of what was read and counted.                                  *)
LEMMA SameReads ==
  ASSUME file' = file
  PROVE  /\ \A r, n : Reads(r, n)' <=> Reads(r, n)
         /\ \A r : AllRead(r)' <=> AllRead(r)
         /\ \A p : ProbeTally(p)' <=> ProbeTally(p)
         /\ \A p : ProbeFacts(p)' <=> ProbeFacts(p)
         /\ ReaderInit(file)' = ReaderInit(file)
<1>1. \A r, n : Reads(r, n)' <=> Reads(r, n)
  BY DEF Reads, Eof
<1>2. \A r : AllRead(r)' <=> AllRead(r)
  BY DEF AllRead, IsFrame, Parsed
<1>3. \A p : ProbeTally(p)' <=> ProbeTally(p)
  BY DEF ProbeTally, Plain, Walked
<1>4. QED
  BY <1>1, <1>2, <1>3, SamePasses, SameWalk

(* Every operation begins with it.                                         *)
LEMMA PlayInitInv == JobInit => PlayInv
<1> SUFFICES ASSUME JobInit PROVE PlayInv
  OBVIOUS
<1>1. /\ file \in Files /\ phase = "start" /\ reader = ReaderInit(file)
      /\ probe = ProbeInit(file) /\ job = "asked" /\ result = "none"
  BY DEF JobInit, Init
<1>2. reader \in ReaderStates /\ ProbeFacts(probe) /\ ProbeTally(probe)
  BY <1>1, InitTypes, ProbeFactsInit, TallyInit
<1>3. Strays(reader, reader.clear)
  BY <1>1 DEF ReaderInit, Strays
<1>4. QED
  BY <1>1, <1>2, <1>3 DEF PlayInv

(* No step of an operation breaks it.                                      *)
LEMMA PlayStepInv == JobInv /\ PlayInv /\ JobInv' /\ [JobNext]_<<vars, jobVars>> => PlayInv'
<1> SUFFICES ASSUME JobInv, PlayInv, JobInv', [JobNext]_<<vars, jobVars>> PROVE PlayInv'
  OBVIOUS
<1>0. file' = file
  BY DEF JobNext, Refuse, Start, StoppedOutside, WalkOn, EndWalk, JobProbe, JobProbeStopped,
         EndJobProbe, New, ReadInfo, EndInfo, ReadFrames, EndOfInput, ReadStopped, vars,
         Next, Begin, BeginStopped, WalkHeader, WalkBlock, PushCapped, PushStopped, EndFirst,
         WalkProbe, WalkProbeStopped, EndProbe, EndSecond
<1>1. /\ Closed' <=> Closed
      /\ \A r, n : StaysCovered(r, n)' <=> StaysCovered(r, n)
      /\ \A r, points : Strays(r, points)' <=> Strays(r, points)
      /\ \A r, n : Reads(r, n)' <=> Reads(r, n)
      /\ \A r : AllRead(r)' <=> AllRead(r)
      /\ \A p : ProbeTally(p)' <=> ProbeTally(p)
      /\ \A p : ProbeFacts(p)' <=> ProbeFacts(p)
      /\ ReaderInit(file)' = ReaderInit(file)
  BY <1>0, SameOpens, SameReads
<1>2. /\ file \in Files /\ reader \in ReaderStates /\ ProbeFacts(probe) /\ ProbeTally(probe)
      /\ job # "done" => result = "none"
  BY DEF PlayInv
<1> DEFINE walkVars == <<file, phase, at, walker, found, facts, loops, parts, reply, reader, probe>>
<1>3. CASE UNCHANGED <<vars, jobVars>>
  BY <1>0, <1>1, <1>3 DEF PlayInv, vars, jobVars
<1>4. CASE Refuse \/ Start \/ StoppedOutside \/ EndWalk \/ EndJobProbe \/ EndInfo \/ EndOfInput \/ ReadStopped
  <2>1. /\ at' = at /\ phase' = phase /\ reader' = reader /\ probe' = probe /\ op' = op
        /\ job # "done"
    BY <1>4 DEF Refuse, Start, StoppedOutside, EndWalk, EndJobProbe, EndInfo, EndOfInput,
                ReadStopped, ReadFailsWith, Resolves, vars
  <2>2. /\ job' \in {"header", "frames"} => job = "header"
        /\ job' # "header"
        /\ job' \in {"asked", "probe", "new"} => job \in {"asked", "probe", "new"}
        /\ job' # "done" => result' = "none"
    BY <1>2, <1>4 DEF Refuse, Start, StoppedOutside, EndWalk, EndJobProbe, EndInfo, EndOfInput,
                ReadStopped, ReadFailsWith, Resolves
  <2>3. op \in {"probe_full", "animation"} /\ result' = "ok" => AllRead(reader)
    <3>1. CASE EndOfInput
      <4>1. job = "frames" /\ at > Len(file.blocks)
        BY <3>1 DEF EndOfInput
      <4>2. op # "inventory" => Reads(reader, at)
        BY <4>1 DEF PlayInv
      <4>3. QED
        BY <1>2, <4>1, <4>2, ReadsToEnd
    <3>2. CASE ~EndOfInput /\ op \in {"probe_full", "animation"}
      <4>1. result' # "ok"
        BY <1>2, <1>4, <3>2 DEF Refuse, Start, StoppedOutside, EndWalk, EndJobProbe, EndInfo,
                ReadStopped, ReadFailsWith, Resolves, WalkAnswer, JobInv
      <4>2. QED
        BY <4>1
    <3>3. QED
      BY <3>1, <3>2
  <2>4. QED
    BY <1>0, <1>1, <1>2, <2>1, <2>2, <2>3 DEF PlayInv
<1>5. CASE WalkOn
  <2>1. job = "walk" /\ reply = "none" /\ Next /\ op' = op /\ job' = job /\ result' = result
    BY <1>5 DEF WalkOn, jobVars
  <2>2. op = "inventory" /\ WalkInv /\ WalkInv'
    BY <2>1 DEF JobInv
  <2>3. reader' \in ReaderStates /\ ProbeFacts(probe')
    BY <1>1, <2>2 DEF WalkInv
  <2>4. ProbeTally(probe')
    <3>1. CASE WalkProbe
      BY <1>2, <3>1, TallyStep DEF WalkProbe, ProbeStep
    <3>2. CASE WalkProbeStopped
      <4>1. probe' = [probe EXCEPT !.answer = "Cancelled"]
        BY <3>2 DEF WalkProbeStopped, ProbeStopped
      <4>2. probe'.answer = "Cancelled"
        BY <1>2, <4>1 DEF ProbeFacts, ProbeStates
      <4>3. QED
        BY <4>2 DEF ProbeTally
    <3>3. CASE ~WalkProbe /\ ~WalkProbeStopped
      <4>1. probe' = probe
        BY <2>1, <3>3 DEF Next, Begin, BeginStopped, WalkHeader, WalkBlock, PushCapped, PushStopped,
                          EndFirst, EndProbe, EndSecond
      <4>2. QED
        BY <1>2, <4>1
    <3>4. QED
      BY <3>1, <3>2, <3>3
  <2>5. ASSUME Closed
        PROVE  Strays(reader', reader'.clear) /\ (phase' = "first" => StaysCovered(reader', at'))
    <3>1. CASE WalkBlock /\ phase = "first"
      <4>1. at \in 1 .. Len(file.blocks) /\ at' = After(at) /\ reader' = Read(file, reader, at)
        BY <3>1 DEF WalkBlock, After
      <4>2. PICK t : InFirstPass(t, walker, found, loops, reader, at)
        BY <2>2, <3>1 DEF WalkInv, FirstPass
      <4>3. at \in Parsed /\ StaysCovered(reader, at)
        BY <2>2, <2>5, <3>1, <4>1, <4>2 DEF InFirstPass, PlayInv
      <4>4. StaysCovered(Read(file, reader, at), After(at))
        BY <1>2, <2>5, <4>3, StaysCoveredStep
      <4>5. StaysCovered(reader', at')
        BY <4>1, <4>4
      <4>6. QED
        BY <4>5 DEF StaysCovered
    <3>2. CASE WalkHeader /\ phase = "first"
      <4>1. at = 0 /\ at' = Behind /\ reader' = reader
        BY <3>2 DEF WalkHeader, Behind
      <4>2. reader = ReaderInit(file)
        BY <2>2, <3>2, <4>1 DEF WalkInv, FirstPass, InFirstPass
      <4>3. StaysCovered(reader', at')
        BY <1>2, <4>1, <4>2, StaysCoveredInit
      <4>4. QED
        BY <4>3 DEF StaysCovered
    <3>3. CASE Begin /\ phase = "start"
      <4>1. at' = 0 /\ reader' = reader /\ reader = ReaderInit(file)
        BY <2>2, <3>3 DEF Begin, WalkInv
      <4>2. StaysCovered(reader', at')
        BY <1>2, <4>1, StaysCoveredInit
      <4>3. QED
        BY <4>2 DEF StaysCovered
    <3>4. CASE ~(WalkBlock /\ phase = "first") /\ ~(WalkHeader /\ phase = "first") /\ ~(Begin /\ phase = "start")
      <4>1. reader' = reader /\ phase' # "first"
        BY <2>1, <3>4 DEF Next, Begin, BeginStopped, WalkHeader, WalkBlock, PushCapped, PushStopped,
               EndFirst, WalkProbe, WalkProbeStopped, EndProbe, EndSecond, Returns
      <4>2. QED
        BY <2>5, <4>1 DEF PlayInv
    <3>5. QED
      BY <3>1, <3>2, <3>3, <3>4
  <2>6. QED
    BY <1>0, <1>1, <1>2, <2>1, <2>2, <2>3, <2>4, <2>5 DEF PlayInv
<1>6. CASE JobProbe \/ JobProbeStopped
  <2>1. /\ job = "probe" /\ at' = at /\ phase' = phase /\ reader' = reader /\ op' = op /\ job' = job
        /\ result' = result
    BY <1>6 DEF JobProbe, JobProbeStopped, jobVars
  <2>2. ProbeFacts(probe') /\ ProbeTally(probe')
    <3>1. CASE JobProbe
      BY <1>2, <3>1, TallyStep, ProbeFactsStep DEF JobProbe, ProbeStep
    <3>2. CASE JobProbeStopped
      <4>1. probe' = [probe EXCEPT !.answer = "Cancelled"] /\ probe.answer = "none"
        BY <3>2 DEF JobProbeStopped, ProbeStopped
      <4>2. probe'.answer = "Cancelled"
        BY <1>2, <4>1 DEF ProbeFacts, ProbeStates
      <4>3. QED
        BY <1>2, <4>1, <4>2, ProbeFactsStopped DEF ProbeTally
    <3>3. QED
      BY <1>6, <3>1, <3>2
  <2>3. QED
    BY <1>0, <1>1, <1>2, <2>1, <2>2 DEF PlayInv
<1>7. CASE New
  <2>1. /\ job = "new" /\ phase' = phase /\ reader' = reader /\ op' = op /\ probe' = probe
        /\ result = "none"
    BY <1>2, <1>7 DEF New
  <2>2. op # "inventory" /\ reader = ReaderInit(file)
    BY <2>1 DEF JobInv, PlayInv
  <2>3. CASE reader.open
    <3>1. job' = "header" /\ at' = 1 /\ result' = "none"
      BY <1>7, <2>1, <2>3 DEF New
    <3>2. Reads(reader, 1) /\ reader.header
      <4>1. /\ file.screen = "ok" /\ file.colours # "cut" /\ reader.going /\ reader.header
            /\ reader.delivered = {}
        BY <2>2, <2>3 DEF ReaderInit
      <4>2. 1 \in 1 .. Eof /\ 1 .. 1 - 1 = {}
        BY <1>2, BlocksOfFile DEF Eof
      <4>3. QED
        BY <2>3, <4>1, <4>2 DEF Reads
    <3>3. StaysCovered(reader, 1)
      BY <1>2, <2>2, StaysCoveredInit
    <3>4. QED
      BY <1>0, <1>1, <1>2, <2>1, <2>2, <3>1, <3>2, <3>3 DEF PlayInv
  <2>4. CASE ~reader.open
    <3>1. job' = "done" /\ result' = "Failed"
      BY <1>7, <2>4 DEF New, Resolves
    <3>2. QED
      BY <1>0, <1>1, <1>2, <2>1, <2>2, <3>1 DEF PlayInv
  <2>5. QED
    BY <2>3, <2>4
<1>8. CASE ReadInfo \/ ReadFrames
  <2>1. /\ job \in {"header", "frames"} /\ at <= Len(file.blocks) /\ phase' = phase /\ op' = op
        /\ probe' = probe /\ reader' = Read(file, reader, at) /\ at' = at + 1 /\ result = "none"
        /\ job = "header" <=> ReadInfo
    BY <1>2, <1>8 DEF ReadInfo, ReadFrames, AtExtension
  <2>2. op # "inventory" /\ Reads(reader, at) /\ reader.going /\ at \in 1 .. Len(file.blocks)
    <3>1. op # "inventory" /\ Reads(reader, at)
      BY <2>1 DEF JobInv, PlayInv
    <3>2. QED
      BY <1>2, <2>1, <3>1, BlocksOfFile DEF Reads, Eof
  <2> DEFINE r1 == Read(file, reader, at)
             b == file.blocks[at]
  <2>3. /\ r1.going => Reads(r1, at + 1)
        /\ b.kind = "trailer" \/ CutShort(b) => AllRead(r1)
        /\ at \in Parsed /\ After(at) = IF b.kind = "trailer" THEN Eof ELSE at + 1
    BY <1>2, <2>2, ReadsStep
  <2>4. r1 \in ReaderStates
    BY <1>2, <2>2, ReadType
  <2>5. /\ b.kind \in Extensions /\ reader.header => r1.header /\ (r1.open => r1.going)
        /\ b.kind = "trailer" => ~r1.going
    <3>1. /\ b.kind \in Extensions => r1.header = reader.header /\ (reader.header => (r1.open => r1.going))
          /\ b.kind # "image" => (b.kind = "trailer" => ~r1.going)
      BY <1>2, <2>2, ReadFields
    <3>2. QED
      BY <3>1
  <2>6. Closed => Strays(r1, r1.clear) /\ (r1.going => StaysCovered(r1, at + 1))
    <3> SUFFICES ASSUME Closed PROVE Strays(r1, r1.clear) /\ (r1.going => StaysCovered(r1, at + 1))
      OBVIOUS
    <3>1. StaysCovered(reader, at)
      BY <2>1, <2>2 DEF PlayInv
    <3>2. StaysCovered(r1, After(at))
      BY <1>2, <2>3, <3>1, StaysCoveredStep
    <3>3. Strays(r1, r1.clear)
      BY <3>2 DEF StaysCovered
    <3>4. QED
      BY <2>3, <2>5, <3>2, <3>3
  <2> HIDE DEF r1
  <2>7. reader' = r1
    BY <2>1 DEF r1
  <2>8. CASE ReadInfo
    <3>1. /\ job = "header" /\ b.kind \in Extensions /\ reader.header
          /\ IF r1.open THEN job' = job /\ result' = result ELSE job' = "done" /\ result' = "Failed"
      BY <2>2, <2>7, <2>8 DEF ReadInfo, AtExtension, Here, Extensions, Resolves, PlayInv
    <3>2. QED
      BY <1>0, <1>1, <1>2, <2>1, <2>2, <2>3, <2>4, <2>5, <2>6, <2>7, <3>1 DEF PlayInv
  <2>9. CASE ReadFrames
    <3>1. \/ job' = "done" /\ EndsFrames(b)
          \/ job' = "done" /\ result' = "Failed"
          \/ job' = "done" /\ op = "decode"
          \/ job' = "frames" /\ r1.going /\ result' = "none"
      <4>1. job = "frames"
        BY <2>9 DEF ReadFrames
      <4>2. CASE EndsFrames(b)
        BY <2>9, <4>2 DEF ReadFrames, Here, Resolves
      <4>3. CASE ~EndsFrames(b)
        BY <2>1, <2>7, <2>9, <4>1, <4>3 DEF ReadFrames, Here, Resolves
      <4>4. QED
        BY <4>2, <4>3
    <3>2. EndsFrames(b) => AllRead(r1)
      BY <2>3 DEF EndsFrames
    <3>3. QED
      BY <1>0, <1>1, <1>2, <2>1, <2>2, <2>3, <2>4, <2>6, <2>7, <3>1, <3>2 DEF PlayInv
  <2>10. QED
    BY <1>8, <2>8, <2>9
<1>9. QED
  BY <1>3, <1>4, <1>5, <1>6, <1>7, <1>8 DEF JobNext

(* So it holds throughout.                                                 *)
LEMMA PlayInvIsKept == JobSpec => []PlayInv
<1>1. JobInit => PlayInv
  BY PlayInitInv
<1>2. JobInv /\ PlayInv /\ JobInv' /\ [JobNext]_<<vars, jobVars>> => PlayInv'
  BY PlayStepInv
<1>3. QED
  BY <1>1, <1>2, JobInvIsKept, PTL DEF JobSpec

(* A probe that answers for a plain file has counted the frames that       *)
(* decoding it delivers; only a frame cut off in its own colour table is   *)
(* counted and not delivered.                                              *)
THEOREM FramesAreAsProbed == JobSpec => []FramesAsProbed
<1>1. PlayInv => FramesAsProbed
  <2> DEFINE cut == {i \in DOMAIN file.blocks :
                       /\ file.blocks[i].kind = "image" /\ file.blocks[i].reads = "table"
                       /\ \A j \in 1 .. i - 1 : file.blocks[j].kind # "trailer"}
             frames == {i \in Parsed : IsFrame(file.blocks[i])}
  <2> SUFFICES ASSUME PlayInv, op \in {"probe_full", "animation"}, result = "ok", Plain,
                      probe.answer = "ok"
               PROVE  probe.frames = Cardinality(reader.delivered) + Cardinality(cut)
    BY DEF FramesAsProbed
  <2>1. /\ file \in Files /\ ProbeFacts(probe) /\ ProbeTally(probe) /\ AllRead(reader)
    BY DEF PlayInv
  <2>2. probe.frames = Cardinality(frames)
    BY <2>1, TallyVerdict
  <2>3. /\ DOMAIN file.blocks = 1 .. Len(file.blocks) /\ Parsed \subseteq 1 .. Len(file.blocks)
        /\ Len(file.blocks) \in Nat
    BY <2>1, BlocksOfFile, BeforeFacts
  <2>4. cut = {i \in Parsed : IsFrame(file.blocks[i]) /\ file.blocks[i].reads = "table"}
    BY <2>1, <2>3 DEF AllRead, Parsed, IsFrame
  <2>5. frames = reader.delivered \cup cut /\ reader.delivered \cap cut = {}
    BY <2>1, <2>4 DEF AllRead
  <2>6. IsFiniteSet(reader.delivered) /\ IsFiniteSet(cut)
    <3>1. IsFiniteSet(1 .. Len(file.blocks))
      BY <2>3, FS_Interval
    <3>2. reader.delivered \subseteq 1 .. Len(file.blocks) /\ cut \subseteq 1 .. Len(file.blocks)
      BY <2>1, <2>3 DEF AllRead
    <3> HIDE DEF cut
    <3>3. QED
      BY ONLY <3>1, <3>2, FS_Subset
  <2> DEFINE d == reader.delivered
  <2> HIDE DEF cut, frames, d
  <2>7. Cardinality(d \cup cut) = Cardinality(d) + Cardinality(cut) - Cardinality(d \cap cut)
    <3>1. IsFiniteSet(d) /\ IsFiniteSet(cut)
      BY <2>6 DEF d
    <3>2. QED
      BY ONLY <3>1, FS_Union
  <2>8. d \cap cut = {} /\ Cardinality({}) = 0 /\ Cardinality(d) \in Nat /\ Cardinality(cut) \in Nat
    <3>1. Cardinality(d) \in Nat /\ Cardinality(cut) \in Nat
      BY <2>6, FS_CardinalityType DEF d
    <3>2. QED
      BY <2>5, <3>1, FS_EmptySet DEF d
  <2>9. frames = d \cup cut
    BY <2>5 DEF d
  <2>10. Cardinality(d \cap cut) = 0
    BY <2>8
  <2>11. probe.frames = Cardinality(d) + Cardinality(cut)
    BY <2>2, <2>7, <2>8, <2>9, <2>10
  <2>12. QED
    BY <2>11 DEF d
<1>2. QED
  BY <1>1, PlayInvIsKept, PTL

(* When the probe finds no transparency in a plain file that restores      *)
(* nothing, no frame that the decoder delivers shows through but where one *)
(* has an index beyond its colour table, for every file.                   *)
THEOREM OpaqueHolds == JobSpec => []OpaqueUnlessRestored
<1>1. PlayInv => OpaqueUnlessRestored
  <2> SUFFICES ASSUME PlayInv, ~HasAlpha, Plain, RestoresNothing PROVE Strays(reader, reader.clear)
    BY DEF OpaqueUnlessRestored, Strays
  <2>1. probe.answer = "ok" /\ ~probe.transparency
    BY DEF HasAlpha
  <2>2. file \in Files /\ ProbeFacts(probe) /\ ProbeTally(probe)
    BY DEF PlayInv
  <2>3. \A i \in Parsed : ~Opens(i)
    BY <2>1, <2>2, TallyVerdict
  <2>4. QED
    BY <2>3 DEF Closed, PlayInv
<1>2. QED
  BY <1>1, PlayInvIsKept, PTL
=============================================================================
