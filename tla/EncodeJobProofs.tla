---------------------------- MODULE EncodeJobProofs ----------------------------
(***************************************************************************)
(* What holds of the encoders from their settings to what a viewer sees,   *)
(* whatever the settings, the quantizers, the limits, the canvases and the *)
(* size of a table.  Three results, each with an invariant of its own: a   *)
(* job does what it was asked, since limits are looked at before an        *)
(* encoder is made, in steps that lie long before the file is; indices     *)
(* stay in their tables; and a viewer sees what was given, in colour where *)
(* the colours fit, and in what is transparent even where they do not.     *)
(***************************************************************************)
EXTENDS EncodeJob, DifferencingProofs, SequenceTheorems, TLAPS

\* The job that is there, if it is, and when.
JobKept ==
  /\ job # <<>> => \E j \in Jobs : job = <<j>>
  /\ pc = "settings" => job = <<>>
  /\ pc = "job" => job # <<>>
  /\ pc \in {"settings", "job"} => result = "none" /\ at = 0 /\ out = <<>>
  /\ pc # "done" => result = "none"

\* Frames are counted as they are written.
Counted ==
  /\ \E S : out \in Seq(S)
  /\ at \in Nat /\ Len(out) = at

\* An encoder that a job has made is for one image, within its limits.
MadeWithin ==
  job # <<>> /\ (pc \in {"build", "frames"} \/ result = "file") =>
    /\ Within(Merged(job[1].limits))
    /\ Len(inputs) = 1 /\ at <= 1

\* An animation has the repeat its job asked for.
RepeatsAsAsked ==
  result = "animation" => /\ job # <<>>
                          /\ repeat = <<RepeatFor(settings, job[1].plays)>>

JobInv == JobKept /\ Counted /\ MadeWithin /\ RepeatsAsAsked

-----------------------------------------------------------------------------
(* Plays survive the way through a file: repeats are one less, and none is  *)
(* written for a single play.                                               *)
LEMMA PlaysSurvive ==
  ASSUME NEW s, NEW n \in Nat
  PROVE  TotalPlays(Extension(RepeatFor(s, n))) = n
<1>1. CASE n = 0
  <2>1. RepeatFor(s, n) = Infinite
    BY <1>1 DEF RepeatFor, Unset, None
  <2>2. Extension(Infinite) = 0
    BY DEF Extension, Infinite
  <2>3. QED
    BY <1>1, <2>1, <2>2 DEF TotalPlays, None
<1>2. CASE n = 1
  <2>1. RepeatFor(s, n) = Once
    BY <1>2 DEF RepeatFor, Unset, None
  <2>2. Extension(Once) = None
    BY DEF Extension, Once
  <2>3. QED
    BY <1>2, <2>1, <2>2 DEF TotalPlays
<1>3. CASE n \notin {0, 1}
  <2>1. RepeatFor(s, n) = Count(n - 1)
    BY <1>3 DEF RepeatFor, Unset, None
  <2>2. n - 1 > 0 /\ n - 1 \in Nat
    BY <1>3
  <2>3. Extension(Count(n - 1)) = n - 1
    BY <2>2 DEF Extension, Count
  <2>4. QED
    BY <2>1, <2>2, <2>3 DEF TotalPlays, None
<1>4. QED
  BY <1>1, <1>2, <1>3

LEMMA JobInitInv == SetupInit => JobInv
<1> SUFFICES ASSUME SetupInit PROVE JobInv
  OBVIOUS
<1>1. /\ job = <<>> /\ at = 0 /\ out = <<>> /\ result = "none"
      /\ pc \in {"build", "frames", "settings"}
  BY DEF Init, JobInit, SetupInit
<1>2. Counted
  <2>1. out \in Seq({})
    BY <1>1, EmptySeq
  <2>2. Len(out) = 0
    BY <1>1, EmptySeq
  <2>3. QED
    BY <1>1, <2>1, <2>2 DEF Counted
<1>3. QED
  BY <1>1, <1>2 DEF JobInv, JobKept, MadeWithin, RepeatsAsAsked

(* The calls before an encoder is there.                                    *)
LEMMA SetupKeepsInv ==
  ASSUME JobInv, Change \/ MakeJob \/ FromMetadata \/ Refuse \/ StartAnimation
  PROVE  JobInv'
<1>1. JobKept /\ Counted /\ MadeWithin /\ RepeatsAsAsked
  BY DEF JobInv
<1>2. at' = at /\ out' = out
  BY DEF Change, MakeJob, FromMetadata, Begin, Refuse, StartAnimation, vars
<1>3. Counted'
  BY <1>1, <1>2 DEF Counted
<1>4. CASE Change
  BY <1>1, <1>3, <1>4 DEF Change, vars, JobInv, JobKept, MadeWithin, RepeatsAsAsked
<1>5. CASE MakeJob
  <2>1. /\ \E j \in Jobs : job' = <<j>>
        /\ pc' = "job" /\ result' = "none" /\ at' = 0 /\ out' = <<>>
    BY <1>1, <1>5 DEF MakeJob, JobKept
  <2>2. job' # <<>>
    BY <2>1
  <2>3. QED
    BY <1>3, <2>1, <2>2 DEF JobInv, JobKept, MadeWithin, RepeatsAsAsked
<1>6. CASE FromMetadata
  <2>1. /\ job' = <<>> /\ pc' \in {"build", "frames"} /\ result' = "none"
    BY <1>1, <1>6 DEF FromMetadata, Begin, JobKept
  <2>2. QED
    BY <1>3, <2>1 DEF JobInv, JobKept, MadeWithin, RepeatsAsAsked
<1>7. CASE Refuse
  BY <1>1, <1>3, <1>7 DEF Refuse, setup, JobInv, JobKept, MadeWithin, RepeatsAsAsked
<1>8. CASE StartAnimation
  <2>1. /\ job' = job /\ job # <<>> /\ settings' = settings
        /\ pc' = "done" /\ result' = "animation"
        /\ repeat' = <<RepeatFor(settings, job[1].plays)>>
    BY <1>1, <1>8 DEF StartAnimation, JobKept
  <2>2. JobKept' /\ MadeWithin'
    BY <1>1, <2>1 DEF JobKept, MadeWithin
  <2>3. RepeatsAsAsked'
    BY <2>1 DEF RepeatsAsAsked, RepeatFor
  <2>4. QED
    BY <1>3, <2>2, <2>3 DEF JobInv
<1>9. QED
  BY <1>4, <1>5, <1>6, <1>7, <1>8

LEMMA StillKeepsInv ==
  ASSUME JobInv, NEW s \in Sources, EncodeStill(s)
  PROVE  JobInv'
<1>1. JobKept /\ Counted /\ MadeWithin /\ RepeatsAsAsked
  BY DEF JobInv
<1>2. /\ job' = job /\ job # <<>> /\ at' = 0 /\ out' = <<>> /\ result' = "none"
      /\ pc' \in {"build", "frames"} /\ inputs' = <<Converted(s)>>
      /\ Within(Merged(job[1].limits)) /\ at = 0 /\ out = <<>>
  BY <1>1 DEF EncodeStill, Begin, JobKept
<1>3. Counted'
  BY <1>1, <1>2 DEF Counted
<1>4. JobKept' /\ RepeatsAsAsked'
  BY <1>1, <1>2 DEF JobKept, RepeatsAsAsked
<1>5. Within(Merged(job[1].limits))' /\ Len(inputs') = 1
  BY <1>2 DEF Within, Merged
<1>6. MadeWithin'
  BY <1>2, <1>5 DEF MadeWithin
<1>7. QED
  BY <1>3, <1>4, <1>6 DEF JobInv

(* A frame more is one of those the encoder was given.                      *)
LEMMA EncodeKeepsInv ==
  ASSUME JobInv, Encode
  PROVE  JobInv'
<1>1. JobKept /\ Counted /\ MadeWithin /\ RepeatsAsAsked
  BY DEF JobInv
<1>2. /\ pc \in {"build", "frames"} /\ result = "none"
      /\ job' = job /\ settings' = settings /\ repeat' = repeat
  BY <1>1 DEF Encode, setup, JobKept
<1>3. inputs' = inputs
  BY DEF Encode, Next, BuildPalette, WriteFrame, Seal, Fail
<1>4. ASSUME job # <<>>
      PROVE  /\ Within(Merged(job[1].limits)) /\ Within(Merged(job[1].limits))'
             /\ Len(inputs) = 1 /\ at <= 1
  BY <1>1, <1>2, <1>4 DEF MadeWithin, Within, Merged
<1>5. CASE WriteFrame
  <2>1. /\ at < Len(inputs) /\ at' = at + 1 /\ pc' = pc /\ result' = result
        /\ \E g : out' = Append(out, g)
    BY <1>5 DEF WriteFrame
  <2>2. PICK S : out \in Seq(S)
    BY <1>1 DEF Counted
  <2>3. PICK g : out' = Append(out, g)
    BY <2>1
  <2>4. out \in Seq(S \cup {g}) /\ g \in S \cup {g}
    BY <2>2
  <2>5. out' \in Seq(S \cup {g}) /\ Len(out') = Len(out) + 1
    BY <2>3, <2>4
  <2>6. Counted'
    BY <1>1, <2>1, <2>5 DEF Counted
  <2>7. MadeWithin'
    <3>1. job # <<>> => at' <= 1
      BY <1>1, <1>4, <2>1 DEF Counted
    <3>2. QED
      BY <1>2, <1>3, <1>4, <3>1 DEF MadeWithin
  <2>8. JobKept' /\ RepeatsAsAsked'
    BY <1>1, <1>2, <2>1 DEF JobKept, RepeatsAsAsked
  <2>9. QED
    BY <2>6, <2>7, <2>8 DEF JobInv
<1>6. CASE BuildPalette \/ Seal \/ Fail
  <2>1. /\ at' = at /\ out' = out /\ result' \in {"none", "file", "failed"}
        /\ pc' \in {"frames", "done"} /\ (pc' # "done" => result' = "none")
    BY <1>2, <1>6 DEF BuildPalette, Seal, Fail
  <2>2. Counted'
    BY <1>1, <2>1 DEF Counted
  <2>3. MadeWithin'
    BY <1>2, <1>3, <1>4, <2>1 DEF MadeWithin
  <2>4. JobKept' /\ RepeatsAsAsked'
    BY <1>1, <1>2, <2>1 DEF JobKept, RepeatsAsAsked
  <2>5. QED
    BY <2>2, <2>3, <2>4 DEF JobInv
<1>7. QED
  BY <1>5, <1>6 DEF Encode, Next

LEMMA StutterKeepsInv ==
  ASSUME JobInv, UNCHANGED <<vars, setup>>
  PROVE  JobInv'
BY DEF vars, setup, JobInv, JobKept, Counted, MadeWithin, RepeatsAsAsked, RepeatFor,
       Within, Merged

LEMMA NextKeepsInv == JobInv /\ [EncodeJobNext]_<<vars, setup>> => JobInv'
BY SetupKeepsInv, StillKeepsInv, EncodeKeepsInv, StutterKeepsInv DEF EncodeJobNext

-----------------------------------------------------------------------------
(* The invariant is what was asked.                                         *)
LEMMA InvIsAsAsked == JobInv => JobAsAsked
<1> SUFFICES ASSUME JobInv PROVE JobAsAsked
  OBVIOUS
<1>1. JobKept /\ Counted /\ MadeWithin /\ RepeatsAsAsked
  BY DEF JobInv
<1>2. PlaysAsAsked
  <2> SUFFICES ASSUME result = "animation", job[1].plays \in Nat
               PROVE  TotalPlays(Extension(repeat[1])) = job[1].plays
    BY DEF PlaysAsAsked
  <2>1. repeat[1] = RepeatFor(settings, job[1].plays)
    BY <1>1 DEF RepeatsAsAsked
  <2>2. QED
    BY <2>1, PlaysSurvive
<1>3. StillWithinLimits
  <2> SUFFICES ASSUME result = "file", job # <<>>, NEW r \in Resources
               PROVE  LET most == IF job[1].limits[r] = None THEN Defaults[r]
                                  ELSE job[1].limits[r]
                          need == CASE r = "pixels" -> Cardinality(Points)
                                    [] r = "memory" -> Bytes4
                                    [] r = "frames" -> Len(out)
                      IN need <= most
    BY DEF StillWithinLimits
  <2> DEFINE limits == job[1].limits
             merged == Merged(limits)
  <2>1. job[1] \in Jobs
    BY <1>1 DEF JobKept
  <2>2. limits \in [Resources -> Nat \cup {None}] /\ Defaults \in [Resources -> Nat]
    BY <2>1, EncodeJobAssumption
  <2>3. merged = [x \in Resources |-> IF limits[x] = None THEN Defaults[x] ELSE limits[x]]
    BY DEF Merged
  <2>4. Within(merged) /\ Len(out) <= 1 /\ Len(out) \in Nat
    BY <1>1 DEF MadeWithin, Counted
  <2> HIDE DEF limits
  <2>5. \A x \in Resources : merged[x] \in Nat /\ merged[x] # None
    BY <2>2, <2>3 DEF None
  <2> HIDE DEF merged
  <2>6. /\ Cardinality(Points) <= merged["pixels"]
        /\ Bytes4 <= merged["memory"]
        /\ merged["frames"] > 0 /\ merged["frames"] \in Nat
    BY <2>4, <2>5 DEF Within, Resources
  <2>7. Len(out) <= merged["frames"]
    BY <2>4, <2>6
  <2>8. r \in {"pixels", "memory", "frames"}
    BY DEF Resources
  <2>9. merged[r] = IF limits[r] = None THEN Defaults[r] ELSE limits[r]
    BY <2>3
  <2>10. QED
    BY <2>6, <2>7, <2>8, <2>9 DEF limits
<1>4. QED
  BY <1>2, <1>3 DEF JobAsAsked

(* Whatever calls set an encoder up, an animation plays as often as was     *)
(* asked and a still file is within the limits of its job                   *)
(* (animation_frame_encoder, merge_resource_limits, do_encode).             *)
THEOREM JobsDoAsAsked == EncodeJobSpec => []JobAsAsked
<1>1. EncodeJobSpec => []JobInv
  BY JobInitInv, NextKeepsInv, PTL DEF EncodeJobSpec
<1>2. QED
  BY <1>1, InvIsAsAsked, PTL

-----------------------------------------------------------------------------
(* Indices and their tables: from what a list of entries is, through each   *)
(* backend's frames and palettes, to the frames that are written.           *)

(* Sequences of anything.                                                   *)
Listed(s) == /\ Len(s) \in Nat
             /\ DOMAIN s = 1 .. Len(s)
             /\ \E S : s \in Seq(S)

LEMMA SeqIsListed ==
  ASSUME NEW S, NEW s \in Seq(S)
  PROVE  Listed(s)
BY DEF Listed

LEMMA FunctionIsListed ==
  ASSUME NEW n \in Nat, NEW f, DOMAIN f = 1 .. n, f = [i \in 1 .. n |-> f[i]]
  PROVE  Listed(f) /\ Len(f) = n
<1> DEFINE S == {f[i] : i \in 1 .. n}
<1>1. f \in [1 .. n -> S]
  OBVIOUS
<1>2. f \in Seq(S)
  BY <1>1
<1>3. Len(f) = n
  BY <1>2
<1>4. QED
  BY <1>2, <1>3, SeqIsListed

(* What a set is listed as.                                                 *)
LEMMA SetIsListed ==
  ASSUME NEW S, IsFiniteSet(S)
  PROVE  /\ Listed(SetToSeq(S)) /\ Len(SetToSeq(S)) = Cardinality(S)
         /\ SetToSeq(S) \in [1 .. Cardinality(S) -> S]
<1> DEFINE n == Cardinality(S)
<1>1. n \in Nat /\ ExistsBijection(1 .. n, S)
  BY FS_CardinalityType
<1>2. PICK f : f \in Bijection(1 .. n, S)
  BY <1>1 DEF ExistsBijection
<1>3. f \in [1 .. n -> S] /\ IsInjective(f)
  BY <1>2 DEF Bijection, Injection
<1>4. SetToSeq(S) \in [1 .. n -> S]
  BY <1>3 DEF SetToSeq
<1>5. QED
  BY <1>1, <1>4, FunctionIsListed

(* What an entry's own index is: one of the palette, or none.               *)
LEMMA OwnIsIndex ==
  ASSUME NEW e, Listed(e)
  PROVE  /\ Own(e) \in Indices(e) \cup {None}
         /\ Own(e) # None => e[Own(e) + 1] = Transparent
<1> DEFINE I == {i \in 1 .. Len(e) : e[i] = Transparent}
<1>1. Own(e) = (IF I # {} THEN Min(I) ELSE 0) - 1
  BY DEF Own, SelectInSeq
<1>2. CASE I = {}
  BY <1>1, <1>2 DEF None
<1>3. CASE I # {}
  <2>1. I \subseteq Nat /\ Len(e) \in Nat
    BY DEF Listed
  <2>2. Min(I) \in I
    BY <1>3, <2>1, MinIsLeast
  <2>3. Min(I) \in 1 .. Len(e) /\ e[Min(I)] = Transparent
    BY <2>2
  <2>4. Own(e) = Min(I) - 1
    BY <1>1, <1>3
  <2>5. QED
    BY <2>1, <2>3, <2>4 DEF Indices
<1>4. QED
  BY <1>2, <1>3

LEMMA BytesAsLong ==
  ASSUME NEW e, Listed(e)
  PROVE  Listed(Bytes(e)) /\ Len(Bytes(e)) = Len(e)
<1>1. DOMAIN Bytes(e) = 1 .. Len(e) /\ Len(e) \in Nat
  BY DEF Bytes, Listed
<1>2. Bytes(e) = [i \in 1 .. Len(e) |-> Bytes(e)[i]]
  BY DEF Bytes, Listed
<1>3. QED
  BY <1>1, <1>2, FunctionIsListed

LEMMA AppendedAsLong ==
  ASSUME NEW s, Listed(s), NEW x
  PROVE  Listed(Append(s, x)) /\ Len(Append(s, x)) = Len(s) + 1
<1>1. PICK S : s \in Seq(S)
  BY DEF Listed
<1>2. s \in Seq(S \cup {x}) /\ x \in S \cup {x}
  BY <1>1
<1>3. Append(s, x) \in Seq(S \cup {x}) /\ Len(Append(s, x)) = Len(s) + 1
  BY <1>2
<1>4. QED
  BY <1>3, SeqIsListed

(* A palette for some values is a list of some of them, no longer than      *)
(* asked.                                                                   *)
LEMMA PaletteFits ==
  ASSUME NEW values, IsFiniteSet(values), NEW size \in Nat, NEW e \in Palettes(values, size)
  PROVE  Listed(e) /\ Len(e) <= size
<1>1. PICK s \in SUBSET values : e = SetToSeq(s) /\ Cardinality(s) <= size
  <2>1. CASE Cardinality(values) <= size
    BY <2>1 DEF Palettes
  <2>2. CASE ~(Cardinality(values) <= size)
    <3>1. PICK s \in kSubset(size, values) : e = SetToSeq(s)
      BY <2>2 DEF Palettes
    <3>2. s \in SUBSET values /\ Cardinality(s) = size
      BY <3>1 DEF kSubset
    <3>3. QED
      BY <3>1, <3>2
  <2>3. QED
    BY <2>1, <2>2
<1>2. IsFiniteSet(s)
  BY ONLY <1>1, FS_Subset, IsFiniteSet(values)
<1>3. QED
  BY <1>1, <1>2, SetIsListed

(* A quantized image stays in its table.                                    *)
InTable(index, table) == Values(index) \subseteq Indices(table)

Declares(transparent, table) == transparent # None => transparent \in Indices(table)

Fitting(q) ==
  /\ Listed(q.table) /\ Len(q.table) <= TableSize
  /\ InTable(q.index, q.table)
  /\ Declares(q.transparent, q.table)

\* A palette that is kept: what is searched is in its table.
FittingShared(s) ==
  /\ Listed(s.entries) /\ Listed(s.table)
  /\ Len(s.entries) <= Len(s.table) /\ Len(s.table) <= TableSize
  /\ Declares(s.slot, s.table)

LEMMA IndicesGrow ==
  ASSUME NEW s, NEW t, Listed(s), Listed(t), Len(s) <= Len(t)
  PROVE  Indices(s) \subseteq Indices(t)
BY DEF Listed, Indices

(* Pixels are mapped where the search may look, or to the hole.             *)
LEMMA MappedInTable ==
  ASSUME NEW entries, NEW image, NEW allowed, NEW hole, NEW table,
         NEW m \in Mapped(entries, image, allowed, hole),
         allowed \subseteq Indices(table), Declares(hole, table)
  PROVE  InTable(m, table) /\ DOMAIN m = DOMAIN image
<1> DEFINE searched == Values(image) \ (IF hole = None THEN {} ELSE {Transparent})
<1>1. PICK f \in Nearest(entries, searched, allowed) :
        m = [p \in DOMAIN image |-> IF image[p] \in searched THEN f[image[p]] ELSE hole]
  BY DEF Mapped
<1>2. f \in [searched -> allowed]
  BY <1>1 DEF Nearest
<1>3. DOMAIN m = DOMAIN image
  BY <1>1
<1>4. ASSUME NEW p \in DOMAIN image
      PROVE  m[p] \in Indices(table)
  <2>1. image[p] \in Values(image)
    BY DEF Values
  <2>2. m[p] = IF image[p] \in searched THEN f[image[p]] ELSE hole
    BY <1>1
  <2>3. CASE image[p] \in searched
    BY <1>2, <2>2, <2>3
  <2>4. CASE image[p] \notin searched
    <3>1. hole # None
      BY <2>1, <2>4
    <3>2. QED
      BY <2>2, <2>4, <3>1 DEF Declares
  <2>5. QED
    BY <2>3, <2>4
<1>5. QED
  BY <1>3, <1>4 DEF InTable, Values

(* What a palette's own index declares is in its table.                     *)
LEMMA OwnDeclares ==
  ASSUME NEW e, Listed(e), NEW table, Listed(table), Len(e) <= Len(table)
  PROVE  Declares(Own(e), table)
BY OwnIsIndex, IndicesGrow DEF Declares

(* An appended entry does not wrap around, as long as one was left free.    *)
LEMMA SlotFits ==
  ASSUME NEW e, Listed(e), Len(e) < TableSize
  PROVE  /\ FittingShared(WithSlot(e))
         /\ WithSlot(e).entries = e /\ WithSlot(e).slot = Len(e)
<1> DEFINE table == Append(Bytes(e), Black)
<1>1. Listed(table) /\ Len(table) = Len(e) + 1
  BY BytesAsLong, AppendedAsLong
<1>2. Len(e) \in Nat /\ TableSize \in Nat
  BY QuantizerAssumption DEF Listed
<1>3. Len(e) % TableSize = Len(e)
  BY <1>2
<1>4. /\ WithSlot(e).entries = e /\ WithSlot(e).table = table
      /\ WithSlot(e).slot = Len(e)
  BY <1>3 DEF WithSlot, Shared
<1> HIDE DEF table
<1>5. Len(e) \in Indices(table)
  BY <1>1, <1>2 DEF Indices
<1>6. Len(e) <= Len(table) /\ Len(table) <= TableSize
  BY <1>1, <1>2
<1>7. QED
  BY <1>1, <1>4, <1>5, <1>6 DEF FittingShared, Declares

LEMMA EntriesFit ==
  ASSUME NEW e, Listed(e), Len(e) <= TableSize,
         NEW slot, slot = None \/ slot = Own(e)
  PROVE  FittingShared(Shared(e, Bytes(e), slot))
<1>1. Listed(Bytes(e)) /\ Len(Bytes(e)) = Len(e)
  BY BytesAsLong
<1>2. Len(e) \in Nat
  BY DEF Listed
<1>3. Declares(slot, Bytes(e))
  <2>1. Len(e) <= Len(Bytes(e))
    BY <1>1, <1>2
  <2>2. Declares(Own(e), Bytes(e))
    BY <1>1, <2>1, OwnDeclares
  <2>3. QED
    BY <2>2 DEF Declares
<1>4. QED
  BY <1>1, <1>2, <1>3 DEF FittingShared, Shared

LEMMA SlotLeftFree ==
  ASSUME NEW needs
  PROVE  /\ ColoursFor(needs) \in Nat /\ ColoursFor(needs) <= TableSize
         /\ needs => ColoursFor(needs) < TableSize
BY QuantizerAssumption DEF ColoursFor

LEMMA RoomLeft ==
  ASSUME NEW e, Listed(e), NEW needs, Len(e) <= ColoursFor(needs)
  PROVE  /\ Len(e) \in Nat /\ Len(e) <= TableSize
         /\ needs => Len(e) < TableSize
<1>1. Len(e) \in Nat
  BY DEF Listed
<1> DEFINE n == Len(e)
           c == ColoursFor(needs)
<1>2. /\ n \in Nat /\ n <= c /\ c \in Nat /\ c <= TableSize /\ TableSize \in Nat
      /\ needs => c < TableSize
  BY <1>1, SlotLeftFree, QuantizerAssumption
<1> HIDE DEF n, c
<1>3. n <= TableSize /\ (needs => n < TableSize)
  BY ONLY <1>2
<1>4. QED
  BY <1>1, <1>3 DEF n

\* A frame of an image stays in its table.
FrameFits(q, image) == Fitting(q) /\ DOMAIN q.index = DOMAIN image

LEMMA QuantizedFits ==
  ASSUME NEW table, NEW m, NEW t, NEW image,
         Listed(table), Len(table) <= TableSize, InTable(m, table), Declares(t, table),
         DOMAIN m = DOMAIN image
  PROVE  FrameFits(Quantized(table, m, t), image)
BY DEF FrameFits, Fitting, Quantized

(* A frame of a palette's own entries, its own entry for transparency       *)
(* declared: quantizr, color_quant and a palette that was given.            *)
LEMMA OwnFrameFits ==
  ASSUME NEW e, Listed(e), Len(e) <= TableSize, NEW image, NEW entries,
         NEW allowed, allowed \subseteq Indices(e),
         NEW m \in Mapped(entries, image, allowed, Own(e))
  PROVE  FrameFits(Quantized(Bytes(e), m, Own(e)), image)
<1>1. Listed(Bytes(e)) /\ Len(Bytes(e)) = Len(e) /\ Len(e) \in Nat
  BY BytesAsLong DEF Listed
<1>2. Declares(Own(e), Bytes(e))
  BY <1>1, OwnDeclares
<1>3. allowed \subseteq Indices(Bytes(e))
  BY <1>1 DEF Indices
<1>4. InTable(m, Bytes(e)) /\ DOMAIN m = DOMAIN image
  BY <1>2, <1>3, MappedInTable
<1>5. Len(Bytes(e)) <= TableSize
  BY <1>1
<1>6. QED
  BY <1>1, <1>2, <1>4, <1>5, QuantizedFits

LEMMA TableSizeType == TableSize \in Nat
BY QuantizerAssumption

LEMMA ZenquantFrameFits ==
  ASSUME NEW image, IsFiniteSet(Values(image)), NEW q \in ZenquantFrame(image)
  PROVE  FrameFits(q, image)
<1>1. PICK e \in ZenquantPalettes(Values(image), TableSize) :
        \E m \in Mapped(e, image, Visible(e), Own(e)) : q = Quantized(Bytes(e), m, Own(e))
  BY DEF ZenquantFrame
<1>2. e \in Palettes(Values(image), TableSize)
  BY <1>1 DEF ZenquantPalettes
<1>3. Listed(e) /\ Len(e) <= TableSize
  BY <1>2, PaletteFits, TableSizeType
<1>4. PICK m \in Mapped(e, image, Visible(e), Own(e)) : q = Quantized(Bytes(e), m, Own(e))
  BY <1>1
<1>5. Visible(e) \subseteq Indices(e)
  BY DEF Visible
<1>6. QED
  BY <1>3, <1>4, <1>5, OwnFrameFits

LEMMA LibraryFrameFits ==
  ASSUME NEW image, IsFiniteSet(Values(image)), NEW q \in LibraryFrame(image)
  PROVE  FrameFits(q, image)
<1>1. PICK e \in Palettes(Values(image), TableSize) :
        \E m \in Mapped(e, image, Indices(e), Own(e)) : q = Quantized(Bytes(e), m, Own(e))
  BY DEF LibraryFrame
<1>2. Listed(e) /\ Len(e) <= TableSize
  BY <1>1, PaletteFits, TableSizeType
<1>3. QED
  BY <1>1, <1>2, OwnFrameFits

\* RGB values are no more than the pixels they are of.
LEMMA RgbFinite ==
  ASSUME NEW values, IsFiniteSet(values)
  PROVE  IsFiniteSet({Rgb(v) : v \in values})
<1> DEFINE T == {Rgb(v) : v \in values}
           f == [v \in values |-> Rgb(v)]
<1>1. f \in Surjection(values, T)
  BY DEF Surjection
<1> HIDE DEF f, T
<1>2. IsFiniteSet(T)
  BY ONLY <1>1, IsFiniteSet(values), FS_Surjection
<1>3. QED
  BY <1>2 DEF T

LEMMA QuantetteFrameFits ==
  ASSUME NEW image, IsFiniteSet(Values(image)), NEW q \in QuantetteFrame(image)
  PROVE  FrameFits(q, image)
<1> DEFINE seeThrough == Transparent \in Values(image)
           colours == {Rgb(v) : v \in Values(image)}
           Kept(e) == IF seeThrough THEN WithSlot(e) ELSE Shared(e, Bytes(e), None)
<1>1. PICK e \in Palettes(colours, ColoursFor(seeThrough)) :
        \E m \in Mapped(e, image, Indices(e), Kept(e).slot) :
          q = Quantized(Kept(e).table, m, Kept(e).slot)
  BY DEF QuantetteFrame
<1>2. IsFiniteSet(colours)
  BY RgbFinite
<1>3. Listed(e) /\ Len(e) <= ColoursFor(seeThrough)
  BY <1>1, <1>2, PaletteFits, SlotLeftFree
<1>4. /\ Len(e) \in Nat /\ Len(e) <= TableSize
      /\ seeThrough => Len(e) < TableSize
  BY <1>3, RoomLeft
<1>5. FittingShared(Kept(e)) /\ Kept(e).entries = e
  <2>1. CASE seeThrough
    BY <1>3, <1>4, <2>1, SlotFits
  <2>2. CASE ~seeThrough
    <3>1. FittingShared(Shared(e, Bytes(e), None))
      BY <1>3, <1>4, EntriesFit
    <3>2. Shared(e, Bytes(e), None).entries = e
      BY DEF Shared
    <3>3. QED
      BY <2>2, <3>1, <3>2
  <2>3. QED
    BY <2>1, <2>2
<1> DEFINE kept == Kept(e)
<1>6. PICK m \in Mapped(e, image, Indices(e), kept.slot) : q = Quantized(kept.table, m, kept.slot)
  BY <1>1
<1> HIDE DEF Kept, kept, seeThrough, colours
<1>7. /\ Listed(kept.table) /\ Len(e) <= Len(kept.table) /\ Len(kept.table) <= TableSize
      /\ Declares(kept.slot, kept.table)
  BY <1>5 DEF FittingShared, kept
<1>8. Indices(e) \subseteq Indices(kept.table)
  BY <1>3, <1>7, IndicesGrow
<1>9. InTable(m, kept.table) /\ DOMAIN m = DOMAIN image
  BY <1>7, <1>8, MappedInTable
<1>10. QED
  BY <1>6, <1>7, <1>9, QuantizedFits

(* A pixel that matches the background gets an index that is declared.      *)
LEMMA BackgroundFits ==
  ASSUME NEW m, NEW image, NEW behind, NEW own, NEW table,
         NEW b \in OnBackground(m, image, behind, own),
         InTable(m, table), Declares(own, table)
  PROVE  InTable(b, table) /\ DOMAIN b = DOMAIN m
<1> DEFINE matching == IF own = None \/ behind = <<>> \/ DOMAIN image # Points THEN {}
                       ELSE {p \in Points : image[p] = behind[1][p]}
<1>1. PICK s \in SUBSET matching : b = [p \in DOMAIN m |-> IF p \in s THEN own ELSE m[p]]
  BY DEF OnBackground
<1>2. s # {} => own # None
  BY <1>1
<1>3. ASSUME NEW p \in DOMAIN m PROVE b[p] \in Indices(table)
  BY <1>1, <1>2 DEF InTable, Values, Declares
<1>4. DOMAIN b = DOMAIN m
  BY <1>1
<1>5. QED
  BY <1>3, <1>4 DEF InTable, Values

LEMMA ImagequantFrameFits ==
  ASSUME NEW image, IsFiniteSet(Values(image)), NEW behind,
         NEW q \in ImagequantFrame(image, behind)
  PROVE  FrameFits(q, image)
<1> DEFINE offered == IF behind = <<>> THEN {} ELSE {Transparent}
<1> DEFINE Over(e, m) ==
             {Quantized(Bytes(e), b, Own(e)) : b \in OnBackground(m, image, behind, Own(e))}
           With(e) == UNION {Over(e, m) : m \in Mapped(e, image, Indices(e), Own(e))}
<1>1. PICK e \in Palettes(Values(image), TableSize)
                   \cup Palettes(Values(image) \cup offered, TableSize) :
        \E m \in Mapped(e, image, Indices(e), Own(e)) :
          \E b \in OnBackground(m, image, behind, Own(e)) : q = Quantized(Bytes(e), b, Own(e))
  <2>1. q \in UNION {With(e) : e \in Palettes(Values(image), TableSize)
                                    \cup Palettes(Values(image) \cup offered, TableSize)}
    BY DEF ImagequantFrame
  <2> HIDE DEF With
  <2>2. PICK e \in Palettes(Values(image), TableSize)
                     \cup Palettes(Values(image) \cup offered, TableSize) : q \in With(e)
    BY <2>1
  <2> HIDE DEF Over
  <2>3. PICK m \in Mapped(e, image, Indices(e), Own(e)) : q \in Over(e, m)
    BY <2>2 DEF With
  <2>4. \E b \in OnBackground(m, image, behind, Own(e)) : q = Quantized(Bytes(e), b, Own(e))
    BY <2>3 DEF Over
  <2>5. QED
    BY <2>2, <2>3, <2>4
<1> HIDE DEF With, Over
<1>2. IsFiniteSet(Values(image) \cup offered)
  <2>1. IsFiniteSet(offered)
    BY FS_EmptySet, FS_Singleton
  <2> HIDE DEF offered
  <2>2. QED
    BY ONLY <2>1, IsFiniteSet(Values(image)), FS_Union
<1>3. Listed(e) /\ Len(e) <= TableSize
  BY <1>1, <1>2, PaletteFits, TableSizeType
<1>4. PICK m \in Mapped(e, image, Indices(e), Own(e)) :
        \E b \in OnBackground(m, image, behind, Own(e)) : q = Quantized(Bytes(e), b, Own(e))
  BY <1>1
<1>5. FrameFits(Quantized(Bytes(e), m, Own(e)), image)
  BY <1>3, <1>4, OwnFrameFits
<1>6. /\ Listed(Bytes(e)) /\ Len(Bytes(e)) <= TableSize /\ InTable(m, Bytes(e))
      /\ Declares(Own(e), Bytes(e)) /\ DOMAIN m = DOMAIN image
  BY <1>5 DEF FrameFits, Fitting, Quantized
<1>7. PICK b \in OnBackground(m, image, behind, Own(e)) : q = Quantized(Bytes(e), b, Own(e))
  BY <1>4
<1>8. InTable(b, Bytes(e)) /\ DOMAIN b = DOMAIN m
  BY <1>6, BackgroundFits
<1>9. QED
  BY <1>6, <1>7, <1>8, QuantizedFits

(* Whatever the backend, a frame with a palette of its own fits it.         *)
LEMMA QuantizedFrameFits ==
  ASSUME NEW b, NEW image, IsFiniteSet(Values(image)), NEW behind,
         NEW q \in QuantizeFrame(b, image, behind)
  PROVE  FrameFits(q, image)
<1>1. \/ q \in ZenquantFrame(image) \/ q \in QuantetteFrame(image)
      \/ q \in ImagequantFrame(image, behind) \/ q \in LibraryFrame(image)
  BY DEF QuantizeFrame
<1>2. QED
  BY <1>1, ZenquantFrameFits, QuantetteFrameFits, ImagequantFrameFits, LibraryFrameFits

-----------------------------------------------------------------------------
(* Frames on a palette that is kept.                                        *)
LEMMA SharedFrameFits ==
  ASSUME NEW s, FittingShared(s), NEW image, NEW entries, NEW allowed, NEW hole, NEW t,
         allowed \subseteq Indices(s.entries), Declares(hole, s.table), Declares(t, s.table),
         NEW m \in Mapped(entries, image, allowed, hole)
  PROVE  FrameFits(Quantized(s.table, m, t), image)
<1>1. /\ Listed(s.table) /\ Listed(s.entries) /\ Len(s.table) <= TableSize
      /\ Len(s.entries) <= Len(s.table)
  BY DEF FittingShared
<1>2. allowed \subseteq Indices(s.table)
  BY <1>1, IndicesGrow
<1>3. InTable(m, s.table) /\ DOMAIN m = DOMAIN image
  BY <1>2, MappedInTable
<1>4. QED
  BY <1>1, <1>3, QuantizedFits

LEMMA SharedDeclares ==
  ASSUME NEW s, FittingShared(s)
  PROVE  Declares(Own(s.entries), s.table) /\ Declares(s.slot, s.table)
BY OwnDeclares DEF FittingShared

(* A slot that is declared because it is used is in the table, as what is   *)
(* used is.                                                                 *)
LEMMA UsedDeclares ==
  ASSUME NEW entries, NEW slot, NEW m, NEW image, NEW table, InTable(m, table)
  PROVE  Declares(DeclaredIfUsed(entries, slot, m, image), table)
BY DEF Declares, DeclaredIfUsed, InTable

LEMMA ZenquantRemapFits ==
  ASSUME NEW s, FittingShared(s), NEW image, IsFiniteSet(Values(image)),
         NEW q \in ZenquantRemap(s, image)
  PROVE  FrameFits(q, image)
<1> DEFINE own == Own(s.entries)
           hole == IF own # None THEN own ELSE s.slot
           told(m) == IF own # None THEN own ELSE DeclaredIfUsed(s.entries, s.slot, m, image)
<1>1. CASE Visible(s.entries) = {}
  <2>1. q \in ZenquantFrame(image)
    BY <1>1 DEF ZenquantRemap
  <2>2. QED
    BY <2>1, ZenquantFrameFits
<1>2. CASE Visible(s.entries) # {}
  <2>1. PICK m \in Mapped(s.entries, image, Visible(s.entries), hole) :
          q = Quantized(s.table, m, told(m))
    BY <1>2 DEF ZenquantRemap
  <2>2. Visible(s.entries) \subseteq Indices(s.entries)
    BY DEF Visible
  <2>3. Declares(own, s.table) /\ Declares(hole, s.table)
    BY SharedDeclares
  <2> HIDE DEF hole
  <2>4. FrameFits(Quantized(s.table, m, None), image)
    BY <2>1, <2>2, <2>3, SharedFrameFits DEF Declares
  <2>5. InTable(m, s.table)
    BY <2>4 DEF FrameFits, Fitting, Quantized
  <2>6. Declares(told(m), s.table)
    BY <2>3, <2>5, UsedDeclares
  <2> HIDE DEF told
  <2>7. QED
    BY <2>1, <2>2, <2>3, <2>6, SharedFrameFits
<1>3. QED
  BY <1>1, <1>2

LEMMA QuantetteRemapFits ==
  ASSUME NEW s, FittingShared(s), NEW image, NEW q \in QuantetteRemap(s, image)
  PROVE  FrameFits(q, image)
<1>1. PICK m \in Mapped(s.entries, image, Indices(s.entries), s.slot) :
        q = Quantized(s.table, m, DeclaredIfUsed(s.entries, s.slot, m, image))
  BY DEF QuantetteRemap
<1>2. Declares(s.slot, s.table)
  BY SharedDeclares
<1>3. FrameFits(Quantized(s.table, m, s.slot), image)
  BY <1>1, <1>2, SharedFrameFits
<1>4. InTable(m, s.table)
  BY <1>3 DEF FrameFits, Fitting, Quantized
<1>5. Declares(DeclaredIfUsed(s.entries, s.slot, m, image), s.table)
  BY <1>4, UsedDeclares
<1>6. QED
  BY <1>1, <1>2, <1>5, SharedFrameFits

LEMMA LibraryRemapFits ==
  ASSUME NEW s, FittingShared(s), NEW image, NEW q \in LibraryRemap(s, image)
  PROVE  FrameFits(q, image)
<1>1. PICK m \in Mapped(s.entries, image, Indices(s.entries), Own(s.entries)) :
        q = Quantized(s.table, m, Own(s.entries))
  BY DEF LibraryRemap
<1>2. QED
  BY <1>1, SharedDeclares, SharedFrameFits

LEMMA ImagequantRemapFits ==
  ASSUME NEW s, FittingShared(s), NEW image, NEW behind,
         NEW q \in ImagequantRemap(s, image, behind)
  PROVE  FrameFits(q, image)
<1> DEFINE own == Own(s.entries)
<1>1. PICK m \in Mapped(s.entries, image, Indices(s.entries), own) :
        \E b \in OnBackground(m, image, behind, own) : q = Quantized(s.table, b, own)
  BY DEF ImagequantRemap
<1>2. PICK b \in OnBackground(m, image, behind, own) : q = Quantized(s.table, b, own)
  BY <1>1
<1>3. FrameFits(Quantized(s.table, m, own), image)
  BY <1>1, SharedDeclares, SharedFrameFits
<1>4. InTable(m, s.table) /\ DOMAIN m = DOMAIN image
  BY <1>3 DEF FrameFits, Fitting, Quantized
<1>5. Declares(own, s.table)
  BY SharedDeclares
<1> HIDE DEF own
<1>6. InTable(b, s.table) /\ DOMAIN b = DOMAIN m
  BY <1>2, <1>4, <1>5, BackgroundFits
<1>7. Listed(s.table) /\ Len(s.table) <= TableSize
  BY DEF FittingShared
<1>8. QED
  BY <1>2, <1>4, <1>5, <1>6, <1>7, QuantizedFits

LEMMA RemappedFrameFits ==
  ASSUME NEW s, FittingShared(s), NEW image, IsFiniteSet(Values(image)), NEW b, NEW behind,
         NEW q \in RemapFrame(b, s, image, behind)
  PROVE  FrameFits(q, image)
<1>1. \/ q \in ZenquantRemap(s, image) \/ q \in QuantetteRemap(s, image)
      \/ q \in ImagequantRemap(s, image, behind) \/ q \in LibraryRemap(s, image)
  BY DEF RemapFrame
<1>2. QED
  BY <1>1, ZenquantRemapFits, QuantetteRemapFits, ImagequantRemapFits, LibraryRemapFits

LEMMA GrayFrameFits ==
  ASSUME NEW s, FittingShared(s), NEW image, NEW q \in GrayRemap(s, image)
  PROVE  FrameFits(q, image)
<1>1. PICK m \in Mapped(s.entries, image, Indices(s.entries), s.slot) :
        q = Quantized(s.table, m, s.slot)
  BY DEF GrayRemap
<1>2. QED
  BY <1>1, SharedDeclares, SharedFrameFits

(* A gray palette leaves room for the entry it reserves.                    *)
LEMMA GrayFits ==
  ASSUME NEW values, IsFiniteSet(values), NEW force, TryGray(values, force) # <<>>
  PROVE  FittingShared(TryGray(values, force)[1]) /\ Len(TryGray(values, force)) = 1
<1> DEFINE grays == values \ {Transparent}
           reserve == force \/ Transparent \in values
           entries == SetToSeq(grays)
           kept == IF reserve THEN WithSlot(entries) ELSE Shared(entries, Bytes(entries), None)
<1>1. IsFiniteSet(grays)
  BY ONLY IsFiniteSet(values), FS_Difference
<1> DEFINE refused == grays = {} \/ ~grays \subseteq Grays \/ Cardinality(grays) > ColoursFor(reserve)
<1>2. /\ TryGray(values, force) = <<[kept EXCEPT !.gray = TRUE]>>
      /\ Cardinality(grays) <= ColoursFor(reserve)
  <2>1. TryGray(values, force) = IF refused THEN <<>> ELSE <<[kept EXCEPT !.gray = TRUE]>>
    BY DEF TryGray
  <2>2. ~refused
    BY <2>1
  <2>3. Cardinality(grays) \in Nat /\ ColoursFor(reserve) \in Nat
    BY ONLY <1>1, FS_CardinalityType, SlotLeftFree
  <2>4. ~(Cardinality(grays) > ColoursFor(reserve))
    BY <2>2
  <2> HIDE DEF refused, kept, grays, reserve
  <2>5. Cardinality(grays) <= ColoursFor(reserve)
    BY <2>3, <2>4
  <2>6. QED
    BY <2>1, <2>2, <2>5
<1>3. Listed(entries) /\ Len(entries) <= ColoursFor(reserve)
  BY <1>1, <1>2, SetIsListed
<1> HIDE DEF entries, grays
<1>4. /\ Len(entries) <= TableSize
      /\ reserve => Len(entries) < TableSize
  BY <1>3, RoomLeft
<1>5. FittingShared(kept)
  <2>1. CASE reserve
    BY <1>3, <1>4, <2>1, SlotFits
  <2>2. CASE ~reserve
    BY <1>3, <1>4, <2>2, EntriesFit
  <2>3. QED
    BY <2>1, <2>2
<1>6. FittingShared([kept EXCEPT !.gray = TRUE])
  BY <1>5 DEF FittingShared
<1>7. QED
  BY <1>2, <1>6

-----------------------------------------------------------------------------
(* The shared palettes                                                      *)

LEMMA ZenquantSharedFits ==
  ASSUME NEW canvases, NEW transparency, IsFiniteSet(Sampled(canvases, None)),
         NEW s \in ZenquantShared(canvases, transparency, None)
  PROVE  FittingShared(s)
<1> DEFINE needs == NeedsTransparent(canvases, transparency)
<1>1. PICK e \in ZenquantPalettes(Sampled(canvases, None), ColoursFor(needs)) :
        s = IF needs /\ Own(e) = None THEN WithSlot(e) ELSE Shared(e, Bytes(e), Own(e))
  BY DEF ZenquantShared
<1>2. e \in Palettes(Sampled(canvases, None), ColoursFor(needs))
  BY <1>1 DEF ZenquantPalettes
<1>3. Listed(e) /\ Len(e) <= ColoursFor(needs)
  BY <1>2, PaletteFits, SlotLeftFree
<1>4. /\ Len(e) <= TableSize
      /\ needs => Len(e) < TableSize
  BY <1>3, RoomLeft
<1>5. QED
  BY <1>1, <1>3, <1>4, SlotFits, EntriesFit

LEMMA QuantetteSharedFits ==
  ASSUME NEW canvases, NEW transparency, IsFiniteSet(Sampled(canvases, None)),
         NEW s \in QuantetteShared(canvases, transparency, None)
  PROVE  FittingShared(s)
<1> DEFINE needs == NeedsTransparent(canvases, transparency)
           values == {Rgb(v) : v \in Sampled(canvases, None)}
<1>1. PICK e \in Palettes(values, ColoursFor(needs)) :
        s = IF needs THEN WithSlot(e) ELSE Shared(e, Bytes(e), None)
  BY DEF QuantetteShared
<1>2. IsFiniteSet(values)
  BY RgbFinite
<1>3. Listed(e) /\ Len(e) <= ColoursFor(needs)
  BY <1>1, <1>2, PaletteFits, SlotLeftFree
<1>4. /\ Len(e) <= TableSize
      /\ needs => Len(e) < TableSize
  BY <1>3, RoomLeft
<1>5. QED
  BY <1>1, <1>3, <1>4, SlotFits, EntriesFit

LEMMA LibrarySharedFits ==
  ASSUME NEW canvases, IsFiniteSet(Sampled(canvases, None)),
         NEW s \in LibraryShared(canvases, None)
  PROVE  FittingShared(s)
<1>1. PICK e \in Palettes(Sampled(canvases, None), TableSize) :
        s = Shared(e, Bytes(e), None)
  BY DEF LibraryShared
<1>2. Listed(e) /\ Len(e) <= TableSize
  BY <1>1, PaletteFits, TableSizeType
<1>3. QED
  BY <1>1, <1>2, EntriesFit

LEMMA SharedPaletteFits ==
  ASSUME NEW b, NEW canvases, NEW transparency, IsFiniteSet(Sampled(canvases, None)),
         NEW s \in BuildSharedPalette(b, canvases, transparency, None)
  PROVE  FittingShared(s)
<1>1. \/ s \in ZenquantShared(canvases, transparency, None)
      \/ s \in QuantetteShared(canvases, transparency, None)
      \/ s \in LibraryShared(canvases, None)
  BY DEF BuildSharedPalette
<1>2. QED
  BY <1>1, ZenquantSharedFits, QuantetteSharedFits, LibrarySharedFits

-----------------------------------------------------------------------------
(* Frames as they are written                                               *)

\* The shared palette, if there is one.
PaletteFitting == palette # <<>> => FittingShared(palette[1])

FrameFitting(g) ==
  /\ Listed(TableOf(g)) /\ Len(TableOf(g)) <= TableSize
  /\ InTable(g.index, TableOf(g)) /\ Declares(g.transparent, TableOf(g))

LEMMA NothingListed == Listed(<<>>) /\ Len(<<>>) = 0 /\ Indices(<<>>) = {}
<1>1. <<>> \in Seq({}) /\ Len(<<>>) = 0
  BY EmptySeq
<1>2. Listed(<<>>)
  BY <1>1, SeqIsListed
<1>3. 0 .. Len(<<>>) - 1 = {}
  BY <1>1
<1>4. QED
  BY <1>1, <1>2, <1>3 DEF Indices

LEMMA GlobalTableFits ==
  ASSUME PaletteFitting
  PROVE  Listed(GlobalTable) /\ Len(GlobalTable) <= TableSize
BY NothingListed, TableSizeType DEF PaletteFitting, GlobalTable, FittingShared

\* A frame that has the table it was made for, or is read with it.
LEMMA WrittenFits ==
  ASSUME PaletteFitting, NEW q, Fitting(q), NEW g,
         g.index = q.index, g.transparent = q.transparent,
         g.table = q.table \/ (g.table = <<>> /\ q.table = GlobalTable)
  PROVE  FrameFitting(g)
<1>1. CASE TableOf(g) = q.table
  BY <1>1 DEF FrameFitting, Fitting
<1>2. CASE TableOf(g) # q.table
  <2>1. q.table = <<>> /\ TableOf(g) = GlobalTable
    BY <1>2 DEF TableOf
  <2>2. Indices(q.table) = {}
    BY <2>1, NothingListed
  <2>3. Values(g.index) = {} /\ g.transparent = None
    BY <2>2 DEF Fitting, InTable, Declares
  <2>4. QED
    BY <2>1, <2>3, GlobalTableFits DEF FrameFitting, InTable, Declares
<1>3. QED
  BY <1>1, <1>2

\* A frame that is local unless its table is the shared one.
Placed(q, image) ==
  /\ FrameFits(q, image)
  /\ palette # <<>> /\ ~q.local => q.table = GlobalTable

LEMMA PlacedWith ==
  ASSUME NEW q, NEW image, FrameFits(q, image), NEW r \in BOOLEAN,
         palette # <<>> /\ ~r => q.table = GlobalTable
  PROVE  Placed(Tabled(q, r), image)
BY DEF Placed, FrameFits, Fitting, Tabled

LEMMA FramedFits ==
  ASSUME PaletteFitting, NEW q, NEW image, Placed(q, image), NEW rect
  PROVE  FrameFitting(Framed(rect, q)) /\ DOMAIN Framed(rect, q).index = DOMAIN image
<1> DEFINE g == Framed(rect, q)
<1>1. /\ g.index = q.index /\ g.transparent = q.transparent
      /\ g.table = IF palette # <<>> /\ ~q.local THEN <<>> ELSE q.table
  BY DEF Framed
<1> HIDE DEF g
<1>2. Fitting(q) /\ DOMAIN q.index = DOMAIN image
  BY DEF Placed, FrameFits
<1>3. g.table = q.table \/ (g.table = <<>> /\ q.table = GlobalTable)
  BY <1>1 DEF Placed
<1>4. FrameFitting(g)
  BY <1>1, <1>2, <1>3, WrittenFits
<1>5. QED
  BY <1>1, <1>2, <1>4 DEF g

LEMMA FreshPlaced ==
  ASSUME NEW image, IsFiniteSet(Values(image)), NEW behind, NEW q \in Fresh(image, behind)
  PROVE  Placed(q, image)
<1>1. PICK r \in QuantizeFrame(backend, image, behind) : q = Tabled(r, TRUE)
  BY DEF Fresh
<1>2. QED
  BY <1>1, QuantizedFrameFits, PlacedWith

LEMMA SharedPlaced ==
  ASSUME PaletteFitting, palette # <<>>, NEW image, IsFiniteSet(Values(image)), NEW behind,
         NEW q \in FromShared(image, behind)
  PROVE  Placed(q, image)
<1>1. CASE q \in Fresh(image, behind)
  BY <1>1, FreshPlaced
<1>2. CASE q \notin Fresh(image, behind)
  <2>1. PICK r \in GrayRemap(palette[1], image)
                   \cup RemapFrame(backend, palette[1], image, behind) :
          q = Tabled(r, r.table # palette[1].table)
    BY <1>2 DEF FromShared
  <2>2. FrameFits(r, image)
    BY GrayFrameFits, RemappedFrameFits DEF PaletteFitting
  <2>3. ~(r.table # palette[1].table) => r.table = GlobalTable
    BY DEF GlobalTable
  <2>4. QED
    BY <2>1, <2>2, <2>3, PlacedWith
<1>3. QED
  BY <1>1, <1>2

LEMMA OwnPlaced ==
  ASSUME NEW image, IsFiniteSet(Values(image)), NEW behind, NEW q \in PerFrame(image, behind)
  PROVE  Placed(q, image)
<1> DEFINE gray == IF config.lossless THEN TryGray(Values(image), FALSE) ELSE <<>>
<1>1. CASE gray = <<>>
  <2>1. q \in Fresh(image, behind)
    BY <1>1 DEF PerFrame
  <2>2. QED
    BY <2>1, FreshPlaced
<1>2. CASE gray # <<>>
  <2>1. PICK r \in GrayRemap(gray[1], image) : q = Tabled(r, TRUE)
    BY <1>2 DEF PerFrame
  <2>2. gray = TryGray(Values(image), FALSE)
    BY <1>2
  <2>3. FittingShared(gray[1])
    BY <1>2, <2>2, GrayFits
  <2> HIDE DEF gray
  <2>4. FrameFits(r, image)
    BY <2>3, GrayFrameFits
  <2>5. QED
    BY <2>1, <2>4, PlacedWith
<1>3. QED
  BY <1>1, <1>2

(* A canvas has finitely many points, so finitely many values.              *)
LEMMA PointsFinite == IsFiniteSet(Points)
<1>1. 0 \in Int /\ Width - 1 \in Int /\ Height - 1 \in Int
  BY CanvasAssumption
<1>2. IsFiniteSet(0 .. Width - 1) /\ IsFiniteSet(0 .. Height - 1)
  BY ONLY <1>1, FS_Interval
<1>3. IsFiniteSet((0 .. Width - 1) \X (0 .. Height - 1))
  BY ONLY <1>2, FS_Product
<1>4. QED
  BY <1>3 DEF Points

LEMMA ImageFinite ==
  ASSUME NEW image, image = [p \in DOMAIN image |-> image[p]], IsFiniteSet(DOMAIN image)
  PROVE  IsFiniteSet(Values(image))
<1> DEFINE D == DOMAIN image
           T == Values(image)
<1>1. image \in Surjection(D, T)
  BY DEF Surjection, Values
<1> HIDE DEF D, T
<1>2. IsFiniteSet(D)
  BY DEF D
<1>3. IsFiniteSet(T)
  BY ONLY <1>1, <1>2, FS_Surjection
<1>4. QED
  BY <1>3 DEF T

LEMMA CanvasFinite ==
  ASSUME NEW new \in [Points -> Pixel]
  PROVE  IsFiniteSet(Values(new)) /\ DOMAIN new = Points
BY PointsFinite, ImageFinite

(* What is drawn of a canvas has its values, and is all of it when there is *)
(* nothing behind.                                                          *)
LEMMA DrawnValues ==
  ASSUME NEW new \in [Points -> Pixel], NEW behind
  PROVE  /\ IsFiniteSet(Values(Drawn(new, behind).image))
         /\ behind = <<>> => Drawn(new, behind).image = new
<1>1. Undiffed(new).image = new
  BY DEF Undiffed
<1>2. ASSUME NEW old
      PROVE  Values(Marked(new, old).image) \subseteq Values(new) \cup {Transparent}
  <2> DEFINE changed == Changed(new, old)
             area == Area(DiffRect(new, old))
             drawn == [p \in area |-> IF p \in changed THEN IndexOf(new[p]) ELSE Skip]
  <2>1. DiffFrame(new, old) = [rect |-> DiffRect(new, old), image |-> drawn]
    BY DEF DiffFrame
  <2>2. Marked(new, old).image =
          [p \in area |-> IF drawn[p] = Skip THEN Transparent ELSE drawn[p]]
    BY <2>1 DEF Marked
  <2>3. changed \subseteq Points
    BY DEF Changed
  <2> HIDE DEF area
  <2>4. ASSUME NEW p \in area
        PROVE  (IF drawn[p] = Skip THEN Transparent ELSE drawn[p]) \in Values(new) \cup {Transparent}
    <3>1. CASE p \in changed
      <4>1. drawn[p] = IF new[p] = Transparent THEN Skip ELSE new[p]
        BY <3>1 DEF IndexOf
      <4>2. new[p] \in Values(new)
        BY <2>3, <3>1 DEF Values
      <4>3. QED
        BY <4>1, <4>2
    <3>2. CASE p \notin changed
      BY <3>2
    <3>3. QED
      BY <3>1, <3>2
  <2> HIDE DEF drawn
  <2>5. QED
    BY <2>2, <2>4 DEF Values
<1>3. IsFiniteSet(Values(new) \cup {Transparent})
  <2>1. IsFiniteSet(Values(new))
    BY CanvasFinite
  <2>2. QED
    BY ONLY <2>1, FS_AddElement
<1>4. ASSUME NEW old PROVE IsFiniteSet(Values(Marked(new, old).image))
  <2> DEFINE S == Values(new) \cup {Transparent}
             T == Values(Marked(new, old).image)
  <2>1. T \in SUBSET S /\ IsFiniteSet(S)
    BY <1>2, <1>3
  <2> HIDE DEF S, T
  <2>2. IsFiniteSet(T)
    BY ONLY <2>1, FS_Subset
  <2>3. QED
    BY <2>2 DEF T
<1>5. CASE Drawn(new, behind) = Undiffed(new)
  BY <1>1, <1>5, CanvasFinite
<1>6. CASE Drawn(new, behind) # Undiffed(new)
  <2>1. Drawn(new, behind) = Marked(new, behind[1]) /\ behind # <<>>
    BY <1>6 DEF Drawn
  <2>2. QED
    BY <2>1, <1>4
<1>7. QED
  BY <1>5, <1>6

\* A frame that is ready: within its table, and whole if nothing is behind.
Ready(g, behind) == FrameFitting(g) /\ (behind = <<>> => DOMAIN g.index = Points)

(* A palette that the caller gave.                                          *)
LEMMA GivenFits ==
  ASSUME PaletteFitting, Listed(config.given), Writable(config.given),
         NEW image, NEW q \in MapPixels(config.given, image), NEW rect
  PROVE  /\ FrameFitting(Framed(rect, Tabled(q, TRUE)))
         /\ DOMAIN Framed(rect, Tabled(q, TRUE)).index = DOMAIN image
<1> DEFINE e == config.given
<1>1. PICK m \in Mapped(Bytes(e), image, Indices(e), Own(e)) : q = Quantized(Bytes(e), m, Own(e))
  BY DEF MapPixels
<1>2. Listed(e) /\ Len(e) <= TableSize
  BY DEF Writable
<1> HIDE DEF e
<1>3. FrameFits(q, image)
  BY <1>1, <1>2, OwnFrameFits
<1>4. Placed(Tabled(q, TRUE), image)
  BY <1>3, PlacedWith
<1>5. QED
  BY <1>4, FramedFits

LEMMA PreparedFits ==
  ASSUME PaletteFitting, Listed(config.given), NEW new \in [Points -> Pixel], NEW behind,
         NEW g \in PreparedFrames(new, behind)
  PROVE  Ready(g, behind)
<1> DEFINE drawn == Drawn(new, behind)
           tried == IF palette # <<>> THEN FromShared(drawn.image, behind)
                    ELSE PerFrame(drawn.image, behind)
<1>1. IsFiniteSet(Values(drawn.image)) /\ (behind = <<>> => drawn.image = new)
  BY DrawnValues
<1>2. IsFiniteSet(Values(new)) /\ DOMAIN new = Points
  BY CanvasFinite
<1> HIDE DEF drawn
<1>3. CASE config.given # <<>>
  <2>1. Writable(config.given)
        /\ \E q \in MapPixels(config.given, drawn.image) : g = Framed(drawn.rect, Tabled(q, TRUE))
    BY <1>3 DEF PreparedFrames, drawn
  <2>2. PICK q \in MapPixels(config.given, drawn.image) : g = Framed(drawn.rect, Tabled(q, TRUE))
    BY <2>1
  <2>3. FrameFitting(g) /\ DOMAIN g.index = DOMAIN drawn.image
    BY <2>1, <2>2, GivenFits
  <2>4. QED
    BY <1>1, <1>2, <2>3 DEF Ready
<1>4. CASE config.given = <<>>
  <2>1. \/ \E q \in tried : g = Framed(drawn.rect, q)
        \/ \E q \in Fresh(new, behind) : g = Framed(Whole, q)
    BY <1>4 DEF PreparedFrames, Redone, drawn
  <2>2. ASSUME NEW q \in tried, g = Framed(drawn.rect, q)
        PROVE  Ready(g, behind)
    <3>1. Placed(q, drawn.image)
      BY <1>1, SharedPlaced, OwnPlaced
    <3>2. FrameFitting(g) /\ DOMAIN g.index = DOMAIN drawn.image
      BY <2>2, <3>1, FramedFits
    <3>3. QED
      BY <1>1, <1>2, <3>2 DEF Ready
  <2>3. ASSUME NEW q \in Fresh(new, behind), g = Framed(Whole, q)
        PROVE  Ready(g, behind)
    <3>1. Placed(q, new)
      BY <1>2, FreshPlaced
    <3>2. FrameFitting(g) /\ DOMAIN g.index = DOMAIN new
      BY <2>3, <3>1, FramedFits
    <3>3. QED
      BY <1>2, <3>2 DEF Ready
  <2>4. QED
    BY <2>1, <2>2, <2>3
<1>5. QED
  BY <1>3, <1>4

LEMMA OneShotFits ==
  ASSUME PaletteFitting, palette # <<>>, NEW new \in [Points -> Pixel], NEW behind,
         NEW g \in OneShotFrames(new, behind)
  PROVE  Ready(g, behind)
<1>1. PICK q \in RemapFrame(backend, palette[1], new, behind) :
        g = [rect |-> Whole, index |-> q.index, transparent |-> q.transparent,
             table |-> IF q.table # GlobalTable THEN q.table ELSE <<>>]
  BY DEF OneShotFrames
<1>2. FrameFits(q, new)
  BY CanvasFinite, RemappedFrameFits DEF PaletteFitting
<1>3. /\ Fitting(q) /\ DOMAIN q.index = Points
      /\ g.index = q.index /\ g.transparent = q.transparent
      /\ g.table = q.table \/ (g.table = <<>> /\ q.table = GlobalTable)
  BY <1>1, <1>2, CanvasFinite DEF FrameFits
<1>4. FrameFitting(g)
  BY <1>3, WrittenFits
<1>5. QED
  BY <1>3, <1>4 DEF Ready

(* There is a least used index, of a whole frame.                           *)
LEMMA LeastUsedIsIndex ==
  ASSUME NEW g, DOMAIN g.index = Points
  PROVE  /\ LeastUsed(g) \in 0 .. TableSize - 1
         /\ \A j \in 0 .. TableSize - 1 : Uses(g, LeastUsed(g)) <= Uses(g, j)
         /\ \A j : Uses(g, j) \in Nat
<1> DEFINE I == 0 .. TableSize - 1
           N == {Uses(g, j) : j \in I}
<1>1. TableSize \in Nat \ {0} /\ 0 \in I
  BY QuantizerAssumption
<1>2. ASSUME NEW j PROVE Uses(g, j) \in Nat
  <2> DEFINE T == {p \in DOMAIN g.index : g.index[p] = j}
  <2>1. T \in SUBSET Points
    OBVIOUS
  <2>2. Uses(g, j) = Cardinality(T)
    BY DEF Uses
  <2> HIDE DEF T
  <2>3. IsFiniteSet(T)
    BY ONLY <2>1, PointsFinite, FS_Subset
  <2>4. QED
    BY ONLY <2>2, <2>3, FS_CardinalityType
<1>3. N \subseteq Nat /\ N # {}
  BY <1>1, <1>2
<1>4. PICK u \in N : \A v \in N : u <= v
  BY ONLY <1>3, LeastNat
<1> DEFINE J == {j \in I : Uses(g, j) = u}
<1>5. J \subseteq Nat /\ J # {}
  BY <1>1, <1>4
<1>6. PICK i \in J : \A j \in J : i <= j
  BY ONLY <1>5, LeastNat
<1>7. i \in I /\ Uses(g, i) = u
  BY <1>6
<1>8. ASSUME NEW j \in I
      PROVE  Uses(g, i) < Uses(g, j) \/ (Uses(g, i) = Uses(g, j) /\ i <= j)
  <2>1. u <= Uses(g, j)
    BY <1>4
  <2>2. Uses(g, j) = u => i <= j
    BY <1>6
  <2>3. u \in Nat /\ Uses(g, j) \in Nat
    BY <1>2, <1>7
  <2> HIDE DEF I, N, J
  <2>4. u < Uses(g, j) \/ u = Uses(g, j)
    BY <2>1, <2>3
  <2>5. QED
    BY <1>7, <2>2, <2>4
<1> DEFINE least == LeastUsed(g)
<1>9. /\ least \in I
      /\ \A j \in I : Uses(g, least) < Uses(g, j) \/ (Uses(g, least) = Uses(g, j) /\ least <= j)
  BY <1>7, <1>8 DEF LeastUsed
<1> HIDE DEF I, N, J, least
<1>10. \A j \in I : Uses(g, least) <= Uses(g, j)
  BY <1>2, <1>9
<1>11. QED
  BY <1>2, <1>9, <1>10 DEF I, least

(* An extended table has the entry that was missing.                        *)
LEMMA ExtendedAsLong ==
  ASSUME NEW table, NEW n \in Nat
  PROVE  Listed(Extended(table, n)) /\ Len(Extended(table, n)) = n
<1>1. DOMAIN Extended(table, n) = 1 .. n
  BY DEF Extended
<1>2. Extended(table, n) = [i \in 1 .. n |-> Extended(table, n)[i]]
  BY DEF Extended
<1>3. QED
  BY <1>1, <1>2, FunctionIsListed

(* The index that clearing declares is in the table, which grows by it only *)
(* where nothing uses it, and never beyond what an index can name.          *)
LEMMA ClearedFits ==
  ASSUME NEW g, FrameFitting(g), DOMAIN g.index = Points, NEW h \in ClearDisposal(g)
  PROVE  FrameFitting(h)
<1> DEFINE slot == LeastUsed(g)
           table == TableOf(g)
           others == IF Uses(g, slot) = 0 THEN {slot} ELSE Indices(table) \ {slot}
<1>1. /\ Listed(table) /\ Len(table) <= TableSize /\ Len(table) \in Nat
      /\ InTable(g.index, table)
  BY DEF FrameFitting, Listed
<1>2. slot \in 0 .. TableSize - 1 /\ TableSize \in Nat
  BY LeastUsedIsIndex, TableSizeType
<1>3. CASE g.transparent # None
  <2>1. h = Disposing(g, "background")
    BY <1>3 DEF ClearDisposal
  <2>2. h.table = g.table /\ h.index = g.index /\ h.transparent = g.transparent
    BY <2>1 DEF Disposing
  <2>3. TableOf(h) = TableOf(g)
    BY <2>2 DEF TableOf
  <2>4. QED
    BY <2>2, <2>3 DEF FrameFitting
<1>4. CASE g.transparent = None
  <2>1. PICK i \in others :
          h = [rect |-> g.rect, dispose |-> "background", transparent |-> slot,
               index |-> [p \in DOMAIN g.index |-> IF g.index[p] = slot THEN i ELSE g.index[p]],
               table |-> IF slot >= Len(table) THEN Extended(table, slot + 1) ELSE g.table]
    BY <1>4 DEF ClearDisposal
  <2>2. /\ h.transparent = slot /\ DOMAIN h.index = DOMAIN g.index
        /\ \A p \in DOMAIN g.index : h.index[p] = IF g.index[p] = slot THEN i ELSE g.index[p]
        /\ h.table = IF slot >= Len(table) THEN Extended(table, slot + 1) ELSE g.table
    BY <2>1
  <2>3. ASSUME NEW p \in DOMAIN g.index PROVE g.index[p] \in Indices(table)
    BY <1>1 DEF InTable, Values
  <2> HIDE DEF slot, table
  <2>4. CASE slot >= Len(table)
    <3> DEFINE longer == Extended(table, slot + 1)
    <3>1. slot + 1 \in Nat /\ slot + 1 <= TableSize
      BY <1>2
    <3>2. Listed(longer) /\ Len(longer) = slot + 1
      BY <3>1, ExtendedAsLong
    <3>3. h.table = longer
      BY <2>2, <2>4
    <3> HIDE DEF longer
    <3>4. longer # <<>>
      BY <1>2, <3>2, NothingListed
    <3>5. TableOf(h) = longer
      BY <3>3, <3>4 DEF TableOf
    <3>6. \A j \in Indices(table) : j # slot
      BY <1>1, <1>2, <2>4 DEF Indices
    <3>7. Values(h.index) \subseteq Indices(table)
      BY <2>2, <2>3, <3>6 DEF Values
    <3>8. Indices(table) \subseteq Indices(longer) /\ slot \in Indices(longer)
      BY <1>1, <1>2, <2>4, <3>2 DEF Indices
    <3>9. InTable(h.index, longer) /\ Declares(h.transparent, longer)
      BY <2>2, <3>7, <3>8 DEF InTable, Declares
    <3>10. QED
      BY <3>1, <3>2, <3>5, <3>9 DEF FrameFitting
  <2>5. CASE ~(slot >= Len(table))
    <3>1. slot \in Indices(table)
      BY <1>1, <1>2, <2>5 DEF Indices
    <3>2. i \in Indices(table)
      BY <3>1
    <3>3. TableOf(h) = table
      BY <2>2, <2>5 DEF TableOf, table
    <3>4. InTable(h.index, table) /\ Declares(h.transparent, table)
      BY <2>2, <2>3, <3>1, <3>2 DEF InTable, Values, Declares
    <3>5. QED
      BY <1>1, <3>3, <3>4 DEF FrameFitting
  <2>6. QED
    BY <2>4, <2>5
<1>5. QED
  BY <1>3, <1>4

-----------------------------------------------------------------------------
(* The encoder                                                              *)

\* The animation, and what the encoder needs to know of its settings.
EncoderType ==
  /\ inputs \in Seq([Points -> Pixel])
  /\ config.buffered \in Nat
  /\ Listed(config.given)

\* Nothing is written before there is a palette, and the one-shot encoder
\* has one.
PaletteFirst ==
  /\ pc \in {"settings", "job", "build"} => out = <<>>
  /\ pc = "frames" /\ config.oneShot => palette # <<>>

OutFitting ==
  /\ Listed(out) /\ at \in Nat
  /\ \A i \in DOMAIN out : FrameFitting(out[i])

TablesInv == EncoderType /\ PaletteFirst /\ PaletteFitting /\ OutFitting

LEMMA FramesNowFit ==
  ASSUME TablesInv, pc = "frames", at < Len(inputs), NEW g \in FramesNow
  PROVE  FrameFitting(g)
<1> DEFINE new == inputs[at + 1]
           made == IF config.oneShot THEN OneShotFrames(new, Behind)
                   ELSE PreparedFrames(new, Behind)
<1>1. new \in [Points -> Pixel]
  <2>1. at + 1 \in 1 .. Len(inputs)
    BY DEF TablesInv, OutFitting, EncoderType
  <2>2. QED
    BY <2>1 DEF TablesInv, EncoderType
<1> HIDE DEF new
<1>2. ASSUME NEW h \in made PROVE Ready(h, Behind)
  <2>1. CASE config.oneShot
    BY <1>1, <1>2, <2>1, OneShotFits DEF TablesInv, PaletteFirst
  <2>2. CASE ~config.oneShot
    BY <1>1, <1>2, <2>2, PreparedFits DEF TablesInv, EncoderType
  <2>3. QED
    BY <2>1, <2>2
<1>3. CASE ClearAfter
  <2>1. PICK h \in made : g \in ClearDisposal(h)
    BY <1>3 DEF FramesNow, new
  <2>2. Behind = <<>>
    BY <1>3 DEF Behind
  <2>3. FrameFitting(h) /\ DOMAIN h.index = Points
    BY <1>2, <2>2 DEF Ready
  <2>4. QED
    BY <2>1, <2>3, ClearedFits
<1>4. CASE ~ClearAfter
  <2>1. PICK h \in made : g = Disposing(h, "keep")
    BY <1>4 DEF FramesNow, new
  <2>2. FrameFitting(h)
    BY <1>2 DEF Ready
  <2>3. g.table = h.table /\ g.index = h.index /\ g.transparent = h.transparent
    BY <2>1 DEF Disposing
  <2>4. TableOf(g) = TableOf(h)
    BY <2>3 DEF TableOf
  <2>5. QED
    BY <2>2, <2>3, <2>4 DEF FrameFitting
<1>5. QED
  BY <1>3, <1>4

(* The palettes are built from canvases of the animation, so from finitely  *)
(* many values.                                                             *)
LEMMA FlushedType ==
  ASSUME EncoderType
  PROVE  Flushed \in Seq([Points -> Pixel])
<1>1. CASE Flushed = inputs
  BY <1>1 DEF EncoderType
<1>2. CASE Flushed # inputs
  <2> DEFINE n == config.buffered
  <2>1. Flushed = SubSeq(inputs, 1, n) /\ ~(n > Len(inputs))
    BY <1>2 DEF Flushed
  <2>2. n \in Nat /\ Len(inputs) \in Nat /\ inputs \in Seq([Points -> Pixel])
    BY DEF EncoderType
  <2> HIDE DEF n
  <2>3. n <= Len(inputs)
    BY <2>1, <2>2
  <2>4. \A i \in 1 .. n : inputs[i] \in [Points -> Pixel]
    BY <2>2, <2>3
  <2>5. QED
    BY <2>1, <2>2, <2>4, SubSeqProperties
<1>3. QED
  BY <1>1, <1>2

LEMMA AllValuesFinite ==
  ASSUME NEW canvases \in Seq([Points -> Pixel])
  PROVE  IsFiniteSet(AllValues(canvases))
<1> DEFINE D == DOMAIN canvases
           T == {Values(canvases[i]) : i \in D}
           f == [i \in D |-> Values(canvases[i])]
<1>1. D = 1 .. Len(canvases) /\ Len(canvases) \in Nat
  OBVIOUS
<1>2. IsFiniteSet(D)
  <2> DEFINE n == Len(canvases)
  <2>1. 1 \in Int /\ n \in Int
    BY <1>1
  <2>2. D = 1 .. n
    BY <1>1
  <2> HIDE DEF n, D
  <2>3. IsFiniteSet(1 .. n)
    BY ONLY <2>1, FS_Interval
  <2>4. QED
    BY <2>2, <2>3
<1>3. f \in Surjection(D, T)
  BY DEF Surjection
<1>4. \A t \in T : IsFiniteSet(t)
  BY CanvasFinite
<1>5. AllValues(canvases) = UNION T
  BY DEF AllValues
<1> HIDE DEF D, T, f
<1>6. IsFiniteSet(T)
  BY ONLY <1>2, <1>3, FS_Surjection
<1>7. IsFiniteSet(UNION T)
  BY ONLY <1>4, <1>6, FS_UNION
<1>8. QED
  BY <1>5, <1>7

LEMMA SampledFinite ==
  ASSUME NEW canvases \in Seq([Points -> Pixel])
  PROVE  IsFiniteSet(Sampled(canvases, None))
<1> DEFINE n == Len(canvases)
           picked == [i \in 1 .. n |-> i - 1]
           taken == [i \in 1 .. n |-> canvases[picked[i] + 1]]
<1>1. n \in Nat
  OBVIOUS
<1>2. SampleIndices(n, None) = picked
  BY DEF SampleIndices
<1>3. Sampled(canvases, None) = AllValues(taken)
  BY <1>2 DEF Sampled
<1>4. taken \in [1 .. n -> [Points -> Pixel]]
  BY <1>1
<1>5. taken \in Seq([Points -> Pixel])
  BY <1>1, <1>4
<1> HIDE DEF taken
<1>6. QED
  BY <1>3, <1>5, AllValuesFinite

LEMMA BuiltFits ==
  ASSUME TablesInv, BuildPalette
  PROVE  TablesInv'
<1>1. EncoderType /\ PaletteFirst /\ OutFitting
  BY DEF TablesInv
<1>2. /\ inputs' = inputs /\ config' = config /\ out' = out /\ at' = at
      /\ pc = "build" /\ pc' = "frames"
  BY DEF BuildPalette
<1>3. palette' # <<>> /\ FittingShared(palette'[1])
  <2>1. CASE GrayShared # <<>>
    <3>1. palette' = GrayShared
      BY <2>1 DEF BuildPalette
    <3> DEFINE values == AllValues(Flushed)
               force == config.transparency /\ Len(Flushed) > 1
    <3>2. GrayShared = TryGray(values, force)
      BY <2>1 DEF GrayShared
    <3>3. IsFiniteSet(values)
      BY <1>1, FlushedType, AllValuesFinite
    <3> HIDE DEF values, force
    <3>4. FittingShared(TryGray(values, force)[1])
      BY <2>1, <3>2, <3>3, GrayFits
    <3>5. QED
      BY <2>1, <3>1, <3>2, <3>4
  <2>2. CASE GrayShared = <<>>
    <3>1. PICK s \in BuildSharedPalette(backend, Flushed, config.transparency, None) :
            palette' = <<s>>
      BY <2>2 DEF BuildPalette
    <3>2. IsFiniteSet(Sampled(Flushed, None))
      BY <1>1, FlushedType, SampledFinite
    <3>3. FittingShared(s)
      BY <3>1, <3>2, SharedPaletteFits
    <3>4. QED
      BY <3>1, <3>3
  <2>3. QED
    BY <2>1, <2>2
<1>4. PaletteFitting'
  BY <1>3 DEF PaletteFitting, FittingShared, Declares
<1>5. EncoderType' /\ PaletteFirst'
  BY <1>1, <1>2, <1>3 DEF EncoderType, PaletteFirst
<1>6. OutFitting'
  <2>1. out = <<>>
    BY <1>1, <1>2 DEF PaletteFirst
  <2>2. DOMAIN out' = {}
    BY <1>2, <2>1
  <2>3. Listed(out') /\ at' \in Nat
    BY <1>1, <1>2 DEF OutFitting
  <2>4. QED
    BY <2>2, <2>3 DEF OutFitting, Listed
<1>7. QED
  BY <1>4, <1>5, <1>6 DEF TablesInv

\* What is written stays within its table as long as the palette stays.
LEMMA StillFits ==
  ASSUME NEW g, FrameFitting(g), palette' = palette
  PROVE  LET t == IF g.table = <<>> THEN GlobalTable' ELSE g.table
         IN /\ Listed(t) /\ Len(t) <= TableSize
            /\ InTable(g.index, t) /\ Declares(g.transparent, t)
<1>1. GlobalTable' = GlobalTable
  BY DEF GlobalTable
<1>2. QED
  BY <1>1 DEF FrameFitting, TableOf

LEMMA OutStaysFitting ==
  ASSUME OutFitting, palette' = palette, out' = out, at' \in Nat
  PROVE  OutFitting'
<1>1. Listed(out)' /\ DOMAIN out' = DOMAIN out
  BY DEF OutFitting, Listed
<1>2. ASSUME NEW i \in DOMAIN out' PROVE FrameFitting(out[i])'
  <2>1. FrameFitting(out[i]) /\ out'[i] = out[i]
    BY <1>1, <1>2 DEF OutFitting
  <2>2. QED
    BY <2>1, StillFits DEF FrameFitting, TableOf
<1>3. QED
  BY <1>1, <1>2 DEF OutFitting

LEMMA WrittenKeepsFitting ==
  ASSUME TablesInv, WriteFrame
  PROVE  TablesInv'
<1>1. EncoderType /\ PaletteFirst /\ PaletteFitting /\ OutFitting
  BY DEF TablesInv
<1>2. /\ inputs' = inputs /\ config' = config /\ palette' = palette /\ pc' = pc
      /\ pc = "frames" /\ at < Len(inputs) /\ at' = at + 1
  BY DEF WriteFrame
<1>3. PICK g \in FramesNow : out' = Append(out, g)
  BY DEF WriteFrame
<1>4. FrameFitting(g)
  BY <1>2, FramesNowFit
<1>5. Listed(out') /\ Len(out') = Len(out) + 1
  BY <1>1, <1>3, AppendedAsLong DEF OutFitting
<1>6. ASSUME NEW i \in DOMAIN out' PROVE FrameFitting(out[i])'
  <2>1. i \in 1 .. Len(out) + 1 /\ DOMAIN out = 1 .. Len(out) /\ Len(out) \in Nat
    BY <1>1, <1>5, <1>6 DEF OutFitting, Listed
  <2>2. PICK S : out \in Seq(S)
    BY <1>1 DEF OutFitting, Listed
  <2>3. out'[i] = IF i <= Len(out) THEN out[i] ELSE g
    BY <1>3, <2>1, <2>2
  <2>4. FrameFitting(out'[i])
    BY <1>1, <1>4, <2>1, <2>3 DEF OutFitting
  <2>5. QED
    BY <1>2, <2>4, StillFits DEF FrameFitting, TableOf
<1>7. OutFitting'
  <2>1. Listed(out)'
    BY <1>5 DEF Listed
  <2>2. at' \in Nat
    BY <1>1, <1>2 DEF OutFitting
  <2>3. QED
    BY <1>6, <2>1, <2>2 DEF OutFitting
<1>8. EncoderType' /\ PaletteFirst' /\ PaletteFitting'
  BY <1>1, <1>2 DEF EncoderType, PaletteFirst, PaletteFitting
<1>9. QED
  BY <1>7, <1>8 DEF TablesInv

LEMMA EncodingFits ==
  ASSUME TablesInv, Next
  PROVE  TablesInv'
<1>1. CASE Seal \/ Fail
  <2>1. /\ UNCHANGED <<config, inputs, palette, at, out>> /\ pc' = "done"
    BY <1>1 DEF Seal, Fail
  <2>2. OutFitting'
    BY <2>1, OutStaysFitting DEF TablesInv, OutFitting
  <2>3. QED
    BY <2>1, <2>2 DEF TablesInv, EncoderType, PaletteFirst, PaletteFitting
<1>2. QED
  BY <1>1, BuiltFits, WrittenKeepsFitting DEF Next

(* An encoder that is made, and the calls before.                           *)
LEMMA AsConfigType ==
  ASSUME NEW s
  PROVE  /\ AsConfig(s).buffered \in Nat /\ Listed(AsConfig(s).given)
         /\ ~AsConfig(s).oneShot
BY NothingListed DEF AsConfig

LEMMA BegunFits ==
  ASSUME TablesInv, pc \in {"settings", "job"}, NEW s,
         NEW canvases \in Seq([Points -> Pixel]), Begin(s, canvases)
  PROVE  TablesInv'
<1>1. /\ config' = AsConfig(s) /\ inputs' = canvases
      /\ UNCHANGED <<palette, at, out>> /\ pc' \in {"build", "frames"}
  BY DEF Begin
<1>2. EncoderType'
  BY <1>1, AsConfigType DEF EncoderType
<1>3. PaletteFirst'
  BY <1>1, AsConfigType DEF PaletteFirst, TablesInv
<1>4. OutFitting'
  BY <1>1, OutStaysFitting DEF TablesInv, OutFitting
<1>5. QED
  BY <1>1, <1>2, <1>3, <1>4 DEF TablesInv, PaletteFitting

LEMMA StillFitsTables ==
  ASSUME TablesInv, NEW s \in Sources, EncodeStill(s)
  PROVE  TablesInv'
<1>1. s.colours \in [Points -> Colours]
  BY EncodeJobAssumption
<1>2. Converted(s) \in [Points -> Pixel]
  BY <1>1 DEF Converted, Pixel
<1> DEFINE Canvases == [Points -> Pixel]
           canvas == Converted(s)
<1>3. canvas \in Canvases
  BY <1>2
<1> HIDE DEF Canvases, canvas
<1>4. <<canvas>> \in Seq(Canvases)
  BY <1>3
<1>5. pc \in {"settings", "job"} /\ Begin(settings, <<canvas>>)
  BY DEF EncodeStill, canvas
<1>6. QED
  BY <1>4, <1>5, BegunFits DEF Canvases

LEMMA JobFitsTables ==
  ASSUME TablesInv, Change \/ MakeJob \/ FromMetadata \/ Refuse \/ StartAnimation
  PROVE  TablesInv'
<1>1. CASE FromMetadata
  <2>1. PICK r \in Repeats, a \in Reencoded : Begin(RoundTripSettings(r), a)
    BY <1>1 DEF FromMetadata
  <2>2. a \in Seq([Points -> Pixel])
    BY <2>1, EncodeJobAssumption
  <2>3. pc \in {"settings", "job"}
    BY <1>1 DEF FromMetadata
  <2>4. QED
    BY <2>1, <2>2, <2>3, BegunFits
<1>2. CASE Change \/ MakeJob \/ Refuse \/ StartAnimation
  <2>1. /\ UNCHANGED <<config, inputs, palette, at, out>>
        /\ pc' \in {"settings", "job", "done"} /\ pc \in {"settings", "job"}
    BY <1>2 DEF Change, MakeJob, Refuse, StartAnimation, vars
  <2>2. OutFitting'
    BY <2>1, OutStaysFitting DEF TablesInv, OutFitting
  <2>3. QED
    BY <2>1, <2>2 DEF TablesInv, EncoderType, PaletteFirst, PaletteFitting
<1>3. QED
  BY <1>1, <1>2

LEMMA InitTables == SetupInit => TablesInv
<1> SUFFICES ASSUME SetupInit PROVE TablesInv
  OBVIOUS
<1>1. palette = <<>> /\ out = <<>> /\ at = 0
  BY DEF SetupInit, Init, JobInit
<1>2. EncoderType
  <2>1. CASE Init
    <3>1. inputs \in Animations /\ config \in Configs
      BY <2>1 DEF Init
    <3>2. config.given \in Seq(Pixel)
      BY <3>1, PaletteEncodingAssumption
    <3>3. QED
      BY <3>1, <3>2, PaletteEncodingAssumption, SeqIsListed DEF EncoderType
  <2>2. CASE JobInit
    <3>1. inputs = <<>> /\ config = AsConfig(NewSettings)
      BY <2>2 DEF JobInit
    <3>2. <<>> \in Seq([Points -> Pixel])
      BY EmptySeq
    <3>3. QED
      BY <3>1, <3>2, AsConfigType DEF EncoderType
  <2>3. QED
    BY <2>1, <2>2 DEF SetupInit
<1>3. PaletteFirst
  <2>1. CASE Init
    BY <1>1, <2>1 DEF Init, PaletteFirst
  <2>2. CASE JobInit
    BY <1>1, <2>2 DEF JobInit, PaletteFirst
  <2>3. QED
    BY <2>1, <2>2 DEF SetupInit
<1>4. Listed(out) /\ DOMAIN out = {}
  BY <1>1, NothingListed
<1>5. QED
  BY <1>1, <1>2, <1>3, <1>4 DEF TablesInv, PaletteFitting, OutFitting

LEMMA NextTables == TablesInv /\ [EncodeJobNext]_<<vars, setup>> => TablesInv'
<1> SUFFICES ASSUME TablesInv, [EncodeJobNext]_<<vars, setup>> PROVE TablesInv'
  OBVIOUS
<1>1. CASE UNCHANGED <<vars, setup>>
  <2>1. UNCHANGED <<config, inputs, palette, at, out, pc>>
    BY <1>1 DEF vars
  <2>2. OutFitting'
    BY <2>1, OutStaysFitting DEF TablesInv, OutFitting
  <2>3. QED
    BY <2>1, <2>2 DEF TablesInv, EncoderType, PaletteFirst, PaletteFitting
<1>2. CASE Encode
  BY <1>2, EncodingFits DEF Encode
<1>3. QED
  BY <1>1, <1>2, StillFitsTables, JobFitsTables DEF EncodeJobNext

(* Whatever the backend, the settings and the canvases, no index of a frame *)
(* is outside its table, its transparent one neither when it was reserved,  *)
(* found, taken from another use or appended, and no table is longer than   *)
(* an index can name (append_transparent_slot, clear_disposal).             *)
THEOREM IndicesStayInTable == EncodeJobSpec => []IndicesInTable
<1>1. TablesInv => IndicesInTable
  BY DEF TablesInv, OutFitting, FrameFitting, InTable, Declares, IndicesInTable
<1>2. QED
  BY <1>1, InitTables, NextTables, PTL DEF EncodeJobSpec

-----------------------------------------------------------------------------
(* What is seen of a frame                                                  *)

\* Two ways in which what is seen may agree with what was given: in what is
\* transparent, and in everything.
Modes == {"alpha", "colour"}

Agrees(mode, seen, given) ==
  /\ seen \in Pixel
  /\ IF mode = "alpha" THEN seen = Transparent <=> given = Transparent ELSE seen = given

\* A table of colours, which has them from the entries of a palette.
Coloured(table) == \A i \in DOMAIN table : table[i] \in Colours

Renders(q, image, behind, mode) ==
  /\ Coloured(q.table)
  /\ \A p \in DOMAIN image :
       IF image[p] = Transparent THEN q.transparent = None \/ q.index[p] = q.transparent
       ELSE IF q.index[p] = q.transparent
            THEN behind # <<>> /\ DOMAIN image = Points /\ image[p] = behind[1][p]
            ELSE Agrees(mode, q.table[q.index[p] + 1], image[p])
  /\ behind = <<>> =>
       \A o, p \in DOMAIN image : image[o] = image[p] => q.index[o] = q.index[p]

(* A listed set has all its elements.                                       *)
LEMMA SetToSeqHasAll ==
  ASSUME NEW S, IsFiniteSet(S), NEW v \in S
  PROVE  \E i \in DOMAIN SetToSeq(S) : SetToSeq(S)[i] = v
<1> DEFINE n == Cardinality(S)
           e == SetToSeq(S)
           D == 1 .. n
<1>1. n \in Nat /\ ExistsBijection(1 .. n, S)
  BY FS_CardinalityType
<1>2. PICK f : f \in Bijection(1 .. n, S)
  BY <1>1 DEF ExistsBijection
<1>3. f \in [1 .. n -> S] /\ IsInjective(f)
  BY <1>2 DEF Bijection, Injection
<1>4. e \in [1 .. n -> S] /\ IsInjective(e)
  BY <1>3 DEF SetToSeq
<1>5. e \in Injection(D, S)
  BY <1>4 DEF Injection
<1>6. IsFiniteSet(D) /\ Cardinality(D) = n
  <2>1. 1 \in Int /\ n \in Int
    BY <1>1
  <2> HIDE DEF n
  <2>2. IsFiniteSet(1 .. n) /\ Cardinality(1 .. n) = IF 1 > n THEN 0 ELSE n - 1 + 1
    BY ONLY <2>1, FS_Interval
  <2>3. n \in Nat
    BY <1>1
  <2>4. Cardinality(1 .. n) = n
    BY ONLY <2>2, <2>3
  <2>5. QED
    BY <2>2, <2>4
<1>7. e \in Surjection(D, S)
  <2> HIDE DEF e, D
  <2>1. Cardinality(D) = Cardinality(S)
    BY <1>6
  <2>2. Cardinality(D) = Cardinality(S) <=> e \in Surjection(D, S)
    BY ONLY <1>5, IsFiniteSet(S), FS_Injection
  <2>3. QED
    BY <2>1, <2>2
<1>8. QED
  BY <1>4, <1>7 DEF Surjection

(* A palette has values of the pixels it is for, all of them where it has   *)
(* room.                                                                    *)
LEMMA PaletteHas ==
  ASSUME NEW values, IsFiniteSet(values), NEW size \in Nat, NEW e \in Palettes(values, size)
  PROVE  /\ e \in Seq(values)
         /\ Cardinality(values) <= size => \A v \in values : \E i \in DOMAIN e : e[i] = v
<1>1. PICK s \in SUBSET values : e = SetToSeq(s)
                                 /\ (Cardinality(values) <= size => s = values)
  <2>1. CASE Cardinality(values) <= size
    BY <2>1 DEF Palettes
  <2>2. CASE ~(Cardinality(values) <= size)
    BY <2>2 DEF Palettes, kSubset
  <2>3. QED
    BY <2>1, <2>2
<1>2. IsFiniteSet(s)
  BY ONLY <1>1, FS_Subset, IsFiniteSet(values)
<1>3. e \in [1 .. Cardinality(s) -> s] /\ Cardinality(s) \in Nat
  BY <1>1, <1>2, SetIsListed, FS_CardinalityType
<1>4. e \in Seq(s)
  BY <1>3
<1>5. e \in Seq(values)
  BY <1>1, <1>4
<1>6. QED
  BY <1>1, <1>2, <1>5, SetToSeqHasAll

(* The least index of a property: of no entry without one.                  *)
LEMMA OwnIsNone ==
  ASSUME NEW e, Listed(e)
  PROVE  Own(e) = None <=> \A i \in DOMAIN e : e[i] # Transparent
<1> DEFINE I == {i \in 1 .. Len(e) : e[i] = Transparent}
<1>1. Own(e) = (IF I # {} THEN Min(I) ELSE 0) - 1
  BY DEF Own, SelectInSeq
<1>2. DOMAIN e = 1 .. Len(e) /\ Len(e) \in Nat
  BY DEF Listed
<1>3. CASE I = {}
  BY <1>1, <1>2, <1>3 DEF None
<1>4. CASE I # {}
  <2>1. Min(I) \in I
    BY <1>2, <1>4, MinIsLeast
  <2>2. Min(I) \in 1 .. Len(e) /\ e[Min(I)] = Transparent
    BY <2>1
  <2>3. Own(e) = Min(I) - 1
    BY <1>1, <1>4
  <2> HIDE DEF I
  <2>4. Own(e) # None
    BY <1>2, <2>2, <2>3 DEF None
  <2>5. QED
    BY <1>2, <2>2, <2>4
<1>5. QED
  BY <1>3, <1>4

\* Where a search ends.
Sought(entries, image, allowed, hole, m, p) ==
  /\ image[p] = Transparent /\ hole # None => m[p] = hole
  /\ image[p] # Transparent \/ hole = None =>
       /\ m[p] \in allowed
       /\ (\E i \in allowed : entries[i + 1] = image[p]) => entries[m[p] + 1] = image[p]
       /\ \A i \in allowed : entries[i + 1] = image[p] => m[p] <= i
  /\ \A o \in DOMAIN image : image[o] = image[p] => m[o] = m[p]

(* A pixel that has an entry where the search may look is mapped to one of  *)
(* its own, the transparent ones to the hole; and pixels alike go alike.    *)
LEMMA MappedWell ==
  ASSUME NEW entries, NEW image, NEW allowed, allowed \subseteq Nat, NEW hole,
         NEW m \in Mapped(entries, image, allowed, hole), NEW p \in DOMAIN image
  PROVE  Sought(entries, image, allowed, hole, m, p)
<1> DEFINE searched == Values(image) \ (IF hole = None THEN {} ELSE {Transparent})
<1>1. PICK f \in Nearest(entries, searched, allowed) :
        m = [o \in DOMAIN image |-> IF image[o] \in searched THEN f[image[o]] ELSE hole]
  BY DEF Mapped
<1>2. f \in [searched -> allowed]
  BY <1>1 DEF Nearest
<1>3. image[p] \in Values(image)
  BY DEF Values
<1>4. image[p] \in searched <=> image[p] # Transparent \/ hole = None
  BY <1>3
<1>5. ASSUME image[p] \in searched, \E i \in allowed : entries[i + 1] = image[p]
      PROVE  /\ entries[f[image[p]] + 1] = image[p]
             /\ \A i \in allowed : entries[i + 1] = image[p] => f[image[p]] <= i
  <2> DEFINE v == image[p]
             exact == {i \in allowed : entries[i + 1] = v}
  <2>1. exact # {} => f[v] = Min(exact)
    BY <1>1, <1>5 DEF Nearest
  <2>2. exact # {} /\ exact \subseteq Nat
    BY <1>5
  <2>3. Min(exact) \in exact /\ \A i \in exact : Min(exact) <= i
    BY <2>2, MinIsLeast
  <2>4. QED
    BY <2>1, <2>2, <2>3
<1> HIDE DEF searched
<1>6. m[p] = IF image[p] \in searched THEN f[image[p]] ELSE hole
  BY <1>1
<1>7. \A o \in DOMAIN image : image[o] = image[p] => m[o] = m[p]
  BY <1>1
<1>8. QED
  BY <1>2, <1>4, <1>5, <1>6, <1>7 DEF Sought
\* What a search needs of the entries it looks through.
Searchable(entries, table, allowed, hole, mode) ==
  /\ allowed \subseteq Nat
  /\ \A i \in allowed : entries[i + 1] \in Pixel /\ table[i + 1] = Rgb(entries[i + 1])
  /\ hole = None \/ hole \notin allowed \/ entries[hole + 1] = Transparent
  /\ mode = "alpha" => \A i \in allowed : entries[i + 1] # Transparent

\* An entry for each opaque pixel, where that is asked for.
Covered(values, entries, allowed, mode) ==
  mode = "colour" =>
    \A v \in values \ {Transparent} : \E i \in allowed : entries[i + 1] = v

LEMMA MappedRenders ==
  ASSUME NEW mode \in Modes, NEW entries, NEW table, NEW allowed, NEW hole,
         Searchable(entries, table, allowed, hole, mode),
         Coloured(table), NEW image,
         Covered(Values(image), entries, allowed, mode),
         NEW m \in Mapped(entries, image, allowed, hole), NEW behind,
         NEW t, t \in {None, hole}, Transparent \in Values(image) => t = hole
  PROVE  Renders(Quantized(table, m, t), image, behind, mode)
<1> DEFINE q == Quantized(table, m, t)
<1>1. q.table = table /\ q.index = m /\ q.transparent = t
  BY DEF Quantized
<1> HIDE DEF q
<1>6. ASSUME NEW p \in DOMAIN image
      PROVE  Sought(entries, image, allowed, hole, m, p)
  <2>1. allowed \subseteq Nat
    BY DEF Searchable
  <2>2. QED
    BY ONLY <2>1, <1>6, m \in Mapped(entries, image, allowed, hole), MappedWell
<1>2. ASSUME NEW p \in DOMAIN image, image[p] = Transparent
      PROVE  t = None \/ m[p] = t
  <2>1. Transparent \in Values(image)
    BY <1>2 DEF Values
  <2>2. QED
    BY <1>2, <2>1, <1>6 DEF Sought
<1>3. ASSUME NEW p \in DOMAIN image, image[p] # Transparent
      PROVE  m[p] # t /\ Agrees(mode, table[m[p] + 1], image[p])
  <2>1. image[p] \in Values(image)
    BY DEF Values
  <2>2. m[p] \in allowed
    BY <1>3, <1>6 DEF Sought
  <2>3. mode = "colour" => entries[m[p] + 1] = image[p]
    <3>1. SUFFICES ASSUME mode = "colour" PROVE entries[m[p] + 1] = image[p]
      OBVIOUS
    <3>2. \E i \in allowed : entries[i + 1] = image[p]
      BY <1>3, <2>1, <3>1 DEF Covered
    <3>3. QED
      BY <1>3, <3>2, <1>6 DEF Sought
  <2>4. entries[m[p] + 1] # Transparent /\ entries[m[p] + 1] \in Pixel
    BY <1>3, <2>2, <2>3 DEF Searchable, Modes
  <2>5. table[m[p] + 1] = entries[m[p] + 1]
    BY <2>2, <2>4 DEF Searchable, Rgb
  <2>6. m[p] # t
    BY <2>2, <2>4 DEF Searchable, None
  <2>7. QED
    BY <1>3, <2>3, <2>4, <2>5, <2>6 DEF Agrees, Modes
<1>4. \A o, p \in DOMAIN image : image[o] = image[p] => m[o] = m[p]
  BY <1>6 DEF Sought
<1>5. QED
  BY <1>1, <1>2, <1>3, <1>4 DEF Renders, q

Opaque(entries) == \A i \in DOMAIN entries : entries[i] # Transparent

\* A palette that was built for some values: its table has the colours of its
\* entries, and its slot is one of them that is transparent or none.
Holding(s, mode, values) ==
  /\ s.entries \in Seq(Pixel) /\ Coloured(s.table)
  /\ \A i \in Indices(s.entries) : s.table[i + 1] = Rgb(s.entries[i + 1])
  /\ s.slot \in {None, Own(s.entries), Len(s.entries)}
  /\ mode = "colour" =>
       \A v \in values \ {Transparent} : \E i \in DOMAIN s.entries : s.entries[i] = v

LEMMA RgbIsColour ==
  ASSUME NEW v \in Pixel
  PROVE  Rgb(v) \in Colours
BY QuantizerAssumption DEF Rgb, Pixel

LEMMA BytesAreColours ==
  ASSUME NEW e \in Seq(Pixel)
  PROVE  /\ Coloured(Bytes(e)) /\ Bytes(e) \in Seq(Colours) /\ Len(Bytes(e)) = Len(e)
         /\ \A i \in Indices(e) : Bytes(e)[i + 1] = Rgb(e[i + 1])
<1>1. Bytes(e) = [i \in 1 .. Len(e) |-> Rgb(e[i])] /\ Len(e) \in Nat
  BY DEF Bytes
<1>2. \A i \in 1 .. Len(e) : Rgb(e[i]) \in Colours
  BY RgbIsColour
<1>3. Bytes(e) \in [1 .. Len(e) -> Colours]
  BY <1>1, <1>2
<1>4. \A i \in Indices(e) : i + 1 \in 1 .. Len(e)
  BY <1>1 DEF Indices
<1>5. QED
  BY <1>1, <1>3, <1>4 DEF Coloured

LEMMA PlainHolds ==
  ASSUME NEW e \in Seq(Pixel), NEW mode, NEW values, NEW slot, slot \in {None, Own(e)},
         mode = "colour" => \A v \in values \ {Transparent} : \E i \in DOMAIN e : e[i] = v
  PROVE  Holding(Shared(e, Bytes(e), slot), mode, values)
<1>1. Coloured(Bytes(e)) /\ \A i \in Indices(e) : Bytes(e)[i + 1] = Rgb(e[i + 1])
  BY BytesAreColours
<1>2. /\ Shared(e, Bytes(e), slot).entries = e /\ Shared(e, Bytes(e), slot).table = Bytes(e)
      /\ Shared(e, Bytes(e), slot).slot = slot
  BY DEF Shared
<1>3. QED
  BY <1>1, <1>2 DEF Holding

LEMMA SlotHolds ==
  ASSUME NEW e \in Seq(Pixel), Len(e) < TableSize, NEW mode, NEW values,
         mode = "colour" => \A v \in values \ {Transparent} : \E i \in DOMAIN e : e[i] = v
  PROVE  Holding(WithSlot(e), mode, values) /\ WithSlot(e).slot # None
<1>1. /\ Bytes(e) \in Seq(Colours) /\ Len(Bytes(e)) = Len(e)
      /\ \A i \in Indices(e) : Bytes(e)[i + 1] = Rgb(e[i + 1])
  BY BytesAreColours
<1>2. Black \in Colours
  BY QuantizerAssumption
<1> DEFINE table == Append(Bytes(e), Black)
<1>3. table \in Seq(Colours) /\ \A i \in 1 .. Len(e) : table[i] = Bytes(e)[i]
  BY <1>1, <1>2
<1>4. Coloured(table)
  BY <1>3 DEF Coloured
<1>5. \A i \in Indices(e) : i + 1 \in 1 .. Len(e)
  BY DEF Indices
<1>6. /\ WithSlot(e).entries = e /\ WithSlot(e).slot = Len(e) /\ WithSlot(e).table = table
  BY SeqIsListed, SlotFits DEF WithSlot, Shared
<1> HIDE DEF table
<1>7. QED
  BY <1>1, <1>3, <1>4, <1>5, <1>6 DEF Holding, None

(* What is mapped to such a palette is rendered: over the visible entries,  *)
(* or over all where none is transparent or every colour has its own.       *)
LEMMA HeldRenders ==
  ASSUME NEW mode \in Modes, NEW s, NEW values, Holding(s, mode, values),
         NEW image, Values(image) \subseteq values \cup {Transparent},
         NEW allowed,
         \/ allowed = Visible(s.entries)
         \/ allowed = Indices(s.entries) /\ (mode = "alpha" => Opaque(s.entries)),
         NEW hole, hole \in {None, Own(s.entries), s.slot},
         NEW m \in Mapped(s.entries, image, allowed, hole), NEW behind,
         NEW t, t \in {None, hole}, Transparent \in Values(image) => t = hole
  PROVE  Renders(Quantized(s.table, m, t), image, behind, mode)
<1> DEFINE e == s.entries
<1>1. /\ e \in Seq(Pixel) /\ Coloured(s.table)
      /\ \A i \in Indices(e) : s.table[i + 1] = Rgb(e[i + 1])
      /\ s.slot \in {None, Own(e), Len(e)}
  BY DEF Holding
<1>2. Len(e) \in Nat /\ DOMAIN e = 1 .. Len(e) /\ Listed(e)
  BY <1>1, SeqIsListed
<1>3. allowed \subseteq Indices(e) /\ Indices(e) = 0 .. Len(e) - 1
  BY DEF Visible, Indices
<1>4. \A i \in Indices(e) : i \in Nat /\ i + 1 \in DOMAIN e /\ e[i + 1] \in Pixel
  BY <1>1, <1>2, <1>3
<1>5. mode = "alpha" => \A i \in allowed : e[i + 1] # Transparent
  BY <1>3, <1>4 DEF Opaque, Visible
<1>6. hole = None \/ hole \notin allowed \/ e[hole + 1] = Transparent
  <2>1. Len(e) \notin Indices(e)
    BY <1>2, <1>3
  <2>2. Own(e) # None => e[Own(e) + 1] = Transparent
    BY <1>2, OwnIsIndex
  <2> HIDE DEF e
  <2>3. QED
    BY <1>1, <1>3, <2>1, <2>2 DEF e
<1>7. Searchable(e, s.table, allowed, hole, mode)
  BY <1>1, <1>3, <1>4, <1>5, <1>6 DEF Searchable
<1>8. Covered(Values(image), e, allowed, mode)
  <2>1. SUFFICES ASSUME mode = "colour", NEW v \in Values(image) \ {Transparent}
                 PROVE  \E i \in allowed : e[i + 1] = v
    BY DEF Covered
  <2>2. v \in values \ {Transparent}
    BY <2>1
  <2>3. PICK i \in DOMAIN e : e[i] = v
    BY <2>1, <2>2 DEF Holding
  <2>4. i \in Nat /\ i - 1 \in Indices(e) /\ (i - 1) + 1 = i
    BY <1>2, <1>3, <2>3
  <2>5. i - 1 \in Visible(e)
    BY <2>1, <2>3, <2>4 DEF Visible
  <2>6. QED
    BY <2>3, <2>4, <2>5
<1> HIDE DEF e
<1>9. m \in Mapped(e, image, allowed, hole)
  BY DEF e
<1>10. QED
  BY ONLY mode \in Modes, <1>1, <1>7, <1>8, <1>9, t \in {None, hole},
          Transparent \in Values(image) => t = hole, MappedRenders

(* Fewer values make no more than there were.                               *)
LEMMA NoMore ==
  ASSUME NEW S, NEW T, IsFiniteSet(T), S \subseteq T, NEW n \in Nat, Cardinality(T) <= n
  PROVE  IsFiniteSet(S) /\ Cardinality(S) <= n
<1>1. S \in SUBSET T
  OBVIOUS
<1>2. IsFiniteSet(S) /\ Cardinality(S) <= Cardinality(T)
  BY ONLY <1>1, IsFiniteSet(T), FS_Subset
<1>3. Cardinality(S) \in Nat /\ Cardinality(T) \in Nat
  BY ONLY <1>2, IsFiniteSet(T), FS_CardinalityType
<1>4. QED
  BY <1>2, <1>3

\* Room for all values of an image, the RGB of what is marked and transparency.
RoomFor(values, mode) ==
  mode = "colour" => Cardinality(values \cup {Black, Transparent}) <= TableSize

LEMMA RoomIsEnough ==
  ASSUME NEW values, IsFiniteSet(values), RoomFor(values, "colour")
  PROVE  /\ Cardinality(values) <= TableSize
         /\ Cardinality(values \cup {Transparent}) <= TableSize
         /\ Cardinality({Rgb(v) : v \in values}) <= ColoursFor(Transparent \in values)
<1> DEFINE T == values \cup {Black, Transparent}
           R == {Rgb(v) : v \in values}
<1>1. IsFiniteSet(T)
  <2> DEFINE U == values \cup {Black}
  <2>1. IsFiniteSet(U)
    BY ONLY IsFiniteSet(values), FS_AddElement
  <2> HIDE DEF U
  <2>2. IsFiniteSet(U \cup {Transparent})
    BY ONLY <2>1, FS_AddElement
  <2>3. U \cup {Transparent} = T
    BY DEF U
  <2>4. QED
    BY <2>2, <2>3
<1>2. Cardinality(T) <= TableSize /\ Cardinality(T) \in Nat /\ TableSize \in Nat
  <2>1. Cardinality(T) <= TableSize
    BY DEF RoomFor
  <2> HIDE DEF T
  <2>2. Cardinality(T) \in Nat
    BY ONLY <1>1, FS_CardinalityType
  <2>3. QED
    BY <2>1, <2>2, TableSizeType
<1>3. values \subseteq T /\ values \cup {Transparent} \subseteq T
  OBVIOUS
<1>4. Cardinality(R) <= ColoursFor(Transparent \in values)
  <2>1. CASE Transparent \in values
    <3> DEFINE V == T \ {Transparent}
    <3>1. R \subseteq V
      BY CanvasAssumption, QuantizerAssumption DEF Rgb
    <3>2. Transparent \in T
      OBVIOUS
    <3> HIDE DEF T
    <3>3. IsFiniteSet(V) /\ Cardinality(V) = Cardinality(T) - 1
      BY ONLY <1>1, <3>2, FS_RemoveElement
    <3>4. ColoursFor(Transparent \in values) = TableSize - 1
      BY <2>1 DEF ColoursFor
    <3>5. TableSize - 1 \in Nat /\ Cardinality(V) <= TableSize - 1
      BY <1>2, <3>3, QuantizerAssumption
    <3> HIDE DEF V, R
    <3>6. Cardinality(R) <= TableSize - 1
      BY ONLY <3>1, <3>3, <3>5, NoMore
    <3>7. QED
      BY <3>4, <3>6
  <2>2. CASE Transparent \notin values
    <3>1. R \subseteq T
      BY <2>2 DEF Rgb
    <3>2. ColoursFor(Transparent \in values) = TableSize
      BY <2>2 DEF ColoursFor
    <3> HIDE DEF T, R
    <3>3. QED
      BY <1>1, <1>2, <3>1, <3>2, NoMore
  <2>3. QED
    BY <2>1, <2>2
<1> HIDE DEF T
<1>5. QED
  BY <1>1, <1>2, <1>3, <1>4, NoMore

\* A list of values, of all where that is asked for.
PaletteFor(e, values, size, mode) ==
  /\ e \in Seq(Pixel) /\ Listed(e) /\ Len(e) <= size
  /\ \A i \in DOMAIN e : e[i] \in values
  /\ mode = "colour" => \A v \in values : \E i \in DOMAIN e : e[i] = v

(* A palette with room has an entry for each value.                         *)
LEMMA PaletteOf ==
  ASSUME NEW values, IsFiniteSet(values), values \subseteq Pixel, NEW size \in Nat,
         NEW e \in Palettes(values, size), NEW mode,
         mode = "colour" => Cardinality(values) <= size
  PROVE  PaletteFor(e, values, size, mode)
<1>1. /\ e \in Seq(values)
      /\ Cardinality(values) <= size => \A v \in values : \E i \in DOMAIN e : e[i] = v
  BY PaletteHas
<1>2. Listed(e) /\ Len(e) <= size
  BY PaletteFits
<1>3. e \in Seq(Pixel) /\ \A i \in DOMAIN e : e[i] \in values
  BY <1>1
<1>4. QED
  BY <1>1, <1>2, <1>3 DEF PaletteFor

\* Whether a frame that needs it has an index for transparency.
Marks(q, image) == Transparent \in Values(image) => q.transparent # None

LEMMA ZenquantRenders ==
  ASSUME NEW mode \in Modes, NEW image, IsFiniteSet(Values(image)), Values(image) \subseteq Pixel,
         RoomFor(Values(image), mode), NEW behind, NEW q \in ZenquantFrame(image)
  PROVE  Renders(q, image, behind, mode) /\ Marks(q, image)
<1> DEFINE values == Values(image)
<1>1. PICK e \in ZenquantPalettes(values, TableSize) :
        \E m \in Mapped(e, image, Visible(e), Own(e)) : q = Quantized(Bytes(e), m, Own(e))
  BY DEF ZenquantFrame
<1>2. PICK m \in Mapped(e, image, Visible(e), Own(e)) : q = Quantized(Bytes(e), m, Own(e))
  BY <1>1
<1>3. e \in Palettes(values, TableSize) /\ (Transparent \in values => Own(e) # None)
  BY <1>1 DEF ZenquantPalettes
<1>4. mode = "colour" => Cardinality(values) <= TableSize
  BY RoomIsEnough
<1> HIDE DEF values
<1>5. /\ e \in Seq(Pixel)
      /\ mode = "colour" => \A v \in values : \E i \in DOMAIN e : e[i] = v
  <2>1. values \subseteq Pixel /\ IsFiniteSet(values)
    BY DEF values
  <2>2. PaletteFor(e, values, TableSize, mode)
    BY ONLY <1>3, <1>4, <2>1, PaletteOf, TableSizeType
  <2>3. QED
    BY <2>2 DEF PaletteFor
<1> DEFINE s == Shared(e, Bytes(e), Own(e))
<1>6. Holding(s, mode, values)
  BY <1>5, PlainHolds
<1>7. s.entries = e /\ s.table = Bytes(e) /\ s.slot = Own(e)
  BY DEF Shared
<1> HIDE DEF s
<1>8. Renders(Quantized(s.table, m, Own(e)), image, behind, mode)
  <2>1. Values(image) \subseteq values \cup {Transparent}
    BY DEF values
  <2>2. m \in Mapped(s.entries, image, Visible(s.entries), Own(e))
    BY <1>2, <1>7
  <2>3. Own(e) \in {None, Own(s.entries), s.slot} /\ Own(e) \in {None, Own(e)}
    BY <1>7
  <2>4. QED
    BY ONLY mode \in Modes, <1>6, <2>1, <2>2, <2>3, HeldRenders
<1>9. q.transparent = Own(e)
  BY <1>2 DEF Quantized
<1>10. QED
  BY <1>2, <1>3, <1>7, <1>8, <1>9 DEF Marks, values

LEMMA RgbsArePixels ==
  ASSUME NEW values, values \subseteq Pixel
  PROVE  /\ {Rgb(v) : v \in values} \subseteq Colours
         /\ \A v \in values \ {Transparent} : v \in {Rgb(w) : w \in values}
BY RgbIsColour DEF Rgb

LEMMA QuantetteRenders ==
  ASSUME NEW mode \in Modes, NEW image, IsFiniteSet(Values(image)), Values(image) \subseteq Pixel,
         RoomFor(Values(image), mode), NEW behind, NEW q \in QuantetteFrame(image)
  PROVE  Renders(q, image, behind, mode) /\ Marks(q, image)
<1> DEFINE values == Values(image)
           seeThrough == Transparent \in values
           colours == {Rgb(v) : v \in values}
           Kept(e) == IF seeThrough THEN WithSlot(e) ELSE Shared(e, Bytes(e), None)
<1>1. PICK e \in Palettes(colours, ColoursFor(seeThrough)) :
        \E m \in Mapped(e, image, Indices(e), Kept(e).slot) :
          q = Quantized(Kept(e).table, m, Kept(e).slot)
  BY DEF QuantetteFrame
<1> DEFINE s == Kept(e)
<1>2. PICK m \in Mapped(e, image, Indices(e), s.slot) : q = Quantized(s.table, m, s.slot)
  BY <1>1
<1>3. IsFiniteSet(colours) /\ colours \subseteq Pixel /\ colours \subseteq Colours
  BY RgbFinite, RgbsArePixels DEF Pixel
<1>4. mode = "colour" => Cardinality(colours) <= ColoursFor(seeThrough)
  BY RoomIsEnough
<1>5. /\ e \in Seq(Pixel) /\ Listed(e) /\ Len(e) <= ColoursFor(seeThrough)
      /\ \A i \in DOMAIN e : e[i] \in colours
      /\ mode = "colour" => \A v \in colours : \E i \in DOMAIN e : e[i] = v
  <2> HIDE DEF colours, seeThrough
  <2>1. e \in Palettes(colours, ColoursFor(seeThrough))
    BY <1>1
  <2>2. ColoursFor(seeThrough) \in Nat
    BY SlotLeftFree
  <2>3. PaletteFor(e, colours, ColoursFor(seeThrough), mode)
    BY ONLY <2>1, <2>2, <1>3, <1>4, PaletteOf
  <2>4. QED
    BY <2>3 DEF PaletteFor
<1>6. mode = "colour" => \A v \in values \ {Transparent} : \E i \in DOMAIN e : e[i] = v
  <2>1. \A v \in values \ {Transparent} : v \in colours
    BY RgbsArePixels
  <2> HIDE DEF colours
  <2>2. QED
    BY <1>5, <2>1
<1>7. Opaque(e)
  BY <1>3, <1>5, CanvasAssumption DEF Opaque
<1>8. seeThrough => Len(e) < TableSize
  BY <1>5, RoomLeft
<1> HIDE DEF values, colours
<1>9. Holding(s, mode, values) /\ s.entries = e /\ (seeThrough => s.slot # None)
  <2>1. CASE seeThrough
    <3>1. Holding(WithSlot(e), mode, values) /\ WithSlot(e).slot # None
      BY <1>5, <1>6, <1>8, <2>1, SlotHolds
    <3>2. WithSlot(e).entries = e
      BY DEF WithSlot, Shared
    <3>3. QED
      BY <2>1, <3>1, <3>2
  <2>2. CASE ~seeThrough
    <3>1. Holding(Shared(e, Bytes(e), None), mode, values)
      BY <1>5, <1>6, PlainHolds
    <3>2. Shared(e, Bytes(e), None).entries = e
      BY DEF Shared
    <3>3. QED
      BY <2>2, <3>1, <3>2
  <2>3. QED
    BY <2>1, <2>2
<1> HIDE DEF s
<1>10. Renders(Quantized(s.table, m, s.slot), image, behind, mode)
  <2>1. Values(image) \subseteq values \cup {Transparent}
    BY DEF values
  <2>2. m \in Mapped(s.entries, image, Indices(s.entries), s.slot)
    BY <1>2, <1>9
  <2>3. Opaque(s.entries)
    BY <1>7, <1>9
  <2>4. QED
    BY ONLY mode \in Modes, <1>9, <2>1, <2>2, <2>3, HeldRenders
<1>11. q.transparent = s.slot
  BY <1>2 DEF Quantized
<1>12. QED
  BY <1>2, <1>9, <1>10, <1>11 DEF Marks, values, s

(* quantizr, color_quant and imagequant, which have all colours where they   *)
(* fit, transparency among them.                                            *)
LEMMA LibraryRenders ==
  ASSUME NEW image, IsFiniteSet(Values(image)), Values(image) \subseteq Pixel,
         NEW values, values \in {Values(image), Values(image) \cup {Transparent}},
         RoomFor(Values(image), "colour"), NEW behind,
         NEW e \in Palettes(values, TableSize),
         NEW m \in Mapped(e, image, Indices(e), Own(e))
  PROVE  LET q == Quantized(Bytes(e), m, Own(e))
         IN Renders(q, image, behind, "colour") /\ Marks(q, image)
<1>1. IsFiniteSet(values) /\ values \subseteq Pixel /\ Cardinality(values) <= TableSize
  <2>1. IsFiniteSet(Values(image) \cup {Transparent})
    BY ONLY IsFiniteSet(Values(image)), FS_AddElement
  <2>2. QED
    BY <2>1, RoomIsEnough DEF Pixel
<1>2. /\ e \in Seq(Pixel) /\ Listed(e)
      /\ \A v \in values : \E i \in DOMAIN e : e[i] = v
  <2>1. PaletteFor(e, values, TableSize, "colour")
    BY ONLY <1>1, e \in Palettes(values, TableSize), PaletteOf, TableSizeType
  <2>2. QED
    BY <2>1 DEF PaletteFor
<1> DEFINE s == Shared(e, Bytes(e), Own(e))
<1>3. Holding(s, "colour", values)
  BY <1>2, PlainHolds
<1>4. s.entries = e /\ s.table = Bytes(e) /\ s.slot = Own(e)
  BY DEF Shared
<1> HIDE DEF s
<1>5. Renders(Quantized(s.table, m, Own(e)), image, behind, "colour")
  <2>1. Values(image) \subseteq values \cup {Transparent} /\ "colour" \in Modes
    BY DEF Modes
  <2>2. m \in Mapped(s.entries, image, Indices(s.entries), Own(e))
    BY <1>4
  <2>3. Own(e) \in {None, Own(s.entries), s.slot} /\ Own(e) \in {None, Own(e)}
    BY <1>4
  <2>4. "colour" # "alpha"
    OBVIOUS
  <2>5. QED
    BY ONLY <1>3, <2>1, <2>2, <2>3, <2>4, HeldRenders
<1>6. Transparent \in Values(image) => Own(e) # None
  BY <1>2, OwnIsNone
<1>7. QED
  BY <1>4, <1>5, <1>6 DEF Marks, Quantized

(* What imagequant leaves transparent on a background was drawn there.      *)
LEMMA BackgroundRenders ==
  ASSUME NEW mode \in Modes, NEW table, NEW m, NEW own, NEW image, NEW behind,
         DOMAIN m = DOMAIN image,
         Renders(Quantized(table, m, own), image, behind, mode),
         NEW b \in OnBackground(m, image, behind, own)
  PROVE  Renders(Quantized(table, b, own), image, behind, mode)
<1> DEFINE matching == IF own = None \/ behind = <<>> \/ DOMAIN image # Points THEN {}
                       ELSE {p \in Points : image[p] = behind[1][p]}
<1>1. PICK s \in SUBSET matching : b = [p \in DOMAIN m |-> IF p \in s THEN own ELSE m[p]]
  BY DEF OnBackground
<1>2. \A p \in s : behind # <<>> /\ DOMAIN image = Points /\ image[p] = behind[1][p]
  BY <1>1
<1>3. behind = <<>> => b = [p \in DOMAIN image |-> m[p]]
  BY <1>1
<1> HIDE DEF matching
<1>4. \A p \in DOMAIN image : b[p] = IF p \in s THEN own ELSE m[p]
  BY <1>1
<1>5. /\ Quantized(table, m, own) = [table |-> table, index |-> m, transparent |-> own]
      /\ Quantized(table, b, own) = [table |-> table, index |-> b, transparent |-> own]
  BY DEF Quantized
<1>6. ASSUME NEW p \in DOMAIN image
      PROVE  IF image[p] = Transparent THEN own = None \/ b[p] = own
             ELSE IF b[p] = own
                  THEN behind # <<>> /\ DOMAIN image = Points /\ image[p] = behind[1][p]
                  ELSE Agrees(mode, table[b[p] + 1], image[p])
  <2>1. CASE p \in s
    BY <1>2, <1>4, <2>1
  <2>2. CASE p \notin s
    <3>1. b[p] = m[p]
      BY <1>4, <2>2
    <3>2. QED
      BY <1>5, <3>1 DEF Renders
  <2>3. QED
    BY <2>1, <2>2
<1>7. behind = <<>> =>
        \A o, p \in DOMAIN image : image[o] = image[p] => b[o] = b[p]
  BY <1>3, <1>5 DEF Renders
<1>8. Coloured(table)
  BY <1>5 DEF Renders
<1>9. QED
  BY <1>5, <1>6, <1>7, <1>8 DEF Renders

LEMMA MappedWhole ==
  ASSUME NEW entries, NEW image, NEW allowed, NEW hole,
         NEW m \in Mapped(entries, image, allowed, hole)
  PROVE  DOMAIN m = DOMAIN image
BY DEF Mapped

\* The backends that are asked to keep transparency where colours are lost.
Keeps(mode, b) == mode = "alpha" => b \in {"zenquant", "quantette"}

LEMMA ImagequantRenders ==
  ASSUME NEW image, IsFiniteSet(Values(image)), Values(image) \subseteq Pixel,
         RoomFor(Values(image), "colour"), NEW behind, NEW q \in ImagequantFrame(image, behind)
  PROVE  Renders(q, image, behind, "colour")
<1> DEFINE offered == IF behind = <<>> THEN {} ELSE {Transparent}
           P == Palettes(Values(image), TableSize)
           O == Palettes(Values(image) \cup offered, TableSize)
<1>1. PICK e \in P \cup O :
        q \in UNION {{Quantized(Bytes(e), b, Own(e)) : b \in OnBackground(m, image, behind, Own(e))} :
                       m \in Mapped(e, image, Indices(e), Own(e))}
  BY DEF ImagequantFrame
<1>2. PICK m \in Mapped(e, image, Indices(e), Own(e)) :
        \E b \in OnBackground(m, image, behind, Own(e)) : q = Quantized(Bytes(e), b, Own(e))
  BY <1>1
<1>3. PICK b \in OnBackground(m, image, behind, Own(e)) : q = Quantized(Bytes(e), b, Own(e))
  BY <1>2
<1>4. PICK values \in {Values(image), Values(image) \cup {Transparent}} :
        e \in Palettes(values, TableSize)
  <2>1. Values(image) \cup offered \in {Values(image), Values(image) \cup {Transparent}}
    OBVIOUS
  <2>2. QED
    BY <1>1, <2>1
<1>5. Renders(Quantized(Bytes(e), m, Own(e)), image, behind, "colour")
  BY <1>2, <1>4, LibraryRenders
<1>6. DOMAIN m = DOMAIN image
  BY <1>2, MappedWhole
<1>7. "colour" \in Modes
  BY DEF Modes
<1>8. Renders(Quantized(Bytes(e), b, Own(e)), image, behind, "colour")
  BY ONLY <1>3, <1>5, <1>6, <1>7, BackgroundRenders
<1>9. QED
  BY <1>3, <1>8

LEMMA QuantizedRenders ==
  ASSUME NEW mode \in Modes, NEW b, Keeps(mode, b),
         NEW image, IsFiniteSet(Values(image)), Values(image) \subseteq Pixel,
         RoomFor(Values(image), mode), NEW behind, NEW q \in QuantizeFrame(b, image, behind)
  PROVE  Renders(q, image, behind, mode)
<1>1. CASE b \in {"zenquant", "quantette"}
  <2>1. q \in ZenquantFrame(image) \/ q \in QuantetteFrame(image)
    BY <1>1 DEF QuantizeFrame
  <2>2. QED
    BY <2>1, ZenquantRenders, QuantetteRenders
<1>2. CASE b \notin {"zenquant", "quantette"}
  <2>1. mode = "colour"
    BY <1>2 DEF Keeps, Modes
  <2>2. CASE q \in ImagequantFrame(image, behind)
    BY <2>1, <2>2, ImagequantRenders
  <2>3. CASE q \in LibraryFrame(image)
    <3>1. PICK e \in Palettes(Values(image), TableSize) :
            \E m \in Mapped(e, image, Indices(e), Own(e)) : q = Quantized(Bytes(e), m, Own(e))
      BY <2>3 DEF LibraryFrame
    <3>2. PICK m \in Mapped(e, image, Indices(e), Own(e)) : q = Quantized(Bytes(e), m, Own(e))
      BY <3>1
    <3>3. QED
      BY <2>1, <3>2, LibraryRenders
  <2>4. QED
    BY <1>2, <2>2, <2>3 DEF QuantizeFrame
<1>3. QED
  BY <1>1, <1>2

-----------------------------------------------------------------------------
(* Frames on a palette that is kept                                         *)

LEMMA UsedIsDeclared ==
  ASSUME NEW entries, NEW image, NEW allowed, allowed \subseteq Nat, NEW hole,
         NEW m \in Mapped(entries, image, allowed, hole), NEW others
  PROVE  LET t == DeclaredIfUsed(others, hole, m, image)
         IN t \in {None, hole} /\ (Transparent \in Values(image) => t = hole)
<1> DEFINE t == DeclaredIfUsed(others, hole, m, image)
<1>1. t = IF hole \in Values(m) THEN hole ELSE None
  BY DEF DeclaredIfUsed
<1>2. ASSUME Transparent \in Values(image), hole # None PROVE hole \in Values(m)
  <2>1. PICK p \in DOMAIN image : image[p] = Transparent
    BY <1>2 DEF Values
  <2>2. Sought(entries, image, allowed, hole, m, p)
    BY MappedWell
  <2>3. m[p] = hole
    BY <1>2, <2>1, <2>2 DEF Sought
  <2>4. DOMAIN m = DOMAIN image
    BY MappedWhole
  <2>5. QED
    BY <2>3, <2>4 DEF Values
<1>3. QED
  BY <1>1, <1>2

LEMMA IndicesAreNumbers ==
  ASSUME NEW e \in Seq(Pixel)
  PROVE  Visible(e) \subseteq Indices(e) /\ Indices(e) \subseteq Nat
BY DEF Visible, Indices

\* A palette's index for transparency, where its backend looks for it.
HasHole(s, b) ==
  IF b \in {"zenquant", "quantette"} THEN s.slot # None ELSE Own(s.entries) # None

LEMMA ZenquantRemapRenders ==
  ASSUME NEW mode \in Modes, NEW s, NEW values, Holding(s, mode, values),
         NEW image, IsFiniteSet(Values(image)), Values(image) \subseteq Pixel,
         Values(image) \subseteq values \cup {Transparent},
         RoomFor(Values(image), mode), NEW behind, NEW q \in ZenquantRemap(s, image)
  PROVE  Renders(q, image, behind, mode) /\ (s.slot # None => Marks(q, image))
<1> DEFINE e == s.entries
           own == Own(s.entries)
           hole == IF own # None THEN own ELSE s.slot
           told(m) == IF own # None THEN own ELSE DeclaredIfUsed(s.entries, s.slot, m, image)
<1>1. CASE Visible(s.entries) = {}
  <2>1. q \in ZenquantFrame(image)
    BY <1>1 DEF ZenquantRemap
  <2>2. QED
    BY <2>1, ZenquantRenders
<1>2. CASE Visible(s.entries) # {}
  <2>1. PICK m \in Mapped(s.entries, image, Visible(s.entries), hole) :
          q = Quantized(s.table, m, told(m))
    BY <1>2 DEF ZenquantRemap
  <2>2. Visible(s.entries) \subseteq Nat
    BY IndicesAreNumbers DEF Holding
  <2>3. told(m) \in {None, hole} /\ (Transparent \in Values(image) => told(m) = hole)
    <3>1. CASE own # None
      BY <3>1
    <3>2. CASE own = None
      <4>1. hole = s.slot /\ told(m) = DeclaredIfUsed(s.entries, s.slot, m, image)
        BY <3>2
      <4> HIDE DEF told, hole
      <4>2. m \in Mapped(s.entries, image, Visible(s.entries), s.slot)
        BY <2>1, <4>1
      <4>3. QED
        BY <2>2, <4>1, <4>2, UsedIsDeclared
    <3>3. QED
      BY <3>1, <3>2
  <2>4. hole \in {None, Own(s.entries), s.slot} /\ (s.slot # None => hole # None)
    OBVIOUS
  <2> HIDE DEF told, hole
  <2>5. Renders(Quantized(s.table, m, told(m)), image, behind, mode)
    BY ONLY mode \in Modes, Holding(s, mode, values), <2>1, <2>3, <2>4,
            Values(image) \subseteq values \cup {Transparent}, HeldRenders
  <2>6. q.transparent = told(m)
    BY <2>1 DEF Quantized
  <2>7. QED
    BY <2>1, <2>3, <2>4, <2>5, <2>6 DEF Marks
<1>3. QED
  BY <1>1, <1>2

LEMMA QuantetteRemapRenders ==
  ASSUME NEW mode \in Modes, NEW s, NEW values, Holding(s, mode, values),
         mode = "alpha" => Opaque(s.entries),
         NEW image, Values(image) \subseteq values \cup {Transparent},
         NEW behind, NEW q \in QuantetteRemap(s, image)
  PROVE  Renders(q, image, behind, mode) /\ (s.slot # None => Marks(q, image))
<1> DEFINE told(m) == DeclaredIfUsed(s.entries, s.slot, m, image)
<1>1. PICK m \in Mapped(s.entries, image, Indices(s.entries), s.slot) :
        q = Quantized(s.table, m, told(m))
  BY DEF QuantetteRemap
<1>2. Indices(s.entries) \subseteq Nat
  BY IndicesAreNumbers DEF Holding
<1>3. told(m) \in {None, s.slot} /\ (Transparent \in Values(image) => told(m) = s.slot)
  BY <1>1, <1>2, UsedIsDeclared
<1> HIDE DEF told
<1>4. s.slot \in {None, Own(s.entries), s.slot}
  OBVIOUS
<1>5. Renders(Quantized(s.table, m, told(m)), image, behind, mode)
  BY ONLY mode \in Modes, Holding(s, mode, values), <1>1, <1>3, <1>4,
          mode = "alpha" => Opaque(s.entries),
          Values(image) \subseteq values \cup {Transparent}, HeldRenders
<1>6. q.transparent = told(m)
  BY <1>1 DEF Quantized
<1>7. QED
  BY <1>1, <1>3, <1>5, <1>6 DEF Marks

LEMMA LibraryRemapRenders ==
  ASSUME NEW s, NEW values, Holding(s, "colour", values),
         NEW image, Values(image) \subseteq values \cup {Transparent},
         NEW behind, NEW q \in LibraryRemap(s, image) \cup ImagequantRemap(s, image, behind)
  PROVE  Renders(q, image, behind, "colour") /\ (Own(s.entries) # None => Marks(q, image))
<1> DEFINE own == Own(s.entries)
<1>1. "colour" \in Modes /\ "colour" # "alpha" /\ own \in {None, Own(s.entries), s.slot}
      /\ own \in {None, own}
  BY DEF Modes
<1>2. PICK m \in Mapped(s.entries, image, Indices(s.entries), own) :
        \/ q = Quantized(s.table, m, own)
        \/ \E b \in OnBackground(m, image, behind, own) : q = Quantized(s.table, b, own)
  BY DEF LibraryRemap, ImagequantRemap
<1> HIDE DEF own
<1>3. Renders(Quantized(s.table, m, own), image, behind, "colour")
  BY ONLY <1>1, <1>2, Holding(s, "colour", values),
          Values(image) \subseteq values \cup {Transparent}, HeldRenders
<1>4. CASE q = Quantized(s.table, m, own)
  BY <1>3, <1>4 DEF Marks, Quantized, own
<1>5. CASE q # Quantized(s.table, m, own)
  <2>1. PICK b \in OnBackground(m, image, behind, own) : q = Quantized(s.table, b, own)
    BY <1>2, <1>5
  <2>2. DOMAIN m = DOMAIN image
    BY <1>2, MappedWhole
  <2>3. Renders(Quantized(s.table, b, own), image, behind, "colour")
    BY ONLY <1>1, <1>3, <2>1, <2>2, BackgroundRenders
  <2>4. QED
    BY <2>1, <2>3 DEF Marks, Quantized, own
<1>6. QED
  BY <1>4, <1>5

LEMMA RemappedRenders ==
  ASSUME NEW mode \in Modes, NEW b, Keeps(mode, b),
         NEW s, NEW values, Holding(s, mode, values),
         mode = "alpha" /\ b = "quantette" => Opaque(s.entries),
         NEW image, IsFiniteSet(Values(image)), Values(image) \subseteq Pixel,
         Values(image) \subseteq values \cup {Transparent},
         RoomFor(Values(image), mode), NEW behind, NEW q \in RemapFrame(b, s, image, behind)
  PROVE  Renders(q, image, behind, mode) /\ (HasHole(s, b) => Marks(q, image))
<1>1. CASE b = "zenquant"
  <2>1. q \in ZenquantRemap(s, image)
    BY <1>1 DEF RemapFrame
  <2>2. QED
    BY <1>1, <2>1, ZenquantRemapRenders DEF HasHole
<1>2. CASE b = "quantette"
  <2>1. q \in QuantetteRemap(s, image)
    BY <1>2 DEF RemapFrame
  <2>2. QED
    BY <1>2, <2>1, QuantetteRemapRenders DEF HasHole
<1>3. CASE b \notin {"zenquant", "quantette"}
  <2>1. mode = "colour"
    BY <1>3 DEF Keeps, Modes
  <2>2. q \in LibraryRemap(s, image) \cup ImagequantRemap(s, image, behind)
    BY <1>3 DEF RemapFrame
  <2>3. QED
    BY <1>3, <2>1, <2>2, LibraryRemapRenders DEF HasHole
<1>4. QED
  BY <1>1, <1>2, <1>3

LEMMA GrayRenders ==
  ASSUME NEW mode \in Modes, NEW s, NEW values, Holding(s, mode, values), Opaque(s.entries),
         NEW image, Values(image) \subseteq values \cup {Transparent},
         NEW behind, NEW q \in GrayRemap(s, image)
  PROVE  Renders(q, image, behind, mode)
<1>1. PICK m \in Mapped(s.entries, image, Indices(s.entries), s.slot) :
        q = Quantized(s.table, m, s.slot)
  BY DEF GrayRemap
<1>2. s.slot \in {None, Own(s.entries), s.slot} /\ s.slot \in {None, s.slot}
  OBVIOUS
<1>3. Renders(Quantized(s.table, m, s.slot), image, behind, mode)
  BY ONLY mode \in Modes, Holding(s, mode, values), <1>1, <1>2, Opaque(s.entries),
          Values(image) \subseteq values \cup {Transparent}, HeldRenders
<1>4. QED
  BY <1>1, <1>3

-----------------------------------------------------------------------------
(* The palettes that are built                                              *)

\* Colours that fit, with an entry to spare.
EnoughFor(values, mode) ==
  mode = "colour" => Cardinality(values \cup {Black}) < TableSize

LEMMA EnoughIsRoom ==
  ASSUME NEW mode, NEW all, IsFiniteSet(all), EnoughFor(all, mode),
         NEW values, values \subseteq all \cup {Transparent}
  PROVE  RoomFor(values, mode) /\ IsFiniteSet(values)
<1> DEFINE B == all \cup {Black}
           U == B \cup {Transparent}
           V == values \cup {Black, Transparent}
<1>1. IsFiniteSet(B)
  BY ONLY IsFiniteSet(all), FS_AddElement
<1>2. V \subseteq U /\ values \subseteq U
  OBVIOUS
<1>3. mode = "colour" => Cardinality(B) < TableSize
  BY DEF EnoughFor
<1> HIDE DEF B
<1>4. IsFiniteSet(U) /\ Cardinality(U) <= Cardinality(B) + 1 /\ Cardinality(B) \in Nat
      /\ Cardinality(U) \in Nat
  <2>1. /\ IsFiniteSet(U)
        /\ Cardinality(U) = IF Transparent \in B THEN Cardinality(B) ELSE Cardinality(B) + 1
    BY ONLY <1>1, FS_AddElement
  <2>2. Cardinality(B) \in Nat
    BY ONLY <1>1, FS_CardinalityType
  <2>3. QED
    BY <2>1, <2>2
<1> HIDE DEF U, V
<1>5. mode = "colour" => Cardinality(U) <= TableSize
  BY <1>3, <1>4, TableSizeType
<1>6. mode = "colour" => Cardinality(V) <= TableSize
  BY <1>2, <1>4, <1>5, NoMore, TableSizeType
<1>7. IsFiniteSet(values)
  BY ONLY <1>2, <1>4, NoMore
<1>8. QED
  BY <1>6, <1>7 DEF RoomFor, V

LEMMA SampledIsAll ==
  ASSUME NEW canvases \in Seq([Points -> Pixel])
  PROVE  /\ Sampled(canvases, None) = AllValues(canvases)
         /\ AllValues(canvases) \subseteq Pixel /\ IsFiniteSet(AllValues(canvases))
<1> DEFINE n == Len(canvases)
           picked == [i \in 1 .. n |-> i - 1]
           taken == [i \in 1 .. n |-> canvases[picked[i] + 1]]
<1>1. n \in Nat /\ DOMAIN canvases = 1 .. n /\ canvases = [i \in 1 .. n |-> canvases[i]]
  OBVIOUS
<1>2. SampleIndices(n, None) = picked
  BY DEF SampleIndices
<1>3. Sampled(canvases, None) = AllValues(taken)
  BY <1>2 DEF Sampled
<1>4. \A i \in 1 .. n : taken[i] = canvases[i]
  <2>1. \A i \in 1 .. n : picked[i] + 1 = i
    BY <1>1
  <2>2. QED
    BY <2>1
<1>5. taken = canvases
  BY <1>1, <1>4
<1>6. \A i \in DOMAIN canvases : Values(canvases[i]) \subseteq Pixel
  BY DEF Values
<1>7. AllValues(canvases) \subseteq Pixel
  BY <1>6 DEF AllValues
<1>8. QED
  BY <1>3, <1>5, <1>7, AllValuesFinite

\* The values of the canvases, and how many entries they may take.
LEMMA ValuesFit ==
  ASSUME NEW mode, NEW all, IsFiniteSet(all), all \subseteq Pixel, EnoughFor(all, mode),
         NEW needs
  PROVE  mode = "colour" =>
           /\ Cardinality(all) <= ColoursFor(needs)
           /\ Cardinality({Rgb(v) : v \in all}) <= ColoursFor(needs)
           /\ Cardinality(all) <= TableSize
<1> SUFFICES ASSUME mode = "colour"
             PROVE  /\ Cardinality(all) <= ColoursFor(needs)
                    /\ Cardinality({Rgb(v) : v \in all}) <= ColoursFor(needs)
                    /\ Cardinality(all) <= TableSize
  OBVIOUS
<1> DEFINE B == all \cup {Black}
           R == {Rgb(v) : v \in all}
<1>1. IsFiniteSet(B)
  BY ONLY IsFiniteSet(all), FS_AddElement
<1>2. R \subseteq B /\ all \subseteq B
  BY DEF Rgb
<1>3. Cardinality(B) < TableSize
  BY DEF EnoughFor
<1> HIDE DEF B, R
<1>4. Cardinality(B) \in Nat
  BY ONLY <1>1, FS_CardinalityType
<1>5. Cardinality(B) <= ColoursFor(needs) /\ Cardinality(B) <= TableSize
  BY <1>3, <1>4, QuantizerAssumption DEF ColoursFor
<1>6. ColoursFor(needs) \in Nat
  BY SlotLeftFree
<1>7. QED
  BY <1>1, <1>2, <1>5, <1>6, NoMore, TableSizeType DEF R

LEMMA ZenquantHolds ==
  ASSUME NEW mode \in Modes, NEW all, IsFiniteSet(all), all \subseteq Pixel,
         EnoughFor(all, mode), NEW canvases, Sampled(canvases, None) = all,
         NEW transparency, NEW s \in ZenquantShared(canvases, transparency, None)
  PROVE  Holding(s, mode, all) /\ (Transparent \in all => s.slot # None)
<1> DEFINE needs == NeedsTransparent(canvases, transparency)
<1>1. PICK e \in ZenquantPalettes(all, ColoursFor(needs)) :
        s = IF needs /\ Own(e) = None THEN WithSlot(e) ELSE Shared(e, Bytes(e), Own(e))
  BY DEF ZenquantShared
<1>2. e \in Palettes(all, ColoursFor(needs)) /\ (Transparent \in all => Own(e) # None)
  BY <1>1 DEF ZenquantPalettes
<1> HIDE DEF needs
<1>3. PaletteFor(e, all, ColoursFor(needs), mode)
  <2>1. ColoursFor(needs) \in Nat
    BY SlotLeftFree
  <2>2. mode = "colour" => Cardinality(all) <= ColoursFor(needs)
    BY ValuesFit
  <2>3. QED
    BY ONLY <1>2, <2>1, <2>2, IsFiniteSet(all), all \subseteq Pixel, PaletteOf
<1>4. needs => Len(e) < TableSize
  BY <1>3, RoomLeft DEF PaletteFor
<1>5. mode = "colour" => \A v \in all \ {Transparent} : \E i \in DOMAIN e : e[i] = v
  BY <1>3 DEF PaletteFor
<1>6. CASE needs /\ Own(e) = None
  <2>1. Holding(WithSlot(e), mode, all) /\ WithSlot(e).slot # None
    BY <1>3, <1>4, <1>5, <1>6, SlotHolds DEF PaletteFor
  <2>2. QED
    BY <1>1, <1>6, <2>1
<1>7. CASE ~(needs /\ Own(e) = None)
  <2>1. s = Shared(e, Bytes(e), Own(e))
    BY <1>1, <1>7
  <2>2. Holding(Shared(e, Bytes(e), Own(e)), mode, all)
    BY <1>3, <1>5, PlainHolds DEF PaletteFor
  <2>3. Shared(e, Bytes(e), Own(e)).slot = Own(e)
    BY DEF Shared
  <2>4. QED
    BY <1>2, <2>1, <2>2, <2>3
<1>8. QED
  BY <1>6, <1>7

LEMMA QuantetteHolds ==
  ASSUME NEW mode \in Modes, NEW all, IsFiniteSet(all), all \subseteq Pixel,
         EnoughFor(all, mode), NEW canvases, Sampled(canvases, None) = all,
         AllValues(canvases) = all,
         NEW transparency, NEW s \in QuantetteShared(canvases, transparency, None)
  PROVE  /\ Holding(s, mode, all) /\ Opaque(s.entries)
         /\ Transparent \in all /\ transparency => s.slot # None
<1> DEFINE needs == NeedsTransparent(canvases, transparency)
           values == {Rgb(v) : v \in all}
<1>1. PICK e \in Palettes(values, ColoursFor(needs)) :
        s = IF needs THEN WithSlot(e) ELSE Shared(e, Bytes(e), None)
  BY DEF QuantetteShared
<1>2. IsFiniteSet(values) /\ values \subseteq Pixel /\ values \subseteq Colours
  BY RgbFinite, RgbsArePixels DEF Pixel
<1>3. \A v \in all \ {Transparent} : v \in values
  BY RgbsArePixels
<1>4. Transparent \in all /\ transparency => needs
  BY DEF NeedsTransparent
<1>5. mode = "colour" => Cardinality(values) <= ColoursFor(needs)
  BY ValuesFit
<1> HIDE DEF needs, values
<1>6. PaletteFor(e, values, ColoursFor(needs), mode)
  <2>1. ColoursFor(needs) \in Nat
    BY SlotLeftFree
  <2>2. QED
    BY ONLY <1>1, <1>2, <1>5, <2>1, PaletteOf
<1>7. needs => Len(e) < TableSize
  BY <1>6, RoomLeft DEF PaletteFor
<1>8. mode = "colour" => \A v \in all \ {Transparent} : \E i \in DOMAIN e : e[i] = v
  BY <1>3, <1>6 DEF PaletteFor
<1>9. Opaque(e) /\ e \in Seq(Pixel)
  BY <1>2, <1>6, CanvasAssumption DEF Opaque, PaletteFor
<1>10. CASE needs
  <2>1. Holding(WithSlot(e), mode, all) /\ WithSlot(e).slot # None
    BY <1>7, <1>8, <1>9, <1>10, SlotHolds
  <2>2. WithSlot(e).entries = e
    BY DEF WithSlot, Shared
  <2>3. QED
    BY <1>1, <1>9, <1>10, <2>1, <2>2
<1>11. CASE ~needs
  <2>1. Holding(Shared(e, Bytes(e), None), mode, all)
    BY <1>8, <1>9, PlainHolds
  <2>2. Shared(e, Bytes(e), None).entries = e
    BY DEF Shared
  <2>3. QED
    BY <1>1, <1>4, <1>9, <1>11, <2>1, <2>2
<1>12. QED
  BY <1>10, <1>11

LEMMA LibraryHolds ==
  ASSUME NEW all, IsFiniteSet(all), all \subseteq Pixel,
         EnoughFor(all, "colour"), NEW canvases, Sampled(canvases, None) = all,
         NEW s \in LibraryShared(canvases, None)
  PROVE  Holding(s, "colour", all) /\ (Transparent \in all => Own(s.entries) # None)
<1>1. PICK e \in Palettes(all, TableSize) : s = Shared(e, Bytes(e), None)
  BY DEF LibraryShared
<1>2. PaletteFor(e, all, TableSize, "colour")
  <2>1. Cardinality(all) <= TableSize
    BY ValuesFit
  <2>2. QED
    BY ONLY <1>1, <2>1, IsFiniteSet(all), all \subseteq Pixel, TableSizeType, PaletteOf
<1>3. Holding(Shared(e, Bytes(e), None), "colour", all)
  BY <1>2, PlainHolds DEF PaletteFor
<1>4. Shared(e, Bytes(e), None).entries = e
  BY DEF Shared
<1>5. Transparent \in all => Own(e) # None
  BY <1>2, OwnIsNone DEF PaletteFor
<1>6. QED
  BY <1>1, <1>3, <1>4, <1>5

(* What a shared palette holds of the canvases it is built from, whichever  *)
(* backend builds it.                                                       *)
LEMMA SharedHolds ==
  ASSUME NEW mode \in Modes, NEW b, Keeps(mode, b),
         NEW canvases \in Seq([Points -> Pixel]),
         EnoughFor(AllValues(canvases), mode), NEW transparency,
         NEW s \in BuildSharedPalette(b, canvases, transparency, None)
  PROVE  /\ Holding(s, mode, AllValues(canvases))
         /\ b = "quantette" => Opaque(s.entries)
         /\ Transparent \in AllValues(canvases) /\ (b = "quantette" => transparency) =>
              HasHole(s, b)
<1> DEFINE all == AllValues(canvases)
<1>1. Sampled(canvases, None) = all /\ all \subseteq Pixel /\ IsFiniteSet(all)
  BY SampledIsAll
<1>2. AllValues(canvases) = all
  OBVIOUS
<1> HIDE DEF all
<1>3. EnoughFor(all, mode)
  BY <1>2
<1>4. CASE b = "zenquant"
  <2>1. s \in ZenquantShared(canvases, transparency, None)
    BY <1>4 DEF BuildSharedPalette
  <2>2. Holding(s, mode, all) /\ (Transparent \in all => s.slot # None)
    BY <1>1, <1>3, <2>1, ZenquantHolds
  <2>3. QED
    BY <1>2, <1>4, <2>2 DEF HasHole
<1>5. CASE b = "quantette"
  <2>1. s \in QuantetteShared(canvases, transparency, None)
    BY <1>5 DEF BuildSharedPalette
  <2>2. /\ Holding(s, mode, all) /\ Opaque(s.entries)
        /\ Transparent \in all /\ transparency => s.slot # None
    BY <1>1, <1>2, <1>3, <2>1, QuantetteHolds
  <2>3. QED
    BY <1>2, <1>5, <2>2 DEF HasHole
<1>6. CASE b \notin {"zenquant", "quantette"}
  <2>1. mode = "colour"
    BY <1>6 DEF Keeps, Modes
  <2>2. s \in LibraryShared(canvases, None)
    BY <1>6 DEF BuildSharedPalette
  <2>3. Holding(s, "colour", all) /\ (Transparent \in all => Own(s.entries) # None)
    BY <1>1, <1>3, <2>1, <2>2, LibraryHolds
  <2>4. QED
    BY <1>2, <1>6, <2>1, <2>3 DEF HasHole
<1>7. QED
  BY <1>4, <1>5, <1>6

(* A gray palette has all its values, and no transparent one.               *)
LEMMA GrayHolds ==
  ASSUME NEW mode, NEW values, IsFiniteSet(values), values \subseteq Pixel,
         NEW force, TryGray(values, force) # <<>>
  PROVE  LET s == TryGray(values, force)[1]
         IN Holding(s, mode, values) /\ Opaque(s.entries)
<1> DEFINE grays == values \ {Transparent}
           reserve == force \/ Transparent \in values
           entries == SetToSeq(grays)
           kept == IF reserve THEN WithSlot(entries) ELSE Shared(entries, Bytes(entries), None)
           refused == grays = {} \/ ~grays \subseteq Grays \/ Cardinality(grays) > ColoursFor(reserve)
<1>1. IsFiniteSet(grays)
  BY ONLY IsFiniteSet(values), FS_Difference
<1>2. /\ TryGray(values, force) = <<[kept EXCEPT !.gray = TRUE]>>
      /\ Cardinality(grays) <= ColoursFor(reserve)
  <2>1. TryGray(values, force) = IF refused THEN <<>> ELSE <<[kept EXCEPT !.gray = TRUE]>>
    BY DEF TryGray
  <2>2. ~refused
    BY <2>1
  <2>3. Cardinality(grays) \in Nat /\ ColoursFor(reserve) \in Nat
    BY ONLY <1>1, FS_CardinalityType, SlotLeftFree
  <2>4. ~(Cardinality(grays) > ColoursFor(reserve))
    BY <2>2
  <2> HIDE DEF refused, kept, grays, reserve
  <2>5. Cardinality(grays) <= ColoursFor(reserve)
    BY <2>3, <2>4
  <2>6. QED
    BY <2>1, <2>2, <2>5
<1>3. /\ Listed(entries) /\ Len(entries) <= ColoursFor(reserve)
      /\ entries \in [1 .. Cardinality(grays) -> grays]
  BY <1>1, <1>2, SetIsListed
<1>4. \A v \in grays : \E i \in DOMAIN entries : entries[i] = v
  BY <1>1, SetToSeqHasAll
<1>5. entries \in Seq(Pixel) /\ Opaque(entries)
  <2>1. Cardinality(grays) \in Nat
    BY ONLY <1>1, FS_CardinalityType
  <2>2. grays \subseteq Pixel
    OBVIOUS
  <2> DEFINE n == Cardinality(grays)
  <2> HIDE DEF entries
  <2>5. n \in Nat /\ entries \in [1 .. n -> grays]
    BY <1>3, <2>1
  <2> HIDE DEF n, grays
  <2>6. entries \in [1 .. n -> Pixel]
    BY <2>2, <2>5
  <2>3. entries \in Seq(Pixel)
    BY <2>5, <2>6
  <2>4. \A i \in DOMAIN entries : entries[i] \in grays
    BY <1>3
  <2>7. QED
    BY <2>3, <2>4 DEF Opaque, grays
<1> HIDE DEF entries
<1>6. reserve => Len(entries) < TableSize
  BY <1>3, RoomLeft
<1>7. Holding(kept, mode, values) /\ kept.entries = entries
  <2>1. CASE reserve
    <3>1. Holding(WithSlot(entries), mode, values)
      BY <1>4, <1>5, <1>6, <2>1, SlotHolds
    <3>2. WithSlot(entries).entries = entries
      BY DEF WithSlot, Shared
    <3>3. QED
      BY <2>1, <3>1, <3>2
  <2>2. CASE ~reserve
    <3>1. Holding(Shared(entries, Bytes(entries), None), mode, values)
      BY <1>4, <1>5, PlainHolds
    <3>2. Shared(entries, Bytes(entries), None).entries = entries
      BY DEF Shared
    <3>3. QED
      BY <2>2, <3>1, <3>2
  <2>3. QED
    BY <2>1, <2>2
<1> DEFINE s == [kept EXCEPT !.gray = TRUE]
<1>8. s.entries = kept.entries /\ s.table = kept.table /\ s.slot = kept.slot
  BY DEF WithSlot, Shared
<1>9. s = TryGray(values, force)[1]
  BY <1>2
<1> HIDE DEF s, kept
<1>10. QED
  BY <1>5, <1>7, <1>8, <1>9 DEF Holding

-----------------------------------------------------------------------------
(* What is drawn of a canvas                                                *)

\* What may stay as it is behind a point that is not painted.
Stays(new, behind, p) ==
  new[p] = Transparent \/ (behind # <<>> /\ <<new[p], behind[1][p]>> \in Alike)

\* A region that draws a canvas on what is behind.
Redraws(rect, image, new, behind) ==
  /\ Inside(rect) /\ DOMAIN image = Area(rect)
  /\ \A p \in DOMAIN image : image[p] # Transparent => image[p] = new[p]
  /\ \A p \in Points : p \notin Area(rect) \/ image[p] = Transparent => Stays(new, behind, p)
  /\ behind = <<>> => rect = Whole /\ image = new

LEMMA WholeRedraws ==
  ASSUME NEW new \in [Points -> Pixel], NEW behind
  PROVE  Redraws(Whole, new, new, behind)
BY WholeIsInside DEF Redraws, Stays

LEMMA DrawnRedraws ==
  ASSUME NEW new \in [Points -> Pixel], NEW behind
  PROVE  Redraws(Drawn(new, behind).rect, Drawn(new, behind).image, new, behind)
<1>1. CASE Drawn(new, behind) = Undiffed(new)
  BY <1>1, WholeRedraws DEF Undiffed
<1>2. CASE Drawn(new, behind) # Undiffed(new)
  <2> DEFINE old == behind[1]
             changed == Changed(new, old)
             rect == DiffRect(new, old)
             drawn == [p \in Area(rect) |-> IF p \in changed THEN IndexOf(new[p]) ELSE Skip]
             image == [p \in Area(rect) |-> IF drawn[p] = Skip THEN Transparent ELSE drawn[p]]
  <2>1. Drawn(new, behind) = Marked(new, old) /\ behind # <<>>
    BY <1>2 DEF Drawn
  <2>2. DiffFrame(new, old) = [rect |-> rect, image |-> drawn]
    BY DEF DiffFrame
  <2>3. Marked(new, old).rect = rect /\ Marked(new, old).image = image
    BY <2>2 DEF Marked
  <2>4. changed = {p \in Points : <<new[p], old[p]>> \notin Alike}
    BY DEF Changed
  <2>5. Inside(rect) /\ changed \subseteq Area(rect)
    BY ChangedIsInside
  <2> HIDE DEF rect, changed, old
  <2>6. Area(rect) \subseteq Points
    BY <2>5, InsideIsUnclipped
  <2>7. ASSUME NEW p \in Area(rect)
        PROVE  /\ image[p] # Transparent => image[p] = new[p]
               /\ image[p] = Transparent => new[p] = Transparent \/ p \notin changed
    <3>1. new[p] \in Pixel /\ Skip \notin Pixel
      BY <2>6, CanvasAssumption DEF Pixel
    <3>2. drawn[p] = IF p \in changed THEN IndexOf(new[p]) ELSE Skip
      OBVIOUS
    <3>3. image[p] = IF drawn[p] = Skip THEN Transparent ELSE drawn[p]
      OBVIOUS
    <3> HIDE DEF drawn, image
    <3>4. QED
      BY <3>1, <3>2, <3>3 DEF IndexOf
  <2>8. DOMAIN image = Area(rect)
    OBVIOUS
  <2> HIDE DEF image
  <2>9. \A p \in Points : p \notin Area(rect) \/ image[p] = Transparent => Stays(new, behind, p)
    BY <2>1, <2>4, <2>5, <2>7 DEF Stays, old
  <2>10. Redraws(rect, image, new, behind)
    BY <2>1, <2>5, <2>7, <2>8, <2>9 DEF Redraws
  <2>11. QED
    BY <2>1, <2>3, <2>10
<1>3. QED
  BY <1>1, <1>2

-----------------------------------------------------------------------------
(* What a frame shows of the canvas it is made for                          *)

\* An index other than the transparent one shows a colour of the canvas; where
\* there is none, what is behind may stay.
ShowsAt(g, new, behind, mode, p) ==
  IF p \in Area(g.rect) /\ g.index[p] # g.transparent
  THEN Agrees(mode, TableOf(g)[g.index[p] + 1], new[p])
  ELSE Stays(new, behind, p)

Shows(g, new, behind, mode) ==
  /\ Inside(g.rect) /\ DOMAIN g.index = Area(g.rect) /\ Coloured(TableOf(g))
  /\ \A p \in Points : ShowsAt(g, new, behind, mode, p)
  /\ behind = <<>> =>
       /\ g.rect = Whole
       /\ \A o, p \in Points : new[o] = new[p] => g.index[o] = g.index[p]

(* A frame that has its table, or is read with it.                          *)
LEMMA TableIsItsOwn ==
  ASSUME NEW q, NEW image, FrameFits(q, image), DOMAIN image # {}, NEW g,
         g.table = q.table \/ (g.table = <<>> /\ q.table = GlobalTable)
  PROVE  TableOf(g) = q.table
<1>1. PICK p \in DOMAIN image : TRUE
  OBVIOUS
<1>2. q.index[p] \in Indices(q.table)
  BY DEF FrameFits, Fitting, InTable, Values
<1>3. q.table # <<>>
  BY <1>2, NothingListed
<1>4. QED
  BY <1>3 DEF TableOf

LEMMA RenderedShows ==
  ASSUME NEW mode \in Modes, NEW q, NEW image, NEW new \in [Points -> Pixel], NEW behind,
         Renders(q, image, behind, mode), Marks(q, image), DOMAIN q.index = DOMAIN image,
         NEW rect, Redraws(rect, image, new, behind),
         NEW g, g.rect = rect, g.index = q.index, g.transparent = q.transparent,
         TableOf(g) = q.table
  PROVE  Shows(g, new, behind, mode)
<1>1. Inside(rect) /\ DOMAIN image = Area(rect) /\ Area(rect) \subseteq Points
  BY InsideIsUnclipped DEF Redraws
<1>2. ASSUME NEW p \in Points PROVE ShowsAt(g, new, behind, mode, p)
  <2>1. new[p] \in Pixel
    OBVIOUS
  <2>2. CASE p \notin Area(rect)
    BY <2>2 DEF ShowsAt, Redraws
  <2>3. CASE p \in Area(rect) /\ image[p] = Transparent
    <3>1. q.transparent # None
      BY <1>1, <2>3 DEF Marks, Values
    <3>2. q.index[p] = q.transparent
      BY <1>1, <2>3, <3>1 DEF Renders
    <3>3. QED
      BY <2>3, <3>2 DEF ShowsAt, Redraws
  <2>4. CASE p \in Area(rect) /\ image[p] # Transparent
    <3>1. image[p] = new[p]
      BY <1>1, <2>4 DEF Redraws
    <3>2. CASE q.index[p] = q.transparent
      <4>1. behind # <<>> /\ image[p] = behind[1][p]
        BY <1>1, <2>4, <3>2 DEF Renders
      <4>2. <<new[p], behind[1][p]>> \in Alike
        BY <2>1, <3>1, <4>1, AlikeAssumption
      <4>3. QED
        BY <3>2, <4>1, <4>2 DEF ShowsAt, Stays
    <3>3. CASE q.index[p] # q.transparent
      <4>1. Agrees(mode, q.table[q.index[p] + 1], image[p])
        BY <1>1, <2>4, <3>3 DEF Renders
      <4>2. QED
        BY <2>4, <3>1, <3>3, <4>1 DEF ShowsAt
    <3>4. QED
      BY <3>2, <3>3
  <2>5. QED
    BY <2>2, <2>3, <2>4
<1>3. ASSUME behind = <<>>
      PROVE  /\ g.rect = Whole
             /\ \A o, p \in Points : new[o] = new[p] => g.index[o] = g.index[p]
  <2>1. rect = Whole /\ image = new
    BY <1>3 DEF Redraws
  <2>2. DOMAIN image = Points
    BY <2>1
  <2>3. QED
    BY <1>3, <2>1, <2>2 DEF Renders
<1>4. Coloured(TableOf(g))
  BY DEF Renders
<1>5. QED
  BY <1>1, <1>2, <1>3, <1>4 DEF Shows

LEMMA FramedShows ==
  ASSUME NEW mode \in Modes, NEW q, NEW image, NEW new \in [Points -> Pixel], NEW behind,
         Placed(q, image), Renders(q, image, behind, mode), Marks(q, image),
         NEW rect, Redraws(rect, image, new, behind)
  PROVE  Shows(Framed(rect, q), new, behind, mode)
<1> DEFINE g == Framed(rect, q)
<1>1. /\ g.rect = rect /\ g.index = q.index /\ g.transparent = q.transparent
      /\ g.table = IF palette # <<>> /\ ~q.local THEN <<>> ELSE q.table
  BY DEF Framed
<1> HIDE DEF g
<1>2. FrameFits(q, image) /\ DOMAIN q.index = DOMAIN image
  BY DEF Placed, FrameFits
<1>3. g.table = q.table \/ (g.table = <<>> /\ q.table = GlobalTable)
  BY <1>1 DEF Placed
<1>4. DOMAIN image # {}
  BY InsideIsUnclipped DEF Redraws
<1>5. TableOf(g) = q.table
  BY <1>2, <1>3, <1>4, TableIsItsOwn
<1>6. Shows(g, new, behind, mode)
  BY ONLY <1>1, <1>2, <1>5, mode \in Modes, new \in [Points -> Pixel],
          Renders(q, image, behind, mode), Marks(q, image), Redraws(rect, image, new, behind),
          RenderedShows
<1>7. QED
  BY <1>6 DEF g

\* Where the frame's table goes does not change what is rendered.
LEMMA TabledRenders ==
  ASSUME NEW q, NEW local, NEW image, NEW behind, NEW mode
  PROVE  /\ Renders(Tabled(q, local), image, behind, mode) <=> Renders(q, image, behind, mode)
         /\ Marks(Tabled(q, local), image) <=> Marks(q, image)
         /\ Unmarked(q, image) <=> ~Marks(q, image)
<1> DEFINE t == Tabled(q, local)
<1>1. t.table = q.table /\ t.index = q.index /\ t.transparent = q.transparent
  BY DEF Tabled
<1> HIDE DEF t
<1>2. /\ Renders(t, image, behind, mode) <=> Renders(q, image, behind, mode)
      /\ Marks(t, image) <=> Marks(q, image)
  BY <1>1 DEF Renders, Marks
<1>3. QED
  BY <1>2 DEF t, Marks, Unmarked

-----------------------------------------------------------------------------
(* prepare_frame_quantized                                                  *)

\* What is known of the shared palette, once it is there.
PaletteHolds(mode) ==
  palette # <<>> =>
    /\ Holding(palette[1], mode, AllValues(inputs))
    /\ backend = "quantette" \/ palette[1].gray => Opaque(palette[1].entries)
    /\ config.oneShot /\ Transparent \in AllValues(inputs) => HasHole(palette[1], backend)

\* An image of the animation.
ImageOf(image, mode) ==
  /\ IsFiniteSet(Values(image)) /\ Values(image) \subseteq Pixel
  /\ Values(image) \subseteq AllValues(inputs) \cup {Transparent}
  /\ RoomFor(Values(image), mode)

LEMMA FreshRenders ==
  ASSUME NEW mode \in Modes, Keeps(mode, backend), NEW image, ImageOf(image, mode),
         NEW behind, NEW q \in Fresh(image, behind)
  PROVE  Placed(q, image) /\ Renders(q, image, behind, mode)
<1>1. PICK r \in QuantizeFrame(backend, image, behind) : q = Tabled(r, TRUE)
  BY DEF Fresh
<1>2. Renders(r, image, behind, mode)
  BY ONLY <1>1, mode \in Modes, Keeps(mode, backend), ImageOf(image, mode), QuantizedRenders DEF ImageOf
<1>3. Placed(q, image)
  BY FreshPlaced DEF ImageOf
<1>4. QED
  BY <1>1, <1>2, <1>3, TabledRenders

LEMMA FromSharedRenders ==
  ASSUME NEW mode \in Modes, Keeps(mode, backend), PaletteFitting, PaletteHolds(mode),
         palette # <<>>, NEW image, ImageOf(image, mode),
         NEW behind, NEW q \in FromShared(image, behind)
  PROVE  Placed(q, image) /\ Renders(q, image, behind, mode)
<1>1. CASE q \in Fresh(image, behind)
  BY <1>1, FreshRenders
<1>2. CASE q \notin Fresh(image, behind)
  <2> DEFINE s == palette[1]
  <2>1. PICK r \in IF s.gray THEN GrayRemap(s, image) ELSE RemapFrame(backend, s, image, behind) :
          q = Tabled(r, r.table # s.table)
    BY <1>2 DEF FromShared
  <2>2. /\ Holding(s, mode, AllValues(inputs))
        /\ backend = "quantette" \/ s.gray => Opaque(s.entries)
    BY DEF PaletteHolds
  <2> HIDE DEF s
  <2>3. Renders(r, image, behind, mode)
    <3>1. CASE s.gray
      BY ONLY <2>1, <2>2, <3>1, mode \in Modes, ImageOf(image, mode), GrayRenders DEF ImageOf
    <3>2. CASE ~s.gray
      BY ONLY <2>1, <2>2, <3>2, mode \in Modes, Keeps(mode, backend), ImageOf(image, mode),
              RemappedRenders DEF ImageOf
    <3>3. QED
      BY <3>1, <3>2
  <2>4. Placed(q, image)
    BY SharedPlaced DEF ImageOf
  <2>5. QED
    BY <2>1, <2>3, <2>4, TabledRenders
<1>3. QED
  BY <1>1, <1>2

LEMMA PerFrameRenders ==
  ASSUME NEW mode \in Modes, Keeps(mode, backend), NEW image, ImageOf(image, mode),
         NEW behind, NEW q \in PerFrame(image, behind)
  PROVE  Placed(q, image) /\ Renders(q, image, behind, mode)
<1> DEFINE gray == IF config.lossless THEN TryGray(Values(image), FALSE) ELSE <<>>
<1>1. CASE gray = <<>>
  <2>1. q \in Fresh(image, behind)
    BY <1>1 DEF PerFrame
  <2>2. QED
    BY <2>1, FreshRenders
<1>2. CASE gray # <<>>
  <2>1. PICK r \in GrayRemap(gray[1], image) : q = Tabled(r, TRUE)
    BY <1>2 DEF PerFrame
  <2>2. gray = TryGray(Values(image), FALSE)
    BY <1>2
  <2> HIDE DEF gray
  <2>3. Holding(gray[1], mode, Values(image)) /\ Opaque(gray[1].entries)
    BY <1>2, <2>2, GrayHolds DEF ImageOf
  <2>4. Renders(r, image, behind, mode)
    BY <2>1, <2>3, GrayRenders
  <2>5. Placed(q, image)
    BY OwnPlaced DEF ImageOf
  <2>6. QED
    BY <2>1, <2>4, <2>5, TabledRenders
<1>3. QED
  BY <1>1, <1>2

(* Opaque pixels are found before a transparent entry of the same RGB where *)
(* it comes later, in a palette that was given.                             *)
LEMMA GivenRenders ==
  ASSUME NEW e \in Seq(Pixel), NEW image, Values(image) \subseteq Pixel,
         Values(image) \subseteq ToSet(e) \cup {Transparent},
         \A i, j \in DOMAIN e : e[i] = Transparent /\ e[j] = Black => j < i,
         NEW behind, NEW q \in MapPixels(e, image)
  PROVE  Renders(q, image, behind, "colour") /\ (Own(e) # None => Marks(q, image))
<1> DEFINE own == Own(e)
           b == Bytes(e)
<1>1. PICK m \in Mapped(b, image, Indices(e), own) : q = Quantized(b, m, own)
  BY DEF MapPixels
<1>2. Listed(e) /\ Len(e) \in Nat /\ DOMAIN e = 1 .. Len(e) /\ Indices(e) = 0 .. Len(e) - 1
  BY SeqIsListed DEF Indices
<1>3. Coloured(b) /\ \A i \in Indices(e) : b[i + 1] = Rgb(e[i + 1])
  BY BytesAreColours
<1>4. own \in Indices(e) \cup {None} /\ (own # None => e[own + 1] = Transparent)
  BY <1>2, OwnIsIndex
<1> HIDE DEF own, b
<1>5. ASSUME NEW p \in DOMAIN image PROVE Sought(b, image, Indices(e), own, m, p)
  <2>1. Indices(e) \subseteq Nat
    BY <1>2
  <2>2. QED
    BY <1>1, <2>1, MappedWell
<1>6. ASSUME NEW p \in DOMAIN image, image[p] # Transparent
      PROVE  m[p] # own /\ Agrees("colour", b[m[p] + 1], image[p])
  <2>1. image[p] \in ToSet(e) /\ image[p] \in Pixel
    BY <1>6 DEF Values
  <2>2. PICK j \in DOMAIN e : e[j] = image[p]
    BY <2>1 DEF ToSet
  <2>3. j - 1 \in Indices(e) /\ (j - 1) + 1 = j
    BY <1>2
  <2>4. b[(j - 1) + 1] = image[p]
    BY <1>3, <1>6, <2>2, <2>3 DEF Rgb
  <2>5. /\ m[p] \in Indices(e) /\ b[m[p] + 1] = image[p]
        /\ m[p] <= j - 1
    BY <1>5, <1>6, <2>3, <2>4 DEF Sought
  <2>6. m[p] # own
    <3>1. SUFFICES ASSUME m[p] = own PROVE FALSE
      OBVIOUS
    <3>2. own + 1 \in DOMAIN e /\ e[own + 1] = Transparent /\ own \in Nat
      BY <1>2, <1>4, <2>5, <3>1 DEF None
    <3>3. b[own + 1] = Black
      BY <1>3, <2>5, <3>1, <3>2 DEF Rgb
    <3>4. e[j] = Black
      BY <2>2, <2>5, <3>1, <3>3
    <3>5. j < own + 1
      BY <3>2, <3>4
    <3>6. QED
      BY <1>2, <2>5, <3>1, <3>2, <3>5
  <2>7. QED
    BY <2>1, <2>5, <2>6 DEF Agrees
<1>7. /\ q.table = b /\ q.index = m /\ q.transparent = own
  BY <1>1 DEF Quantized
<1>8. \A p \in DOMAIN image : image[p] = Transparent => own = None \/ m[p] = own
  BY <1>5 DEF Sought
<1>9. \A o, p \in DOMAIN image : image[o] = image[p] => m[o] = m[p]
  BY <1>5 DEF Sought
<1>10. Renders(q, image, behind, "colour")
  BY <1>3, <1>6, <1>7, <1>8, <1>9 DEF Renders
<1>11. QED
  BY <1>7, <1>10 DEF Marks, own

-----------------------------------------------------------------------------
(* The frames of both encoders                                              *)

\* What is known of a palette the caller gave.
GivenHolds(mode) ==
  config.given # <<>> =>
    /\ mode = "colour" /\ config.given \in Seq(Pixel)
    /\ AllValues(inputs) \subseteq ToSet(config.given)
    /\ \A i, j \in DOMAIN config.given :
         config.given[i] = Transparent /\ config.given[j] = Black => j < i

\* The conditions a display depends on.
Promising(mode) ==
  /\ Keeps(mode, backend) /\ PaletteHolds(mode) /\ GivenHolds(mode)
  /\ IsFiniteSet(AllValues(inputs)) /\ AllValues(inputs) \subseteq Pixel
  /\ EnoughFor(AllValues(inputs), mode)

LEMMA DrawnIsOf ==
  ASSUME NEW mode \in Modes, Promising(mode), NEW new \in [Points -> Pixel],
         Values(new) \subseteq AllValues(inputs), NEW behind
  PROVE  ImageOf(Drawn(new, behind).image, mode) /\ ImageOf(new, mode)
<1> DEFINE drawn == Drawn(new, behind)
           all == AllValues(inputs)
<1>1. Redraws(drawn.rect, drawn.image, new, behind)
  BY DrawnRedraws
<1>2. IsFiniteSet(all) /\ all \subseteq Pixel /\ EnoughFor(all, mode)
  BY DEF Promising
<1> HIDE DEF drawn, all
<1>3. Values(drawn.image) \subseteq all \cup {Transparent}
  <2>1. ASSUME NEW p \in DOMAIN drawn.image
        PROVE  drawn.image[p] \in all \cup {Transparent}
    <3>1. p \in Points
      BY <1>1, <2>1, InsideIsUnclipped DEF Redraws
    <3>2. new[p] \in all
      BY <3>1 DEF Values, all
    <3>3. QED
      BY <1>1, <3>2 DEF Redraws
  <2>2. QED
    BY <2>1 DEF Values
<1>4. Values(new) \subseteq all \cup {Transparent}
  BY DEF all
<1>5. Transparent \in Pixel
  BY DEF Pixel
<1>6. QED
  BY <1>2, <1>3, <1>4, <1>5, EnoughIsRoom DEF ImageOf, drawn, all

(* The streaming encoder: by the palette it was given, on the shared one,   *)
(* or on one of the frame's own, and whole again where what is transparent  *)
(* could not be marked.                                                     *)
LEMMA GivenShows ==
  ASSUME NEW mode \in Modes, Promising(mode), PaletteFitting, config.given # <<>>,
         Writable(config.given), NEW new \in [Points -> Pixel],
         Values(new) \subseteq AllValues(inputs), NEW behind,
         NEW q \in MapPixels(config.given, Drawn(new, behind).image)
  PROVE  Shows(Framed(Drawn(new, behind).rect, Tabled(q, TRUE)), new, behind, mode)
<1> DEFINE drawn == Drawn(new, behind)
           e == config.given
           t == Tabled(q, TRUE)
<1>1. /\ mode = "colour" /\ e \in Seq(Pixel) /\ AllValues(inputs) \subseteq ToSet(e)
      /\ \A i, j \in DOMAIN e : e[i] = Transparent /\ e[j] = Black => j < i
  BY DEF Promising, GivenHolds
<1>2. Redraws(drawn.rect, drawn.image, new, behind) /\ ImageOf(drawn.image, mode)
  BY DrawnRedraws, DrawnIsOf
<1>3. Listed(e)
  BY <1>1, SeqIsListed
<1>4. Transparent \in Values(drawn.image) => Own(e) # None
  <2>1. CASE drawn = Undiffed(new)
    <3>1. drawn.image = new
      BY <2>1 DEF Undiffed
    <3> HIDE DEF drawn, e
    <3>2. SUFFICES ASSUME Transparent \in Values(new) PROVE Own(e) # None
      BY <3>1
    <3>3. Transparent \in ToSet(e)
      BY <1>1, <3>2
    <3>4. PICK i \in DOMAIN e : e[i] = Transparent
      BY <3>3 DEF ToSet
    <3>5. QED
      BY <1>3, <3>4, OwnIsNone
  <2>2. CASE drawn # Undiffed(new)
    BY <2>2 DEF Drawn, AllowDiff
  <2>3. QED
    BY <2>1, <2>2
<1>5. q \in MapPixels(e, drawn.image)
  OBVIOUS
<1>6. Placed(t, drawn.image)
  <2>1. PICK m \in Mapped(Bytes(e), drawn.image, Indices(e), Own(e)) :
          q = Quantized(Bytes(e), m, Own(e))
    BY <1>5 DEF MapPixels
  <2>2. Len(e) <= TableSize
    BY DEF Writable
  <2> HIDE DEF drawn, e
  <2>3. FrameFits(q, drawn.image)
    BY <1>3, <2>1, <2>2, OwnFrameFits
  <2>4. QED
    BY <2>3, PlacedWith DEF t
<1> HIDE DEF drawn, e
<1>7. Values(drawn.image) \subseteq ToSet(e) \cup {Transparent} /\ Values(drawn.image) \subseteq Pixel
  BY <1>1, <1>2 DEF ImageOf
<1>8. Renders(q, drawn.image, behind, "colour") /\ (Own(e) # None => Marks(q, drawn.image))
  BY ONLY <1>1, <1>5, <1>7, GivenRenders
<1>9. Renders(t, drawn.image, behind, mode) /\ Marks(t, drawn.image)
  <2>1. Marks(q, drawn.image)
    BY <1>4, <1>5, <1>8 DEF MapPixels, Quantized, Marks
  <2>2. QED
    BY <1>1, <1>8, <2>1, TabledRenders DEF t
<1> HIDE DEF t
<1>10. Shows(Framed(drawn.rect, t), new, behind, mode)
  BY ONLY <1>2, <1>6, <1>9, mode \in Modes, new \in [Points -> Pixel], FramedShows
<1>11. QED
  BY <1>10 DEF drawn, t

LEMMA PreparedShows ==
  ASSUME NEW mode \in Modes, Promising(mode), PaletteFitting,
         NEW new \in [Points -> Pixel], Values(new) \subseteq AllValues(inputs), NEW behind,
         NEW g \in PreparedFrames(new, behind)
  PROVE  Shows(g, new, behind, mode)
<1> DEFINE drawn == Drawn(new, behind)
           tried == IF palette # <<>> THEN FromShared(drawn.image, behind)
                    ELSE PerFrame(drawn.image, behind)
<1>1. /\ Redraws(drawn.rect, drawn.image, new, behind) /\ Redraws(Whole, new, new, behind)
      /\ ImageOf(drawn.image, mode) /\ ImageOf(new, mode)
  BY DrawnRedraws, WholeRedraws, DrawnIsOf
<1>2. Keeps(mode, backend) /\ PaletteHolds(mode)
  BY DEF Promising
<1>3. CASE config.given # <<>>
  <2>1. /\ Writable(config.given)
        /\ \E q \in MapPixels(config.given, drawn.image) : g = Framed(drawn.rect, Tabled(q, TRUE))
    BY <1>3 DEF PreparedFrames
  <2>2. QED
    BY <1>3, <2>1, GivenShows
<1>4. CASE config.given = <<>>
  <2>1. \/ \E q \in {r \in tried : ~Unmarked(r, drawn.image)} : g = Framed(drawn.rect, q)
        \/ \E q \in {r \in Fresh(new, behind) : ~Unmarked(r, new)} : g = Framed(Whole, q)
    BY <1>4 DEF PreparedFrames, Redone
  <2> HIDE DEF drawn
  <2>2. ASSUME NEW q \in tried, ~Unmarked(q, drawn.image), g = Framed(drawn.rect, q)
        PROVE  Shows(g, new, behind, mode)
    <3>1. Placed(q, drawn.image) /\ Renders(q, drawn.image, behind, mode)
      BY <1>1, <1>2, FromSharedRenders, PerFrameRenders
    <3>2. Marks(q, drawn.image)
      BY <2>2 DEF Unmarked, Marks
    <3>3. Shows(Framed(drawn.rect, q), new, behind, mode)
      BY ONLY <1>1, <3>1, <3>2, mode \in Modes, new \in [Points -> Pixel], FramedShows
    <3>4. QED
      BY <2>2, <3>3
  <2>3. ASSUME NEW q \in Fresh(new, behind), ~Unmarked(q, new), g = Framed(Whole, q)
        PROVE  Shows(g, new, behind, mode)
    <3>1. Placed(q, new) /\ Renders(q, new, behind, mode)
      BY <1>1, <1>2, FreshRenders
    <3>2. Marks(q, new)
      BY <2>3 DEF Unmarked, Marks
    <3>3. Shows(Framed(Whole, q), new, behind, mode)
      BY ONLY <1>1, <3>1, <3>2, mode \in Modes, new \in [Points -> Pixel], FramedShows
    <3>4. QED
      BY <2>3, <3>3
  <2>4. QED
    BY <2>1, <2>2, <2>3
<1>5. QED
  BY <1>3, <1>4

(* The one-shot encoder: whole frames on the shared palette, which has an   *)
(* index for what is transparent.                                           *)
LEMMA OneShotShows ==
  ASSUME NEW mode \in Modes, Promising(mode), PaletteFitting, palette # <<>>, config.oneShot,
         NEW new \in [Points -> Pixel], Values(new) \subseteq AllValues(inputs), NEW behind,
         NEW g \in OneShotFrames(new, behind)
  PROVE  Shows(g, new, behind, mode)
<1> DEFINE s == palette[1]
<1>1. PICK q \in RemapFrame(backend, s, new, behind) :
        g = [rect |-> Whole, index |-> q.index, transparent |-> q.transparent,
             table |-> IF q.table # GlobalTable THEN q.table ELSE <<>>]
  BY DEF OneShotFrames
<1>2. /\ Keeps(mode, backend) /\ Holding(s, mode, AllValues(inputs))
      /\ backend = "quantette" => Opaque(s.entries)
      /\ Transparent \in AllValues(inputs) => HasHole(s, backend)
  BY DEF Promising, PaletteHolds
<1>3. ImageOf(new, mode)
  BY DrawnIsOf
<1>4. FrameFits(q, new)
  BY <1>1, CanvasFinite, RemappedFrameFits DEF PaletteFitting
<1> HIDE DEF s
<1>5. Renders(q, new, behind, mode) /\ (HasHole(s, backend) => Marks(q, new))
  BY ONLY <1>1, <1>2, <1>3, mode \in Modes, RemappedRenders DEF ImageOf
<1>6. Marks(q, new)
  BY <1>2, <1>5 DEF Marks
<1>7. DOMAIN q.index = DOMAIN new /\ DOMAIN new # {}
  BY <1>4, InsideIsUnclipped, WholeIsInside DEF FrameFits
<1>8. /\ g.rect = Whole /\ g.index = q.index /\ g.transparent = q.transparent
      /\ g.table = q.table \/ (g.table = <<>> /\ q.table = GlobalTable)
  BY <1>1
<1>9. TableOf(g) = q.table
  BY <1>4, <1>7, <1>8, TableIsItsOwn
<1>10. Redraws(Whole, new, new, behind)
  BY WholeRedraws
<1>11. QED
  BY ONLY <1>5, <1>6, <1>7, <1>8, <1>9, <1>10, mode \in Modes, new \in [Points -> Pixel],
          RenderedShows

(* An index that nothing uses is left where an animation has fewer values   *)
(* than a table has entries, so clearing moves no pixel.                    *)
LEMMA IndexIsLeft ==
  ASSUME NEW new \in [Points -> Pixel], Cardinality(Values(new)) < TableSize,
         NEW g, DOMAIN g.index = Points,
         \A o, p \in Points : new[o] = new[p] => g.index[o] = g.index[p]
  PROVE  \A p \in Points : g.index[p] # LeastUsed(g)
<1> DEFINE slot == LeastUsed(g)
           I == 0 .. TableSize - 1
           V == Values(new)
           W == Values(g.index)
           f == [v \in V |-> g.index[CHOOSE p \in Points : new[p] = v]]
<1>1. IsFiniteSet(V) /\ DOMAIN new = Points /\ TableSize \in Nat
  BY CanvasFinite, TableSizeType
<1>2. f \in Surjection(V, W)
  <2>1. ASSUME NEW p \in Points PROVE new[p] \in V /\ f[new[p]] = g.index[p]
    <3>1. new[p] \in V
      BY <1>1 DEF Values
    <3> DEFINE o == CHOOSE x \in Points : new[x] = new[p]
    <3>2. o \in Points /\ new[o] = new[p]
      OBVIOUS
    <3>3. f[new[p]] = g.index[o]
      BY <3>1
    <3> HIDE DEF o
    <3>4. QED
      BY <3>1, <3>2, <3>3
  <2>2. ASSUME NEW v \in V PROVE f[v] \in W
    <3>1. PICK p \in Points : v = new[p]
      BY <1>1 DEF Values
    <3>2. QED
      BY <2>1, <3>1 DEF Values
  <2>3. ASSUME NEW w \in W PROVE \E v \in V : f[v] = w
    <3>1. PICK p \in Points : w = g.index[p]
      BY DEF Values
    <3>2. QED
      BY <2>1, <3>1
  <2>4. f \in [V -> W]
    BY <2>2
  <2> HIDE DEF f
  <2>5. QED
    BY <2>3, <2>4 DEF Surjection
<1> HIDE DEF f, V, W
<1>3. IsFiniteSet(W) /\ Cardinality(W) <= Cardinality(V)
  BY ONLY <1>1, <1>2, FS_Surjection
<1>4. Cardinality(W) \in Nat /\ Cardinality(V) \in Nat
  BY ONLY <1>1, <1>3, FS_CardinalityType
<1>5. Cardinality(I) = TableSize
  <2>1. 0 \in Int /\ TableSize - 1 \in Int
    BY <1>1
  <2>2. Cardinality(I) = IF 0 > TableSize - 1 THEN 0 ELSE TableSize - 1 - 0 + 1
    BY ONLY <2>1, FS_Interval
  <2>3. QED
    BY <1>1, <2>2
<1> HIDE DEF I
<1>6. ~(I \subseteq W)
  <2>1. SUFFICES ASSUME I \subseteq W PROVE FALSE
    OBVIOUS
  <2>2. I \in SUBSET W
    BY <2>1
  <2>3. Cardinality(I) <= Cardinality(W)
    BY ONLY <1>3, <2>2, FS_Subset
  <2>4. QED
    BY <1>1, <1>3, <1>4, <1>5, <2>3 DEF V
<1>7. PICK j \in I : j \notin W
  BY <1>6
<1>8. Uses(g, j) = 0
  <2>1. {p \in DOMAIN g.index : g.index[p] = j} = {}
    BY <1>7 DEF W, Values
  <2>2. QED
    BY ONLY <2>1, FS_EmptySet DEF Uses
<1>9. Uses(g, slot) = 0
  <2>1. Uses(g, slot) <= Uses(g, j) /\ Uses(g, slot) \in Nat
    BY <1>7, LeastUsedIsIndex DEF I
  <2>2. QED
    BY <1>8, <2>1
<1>10. SUFFICES ASSUME NEW p \in Points, g.index[p] = slot PROVE FALSE
  OBVIOUS
<1> DEFINE T == {x \in DOMAIN g.index : g.index[x] = slot}
<1>11. p \in T /\ T \in SUBSET Points /\ Uses(g, slot) = Cardinality(T)
  BY <1>10 DEF Uses
<1> HIDE DEF T, slot
<1>12. IsFiniteSet(T)
  BY ONLY <1>11, PointsFinite, FS_Subset
<1>13. T = {}
  BY ONLY <1>9, <1>11, <1>12, FS_EmptySet
<1>14. QED
  BY <1>11, <1>13

LEMMA ExtendedColours ==
  ASSUME NEW table, Listed(table), Coloured(table), NEW n \in Nat
  PROVE  /\ Coloured(Extended(table, n))
         /\ \A i \in Indices(table) : i < n => Extended(table, n)[i + 1] = table[i + 1]
<1>1. Black \in Colours
  BY QuantizerAssumption
<1>2. DOMAIN table = 1 .. Len(table) /\ Len(table) \in Nat
  BY DEF Listed
<1>3. QED
  BY <1>1, <1>2 DEF Coloured, Extended, Indices

(* Clearing declares an index transparent that shows nothing, or moves what *)
(* it showed to another colour.                                             *)
LEMMA ClearedShows ==
  ASSUME NEW mode \in Modes, NEW new \in [Points -> Pixel],
         mode = "colour" => Cardinality(Values(new)) < TableSize,
         NEW h, Shows(h, new, <<>>, mode), FrameFitting(h), NEW g \in ClearDisposal(h)
  PROVE  /\ Shows(g, new, <<>>, mode)
         /\ g.dispose = "background" /\ g.rect = Whole /\ g.transparent # None
<1> DEFINE slot == LeastUsed(h)
           table == TableOf(h)
           others == IF Uses(h, slot) = 0 THEN {slot} ELSE Indices(table) \ {slot}
<1>1. /\ h.rect = Whole /\ DOMAIN h.index = Points /\ Area(Whole) = Points /\ Inside(Whole)
      /\ Coloured(table)
      /\ \A p \in Points : ShowsAt(h, new, <<>>, mode, p)
      /\ \A o, p \in Points : new[o] = new[p] => h.index[o] = h.index[p]
  BY WholeIsInside DEF Shows
<1>2. /\ Listed(table) /\ Len(table) <= TableSize /\ Len(table) \in Nat
      /\ DOMAIN table = 1 .. Len(table)
      /\ InTable(h.index, table)
  BY DEF FrameFitting, Listed
<1>3. CASE h.transparent # None
  <2>1. g = Disposing(h, "background")
    BY <1>3 DEF ClearDisposal
  <2>2. /\ g.rect = h.rect /\ g.table = h.table /\ g.index = h.index
        /\ g.transparent = h.transparent /\ g.dispose = "background"
    BY <2>1 DEF Disposing
  <2>3. TableOf(g) = TableOf(h)
    BY <2>2 DEF TableOf
  <2>4. Shows(g, new, <<>>, mode)
    BY <2>2, <2>3 DEF Shows, ShowsAt
  <2>5. QED
    BY <1>1, <1>3, <2>2, <2>4
<1>4. CASE h.transparent = None
  <2>1. PICK i \in others :
          g = [rect |-> h.rect, dispose |-> "background", transparent |-> slot,
               index |-> [p \in DOMAIN h.index |-> IF h.index[p] = slot THEN i ELSE h.index[p]],
               table |-> IF slot >= Len(table) THEN Extended(table, slot + 1) ELSE h.table]
    BY <1>4 DEF ClearDisposal
  <2>2. /\ g.rect = Whole /\ g.dispose = "background" /\ g.transparent = slot
        /\ DOMAIN g.index = Points
        /\ \A p \in Points : g.index[p] = IF h.index[p] = slot THEN i ELSE h.index[p]
        /\ g.table = IF slot >= Len(table) THEN Extended(table, slot + 1) ELSE h.table
    BY <1>1, <2>1
  <2>3. slot \in Nat /\ slot # None
    BY <1>1, LeastUsedIsIndex, TableSizeType DEF None
  \* Nothing is transparent, and every index shows a colour.
  <2>4. ASSUME NEW p \in Points
        PROVE  /\ h.index[p] \in Indices(table) /\ h.index[p] \in Nat
               /\ h.index[p] + 1 \in DOMAIN table
               /\ Agrees(mode, table[h.index[p] + 1], new[p])
               /\ new[p] # Transparent
    <3>1. h.index[p] \in Indices(table)
      BY <1>1, <1>2 DEF InTable, Values
    <3>2. h.index[p] \in Nat /\ h.index[p] + 1 \in DOMAIN table
      BY <1>2, <3>1 DEF Indices
    <3>3. h.index[p] # h.transparent
      BY <1>4, <3>2 DEF None
    <3>4. Agrees(mode, table[h.index[p] + 1], new[p])
      BY <1>1, <3>3 DEF ShowsAt
    <3>5. table[h.index[p] + 1] # Transparent
      BY <1>1, <3>2, CanvasAssumption DEF Coloured
    <3>6. QED
      BY <3>1, <3>2, <3>4, <3>5 DEF Agrees, Modes
  <2>5. mode = "colour" => \A p \in Points : h.index[p] # slot
    BY <1>1, IndexIsLeft
  <2>6. \A p \in Points : h.index[p] = slot => i \in Indices(table)
    <3>1. SUFFICES ASSUME NEW p \in Points, h.index[p] = slot PROVE i \in Indices(table)
      OBVIOUS
    <3>2. slot \in Indices(table)
      BY <2>4, <3>1
    <3>3. QED
      BY <3>2
  <2> HIDE DEF slot, table, others
  <2>7. ASSUME NEW p \in Points
        PROVE  g.index[p] \in Indices(table) /\ g.index[p] \in Nat
    <3>1. g.index[p] \in Indices(table)
      BY <2>2, <2>4, <2>6
    <3>2. QED
      BY <1>2, <3>1 DEF Indices
  <2>8. /\ Coloured(TableOf(g))
        /\ \A p \in Points : /\ g.index[p] + 1 \in DOMAIN TableOf(g)
                             /\ TableOf(g)[g.index[p] + 1] = table[g.index[p] + 1]
    <3>1. CASE slot >= Len(table)
      <4> DEFINE longer == Extended(table, slot + 1)
      <4>1. g.table = longer /\ slot + 1 \in Nat
        BY <2>2, <2>3, <3>1
      <4>2. Coloured(longer) /\ \A j \in Indices(table) : j < slot + 1 => longer[j + 1] = table[j + 1]
        BY <1>1, <1>2, <4>1, ExtendedColours DEF table
      <4>3. Listed(longer) /\ Len(longer) = slot + 1
        BY <4>1, ExtendedAsLong
      <4> HIDE DEF longer
      <4>4. DOMAIN longer = 1 .. slot + 1 /\ longer # <<>>
        BY <2>3, <4>3, NothingListed DEF Listed
      <4>5. TableOf(g) = longer
        BY <4>1, <4>4 DEF TableOf
      <4>6. \A j \in Indices(table) : j < slot + 1 /\ j + 1 \in 1 .. slot + 1
        BY <1>2, <2>3, <3>1 DEF Indices
      <4>7. QED
        BY <2>7, <4>2, <4>4, <4>5, <4>6
    <3>2. CASE ~(slot >= Len(table))
      <4>1. g.table = h.table
        BY <2>2, <3>2
      <4>2. TableOf(g) = table
        BY <4>1 DEF TableOf, table
      <4>3. \A j \in Indices(table) : j + 1 \in DOMAIN table
        BY <1>2 DEF Indices
      <4>4. QED
        BY <1>1, <2>7, <4>2, <4>3
    <3>3. QED
      BY <3>1, <3>2
  <2>9. ASSUME NEW p \in Points PROVE ShowsAt(g, new, <<>>, mode, p)
    <3> DEFINE seen == TableOf(g)[g.index[p] + 1]
    <3>1. seen \in Colours
      BY <2>8 DEF Coloured
    <3>2. seen \in Pixel /\ seen # Transparent
      BY <3>1, CanvasAssumption DEF Pixel
    <3>3. Agrees(mode, seen, new[p])
      <4>1. CASE mode = "alpha"
        BY <2>4, <3>2, <4>1 DEF Agrees
      <4>2. CASE mode # "alpha"
        <5>1. mode = "colour"
          BY <4>2 DEF Modes
        <5>2. g.index[p] = h.index[p]
          BY <2>2, <2>5, <5>1
        <5>3. seen = table[h.index[p] + 1]
          BY <2>8, <5>2
        <5>4. QED
          BY <2>4, <5>3
      <4>3. QED
        BY <4>1, <4>2
    <3>4. g.index[p] # g.transparent
      <4>1. CASE h.index[p] # slot
        BY <2>2, <4>1
      <4>2. CASE h.index[p] = slot
        <5>1. Uses(h, slot) # 0
          <6> DEFINE T == {x \in DOMAIN h.index : h.index[x] = slot}
          <6>1. p \in T /\ T \in SUBSET Points /\ Uses(h, slot) = Cardinality(T)
            BY <1>1, <4>2 DEF Uses
          <6> HIDE DEF T
          <6>2. IsFiniteSet(T)
            BY ONLY <6>1, PointsFinite, FS_Subset
          <6>3. T # {}
            BY <6>1
          <6>4. QED
            BY ONLY <6>1, <6>2, <6>3, FS_EmptySet
        <5>2. i # slot
          BY <5>1 DEF others
        <5>3. QED
          BY <2>2, <4>2, <5>2
      <4>3. QED
        BY <4>1, <4>2
    <3>5. QED
      BY <1>1, <2>2, <3>3, <3>4 DEF ShowsAt
  <2>10. \A o, p \in Points : new[o] = new[p] => g.index[o] = g.index[p]
    BY <1>1, <2>2
  <2>11. Shows(g, new, <<>>, mode)
    BY <1>1, <2>2, <2>8, <2>9, <2>10 DEF Shows
  <2>12. QED
    BY <2>2, <2>3, <2>11
<1>5. QED
  BY <1>3, <1>4

-----------------------------------------------------------------------------
(* What has been written shows what was given                               *)

\* Whether frame i is cleared after it was shown.
Cleared(i) ==
  IF i < Len(inputs) THEN NeedsCanvasClear(inputs[i], inputs[i + 1]) ELSE HasAlpha(inputs[1])

\* Where a promise is made.
Promised(mode) == IF mode = "alpha" THEN KeepsTransparency ELSE Fits

\* Frame i, made for what the frame before leaves standing.
ShownBy(g, i, mode) ==
  /\ IF Cleared(i) THEN g.dispose = "background" /\ g.rect = Whole /\ g.transparent # None
     ELSE g.dispose = "keep"
  /\ \E behind :
       /\ behind = <<>> \/ (i > 1 /\ ~Cleared(i - 1) /\ behind = <<inputs[i - 1]>>)
       /\ Shows(g, inputs[i], behind, mode)

\* What the encoder has come to.
LoopInv ==
  /\ at <= Len(inputs)
  /\ previous = <<>> \/ (at \in 1 .. Len(inputs) /\ ~Cleared(at) /\ previous = <<inputs[at]>>)
  /\ pc \in {"settings", "job", "build"} => palette = <<>> /\ previous = <<>>
  /\ result = "file" => at = Len(inputs) /\ pc = "done"
  /\ config.given \in Seq(Pixel)
  /\ ~(config.oneShot /\ backend = "quantette" /\ ~config.transparency)

ShownInv(mode) ==
  Promised(mode) =>
    /\ PaletteHolds(mode)
    /\ \A i \in DOMAIN out : \E g : g = out[i] /\ ShownBy(g, i, mode)

LEMMA PromisesHold ==
  ASSUME NEW mode \in Modes, EncoderType, config.given \in Seq(Pixel),
         Promised(mode), PaletteHolds(mode)
  PROVE  Promising(mode)
<1> DEFINE all == AllValues(inputs)
<1>1. IsFiniteSet(all) /\ all \subseteq Pixel
  BY SampledIsAll DEF EncoderType
<1>2. CASE mode = "alpha"
  BY <1>1, <1>2 DEF Promised, KeepsTransparency, Keeps, GivenHolds, EnoughFor, Promising
<1>3. CASE mode = "colour"
  <2>1. Fits
    BY <1>3 DEF Promised
  <2>2. EnoughFor(all, mode)
    BY <2>1 DEF Fits, EnoughFor
  <2>3. GivenHolds(mode)
    BY <1>3, <2>1 DEF Fits, GivenHolds
  <2>4. QED
    BY <1>1, <1>3, <2>2, <2>3 DEF Keeps, Promising
<1>4. QED
  BY <1>2, <1>3 DEF Modes

LEMMA CanvasOf ==
  ASSUME EncoderType, NEW i \in 1 .. Len(inputs)
  PROVE  inputs[i] \in [Points -> Pixel] /\ Values(inputs[i]) \subseteq AllValues(inputs)
<1>1. inputs[i] \in [Points -> Pixel] /\ i \in DOMAIN inputs
  BY DEF EncoderType
<1>2. QED
  BY <1>1 DEF AllValues

LEMMA MadeShows ==
  ASSUME NEW mode \in Modes, TablesInv, LoopInv, Promised(mode), PaletteHolds(mode),
         pc = "frames", at < Len(inputs),
         NEW h \in IF config.oneShot THEN OneShotFrames(inputs[at + 1], Behind)
                   ELSE PreparedFrames(inputs[at + 1], Behind)
  PROVE  Shows(h, inputs[at + 1], Behind, mode) /\ Ready(h, Behind)
<1> DEFINE new == inputs[at + 1]
<1>1. at + 1 \in 1 .. Len(inputs) /\ Promising(mode)
  BY PromisesHold DEF TablesInv, OutFitting, EncoderType, LoopInv
<1>2. new \in [Points -> Pixel] /\ Values(new) \subseteq AllValues(inputs)
  BY <1>1, CanvasOf DEF TablesInv
<1> HIDE DEF new
<1>3. PaletteFitting /\ Listed(config.given)
  BY DEF TablesInv, EncoderType
<1>4. CASE config.oneShot
  <2>1. palette # <<>> /\ h \in OneShotFrames(new, Behind)
    BY <1>4 DEF new, TablesInv, PaletteFirst
  <2>2. Shows(h, new, Behind, mode) /\ Ready(h, Behind)
    BY <1>1, <1>2, <1>3, <1>4, <2>1, OneShotShows, OneShotFits
  <2>3. QED
    BY <2>2 DEF new
<1>5. CASE ~config.oneShot
  <2>1. h \in PreparedFrames(new, Behind)
    BY <1>5 DEF new
  <2>2. Shows(h, new, Behind, mode) /\ Ready(h, Behind)
    BY <1>1, <1>2, <1>3, <1>5, <2>1, PreparedShows, PreparedFits
  <2>3. QED
    BY <2>2 DEF new
<1>6. QED
  BY <1>4, <1>5

LEMMA WrittenShows ==
  ASSUME NEW mode \in Modes, TablesInv, LoopInv, Promised(mode), PaletteHolds(mode),
         pc = "frames", at < Len(inputs), NEW g \in FramesNow
  PROVE  ShownBy(g, at + 1, mode)
<1> DEFINE new == inputs[at + 1]
           made == IF config.oneShot THEN OneShotFrames(new, Behind)
                   ELSE PreparedFrames(new, Behind)
           all == AllValues(inputs)
<1>1. at \in Nat /\ Len(inputs) \in Nat /\ at + 1 \in 1 .. Len(inputs)
  BY DEF TablesInv, OutFitting, EncoderType
<1>2. new \in [Points -> Pixel] /\ Values(new) \subseteq all
  BY <1>1, CanvasOf DEF TablesInv
<1>3. \A h \in made : Shows(h, new, Behind, mode) /\ Ready(h, Behind)
  BY MadeShows
<1>4. ClearAfter <=> Cleared(at + 1)
  <2>1. (at + 1) + 1 = at + 2
    BY <1>1
  <2>2. QED
    BY <2>1 DEF ClearAfter, Cleared
<1>5. CASE ClearAfter
  <2>1. PICK h \in made : g \in ClearDisposal(h)
    BY <1>5 DEF FramesNow
  <2>2. Behind = <<>>
    BY <1>5 DEF Behind
  <2>3. mode = "colour" => Cardinality(Values(new)) < TableSize
    <3>1. SUFFICES ASSUME mode = "colour" PROVE Cardinality(Values(new)) < TableSize
      OBVIOUS
    <3>2. IsFiniteSet(all) /\ Cardinality(all \cup {Black}) < TableSize
      BY <3>1, PromisesHold DEF TablesInv, LoopInv, Promising, EnoughFor
    <3> DEFINE V == Values(new)
               B == all \cup {Black}
    <3>3. V \in SUBSET B /\ IsFiniteSet(B)
      BY <1>2, <3>2, FS_AddElement
    <3> HIDE DEF V, B, new, all
    <3>4. IsFiniteSet(V) /\ Cardinality(V) <= Cardinality(B)
      BY ONLY <3>3, FS_Subset
    <3>5. Cardinality(V) \in Nat /\ Cardinality(B) \in Nat
      BY ONLY <3>3, <3>4, FS_CardinalityType
    <3>6. QED
      BY <3>2, <3>4, <3>5, TableSizeType DEF V, B
  <2>4. Shows(h, new, <<>>, mode) /\ FrameFitting(h)
    BY <1>3, <2>1, <2>2 DEF Ready
  <2> HIDE DEF new, made
  <2>5. /\ Shows(g, new, <<>>, mode)
        /\ g.dispose = "background" /\ g.rect = Whole /\ g.transparent # None
    BY ONLY mode \in Modes, <1>2, <2>1, <2>3, <2>4, ClearedShows
  <2>6. QED
    BY <1>4, <1>5, <2>5 DEF ShownBy, new
<1>6. CASE ~ClearAfter
  <2>1. PICK h \in made : g = Disposing(h, "keep")
    BY <1>6 DEF FramesNow
  <2>2. Behind = previous
    BY <1>6 DEF Behind
  <2>3. Shows(h, new, previous, mode)
    BY <1>3, <2>1, <2>2
  <2> HIDE DEF new, made
  <2>4. /\ g.rect = h.rect /\ g.table = h.table /\ g.index = h.index
        /\ g.transparent = h.transparent /\ g.dispose = "keep"
    BY <2>1 DEF Disposing
  <2>5. TableOf(g) = TableOf(h)
    BY <2>4 DEF TableOf
  <2>6. Shows(g, new, previous, mode)
    BY <2>3, <2>4, <2>5 DEF Shows, ShowsAt
  <2> DEFINE i == at + 1
  <2>7. i - 1 = at
    BY <1>1
  <2>8. previous = <<>> \/ (i > 1 /\ ~Cleared(i - 1) /\ previous = <<inputs[i - 1]>>)
    <3>1. previous = <<>> \/ (at > 0 /\ ~Cleared(at) /\ previous = <<inputs[at]>>)
      BY <1>1 DEF LoopInv
    <3>2. at > 0 => i > 1
      BY <1>1
    <3> HIDE DEF i
    <3>3. QED
      BY <2>7, <3>1, <3>2
  <2>9. ~Cleared(i) /\ new = inputs[i]
    BY <1>4, <1>6 DEF new
  <2> HIDE DEF i
  <2>10. ShownBy(g, i, mode)
    BY <2>4, <2>6, <2>8, <2>9 DEF ShownBy
  <2>11. QED
    BY <2>10 DEF i
<1>7. QED
  BY <1>5, <1>6

-----------------------------------------------------------------------------
(* The steps of the encoder                                                 *)

LEMMA SamePromise ==
  ASSUME NEW mode, UNCHANGED <<config, backend, inputs, palette>>
  PROVE  /\ Promised(mode)' <=> Promised(mode)
         /\ PaletteHolds(mode)' <=> PaletteHolds(mode)
BY DEF Promised, KeepsTransparency, Fits, Flushed, PaletteHolds

LEMMA SameShown ==
  ASSUME NEW mode, NEW g, NEW i, UNCHANGED <<inputs, palette>>
  PROVE  ShownBy(g, i, mode)' <=> ShownBy(g, i, mode)
<1>1. \A n : Cleared(n)' <=> Cleared(n)
  BY DEF Cleared
<1>2. TableOf(g)' = TableOf(g)
  BY DEF TableOf, GlobalTable
<1>3. \A new, behind : Shows(g, new, behind, mode)' <=> Shows(g, new, behind, mode)
  BY <1>2 DEF Shows, ShowsAt
<1>4. QED
  BY <1>1, <1>3 DEF ShownBy

LEMMA SameLoop ==
  ASSUME LoopInv, UNCHANGED <<config, backend, inputs, palette, at, previous>>,
         pc' \in {"settings", "job", "build"} => pc \in {"settings", "job", "build"},
         result' = "file" => at = Len(inputs) /\ pc' = "done"
  PROVE  LoopInv'
BY DEF LoopInv, Cleared

LEMMA NothingShown ==
  ASSUME NEW mode, out' = <<>>, Promised(mode)' => PaletteHolds(mode)'
  PROVE  ShownInv(mode)'
<1>1. DOMAIN out' = {}
  OBVIOUS
<1>2. QED
  BY <1>1 DEF ShownInv

LEMMA StillShown ==
  ASSUME NEW mode, ShownInv(mode), UNCHANGED <<config, backend, inputs, palette, out>>
  PROVE  ShownInv(mode)'
<1>1. ASSUME Promised(mode)', NEW i \in DOMAIN out'
      PROVE  \E g : g = out'[i] /\ ShownBy(g, i, mode)'
  <2>1. PICK g : g = out[i] /\ ShownBy(g, i, mode)
    BY <1>1, SamePromise DEF ShownInv
  <2>2. g = out'[i] /\ ShownBy(g, i, mode)'
    BY <2>1, SameShown
  <2>3. QED
    BY <2>2
<1>2. Promised(mode)' => PaletteHolds(mode)'
  BY SamePromise DEF ShownInv
<1>3. QED
  BY <1>1, <1>2 DEF ShownInv

(* The palette that is built.                                               *)
LEMMA BuiltIsNotGray ==
  ASSUME NEW b, NEW canvases, NEW transparency,
         NEW s \in BuildSharedPalette(b, canvases, transparency, None)
  PROVE  s.gray = FALSE
<1>1. \A e, t, n : Shared(e, t, n).gray = FALSE /\ WithSlot(e).gray = FALSE
  BY DEF WithSlot, Shared
<1>2. CASE b = "zenquant"
  BY <1>1, <1>2 DEF BuildSharedPalette, ZenquantShared
<1>3. CASE b = "quantette"
  BY <1>1, <1>3 DEF BuildSharedPalette, QuantetteShared
<1>4. CASE b \notin {"zenquant", "quantette"}
  <2>1. PICK e \in Palettes(Sampled(canvases, None), TableSize) : s = Shared(e, Bytes(e), None)
    BY <1>4 DEF BuildSharedPalette, LibraryShared
  <2>2. QED
    BY <1>1, <2>1
<1>5. QED
  BY <1>2, <1>3, <1>4

LEMMA FlushedValues ==
  ASSUME EncoderType
  PROVE  AllValues(Flushed) \subseteq AllValues(inputs)
<1>1. CASE Flushed = inputs
  BY <1>1
<1>2. CASE Flushed # inputs
  <2> DEFINE n == config.buffered
  <2>1. Flushed = SubSeq(inputs, 1, n) /\ ~(n > Len(inputs))
    BY <1>2 DEF Flushed
  <2>2. n \in Nat /\ Len(inputs) \in Nat /\ inputs \in Seq([Points -> Pixel])
    BY DEF EncoderType
  <2> HIDE DEF n
  <2>3. \A i \in 1 .. n : inputs[i] \in [Points -> Pixel]
    BY <2>1, <2>2
  <2>4. Len(Flushed) = n /\ \A i \in 1 .. n : Flushed[i] = inputs[i]
    BY <2>1, <2>2, <2>3, SubSeqProperties
  <2>5. DOMAIN Flushed = 1 .. n
    BY <2>4, FlushedType
  <2>6. \A i \in DOMAIN Flushed : Flushed[i] = inputs[i] /\ i \in DOMAIN inputs
    BY <2>1, <2>2, <2>4, <2>5
  <2>7. QED
    BY <2>6 DEF AllValues
<1>3. QED
  BY <1>1, <1>2

LEMMA HoldingMore ==
  ASSUME NEW s, NEW mode, NEW some, Holding(s, mode, some),
         NEW all, mode = "colour" => all \subseteq some \cup {Transparent}
  PROVE  Holding(s, mode, all)
BY DEF Holding

(* A palette made from the canvases that were flushed is one for them all,  *)
(* wherever that is promised.                                               *)
LEMMA BuiltShows ==
  ASSUME NEW mode \in Modes, TablesInv, LoopInv, BuildPalette
  PROVE  LoopInv' /\ ShownInv(mode)'
<1>1. /\ UNCHANGED <<config, backend, inputs, at, previous, out, result>>
      /\ pc = "build" /\ pc' = "frames" /\ EncoderType /\ out = <<>>
  BY DEF BuildPalette, TablesInv, PaletteFirst
<1>2. LoopInv'
  BY <1>1 DEF LoopInv, Cleared
<1>3. EncoderType' /\ Flushed' = Flushed
  BY <1>1 DEF EncoderType, Flushed
<1> DEFINE some == AllValues(Flushed)
<1>4. ASSUME Promised(mode)' PROVE PaletteHolds(mode)'
  <2>1. Keeps(mode, backend)
    BY <1>1, <1>4 DEF Promised, KeepsTransparency, Keeps, Modes
  <2>2. EnoughFor(some, mode)
    <3>1. CASE mode # "colour"
      BY <3>1 DEF EnoughFor
    <3>2. CASE mode = "colour"
      <4> DEFINE all == AllValues(inputs)
                 A == some \cup {Black}
                 B == all \cup {Black}
      <4>1. Cardinality(B) < TableSize
        BY <1>1, <1>4, <3>2 DEF Promised, Fits
      <4>2. IsFiniteSet(all) /\ some \subseteq all
        BY <1>1, SampledIsAll, FlushedValues DEF EncoderType
      <4> HIDE DEF all, some
      <4>3. IsFiniteSet(B) /\ A \in SUBSET B
        BY <4>2, FS_AddElement
      <4> HIDE DEF A, B
      <4>4. IsFiniteSet(A) /\ Cardinality(A) <= Cardinality(B)
        BY ONLY <4>3, FS_Subset
      <4>5. Cardinality(A) \in Nat /\ Cardinality(B) \in Nat
        BY ONLY <4>3, <4>4, FS_CardinalityType
      <4>6. QED
        BY <4>1, <4>4, <4>5, TableSizeType DEF EnoughFor, A
    <3>3. QED
      BY <3>1, <3>2
  <2>3. Flushed \in Seq([Points -> Pixel]) /\ IsFiniteSet(some) /\ some \subseteq Pixel
    BY <1>1, FlushedType, SampledIsAll
  <2>4. PICK s : /\ palette' = <<s>> /\ Holding(s, mode, some)
                 /\ backend = "quantette" \/ s.gray => Opaque(s.entries)
                 /\ config.oneShot /\ Transparent \in some => HasHole(s, backend)
    <3>1. CASE GrayShared # <<>>
      <4> DEFINE force == config.transparency /\ Len(Flushed) > 1
                 s == TryGray(some, force)[1]
      <4>1. palette' = GrayShared /\ GrayShared = TryGray(some, force) /\ ~config.oneShot
        BY <3>1 DEF GrayShared, BuildPalette
      <4> HIDE DEF force, some
      <4>2. Holding(s, mode, some) /\ Opaque(s.entries)
        BY <2>3, <3>1, <4>1, GrayHolds
      <4>3. TryGray(some, force) = <<s>>
        <5>1. TryGray(some, force) # <<>>
          BY <3>1, <4>1
        <5>2. QED
          BY <5>1 DEF TryGray
      <4> HIDE DEF s
      <4>4. QED
        BY <4>1, <4>2, <4>3
    <3>2. CASE GrayShared = <<>>
      <4>1. PICK s \in BuildSharedPalette(backend, Flushed, config.transparency, None) :
              palette' = <<s>>
        BY <3>2 DEF BuildPalette
      <4>2. /\ Holding(s, mode, some)
            /\ backend = "quantette" => Opaque(s.entries)
            /\ Transparent \in some /\ (backend = "quantette" => config.transparency) =>
                 HasHole(s, backend)
        BY <2>1, <2>2, <2>3, <4>1, SharedHolds
      <4>3. s.gray = FALSE
        BY <4>1, BuiltIsNotGray
      <4>4. config.oneShot => (backend = "quantette" => config.transparency)
        BY DEF LoopInv
      <4> HIDE DEF some
      <4>5. QED
        BY <4>1, <4>2, <4>3, <4>4
    <3>3. QED
      BY <3>1, <3>2
  <2>5. /\ palette' # <<>> /\ Holding(palette'[1], mode, some)
        /\ backend' = "quantette" \/ palette'[1].gray => Opaque(palette'[1].entries)
        /\ config'.oneShot /\ Transparent \in some => HasHole(palette'[1], backend')
    BY <1>1, <2>4
  <2>6. mode = "colour" => AllValues(inputs') \subseteq some \cup {Transparent}
    BY <1>3, <1>4, <2>5 DEF Promised, Fits
  <2> HIDE DEF some
  <2>7. Holding(palette'[1], mode, AllValues(inputs'))
    BY <2>5, <2>6, HoldingMore
  <2>8. config'.oneShot => some = AllValues(inputs')
    BY <1>1 DEF Flushed, some
  <2>9. QED
    BY <2>5, <2>7, <2>8 DEF PaletteHolds, Holding, HasHole
<1>5. ShownInv(mode)'
  BY <1>1, <1>4, NothingShown
<1>6. QED
  BY <1>2, <1>5

LEMMA WrittenKeepsShown ==
  ASSUME NEW mode \in Modes, JobInv, TablesInv, LoopInv, ShownInv(mode), WriteFrame
  PROVE  LoopInv' /\ ShownInv(mode)'
<1>1. /\ UNCHANGED <<config, backend, inputs, palette, pc, result>>
      /\ pc = "frames" /\ at < Len(inputs) /\ at' = at + 1
      /\ previous' = IF config.transparency /\ ~ClearAfter THEN <<inputs[at + 1]>> ELSE <<>>
  BY DEF WriteFrame
<1>2. PICK g \in FramesNow : out' = Append(out, g)
  BY DEF WriteFrame
<1>3. /\ at \in Nat /\ Len(inputs) \in Nat /\ Len(out) = at /\ result = "none"
      /\ \E S : out \in Seq(S)
  BY <1>1 DEF JobInv, JobKept, Counted, TablesInv, EncoderType
<1>4. LoopInv'
  <2>1. (at + 1) + 1 = at + 2 /\ at + 1 \in 1 .. Len(inputs)
    BY <1>1, <1>3
  <2>2. PICK n : n = at + 1
    OBVIOUS
  <2>3. ClearAfter <=> Cleared(n)
    BY <2>1, <2>2 DEF ClearAfter, Cleared
  <2>4. Cleared(n)' <=> Cleared(n)
    BY <1>1 DEF Cleared
  <2>5. at' = n /\ n \in 1 .. Len(inputs')
    BY <1>1, <2>1, <2>2
  <2>6. previous' = <<>> \/ (~Cleared(n)' /\ previous' = <<inputs'[n]>>)
    BY <1>1, <2>2, <2>3, <2>4
  <2>7. Cleared(n)' <=> Cleared(at)'
    BY <2>5 DEF Cleared
  <2>8. at' <= Len(inputs')
    BY <1>1, <2>1
  <2>9. QED
    BY <1>1, <1>3, <2>5, <2>6, <2>7, <2>8 DEF LoopInv
<1>5. ASSUME Promised(mode)'
      PROVE  /\ PaletteHolds(mode)'
             /\ \A i \in DOMAIN out' : \E f : f = out'[i] /\ ShownBy(f, i, mode)'
  <2>1. Promised(mode) /\ PaletteHolds(mode) /\ PaletteHolds(mode)'
    BY <1>1, <1>5, SamePromise DEF ShownInv
  <2>2. PICK S : out \in Seq(S)
    BY <1>3
  <2>3. /\ DOMAIN out = 1 .. at /\ DOMAIN out' = 1 .. at + 1
        /\ out'[at + 1] = g /\ \A i \in 1 .. at : out'[i] = out[i]
    BY <1>2, <1>3, <2>2
  <2>4. ASSUME NEW i \in DOMAIN out'
        PROVE  \E f : f = out'[i] /\ ShownBy(f, i, mode)'
    <3>1. CASE i = at + 1
      <4>1. ShownBy(g, i, mode)
        BY <1>1, <2>1, <3>1, WrittenShows
      <4>2. ShownBy(g, i, mode)'
        BY <1>1, <4>1, SameShown
      <4>3. QED
        BY <2>3, <3>1, <4>2
    <3>2. CASE i # at + 1
      <4>1. i \in 1 .. at
        BY <1>3, <2>3, <2>4, <3>2
      <4>2. PICK f : f = out[i] /\ ShownBy(f, i, mode)
        BY <2>1, <2>3, <4>1 DEF ShownInv
      <4>3. f = out'[i] /\ ShownBy(f, i, mode)'
        BY <1>1, <2>3, <4>1, <4>2, SameShown
      <4>4. QED
        BY <4>3
    <3>3. QED
      BY <3>1, <3>2
  <2>5. QED
    BY <2>1, <2>4
<1>6. QED
  BY <1>4, <1>5 DEF ShownInv

LEMMA EncodingKeepsShown ==
  ASSUME NEW mode \in Modes, JobInv, TablesInv, LoopInv, ShownInv(mode), Next
  PROVE  LoopInv' /\ ShownInv(mode)'
<1>1. CASE Seal \/ Fail
  <2>1. /\ UNCHANGED <<config, backend, inputs, palette, at, previous, out>> /\ pc' = "done"
        /\ result' = "file" => at = Len(inputs)
    BY <1>1 DEF Seal, Fail
  <2>2. LoopInv'
    BY <2>1, SameLoop
  <2>3. QED
    BY <2>1, <2>2, StillShown
<1>2. QED
  BY <1>1, BuiltShows, WrittenKeepsShown DEF Next

LEMMA BegunKeepsShown ==
  ASSUME NEW mode \in Modes, JobInv, LoopInv, pc \in {"settings", "job"},
         NEW s, NEW canvases \in Seq([Points -> Pixel]), Begin(s, canvases)
  PROVE  LoopInv' /\ ShownInv(mode)'
<1>1. /\ config' = AsConfig(s) /\ inputs' = canvases /\ pc' \in {"build", "frames"}
      /\ UNCHANGED <<palette, at, previous, out, result>>
  BY DEF Begin
<1>2. at = 0 /\ out = <<>> /\ result = "none" /\ palette = <<>> /\ previous = <<>>
  BY DEF JobInv, JobKept, LoopInv
<1>3. config'.given = <<>> /\ config'.oneShot = FALSE
  BY <1>1 DEF AsConfig
<1>4. Len(inputs') \in Nat /\ <<>> \in Seq(Pixel)
  BY <1>1, EmptySeq
<1>5. LoopInv'
  BY <1>1, <1>2, <1>3, <1>4 DEF LoopInv
<1>6. PaletteHolds(mode)'
  BY <1>1, <1>2 DEF PaletteHolds
<1>7. QED
  BY <1>1, <1>2, <1>5, <1>6, NothingShown

LEMMA StillKeepsShown ==
  ASSUME NEW mode \in Modes, JobInv, LoopInv, NEW s \in Sources, EncodeStill(s)
  PROVE  LoopInv' /\ ShownInv(mode)'
<1>1. s.colours \in [Points -> Colours]
  BY EncodeJobAssumption
<1>2. Converted(s) \in [Points -> Pixel]
  BY <1>1 DEF Converted, Pixel
<1> DEFINE Canvases == [Points -> Pixel]
           canvas == Converted(s)
<1>3. canvas \in Canvases
  BY <1>2
<1> HIDE DEF Canvases, canvas
<1>4. <<canvas>> \in Seq(Canvases)
  BY <1>3
<1>5. pc \in {"settings", "job"} /\ Begin(settings, <<canvas>>)
  BY DEF EncodeStill, canvas
<1>6. QED
  BY <1>4, <1>5, BegunKeepsShown DEF Canvases

LEMMA JobKeepsShown ==
  ASSUME NEW mode \in Modes, JobInv, LoopInv, ShownInv(mode),
         Change \/ MakeJob \/ FromMetadata \/ Refuse \/ StartAnimation
  PROVE  LoopInv' /\ ShownInv(mode)'
<1>1. CASE FromMetadata
  <2>1. PICK r \in Repeats, a \in Reencoded : Begin(RoundTripSettings(r), a)
    BY <1>1 DEF FromMetadata
  <2>2. a \in Seq([Points -> Pixel])
    BY <2>1, EncodeJobAssumption
  <2>3. pc \in {"settings", "job"}
    BY <1>1 DEF FromMetadata
  <2>4. QED
    BY <2>1, <2>2, <2>3, BegunKeepsShown
<1>2. CASE Change \/ MakeJob \/ Refuse \/ StartAnimation
  <2>1. /\ UNCHANGED <<config, backend, inputs, palette, at, previous, out>>
        /\ pc \in {"settings", "job"}
    BY <1>2 DEF Change, MakeJob, Refuse, StartAnimation, vars
  <2>2. result' # "file"
    BY <1>2 DEF Change, MakeJob, Refuse, StartAnimation, vars, JobInv, JobKept
  <2>3. LoopInv'
    BY <2>1, <2>2, SameLoop
  <2>4. QED
    BY <2>1, <2>3, StillShown
<1>3. QED
  BY <1>1, <1>2

\* quantette cannot keep what is transparent with use_transparency off.
AllKeepTransparent ==
  \A c \in Configs : ~(c.oneShot /\ Chosen(c) = "quantette" /\ ~c.transparency)

LEMMA InitShown ==
  ASSUME NEW mode \in Modes, AllKeepTransparent, SetupInit
  PROVE  LoopInv /\ ShownInv(mode)
<1>1. palette = <<>> /\ previous = <<>> /\ out = <<>> /\ at = 0 /\ result = "none"
  BY DEF SetupInit, Init, JobInit
<1>2. Len(inputs) \in Nat
  BY InitTables DEF TablesInv, EncoderType
<1>3. /\ config.given \in Seq(Pixel)
      /\ ~(config.oneShot /\ backend = "quantette" /\ ~config.transparency)
  <2>1. CASE Init
    BY <2>1, PaletteEncodingAssumption DEF Init, AllKeepTransparent
  <2>2. CASE JobInit
    <3>1. config = AsConfig(NewSettings)
      BY <2>2 DEF JobInit
    <3>2. config.given = <<>> /\ config.oneShot = FALSE
      BY <3>1 DEF AsConfig
    <3>3. QED
      BY <3>2, EmptySeq
  <2>3. QED
    BY <2>1, <2>2 DEF SetupInit
<1>4. LoopInv
  BY <1>1, <1>2, <1>3 DEF LoopInv
<1>5. DOMAIN out = {}
  BY <1>1
<1>6. QED
  BY <1>1, <1>4, <1>5 DEF ShownInv, PaletteHolds

LEMMA NextShown ==
  ASSUME NEW mode \in Modes, JobInv, TablesInv, LoopInv, ShownInv(mode),
         [EncodeJobNext]_<<vars, setup>>
  PROVE  LoopInv' /\ ShownInv(mode)'
<1>1. CASE UNCHANGED <<vars, setup>>
  <2>1. UNCHANGED <<config, backend, inputs, palette, at, previous, out, pc, result>>
    BY <1>1 DEF vars
  <2>2. LoopInv'
    BY <2>1, SameLoop DEF LoopInv
  <2>3. QED
    BY <2>1, <2>2, StillShown
<1>2. CASE Encode
  BY <1>2, EncodingKeepsShown DEF Encode
<1>3. QED
  BY <1>1, <1>2, StillKeepsShown, JobKeepsShown DEF EncodeJobNext

-----------------------------------------------------------------------------
(* The display                                                              *)

\* A tolerance that cannot take one pixel for another, as far as it matters.
TellsApart(mode) ==
  \A o, p \in Pixel : <<o, p>> \in Alike =>
    IF mode = "alpha" THEN o = Transparent <=> p = Transparent ELSE o = p

LEMMA AlikeAgrees ==
  ASSUME NEW mode \in Modes, TellsApart(mode), NEW o \in Pixel, NEW p \in Pixel,
         <<o, p>> \in Alike, NEW seen, Agrees(mode, seen, p)
  PROVE  Agrees(mode, seen, o)
BY DEF Agrees, TellsApart

(* A frame on what the one before leaves.                                   *)
LEMMA BlitShows ==
  ASSUME NEW mode \in Modes, TellsApart(mode), NEW new \in [Points -> Pixel], NEW behind,
         NEW g, Shows(g, new, behind, mode), FrameFitting(g), NEW below,
         \A p \in Points : new[p] = Transparent => below[p] = Transparent,
         behind # <<>> => /\ behind[1] \in [Points -> Pixel]
                          /\ \A p \in Points : Agrees(mode, below[p], behind[1][p]),
         NEW p \in Points
  PROVE  Agrees(mode, Blit(below, [rect |-> g.rect, image |-> Picture(g)])[p], new[p])
<1> DEFINE f == [rect |-> g.rect, image |-> Picture(g)]
           table == TableOf(g)
           seen == Blit(below, f)[p]
<1>1. /\ Inside(g.rect) /\ DOMAIN g.index = Area(g.rect) /\ Coloured(table)
      /\ ShowsAt(g, new, behind, mode, p)
  BY DEF Shows
<1>2. Clipped(f) = Area(g.rect)
  BY <1>1, InsideIsUnclipped DEF Clipped
<1>3. seen = IF p \in Area(g.rect) /\ Picture(g)[p] # Skip THEN Picture(g)[p] ELSE below[p]
  BY <1>2 DEF Blit
<1>4. new[p] \in Pixel
  OBVIOUS
<1>5. CASE p \in Area(g.rect) /\ g.index[p] # g.transparent
  <2>1. g.index[p] \in Indices(table) /\ Listed(table)
    BY <1>1, <1>5 DEF FrameFitting, InTable, Values
  <2>2. g.index[p] + 1 \in DOMAIN table
    BY <2>1 DEF Indices, Listed
  <2>3. Picture(g)[p] = table[g.index[p] + 1]
    BY <1>1, <1>5, <2>2 DEF Picture
  <2>4. table[g.index[p] + 1] # Skip
    BY <1>1, <2>2, CanvasAssumption DEF Coloured
  <2>5. seen = table[g.index[p] + 1]
    BY <1>3, <1>5, <2>3, <2>4
  <2>6. Agrees(mode, table[g.index[p] + 1], new[p])
    BY <1>1, <1>5 DEF ShowsAt
  <2> HIDE DEF seen, table
  <2>7. Agrees(mode, seen, new[p])
    BY <2>5, <2>6
  <2>8. QED
    BY <2>7 DEF seen, f
<1>6. CASE ~(p \in Area(g.rect) /\ g.index[p] # g.transparent)
  <2>1. p \in Area(g.rect) => Picture(g)[p] = Skip
    BY <1>1, <1>6 DEF Picture
  <2>2. seen = below[p]
    BY <1>3, <2>1
  <2>3. Stays(new, behind, p)
    BY <1>1, <1>6 DEF ShowsAt
  <2> HIDE DEF seen
  <2>4. CASE new[p] = Transparent
    <3>1. seen = Transparent
      BY <2>2, <2>4
    <3>2. Agrees(mode, seen, new[p])
      BY <2>4, <3>1 DEF Agrees, Pixel
    <3>3. QED
      BY <3>2 DEF seen, f
  <2>5. CASE new[p] # Transparent
    <3>1. behind # <<>> /\ <<new[p], behind[1][p]>> \in Alike
      BY <2>3, <2>5 DEF Stays
    <3>2. behind[1][p] \in Pixel /\ Agrees(mode, seen, behind[1][p])
      BY <2>2, <3>1
    <3>3. Agrees(mode, seen, new[p])
      BY <1>4, <3>1, <3>2, AlikeAgrees
    <3>4. QED
      BY <3>3 DEF seen, f
  <2>6. QED
    BY <2>4, <2>5
<1>7. QED
  BY <1>5, <1>6

(* The number of the frame that is shown as the nth, over two rounds.       *)
LEMMA RoundAgain ==
  ASSUME NEW L \in Nat \ {0}, NEW n \in 1 .. 2 * L
  PROVE  ((n - 1) % L) + 1 = IF n <= L THEN n ELSE n - L
<1>1. CASE n <= L
  <2>1. n - 1 \in Nat /\ n - 1 < L
    BY <1>1
  <2>2. (n - 1) % L = n - 1
    BY <2>1
  <2>3. QED
    BY <1>1, <2>2
<1>2. CASE ~(n <= L)
  <2> DEFINE r == n - 1 - L
  <2>1. r \in 0 .. L - 1 /\ n - 1 = L + r
    BY <1>2
  <2> HIDE DEF r
  <2>2. (L + r) % L = r
    BY <2>1
  <2>3. QED
    BY <1>2, <2>1, <2>2 DEF r
<1>3. QED
  BY <1>1, <1>2

FrameAt(n) == out[((n - 1) % Len(out)) + 1]

BelowAt(d, n) == IF n = 1 THEN Blank ELSE Left(d[n - 1], FrameAt(n - 1))

DisplayAt(d, n) ==
  IF n = 0 THEN Blank
  ELSE Blit(BelowAt(d, n), [rect |-> FrameAt(n).rect, image |-> Picture(FrameAt(n))])

IsDisplays(d) == d = [n \in 0 .. 2 * Len(out) |-> DisplayAt(d, n)]

LEMMA DisplaysExist == Len(out) \in Nat => \E d : IsDisplays(d)
<1> DEFINE upTo(n) == \E d : d = [k \in 0 .. n |-> DisplayAt(d, k)]
           S == {n \in Nat : upTo(n)}
<1>1. 0 \in S
  <2> DEFINE d == [k \in 0 .. 0 |-> Blank]
  <2>1. d = [k \in 0 .. 0 |-> DisplayAt(d, k)]
    BY DEF DisplayAt
  <2>2. QED
    BY <2>1
<1>2. ASSUME NEW n \in Nat, n \in S PROVE n + 1 \in S
  <2>1. PICK d : d = [k \in 0 .. n |-> DisplayAt(d, k)]
    BY <1>2
  <2> DEFINE h == [k \in 0 .. n + 1 |-> IF k = n + 1 THEN DisplayAt(d, k) ELSE d[k]]
  <2>2. ASSUME NEW k \in 0 .. n + 1 PROVE h[k] = DisplayAt(h, k)
    <3>1. k # 0 => k - 1 \in 0 .. n + 1 /\ k - 1 # n + 1 /\ h[k - 1] = d[k - 1]
      OBVIOUS
    <3>2. DisplayAt(h, k) = DisplayAt(d, k)
      <4> HIDE DEF h
      <4>1. QED
        BY <3>1 DEF DisplayAt, BelowAt
    <3>3. k # n + 1 => k \in 0 .. n
      OBVIOUS
    <3>4. k # n + 1 => d[k] = DisplayAt(d, k)
      BY <2>1, <3>3
    <3>5. h[k] = DisplayAt(d, k)
      BY <3>4
    <3>6. QED
      BY <3>2, <3>5
  <2>3. h = [k \in 0 .. n + 1 |-> h[k]]
    OBVIOUS
  <2> HIDE DEF h
  <2>4. [k \in 0 .. n + 1 |-> h[k]] = [k \in 0 .. n + 1 |-> DisplayAt(h, k)]
    BY <2>2
  <2>5. upTo(n + 1)
    BY <2>3, <2>4
  <2> HIDE DEF upTo
  <2>6. QED
    BY <2>5
<1> HIDE DEF S
<1>3. Nat \subseteq S
  BY <1>1, <1>2, NatInductionOnSets
<1>4. SUFFICES ASSUME Len(out) \in Nat PROVE \E d : IsDisplays(d)
  OBVIOUS
<1>5. 2 * Len(out) \in S
  BY <1>3, <1>4
<1>6. QED
  BY <1>5 DEF S, IsDisplays

LEMMA DisplaysAre ==
  ASSUME Len(out) \in Nat
  PROVE  \A n \in 0 .. 2 * Len(out) : Displays[n] = DisplayAt(Displays, n)
<1>1. Displays = CHOOSE d : IsDisplays(d)
  BY DEF Displays, IsDisplays, DisplayAt, BelowAt, FrameAt
<1>2. IsDisplays(Displays)
  BY <1>1, DisplaysExist
<1>3. QED
  BY <1>2 DEF IsDisplays

\* The canvas and the frame that are shown as the nth.
Turn(n) == IF n <= Len(out) THEN n ELSE n - Len(out)

LEMMA TurnOf ==
  ASSUME JobInv, LoopInv, NEW n \in Watched
  PROVE  /\ Len(out) \in Nat \ {0} /\ Len(out) = at /\ n \in 1 .. 2 * Len(out)
         /\ ((n - 1) % Len(out)) + 1 = Turn(n)
         /\ Turn(n) \in 1 .. Len(out)
         /\ n > 1 => /\ n - 1 \in Watched /\ Turn(n - 1) \in 1 .. Len(out)
                     /\ ((n - 1 - 1) % Len(out)) + 1 = Turn(n - 1)
                     /\ Turn(n) > 1 => Turn(n - 1) = Turn(n) - 1
                     /\ Turn(n) = 1 => Turn(n - 1) = Len(inputs) /\ Len(out) = Len(inputs)
<1> DEFINE L == Len(out)
<1>1. L \in Nat /\ L = at
  BY DEF JobInv, Counted
<1>2. n \in 1 .. (IF result = "file" THEN 2 * L ELSE L)
  BY DEF Watched
<1>3. result = "file" => at = Len(inputs)
  BY DEF LoopInv
<1>4. Turn(n) = (IF n <= L THEN n ELSE n - L) /\ Turn(n - 1) = IF n - 1 <= L THEN n - 1 ELSE n - 1 - L
  BY DEF Turn
<1>5. Watched = 1 .. (IF result = "file" THEN 2 * L ELSE L)
  BY DEF Watched
<1> HIDE DEF L
<1>6. L \in Nat \ {0} /\ n \in 1 .. 2 * L /\ (n > 1 => n - 1 \in 1 .. 2 * L)
  BY <1>1, <1>2
<1>7. ((n - 1) % L) + 1 = Turn(n)
  BY <1>4, <1>6, RoundAgain
<1>8. n > 1 => ((n - 1 - 1) % L) + 1 = Turn(n - 1)
  BY <1>4, <1>6, RoundAgain
<1>9. Turn(n) \in 1 .. L
  BY <1>4, <1>6
<1>10. ASSUME n > 1
       PROVE  /\ n - 1 \in Watched /\ Turn(n - 1) \in 1 .. L
              /\ Turn(n) > 1 => Turn(n - 1) = Turn(n) - 1
              /\ Turn(n) = 1 => Turn(n - 1) = Len(inputs) /\ L = Len(inputs)
  <2>1. n - 1 \in Watched
    BY <1>1, <1>2, <1>5, <1>10
  <2>2. Turn(n - 1) \in 1 .. L
    BY <1>4, <1>6, <1>10
  <2>3. Turn(n) > 1 => Turn(n - 1) = Turn(n) - 1
    BY <1>4, <1>6, <1>10
  <2>4. Turn(n) = 1 => n = L + 1
    BY <1>4, <1>6, <1>10
  <2>5. Turn(n) = 1 => result = "file"
    BY <1>2, <1>6, <2>4
  <2>6. Turn(n) = 1 => Turn(n - 1) = L
    BY <1>4, <1>6, <2>4
  <2>7. QED
    BY <1>1, <1>3, <2>1, <2>2, <2>3, <2>5, <2>6
<1>11. QED
  BY <1>1, <1>6, <1>7, <1>8, <1>9, <1>10 DEF L

LEMMA ShownAtTurn ==
  ASSUME NEW mode \in Modes, JobInv, TablesInv, LoopInv, ShownInv(mode), Promised(mode),
         NEW i \in 1 .. Len(out)
  PROVE  /\ ShownBy(out[i], i, mode) /\ FrameFitting(out[i])
         /\ i \in 1 .. Len(inputs) /\ inputs[i] \in [Points -> Pixel]
<1>1. Len(out) \in Nat /\ Len(out) = at /\ at <= Len(inputs) /\ Len(inputs) \in Nat
  BY DEF JobInv, Counted, LoopInv, TablesInv, EncoderType
<1>2. i \in DOMAIN out
  BY DEF TablesInv, OutFitting, Listed
<1>3. i \in 1 .. Len(inputs)
  BY <1>1
<1>4. inputs[i] \in [Points -> Pixel]
  BY <1>3, CanvasOf DEF TablesInv
<1>5. QED
  BY <1>2, <1>3, <1>4 DEF ShownInv, TablesInv, OutFitting

(* What the frame before leaves: nothing, or the canvas it has shown.       *)
LEMMA LeftStanding ==
  ASSUME NEW mode \in Modes, NEW h, NEW j, ShownBy(h, j, mode), NEW canvas, NEW p \in Points
  PROVE  Left(canvas, h)[p] = Transparent \/ (~Cleared(j) /\ Left(canvas, h) = canvas)
<1>1. CASE Cleared(j)
  <2>1. h.dispose = "background" /\ h.rect = Whole /\ h.transparent # None
    BY <1>1 DEF ShownBy
  <2>2. QED
    BY <2>1, WholeIsInside DEF Left
<1>2. CASE ~Cleared(j)
  BY <1>2 DEF ShownBy, Left
<1>3. QED
  BY <1>1, <1>2

LEMMA TurnShows ==
  ASSUME NEW mode \in Modes, TellsApart(mode), JobInv, TablesInv, LoopInv, ShownInv(mode),
         Promised(mode), NEW n \in Watched,
         n > 1 => \A p \in Points : Agrees(mode, Displays[n - 1][p], Given(n - 1)[p])
  PROVE  \A p \in Points : Agrees(mode, Displays[n][p], Given(n)[p])
<1> DEFINE i == Turn(n)
           j == Turn(n - 1)
           g == out[i]
           new == inputs[i]
           below == BelowAt(Displays, n)
<1>1. /\ Len(out) \in Nat \ {0} /\ n \in 1 .. 2 * Len(out) /\ i \in 1 .. Len(out)
      /\ FrameAt(n) = g /\ Given(n) = new
  BY TurnOf DEF FrameAt, Given
<1>2. n > 1 => /\ j \in 1 .. Len(out)
               /\ FrameAt(n - 1) = out[j] /\ Given(n - 1) = inputs[j]
               /\ i > 1 => j = i - 1
               /\ i = 1 => j = Len(inputs)
  BY TurnOf DEF FrameAt, Given
<1>3. /\ ShownBy(g, i, mode) /\ FrameFitting(g)
      /\ i \in 1 .. Len(inputs) /\ new \in [Points -> Pixel]
  BY <1>1, ShownAtTurn
<1>4. n > 1 => /\ ShownBy(out[j], j, mode) /\ j \in 1 .. Len(inputs)
               /\ inputs[j] \in [Points -> Pixel]
  BY <1>2, ShownAtTurn
<1>5. Displays[n] = Blit(below, [rect |-> g.rect, image |-> Picture(g)])
  <2>1. n \in 0 .. 2 * Len(out) /\ n # 0
    BY <1>1
  <2>2. Displays[n] = DisplayAt(Displays, n)
    BY <1>1, <2>1, DisplaysAre
  <2>3. QED
    BY <1>1, <2>1, <2>2 DEF DisplayAt
<1>6. n = 1 => below = Blank /\ i = 1
  BY <1>1 DEF BelowAt, Turn
<1>7. n > 1 => below = Left(Displays[n - 1], out[j])
  BY <1>2 DEF BelowAt
<1>8. PICK behind :
        /\ behind = <<>> \/ (i > 1 /\ ~Cleared(i - 1) /\ behind = <<inputs[i - 1]>>)
        /\ Shows(g, new, behind, mode)
  BY <1>3 DEF ShownBy
<1>9. n = 1 \/ n > 1
  BY <1>1
<1>10. Len(inputs) \in Nat
  BY DEF TablesInv, EncoderType
<1> HIDE DEF i, j, g, new, below
<1>11. ASSUME NEW p \in Points, new[p] = Transparent PROVE below[p] = Transparent
  <2>1. CASE n = 1
    BY <1>6, <2>1 DEF Blank
  <2>2. CASE n > 1
    <3> DEFINE h == out[j]
               canvas == Displays[n - 1]
    <3>1. ShownBy(h, j, mode) /\ below = Left(canvas, h)
      BY <1>4, <1>7, <2>2
    <3>2. Agrees(mode, canvas[p], inputs[j][p])
      BY <1>2, <2>2
    <3> HIDE DEF h, canvas
    <3>3. below[p] = Transparent \/ (~Cleared(j) /\ below = canvas)
      BY ONLY mode \in Modes, <1>11, <3>1, LeftStanding
    <3>4. ASSUME ~Cleared(j) PROVE inputs[j][p] = Transparent
      <4>1. CASE i > 1
        <5>1. j = i - 1 /\ j < Len(inputs) /\ j + 1 = i
          BY <1>2, <1>3, <1>10, <2>2, <4>1
        <5>2. ~NeedsCanvasClear(inputs[j], new)
          BY <3>4, <5>1 DEF Cleared, new
        <5>3. QED
          BY <1>11, <5>2 DEF NeedsCanvasClear
      <4>2. CASE ~(i > 1)
        <5>1. i = 1 /\ j = Len(inputs)
          BY <1>2, <1>3, <2>2, <4>2
        <5>2. ~HasAlpha(new)
          BY <1>10, <3>4, <5>1 DEF Cleared, new
        <5>3. QED
          BY <1>11, <5>2 DEF HasAlpha
      <4>3. QED
        BY <4>1, <4>2
    <3>5. QED
      BY <3>2, <3>3, <3>4 DEF Agrees, Modes
  <2>3. QED
    BY <1>9, <2>1, <2>2
<1>12. ASSUME behind # <<>>
       PROVE  /\ behind[1] \in [Points -> Pixel]
              /\ \A p \in Points : Agrees(mode, below[p], behind[1][p])
  <2>1. i > 1 /\ ~Cleared(i - 1) /\ behind = <<inputs[i - 1]>>
    BY <1>8, <1>12
  <2>2. n > 1
    BY <1>6, <1>9, <2>1
  <2>3. j = i - 1 /\ behind[1] = inputs[j]
    BY <1>2, <2>1, <2>2
  <2>4. ~Cleared(j) /\ ShownBy(out[j], j, mode)
    BY <1>4, <2>1, <2>2, <2>3
  <2>5. below = Displays[n - 1]
    BY <1>7, <2>2, <2>4 DEF Left, ShownBy
  <2>6. QED
    BY <1>2, <1>4, <2>2, <2>3, <2>5
<1>13. ASSUME NEW p \in Points
       PROVE  Agrees(mode, Blit(below, [rect |-> g.rect, image |-> Picture(g)])[p], new[p])
  BY ONLY mode \in Modes, TellsApart(mode), <1>3, <1>8, <1>11, <1>12, <1>13, BlitShows
<1>14. QED
  BY <1>1, <1>5, <1>13 DEF new

LEMMA WatchedShows ==
  ASSUME NEW mode \in Modes, TellsApart(mode), JobInv, TablesInv, LoopInv, ShownInv(mode),
         Promised(mode)
  PROVE  \A n \in Watched : \A p \in Points : Agrees(mode, Displays[n][p], Given(n)[p])
<1> DEFINE S == {n \in Nat : n \in Watched =>
                              \A p \in Points : Agrees(mode, Displays[n][p], Given(n)[p])}
<1>1. Watched \subseteq Nat /\ 0 \notin Watched
  BY DEF Watched, JobInv, Counted
<1>2. 0 \in S
  BY <1>1
<1>3. ASSUME NEW n \in Nat, n \in S PROVE n + 1 \in S
  <2>1. SUFFICES ASSUME n + 1 \in Watched
                 PROVE  \A p \in Points : Agrees(mode, Displays[n + 1][p], Given(n + 1)[p])
    OBVIOUS
  <2> DEFINE m == n + 1
  <2>2. m - 1 = n /\ m \in Watched
    BY <2>1
  <2> HIDE DEF m
  <2>3. m > 1 => m - 1 \in Watched
    BY <2>2, TurnOf
  <2>4. m > 1 => \A p \in Points : Agrees(mode, Displays[m - 1][p], Given(m - 1)[p])
    BY <1>3, <2>2, <2>3
  <2>5. \A p \in Points : Agrees(mode, Displays[m][p], Given(m)[p])
    BY <2>2, <2>4, TurnShows
  <2>6. QED
    BY <2>5 DEF m
<1> HIDE DEF S
<1>4. Nat \subseteq S
  BY <1>2, <1>3, NatInductionOnSets
<1>5. QED
  BY <1>1, <1>4 DEF S

(* Displays are canvases.                                                   *)
LEMMA DisplaysAreCanvases ==
  ASSUME JobInv, TablesInv, LoopInv, NEW n \in Watched
  PROVE  /\ Displays[n] = [p \in Points |-> Displays[n][p]]
         /\ Given(n) \in [Points -> Pixel]
<1>1. Len(out) \in Nat \ {0} /\ Len(out) = at /\ n \in 1 .. 2 * Len(out) /\ Turn(n) \in 1 .. Len(out)
      /\ Given(n) = inputs[Turn(n)]
  BY TurnOf DEF Given
<1>2. n \in 0 .. 2 * Len(out) /\ n # 0
  BY <1>1
<1>3. Displays[n] = DisplayAt(Displays, n)
  BY <1>1, <1>2, DisplaysAre
<1>4. DisplayAt(Displays, n) = [p \in Points |-> DisplayAt(Displays, n)[p]]
  BY <1>2 DEF DisplayAt, Blit
<1>5. Turn(n) \in 1 .. Len(inputs)
  <2>1. at <= Len(inputs) /\ Len(inputs) \in Nat
    BY DEF LoopInv, TablesInv, EncoderType
  <2>2. QED
    BY <1>1, <2>1
<1>6. Given(n) \in [Points -> Pixel]
  BY <1>1, <1>5, CanvasOf DEF TablesInv
<1>7. QED
  BY <1>3, <1>4, <1>6

LEMMA ColoursShown ==
  ASSUME TellsApart("colour"), JobInv, TablesInv, LoopInv, ShownInv("colour")
  PROVE  ShownAsGiven
<1>1. SUFFICES ASSUME Fits, NEW n \in Watched PROVE Displays[n] = Given(n)
  BY DEF ShownAsGiven
<1>2. Promised("colour") /\ "colour" \in Modes
  BY <1>1 DEF Promised, Modes
<1>3. \A p \in Points : Agrees("colour", Displays[n][p], Given(n)[p])
  BY <1>1, <1>2, WatchedShows
<1>4. \A p \in Points : Displays[n][p] = Given(n)[p]
  BY <1>3 DEF Agrees
<1>5. /\ Displays[n] = [p \in Points |-> Displays[n][p]]
      /\ Given(n) \in [Points -> Pixel]
  BY <1>1, DisplaysAreCanvases
<1>6. Given(n) = [p \in Points |-> Given(n)[p]]
  BY <1>5
<1>7. [p \in Points |-> Displays[n][p]] = [p \in Points |-> Given(n)[p]]
  BY <1>4
<1>8. QED
  BY <1>5, <1>6, <1>7

LEMMA SeenThrough ==
  ASSUME TellsApart("alpha"), JobInv, TablesInv, LoopInv, ShownInv("alpha")
  PROVE  SeeThroughAsGiven
<1>1. SUFFICES ASSUME KeepsTransparency, NEW n \in Watched, NEW p \in Points
               PROVE  Displays[n][p] = Transparent <=> Given(n)[p] = Transparent
  BY DEF SeeThroughAsGiven
<1>2. Promised("alpha") /\ "alpha" \in Modes
  BY <1>1 DEF Promised, Modes
<1>3. Agrees("alpha", Displays[n][p], Given(n)[p])
  BY <1>1, <1>2, WatchedShows
<1>4. QED
  BY <1>3 DEF Agrees

(* Whatever the backend, the palettes, the canvases and the table's size:   *)
(* when the colours fit and the tolerance is nothing, a viewer sees what    *)
(* was given, on the first round and when the animation begins again        *)
(* (prepare_frame_quantized, clear_disposal, the loops of both encoders).   *)
THEOREM CanvasesAreShown ==
  ASSUME AllKeepTransparent, TellsApart("colour")
  PROVE  EncodeJobSpec => []ShownAsGiven
<1>1. "colour" \in Modes
  BY DEF Modes
<1>2. SetupInit => JobInv /\ TablesInv /\ LoopInv /\ ShownInv("colour")
  BY <1>1, JobInitInv, InitTables, InitShown
<1>3. /\ JobInv /\ TablesInv /\ LoopInv /\ ShownInv("colour")
      /\ [EncodeJobNext]_<<vars, setup>>
      => (JobInv /\ TablesInv /\ LoopInv /\ ShownInv("colour"))'
  BY <1>1, NextKeepsInv, NextTables, NextShown
<1>4. JobInv /\ TablesInv /\ LoopInv /\ ShownInv("colour") => ShownAsGiven
  BY ColoursShown
<1>5. QED
  BY <1>2, <1>3, <1>4, PTL DEF EncodeJobSpec

(* Colours that do not fit are shown as others, but with a backend that     *)
(* keeps an entry for transparency nothing opaque is seen through and       *)
(* nothing transparent is painted (quantette_impl.rs, zenquant_impl.rs).    *)
THEOREM TransparencyIsShown ==
  ASSUME AllKeepTransparent, TellsApart("alpha")
  PROVE  EncodeJobSpec => []SeeThroughAsGiven
<1>1. "alpha" \in Modes
  BY DEF Modes
<1>2. SetupInit => JobInv /\ TablesInv /\ LoopInv /\ ShownInv("alpha")
  BY <1>1, JobInitInv, InitTables, InitShown
<1>3. /\ JobInv /\ TablesInv /\ LoopInv /\ ShownInv("alpha")
      /\ [EncodeJobNext]_<<vars, setup>>
      => (JobInv /\ TablesInv /\ LoopInv /\ ShownInv("alpha"))'
  BY <1>1, NextKeepsInv, NextTables, NextShown
<1>4. JobInv /\ TablesInv /\ LoopInv /\ ShownInv("alpha") => SeeThroughAsGiven
  BY SeenThrough
<1>5. QED
  BY <1>2, <1>3, <1>4, PTL DEF EncodeJobSpec
=============================================================================
