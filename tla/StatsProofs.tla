----------------------------- MODULE StatsProofs -----------------------------
(***************************************************************************)
(* What holds of Stats for every set of threads, every set of sizes and    *)
(* every limit: its types, the limit as long as no two try_allocs overlap  *)
(* and how far it can be passed when they do, the exactness of the         *)
(* recorded peak, and that what is charged is what is held.                *)
(***************************************************************************)
EXTENDS Stats, SumProofs

(* A thread releases no more than it holds: what TypeOK needs of held.     *)
ReleaseWithinHeld ==
  \A t \in Threads : pc[t] \in {"uncount", "sub"} => bytes[t] <= held[t]

TypeInv == TypeOK /\ ReleaseWithinHeld

LEMMA InitTypeInv == Init => TypeInv
<1> SUFFICES ASSUME Init PROVE TypeInv
  OBVIOUS
<1>1. TypeOK
  BY DEF Init, TypeOK, Steps
<1>2. ReleaseWithinHeld
  BY DEF Init, ReleaseWithinHeld
<1>3. QED
  BY <1>1, <1>2 DEF TypeInv

(* TypeInv is inductive: one step per action. *)
LEMMA NextTypeInv == TypeInv /\ [Next]_vars => TypeInv'
<1> USE SizesAssumption DEF TypeInv, TypeOK, ReleaseWithinHeld, Steps
<1> SUFFICES ASSUME TypeInv, [Next]_vars PROVE TypeInv'
  OBVIOUS
<1>1. ASSUME NEW t \in Threads, NEW n \in Sizes, TryAlloc(t, n) PROVE TypeInv'
  BY <1>1 DEF TryAlloc, At, counters
<1>2. ASSUME NEW t \in Threads, CountAlloc(t) PROVE TypeInv'
  BY <1>2 DEF CountAlloc, At, history
<1>3. ASSUME NEW t \in Threads, AddCurrent(t) PROVE TypeInv'
  BY <1>3 DEF AddCurrent, At
<1>4. ASSUME NEW t \in Threads, LoadPeak(t) PROVE TypeInv'
  BY <1>4 DEF LoadPeak, SeePeak, Forget, counters, history
<1>5. ASSUME NEW t \in Threads, ExchangePeak(t) PROVE TypeInv'
  BY <1>5 DEF ExchangePeak, StorePeak, Forget, At, history
<1>6. ASSUME NEW t \in Threads, ExchangeFails(t) PROVE TypeInv'
  BY <1>6 DEF ExchangeFails, SeePeak, Forget, counters, history
<1>7. ASSUME NEW t \in Threads, NEW n \in Sizes, TrackDealloc(t, n) PROVE TypeInv'
  BY <1>7 DEF TrackDealloc, At, counters, history
<1>8. ASSUME NEW t \in Threads, CountDealloc(t) PROVE TypeInv'
  BY <1>8 DEF CountDealloc, At, history
<1>9. ASSUME NEW t \in Threads, SubCurrent(t) PROVE TypeInv'
  BY <1>9 DEF SubCurrent, SaturatingSub, Forget, At
<1>10. ASSUME NEW t \in Threads, Reset(t) PROVE TypeInv'
  BY <1>10 DEF Reset, ZeroCurrent, ZeroPeak, ZeroTotals, At, history
<1>11. CASE UNCHANGED vars
  BY <1>11 DEF vars, counters, locals, history
<1>12. QED
  BY <1>1, <1>2, <1>3, <1>4, <1>5, <1>6, <1>7, <1>8, <1>9, <1>10, <1>11
     DEF Next, Alloc, Dealloc

(* Stats is type correct, and no thread ever releases bytes it has not     *)
(* charged (track_dealloc is called by the owner of a buffer only).        *)
THEOREM TypeCorrect == Spec => [](TypeOK /\ ReleaseWithinHeld)
<1>1. TypeInv <=> TypeOK /\ ReleaseWithinHeld
  BY DEF TypeInv
<1>2. Spec => []TypeInv
  BY InitTypeInv, NextTypeInv, PTL DEF Spec
<1>3. QED
  BY <1>1, <1>2, PTL

-----------------------------------------------------------------------------
(* Until two try_allocs overlap, at most one thread is between its check   *)
(* and its charge, and what it checked is still so.                        *)
CapInv ==
  ~raced =>
    /\ currentBytes <= MaxMemory
    /\ \A t \in Passed : currentBytes + bytes[t] <= MaxMemory
    /\ \A t, u \in Passed : t = u

LEMMA InitCapInv == Init => CapInv
BY SizesAssumption DEF Init, CapInv, Passed

(* A check that passes sees every charge, or the race is recorded; an add  *)
(* uses up the one check that passed; everything else lowers the charge.   *)
LEMMA NextCapInv == TypeInv /\ CapInv /\ [Next]_vars => CapInv'
<1> USE SizesAssumption DEF CapInv, Passed, TypeInv, TypeOK, Steps
<1> SUFFICES ASSUME TypeInv, CapInv, [Next]_vars PROVE CapInv'
  OBVIOUS
<1>1. ASSUME NEW t \in Threads, NEW n \in Sizes, TryAlloc(t, n) PROVE CapInv'
  BY <1>1 DEF TryAlloc, WithinCap, At, counters
<1>2. ASSUME NEW t \in Threads, CountAlloc(t) PROVE CapInv'
  BY <1>2 DEF CountAlloc, At, history
<1>3. ASSUME NEW t \in Threads, AddCurrent(t) PROVE CapInv'
  BY <1>3 DEF AddCurrent, At
<1>4. ASSUME NEW t \in Threads, LoadPeak(t) PROVE CapInv'
  BY <1>4 DEF LoadPeak, SeePeak, Forget, counters, history
<1>5. ASSUME NEW t \in Threads, ExchangePeak(t) PROVE CapInv'
  BY <1>5 DEF ExchangePeak, StorePeak, Forget, At, history
<1>6. ASSUME NEW t \in Threads, ExchangeFails(t) PROVE CapInv'
  BY <1>6 DEF ExchangeFails, SeePeak, Forget, counters, history
<1>7. ASSUME NEW t \in Threads, NEW n \in Sizes, TrackDealloc(t, n) PROVE CapInv'
  BY <1>7 DEF TrackDealloc, At, counters, history
<1>8. ASSUME NEW t \in Threads, CountDealloc(t) PROVE CapInv'
  BY <1>8 DEF CountDealloc, At, history
<1>9. ASSUME NEW t \in Threads, SubCurrent(t) PROVE CapInv'
  BY <1>9 DEF SubCurrent, SaturatingSub, Forget, At
<1>10. ASSUME NEW t \in Threads, Reset(t) PROVE CapInv'
  BY <1>10 DEF Reset, ZeroCurrent, ZeroPeak, ZeroTotals, At, history
<1>11. CASE UNCHANGED vars
  BY <1>11 DEF vars, counters, locals, history
<1>12. QED
  BY <1>1, <1>2, <1>3, <1>4, <1>5, <1>6, <1>7, <1>8, <1>9, <1>10, <1>11
     DEF Next, Alloc, Dealloc

(* try_alloc keeps the charge within max_memory as long as no two calls    *)
(* overlap: the guarantee the sequential decoder and encoder build on.     *)
THEOREM CapWithoutRaces == Spec => []CapUnlessRaced
<1>1. CapInv => CapUnlessRaced
  BY DEF CapInv, CapUnlessRaced
<1>2. QED
  BY <1>1, InitCapInv, NextCapInv, InitTypeInv, NextTypeInv, PTL DEF Spec

-----------------------------------------------------------------------------
(* The threads still inside track_alloc's peak loop, and the invariant of  *)
(* that loop: either the peak has caught up with the highest charge, or    *)
(* the thread that made that charge has yet to record it.                  *)
Raising == {t \in Threads : pc[t] \in {"loadPeak", "cas"}}

LoopInv ==
  /\ \A t \in Threads : pc[t] \in {"zeroPeak", "zeroTotals"} => resets > 0
  /\ \A t \in Threads : pc[t] = "cas" => newCurrent[t] > seenPeak[t]

PeakInv ==
  resets = 0 =>
    /\ peakBytes <= high
    /\ currentBytes <= high
    /\ \A t \in Raising : newCurrent[t] <= high
    /\ high <= peakBytes \/ \E t \in Raising : newCurrent[t] = high

LEMMA InitPeakInv == Init => LoopInv /\ PeakInv
BY DEF Init, LoopInv, PeakInv, Raising

LEMMA NextLoopInv == TypeInv /\ LoopInv /\ [Next]_vars => LoopInv'
<1> USE SizesAssumption DEF LoopInv, TypeInv, TypeOK, Steps
<1> SUFFICES ASSUME TypeInv, LoopInv, [Next]_vars PROVE LoopInv'
  OBVIOUS
<1>1. ASSUME NEW t \in Threads, Alloc(t) PROVE LoopInv'
  BY <1>1 DEF Alloc, TryAlloc, CountAlloc, AddCurrent, LoadPeak, ExchangePeak,
              StorePeak, ExchangeFails, SeePeak, Forget, At, counters, history
<1>2. ASSUME NEW t \in Threads, Dealloc(t) PROVE LoopInv'
  BY <1>2 DEF Dealloc, TrackDealloc, CountDealloc, SubCurrent, Forget, At,
              counters, history
<1>3. ASSUME NEW t \in Threads, Reset(t) PROVE LoopInv'
  BY <1>3 DEF Reset, ZeroCurrent, ZeroPeak, ZeroTotals, At, history
<1>4. CASE UNCHANGED vars
  BY <1>4 DEF vars, counters, locals, history
<1>5. QED
  BY <1>1, <1>2, <1>3, <1>4 DEF Next

(* The loop of a thread ends only when the peak has reached its charge, and *)
(* an exchange never lowers the peak, because it compares first.            *)
LEMMA NextPeakInv ==
  TypeInv /\ LoopInv /\ PeakInv /\ [Next]_vars => PeakInv'
<1> USE SizesAssumption DEF PeakInv, LoopInv, Raising, TypeInv, TypeOK, Steps
<1> SUFFICES ASSUME TypeInv, LoopInv, PeakInv, [Next]_vars, resets' = 0
             PROVE PeakInv'
  OBVIOUS
<1>1. ASSUME NEW t \in Threads, NEW n \in Sizes, TryAlloc(t, n) PROVE PeakInv'
  BY <1>1 DEF TryAlloc, At, counters
<1>2. ASSUME NEW t \in Threads, CountAlloc(t) PROVE PeakInv'
  BY <1>2 DEF CountAlloc, At, history
<1>3. ASSUME NEW t \in Threads, AddCurrent(t) PROVE PeakInv'
  BY <1>3 DEF AddCurrent, At
<1>4. ASSUME NEW t \in Threads, LoadPeak(t) PROVE PeakInv'
  BY <1>4 DEF LoadPeak, SeePeak, Forget, counters, history
<1>5. ASSUME NEW t \in Threads, ExchangePeak(t) PROVE PeakInv'
  BY <1>5 DEF ExchangePeak, StorePeak, Forget, At, history
<1>6. ASSUME NEW t \in Threads, ExchangeFails(t) PROVE PeakInv'
  BY <1>6 DEF ExchangeFails, SeePeak, Forget, counters, history
<1>7. ASSUME NEW t \in Threads, NEW n \in Sizes, TrackDealloc(t, n) PROVE PeakInv'
  BY <1>7 DEF TrackDealloc, At, counters, history
<1>8. ASSUME NEW t \in Threads, CountDealloc(t) PROVE PeakInv'
  BY <1>8 DEF CountDealloc, At, history
<1>9. ASSUME NEW t \in Threads, SubCurrent(t) PROVE PeakInv'
  BY <1>9 DEF SubCurrent, SaturatingSub, Forget, At
<1>10. ASSUME NEW t \in Threads, Reset(t) PROVE PeakInv'
  BY <1>10 DEF Reset, ZeroCurrent, ZeroPeak, ZeroTotals, At, history
<1>11. CASE UNCHANGED vars
  BY <1>11 DEF vars, counters, locals, history
<1>12. QED
  BY <1>1, <1>2, <1>3, <1>4, <1>5, <1>6, <1>7, <1>8, <1>9, <1>10, <1>11
     DEF Next, Alloc, Dealloc

(* However the compare-and-exchange loops of the threads interleave, once  *)
(* all of them have returned peak_bytes is the largest charge there was.   *)
THEOREM PeakIsExact == Spec => []PeakExactAtRest
<1>1. TypeInv /\ PeakInv => PeakExactAtRest
  BY DEF TypeInv, TypeOK, PeakInv, PeakExactAtRest, AtRest, Raising
<1>2. QED
  BY <1>1, InitPeakInv, NextLoopInv, NextPeakInv, InitTypeInv, NextTypeInv,
     PTL DEF Spec
-----------------------------------------------------------------------------
(* The largest of finitely many sizes.                                     *)
LEMMA LargestSize == Max(Sizes) \in Nat /\ \A n \in Sizes : n <= Max(Sizes)
<1>1. \E x \in Sizes : \A y \in Sizes : x >= y
  <2> DEFINE N == {n \in Nat : \A s \in SUBSET Sizes : Cardinality(s) = n /\ s # {} =>
                                 \E x \in s : \A y \in s : x >= y}
  <2>1. 0 \in N
    BY PartSize, SizesAssumption
  <2>2. ASSUME NEW n \in Nat, n \in N PROVE n + 1 \in N
    <3> SUFFICES ASSUME NEW s \in SUBSET Sizes, Cardinality(s) = n + 1, s # {}
                 PROVE  \E x \in s : \A y \in s : x >= y
      OBVIOUS
    <3>1. PICK z \in s : TRUE
      OBVIOUS
    <3>2. s \ {z} \in SUBSET Sizes /\ Cardinality(s \ {z}) = n
      <4>0. IsFiniteSet(Sizes)
        BY SizesAssumption
      <4>1. s \ {z} \in SUBSET Sizes /\ Cardinality(s \ {z}) = Cardinality(s) - 1
        BY ONLY <3>1, <4>0, PartSize, s \in SUBSET Sizes
      <4>2. QED
        BY <4>1
    <3>3. s \ {z} # {} => \E x \in s \ {z} : \A y \in s \ {z} : x >= y
      BY <2>2, <3>2
    <3>4. \A y \in s : y \in Nat
      BY SizesAssumption
    <3>5. QED
      BY <3>3, <3>4
  <2> HIDE DEF N
  <2>3. Nat \subseteq N
    BY <2>1, <2>2, NatInductionOnSets
  <2>4. Cardinality(Sizes) \in N
    BY <2>3, SizesAssumption, FS_CardinalityType
  <2>5. QED
    BY <2>4, SizesAssumption DEF N
<1>2. Max(Sizes) \in Sizes /\ \A y \in Sizes : Max(Sizes) >= y
  BY <1>1 DEF Max
<1>3. QED
  BY <1>2, SizesAssumption

-----------------------------------------------------------------------------
\* What each thread has checked and not charged, what it has counted as
\* allocated and not charged, and what it has counted as released and still
\* charges.
Unreached == [t \in Threads |-> IF pc[t] \in {"count", "add"} THEN bytes[t] ELSE 0]
Counted   == [t \in Threads |-> IF pc[t] = "add" THEN bytes[t] ELSE 0]
Releasing == [t \in Threads |-> IF pc[t] = "sub" THEN bytes[t] ELSE 0]

\* What overlapping checks can let the charge come to.
MaxCharge == MaxMemory + (Cardinality(Threads) - 1) * Max(Sizes)

(* The charge is never more than what is held, and until a reset it is     *)
(* exactly that; the totals are ahead of it by what is counted and not     *)
(* charged, and behind by what is counted and not released.                *)
SumInv ==
  /\ currentBytes <= SumOver(held, Threads)
  /\ resets = 0 =>
       /\ currentBytes = SumOver(held, Threads)
       /\ currentBytes + SumOver(Counted, Threads)
            = (totalAllocated - totalDeallocated) + SumOver(Releasing, Threads)

(* With what every thread is about to charge, the charge is within the     *)
(* limit and one allocation of every thread but the one that checks.       *)
OvershootInv ==
  /\ \A t \in Passed : bytes[t] \in Sizes
  /\ currentBytes + SumOver(Unreached, Threads) <= MaxCharge

(* It is a number, and not below the limit.                                *)
LEMMA MaxChargeType == MaxCharge \in Nat /\ MaxMemory <= MaxCharge
<1>1. Cardinality(Threads) \in Nat /\ Cardinality(Threads) # 0
  BY SizesAssumption, FS_CardinalityType, FS_EmptySet
<1>2. Cardinality(Threads) - 1 \in Nat /\ Max(Sizes) \in Nat
  BY <1>1, LargestSize
<1> DEFINE c == Cardinality(Threads) - 1
           m == Max(Sizes)
<1> HIDE DEF c, m
<1>3. c \in Nat /\ m \in Nat
  BY <1>2 DEF c, m
<1>4. c * m \in Nat
  BY <1>3
<1>5. QED
  BY <1>4, SizesAssumption DEF MaxCharge, c, m

(* The terms are natural numbers.                                          *)
LEMMA TermTypes ==
  TypeInv => /\ held \in [Threads -> Nat] /\ Unreached \in [Threads -> Nat]
             /\ Counted \in [Threads -> Nat] /\ Releasing \in [Threads -> Nat]
BY DEF TypeInv, TypeOK, Unreached, Counted, Releasing

(* Nothing is charged at first.                                            *)
LEMMA InitSums == Init => SumInv /\ OvershootInv
<1> SUFFICES ASSUME Init PROVE SumInv /\ OvershootInv
  OBVIOUS
<1>1. TypeInv /\ IsFiniteSet(Threads)
  BY InitTypeInv, SizesAssumption
<1>2. \A t \in Threads : held[t] = 0 /\ Unreached[t] = 0 /\ Counted[t] = 0 /\ Releasing[t] = 0
  BY DEF Init, Unreached, Counted, Releasing
<1>3. /\ SumOver(held, Threads) = 0 /\ SumOver(Unreached, Threads) = 0
      /\ SumOver(Counted, Threads) = 0 /\ SumOver(Releasing, Threads) = 0
  BY <1>1, <1>2, TermTypes, SumOverZero
<1>4. SumInv
  BY <1>3 DEF Init, SumInv
<1>5. OvershootInv
  BY <1>3, MaxChargeType DEF Init, OvershootInv, Passed
<1>6. QED
  BY <1>4, <1>5

(* A step of one thread changes one term of each sum.                      *)
LEMMA SumsChange ==
  ASSUME TypeInv, TypeInv', NEW t \in Threads,
         \A u \in Threads \ {t} : pc'[u] = pc[u] /\ bytes'[u] = bytes[u] /\ held'[u] = held[u]
  PROVE  /\ SumOver(held', Threads) = SumOver(held, Threads) - held[t] + held'[t]
         /\ SumOver(Unreached', Threads) = SumOver(Unreached, Threads) - Unreached[t] + Unreached'[t]
         /\ SumOver(Counted', Threads) = SumOver(Counted, Threads) - Counted[t] + Counted'[t]
         /\ SumOver(Releasing', Threads) = SumOver(Releasing, Threads) - Releasing[t] + Releasing'[t]
         /\ SumOver(held, Threads) \in Nat /\ SumOver(Unreached, Threads) \in Nat
         /\ SumOver(Counted, Threads) \in Nat /\ SumOver(Releasing, Threads) \in Nat
         /\ held[t] <= SumOver(held, Threads)
<1>1. IsFiniteSet(Threads)
  BY SizesAssumption
<1>2. /\ held \in [Threads -> Nat] /\ Unreached \in [Threads -> Nat]
      /\ Counted \in [Threads -> Nat] /\ Releasing \in [Threads -> Nat]
  BY TermTypes
<1>3. /\ held' \in [Threads -> Nat] /\ Unreached' \in [Threads -> Nat]
      /\ Counted' \in [Threads -> Nat] /\ Releasing' \in [Threads -> Nat]
  BY DEF TypeInv, TypeOK, Unreached, Counted, Releasing
<1>4. \A u \in Threads \ {t} : /\ held[u] = held'[u] /\ Unreached[u] = Unreached'[u]
                               /\ Counted[u] = Counted'[u] /\ Releasing[u] = Releasing'[u]
  BY DEF Unreached, Counted, Releasing
<1>5. SumOver(held', Threads) = SumOver(held, Threads) - held[t] + held'[t]
  BY <1>1, <1>2, <1>3, <1>4, SumOverChanges
<1>6. SumOver(Unreached', Threads) = SumOver(Unreached, Threads) - Unreached[t] + Unreached'[t]
  BY <1>1, <1>2, <1>3, <1>4, SumOverChanges
<1>7. SumOver(Counted', Threads) = SumOver(Counted, Threads) - Counted[t] + Counted'[t]
  BY <1>1, <1>2, <1>3, <1>4, SumOverChanges
<1>8. SumOver(Releasing', Threads) = SumOver(Releasing, Threads) - Releasing[t] + Releasing'[t]
  BY <1>1, <1>2, <1>3, <1>4, SumOverChanges
<1>9. QED
  BY <1>1, <1>2, <1>5, <1>6, <1>7, <1>8, SumOverType

(* The terms of a thread, by where it is.                                  *)
LEMMA Terms ==
  ASSUME NEW t \in Threads
  PROVE  /\ Unreached[t] = IF pc[t] \in {"count", "add"} THEN bytes[t] ELSE 0
         /\ Counted[t] = IF pc[t] = "add" THEN bytes[t] ELSE 0
         /\ Releasing[t] = IF pc[t] = "sub" THEN bytes[t] ELSE 0
         /\ Unreached'[t] = IF pc'[t] \in {"count", "add"} THEN bytes'[t] ELSE 0
         /\ Counted'[t] = IF pc'[t] = "add" THEN bytes'[t] ELSE 0
         /\ Releasing'[t] = IF pc'[t] = "sub" THEN bytes'[t] ELSE 0
BY DEF Unreached, Counted, Releasing

(* Each step moves bytes from one sum to another; a check that passes      *)
(* leaves room for what the other threads have checked, one size each.     *)
LEMMA NextSums ==
  TypeInv /\ LoopInv /\ SumInv /\ OvershootInv /\ [Next]_vars => SumInv' /\ OvershootInv'
<1> SUFFICES ASSUME TypeInv, LoopInv, SumInv, OvershootInv, [Next]_vars
             PROVE  SumInv' /\ OvershootInv'
  OBVIOUS
<1> DEFINE h == SumOver(held, Threads)      h1 == SumOver(held', Threads)
           u == SumOver(Unreached, Threads) u1 == SumOver(Unreached', Threads)
           c == SumOver(Counted, Threads)   c1 == SumOver(Counted', Threads)
           r == SumOver(Releasing, Threads) r1 == SumOver(Releasing', Threads)
<1>0. TypeInv'
  BY NextTypeInv
<1>1. /\ currentBytes \in Nat /\ totalAllocated \in Nat /\ totalDeallocated \in Nat
      /\ currentBytes' \in Nat /\ totalAllocated' \in Nat /\ totalDeallocated' \in Nat
      /\ resets \in Nat
      /\ \A t \in Threads : bytes[t] \in Nat /\ bytes'[t] \in Nat /\ held[t] \in Nat /\ held'[t] \in Nat
  BY <1>0 DEF TypeInv, TypeOK
<1>2. /\ currentBytes <= h
      /\ resets = 0 => currentBytes = h /\ currentBytes + c = (totalAllocated - totalDeallocated) + r
      /\ currentBytes + u <= MaxCharge /\ MaxCharge \in Nat
      /\ \A t \in Passed : bytes[t] \in Sizes
  BY MaxChargeType DEF SumInv, OvershootInv
<1>3. ASSUME currentBytes' <= h1,
             resets' = 0 => currentBytes' = h1
                            /\ currentBytes' + c1 = (totalAllocated' - totalDeallocated') + r1
      PROVE  SumInv'
  BY <1>3 DEF SumInv
<1>4. ASSUME \A t \in Passed' : bytes'[t] \in Sizes, currentBytes' + u1 <= MaxCharge
      PROVE  OvershootInv'
  BY <1>4 DEF OvershootInv, MaxCharge
<1>5. ASSUME NEW t \in Threads,
             \A v \in Threads \ {t} : pc'[v] = pc[v] /\ bytes'[v] = bytes[v] /\ held'[v] = held[v]
      PROVE  /\ h1 = h - held[t] + held'[t] /\ u1 = u - Unreached[t] + Unreached'[t]
             /\ c1 = c - Counted[t] + Counted'[t] /\ r1 = r - Releasing[t] + Releasing'[t]
             /\ h \in Nat /\ u \in Nat /\ c \in Nat /\ r \in Nat /\ held[t] <= h
  BY <1>0, <1>5, SumsChange
<1>6. ASSUME NEW t \in Threads, Alloc(t) \/ Dealloc(t) \/ Reset(t)
      PROVE  \A v \in Threads \ {t} : pc'[v] = pc[v] /\ bytes'[v] = bytes[v] /\ held'[v] = held[v]
  BY <1>6 DEF TypeInv, TypeOK, Alloc, Dealloc, Reset, TryAlloc, CountAlloc, AddCurrent, LoadPeak,
       ExchangePeak, StorePeak, ExchangeFails, SeePeak, TrackDealloc, CountDealloc, SubCurrent,
       ZeroCurrent, ZeroPeak, ZeroTotals, Forget, At, counters, history
<1> HIDE DEF h, h1, u, u1, c, c1, r, r1
<1>7. ASSUME NEW t \in Threads, NEW n \in Sizes, TryAlloc(t, n) PROVE SumInv' /\ OvershootInv'
  <2>1. /\ pc[t] = "idle" /\ pc'[t] = "count" /\ bytes'[t] = n /\ held' = held /\ resets' = resets
        /\ currentBytes' = currentBytes /\ totalAllocated' = totalAllocated
        /\ totalDeallocated' = totalDeallocated /\ currentBytes + n <= MaxMemory
    BY <1>7 DEF TypeInv, TypeOK, TryAlloc, WithinCap, At, counters
  <2>2. \A v \in Threads \ {t} : pc'[v] = pc[v] /\ bytes'[v] = bytes[v] /\ held'[v] = held[v]
    BY <1>6, <1>7 DEF Alloc
  <2>3. /\ h1 = h /\ c1 = c /\ r1 = r
    BY <1>1, <1>5, <2>1, <2>2, Terms
  <2>4. SumInv'
    BY <1>2, <1>3, <2>1, <2>3
  <2>5. \A v \in Passed' : bytes'[v] \in Sizes
    BY <1>2, <2>1, <2>2 DEF Passed
  <2>6. currentBytes' + u1 <= MaxCharge
    <3>1. \A v \in Threads : Unreached[v] \in Nat /\ Unreached[v] <= Max(Sizes)
      BY <1>1, <1>2, LargestSize DEF Unreached, Passed
    <3>2. Unreached \in [Threads -> Nat] /\ Unreached[t] = 0 /\ IsFiniteSet(Threads)
      BY <2>1, TermTypes, SizesAssumption DEF Unreached
    <3>3. u <= (Cardinality(Threads) - 1) * Max(Sizes)
      BY <3>1, <3>2, LargestSize, SumOverBound DEF u
    <3>4. u1 = u + n /\ u \in Nat /\ n \in Nat
      BY <1>1, <1>5, <2>1, <2>2, Terms
    <3> DEFINE k == (Cardinality(Threads) - 1) * Max(Sizes)
    <3>5. k \in Int /\ MaxMemory \in Nat
      BY SizesAssumption, FS_CardinalityType, LargestSize
    <3> HIDE DEF k
    <3>6. u <= k /\ MaxCharge = MaxMemory + k
      BY <3>3 DEF k, MaxCharge
    <3>7. QED
      BY <1>1, <2>1, <3>4, <3>5, <3>6
  <2>7. QED
    BY <1>4, <2>4, <2>5, <2>6
<1>8. ASSUME NEW t \in Threads, CountAlloc(t) PROVE SumInv' /\ OvershootInv'
  <2>1. /\ pc[t] = "count" /\ pc'[t] = "add" /\ bytes' = bytes /\ held' = held /\ resets' = resets
        /\ currentBytes' = currentBytes /\ totalAllocated' = totalAllocated + bytes[t]
        /\ totalDeallocated' = totalDeallocated
    BY <1>8 DEF TypeInv, TypeOK, CountAlloc, At, history
  <2>2. \A v \in Threads \ {t} : pc'[v] = pc[v] /\ bytes'[v] = bytes[v] /\ held'[v] = held[v]
    BY <1>6, <1>8 DEF Alloc
  <2>3. /\ h1 = h /\ c1 = c + bytes[t] /\ r1 = r /\ u1 = u /\ h \in Nat /\ c \in Nat /\ r \in Nat
        /\ bytes[t] \in Nat
    BY <1>1, <1>5, <2>1, <2>2, Terms
  <2>4. SumInv'
    BY <1>1, <1>2, <1>3, <2>1, <2>3
  <2>5. \A v \in Passed' : bytes'[v] \in Sizes
    BY <1>2, <2>1, <2>2 DEF Passed
  <2>6. QED
    BY <1>2, <1>4, <2>1, <2>3, <2>4, <2>5
<1>9. ASSUME NEW t \in Threads, AddCurrent(t) PROVE SumInv' /\ OvershootInv'
  <2>1. /\ pc[t] = "add" /\ pc'[t] = "loadPeak" /\ bytes' = bytes /\ held'[t] = held[t] + bytes[t]
        /\ resets' = resets /\ currentBytes' = currentBytes + bytes[t]
        /\ totalAllocated' = totalAllocated /\ totalDeallocated' = totalDeallocated
    BY <1>9 DEF TypeInv, TypeOK, AddCurrent, At
  <2>2. \A v \in Threads \ {t} : pc'[v] = pc[v] /\ bytes'[v] = bytes[v] /\ held'[v] = held[v]
    BY <1>6, <1>9 DEF Alloc
  <2>3. /\ h1 = h + bytes[t] /\ c1 = c - bytes[t] /\ r1 = r /\ u1 = u - bytes[t]
        /\ h \in Nat /\ c \in Nat /\ r \in Nat /\ u \in Nat /\ bytes[t] \in Nat
    BY <1>1, <1>5, <2>1, <2>2, Terms
  <2>4. SumInv'
    BY <1>1, <1>2, <1>3, <2>1, <2>3
  <2>5. \A v \in Passed' : bytes'[v] \in Sizes
    BY <1>2, <2>1, <2>2 DEF Passed
  <2>6. QED
    BY <1>1, <1>2, <1>4, <2>1, <2>3, <2>4, <2>5
<1>10. ASSUME NEW t \in Threads, LoadPeak(t) \/ ExchangePeak(t) \/ ExchangeFails(t)
       PROVE  SumInv' /\ OvershootInv'
  <2>1. /\ pc[t] \in {"loadPeak", "cas"} /\ pc'[t] \in {"cas", "idle"} /\ held' = held
        /\ resets' = resets /\ currentBytes' = currentBytes
        /\ totalAllocated' = totalAllocated /\ totalDeallocated' = totalDeallocated
    BY <1>10 DEF TypeInv, TypeOK, LoadPeak, ExchangePeak, StorePeak, ExchangeFails, SeePeak, At,
         counters, history
  <2>2. \A v \in Threads \ {t} : pc'[v] = pc[v] /\ bytes'[v] = bytes[v] /\ held'[v] = held[v]
    BY <1>6, <1>10 DEF Alloc
  <2>3. h1 = h /\ c1 = c /\ r1 = r /\ u1 = u
    BY <1>1, <1>5, <2>1, <2>2, Terms
  <2>4. SumInv'
    BY <1>2, <1>3, <2>1, <2>3
  <2>5. \A v \in Passed' : bytes'[v] \in Sizes
    BY <1>2, <2>1, <2>2 DEF Passed
  <2>6. QED
    BY <1>2, <1>4, <2>1, <2>3, <2>4, <2>5
<1>11. ASSUME NEW t \in Threads, NEW n \in Sizes, TrackDealloc(t, n) PROVE SumInv' /\ OvershootInv'
  <2>1. /\ pc[t] = "idle" /\ pc'[t] = "uncount" /\ held' = held
        /\ resets' = resets /\ currentBytes' = currentBytes
        /\ totalAllocated' = totalAllocated /\ totalDeallocated' = totalDeallocated
    BY <1>11 DEF TypeInv, TypeOK, TrackDealloc, At, counters, history
  <2>2. \A v \in Threads \ {t} : pc'[v] = pc[v] /\ bytes'[v] = bytes[v] /\ held'[v] = held[v]
    BY <1>6, <1>11 DEF Dealloc
  <2>3. h1 = h /\ c1 = c /\ r1 = r /\ u1 = u
    BY <1>1, <1>5, <2>1, <2>2, Terms
  <2>4. SumInv'
    BY <1>2, <1>3, <2>1, <2>3
  <2>5. \A v \in Passed' : bytes'[v] \in Sizes
    BY <1>2, <2>1, <2>2 DEF Passed
  <2>6. QED
    BY <1>2, <1>4, <2>1, <2>3, <2>4, <2>5
<1>12. ASSUME NEW t \in Threads, CountDealloc(t) PROVE SumInv' /\ OvershootInv'
  <2>1. /\ pc[t] = "uncount" /\ pc'[t] = "sub" /\ bytes' = bytes /\ held' = held /\ resets' = resets
        /\ currentBytes' = currentBytes /\ totalDeallocated' = totalDeallocated + bytes[t]
        /\ totalAllocated' = totalAllocated
    BY <1>12 DEF TypeInv, TypeOK, CountDealloc, At, history
  <2>2. \A v \in Threads \ {t} : pc'[v] = pc[v] /\ bytes'[v] = bytes[v] /\ held'[v] = held[v]
    BY <1>6, <1>12 DEF Dealloc
  <2>3. /\ h1 = h /\ c1 = c /\ r1 = r + bytes[t] /\ u1 = u /\ h \in Nat /\ c \in Nat /\ r \in Nat
        /\ bytes[t] \in Nat
    BY <1>1, <1>5, <2>1, <2>2, Terms
  <2>4. SumInv'
    BY <1>1, <1>2, <1>3, <2>1, <2>3
  <2>5. \A v \in Passed' : bytes'[v] \in Sizes
    BY <1>2, <2>1, <2>2 DEF Passed
  <2>6. QED
    BY <1>2, <1>4, <2>1, <2>3, <2>4, <2>5
<1>13. ASSUME NEW t \in Threads, SubCurrent(t) PROVE SumInv' /\ OvershootInv'
  <2>1. /\ pc[t] = "sub" /\ pc'[t] = "idle" /\ held'[t] = held[t] - bytes[t] /\ resets' = resets
        /\ currentBytes' = IF currentBytes >= bytes[t] THEN currentBytes - bytes[t] ELSE 0
        /\ totalAllocated' = totalAllocated /\ totalDeallocated' = totalDeallocated
        /\ bytes[t] <= held[t]
    BY <1>13 DEF TypeInv, TypeOK, SubCurrent, SaturatingSub, At, ReleaseWithinHeld
  <2>2. \A v \in Threads \ {t} : pc'[v] = pc[v] /\ bytes'[v] = bytes[v] /\ held'[v] = held[v]
    BY <1>6, <1>13 DEF Dealloc
  <2>3. /\ h1 = h - bytes[t] /\ c1 = c /\ r1 = r - bytes[t] /\ u1 = u
        /\ h \in Nat /\ c \in Nat /\ r \in Nat /\ u \in Nat /\ bytes[t] \in Nat /\ bytes[t] <= h
    BY <1>1, <1>5, <2>1, <2>2, Terms
  <2>4. SumInv'
    BY <1>1, <1>2, <1>3, <2>1, <2>3
  <2>5. \A v \in Passed' : bytes'[v] \in Sizes
    BY <1>2, <2>1, <2>2 DEF Passed
  <2>6. currentBytes' + u1 <= MaxCharge
    BY <1>1, <1>2, <2>1, <2>3
  <2>7. QED
    BY <1>4, <2>4, <2>5, <2>6
<1>14. ASSUME NEW t \in Threads, Reset(t) PROVE SumInv' /\ OvershootInv'
  <2>1. /\ pc[t] \in {"idle", "zeroPeak", "zeroTotals"} /\ pc'[t] \in {"idle", "zeroPeak", "zeroTotals"}
        /\ held' = held /\ bytes' = bytes /\ currentBytes' \in {0, currentBytes}
    BY <1>14 DEF TypeInv, TypeOK, Reset, ZeroCurrent, ZeroPeak, ZeroTotals, At, history
  <2>2. \A v \in Threads \ {t} : pc'[v] = pc[v] /\ bytes'[v] = bytes[v] /\ held'[v] = held[v]
    BY <1>6, <1>14
  <2>3. h1 = h /\ c1 = c /\ r1 = r /\ u1 = u /\ h \in Nat /\ u \in Nat
    BY <1>1, <1>5, <2>1, <2>2, Terms
  <2>4. resets' = 0 =>
          /\ resets = 0 /\ currentBytes' = currentBytes
          /\ totalAllocated' = totalAllocated /\ totalDeallocated' = totalDeallocated
    BY <1>1, <1>14 DEF LoopInv, Reset, ZeroCurrent, ZeroPeak, ZeroTotals, At, history
  <2>5. SumInv'
    BY <1>1, <1>2, <1>3, <2>1, <2>3, <2>4
  <2>6. \A v \in Passed' : bytes'[v] \in Sizes
    BY <1>2, <2>1, <2>2 DEF Passed
  <2>7. currentBytes' + u1 <= MaxCharge
    <3>1. currentBytes' <= currentBytes
      BY <1>1, <2>1
    <3>2. /\ currentBytes \in Nat /\ currentBytes' \in Nat /\ u \in Nat /\ MaxCharge \in Nat
          /\ currentBytes + u <= MaxCharge
      BY <1>1, <1>2, <2>3
    <3>3. currentBytes' + u <= MaxCharge
      <4>1. ASSUME NEW a \in Nat, NEW b \in Nat, NEW k \in Nat, NEW m \in Nat, a <= b, b + k <= m
            PROVE  a + k <= m
        BY ONLY <4>1
      <4>2. QED
        BY ONLY <3>1, <3>2, <4>1, Zenon
    <3>4. QED
      BY <2>3, <3>3
  <2>8. QED
    BY <1>4, <2>5, <2>6, <2>7
<1>15. CASE UNCHANGED vars
  <2>1. /\ held' = held /\ Unreached' = Unreached /\ Counted' = Counted /\ Releasing' = Releasing
        /\ Passed' = Passed /\ bytes' = bytes /\ UNCHANGED counters /\ resets' = resets
    BY <1>15 DEF vars, counters, locals, history, Unreached, Counted, Releasing, Passed
  <2>2. QED
    BY <1>2, <1>3, <1>4, <2>1 DEF counters, h, h1, u, u1, c, c1, r, r1
<1>16. QED
  BY <1>7, <1>8, <1>9, <1>10, <1>11, <1>12, <1>13, <1>14, <1>15 DEF Next, Alloc, Dealloc

(* So both hold throughout.                                                *)
LEMMA Sums == Spec => [](TypeInv /\ LoopInv /\ SumInv /\ OvershootInv)
<1>1. Init => TypeInv /\ LoopInv /\ SumInv /\ OvershootInv
  BY InitTypeInv, InitPeakInv, InitSums
<1>2. TypeInv /\ LoopInv /\ SumInv /\ OvershootInv /\ [Next]_vars
        => (TypeInv /\ LoopInv /\ SumInv /\ OvershootInv)'
  BY NextTypeInv, NextLoopInv, NextSums
<1>3. QED
  BY <1>1, <1>2, PTL DEF Spec

(* stats.rs: when every operation has returned, current_bytes is what the  *)
(* threads hold and what was allocated less what was deallocated, for any  *)
(* number of threads, any sizes and any interleaving.                      *)
THEOREM ChargesAreConserved == Spec => []ConservedAtRest
<1>1. TypeInv /\ SumInv => ConservedAtRest
  <2> SUFFICES ASSUME TypeInv, SumInv, AtRest, resets = 0
               PROVE  /\ currentBytes = SumOver(held, Threads)
                      /\ currentBytes = totalAllocated - totalDeallocated
    BY DEF ConservedAtRest, SumOver
  <2>1. \A t \in Threads : Counted[t] = 0 /\ Releasing[t] = 0
    BY DEF AtRest, Counted, Releasing
  <2>2. SumOver(Counted, Threads) = 0 /\ SumOver(Releasing, Threads) = 0
    BY <2>1, TermTypes, SumOverZero, SizesAssumption
  <2>3. QED
    BY <2>2 DEF SumInv, TypeInv, TypeOK
<1>2. QED
  BY <1>1, Sums, PTL

(* track_dealloc saturates: even when a reset forgot charges that are      *)
(* released later, current_bytes never claims more than is held, for any   *)
(* number of threads and resets.                                           *)
THEOREM NoOvercharge == Spec => []NeverOvercharged
<1>1. SumInv => NeverOvercharged
  BY DEF SumInv, NeverOvercharged, SumOver
<1>2. QED
  BY <1>1, Sums, PTL

(* try_alloc checks and charges in separate steps: with any number of      *)
(* threads, current_bytes stays within max_memory and one allocation of    *)
(* every thread but one.                                                   *)
THEOREM OvershootIsBounded == Spec => []OvershootBounded
<1>1. TypeInv /\ OvershootInv => OvershootBounded
  <2> SUFFICES ASSUME TypeInv, OvershootInv PROVE currentBytes <= MaxCharge
    BY DEF OvershootBounded, MaxCharge
  <2>1. SumOver(Unreached, Threads) \in Nat
    BY TermTypes, SumOverType, SizesAssumption
  <2>2. QED
    BY <2>1, MaxChargeType DEF OvershootInv, TypeInv, TypeOK
<1>2. QED
  BY <1>1, Sums, PTL
=============================================================================
