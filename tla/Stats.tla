-------------------------------- MODULE Stats --------------------------------
(***************************************************************************)
(* zengif's memory accounting, src/src/stats.rs: six relaxed atomics that  *)
(* every buffer of a decoder or encoder is charged to, and the limit check *)
(* made before each charge.  A Stats may be shared by threads ("All        *)
(* operations are atomic and safe for concurrent use"), so one action here *)
(* is one atomic access of one thread.  The two pairs of purely additive   *)
(* counters (a number of calls and a number of bytes) are bumped by two    *)
(* adjacent fetch_adds; nothing in the code reads one against the other,   *)
(* and each pair is one step here.                                         *)
(***************************************************************************)
EXTENDS Integers, FiniteSets, FiniteSetsExt

CONSTANTS
  Threads,    \* threads that share the Stats
  Sizes,      \* sizes, in bytes, of the allocations they charge
  MaxMemory,  \* Limits::max_memory
  MaxTotal,   \* bound of the model: bytes allocated before allocation stops
  MaxResets   \* bound of the model: calls of Stats::reset

ASSUME SizesAssumption ==
  /\ IsFiniteSet(Threads) /\ Threads # {}
  /\ Sizes \subseteq Nat \ {0} /\ IsFiniteSet(Sizes) /\ Sizes # {}
  /\ MaxMemory \in Nat
  /\ MaxTotal \in Nat
  /\ MaxResets \in Nat

VARIABLES
  currentBytes,      \* current_bytes
  peakBytes,         \* peak_bytes
  totalAllocated,    \* total_allocated
  totalDeallocated,  \* total_deallocated
  allocCount,        \* alloc_count
  deallocCount,      \* dealloc_count
  pc,                \* where each thread is inside an operation
  bytes,             \* the argument `bytes` of the operation it is in
  newCurrent,        \* track_alloc's local new_current
  seenPeak,          \* track_alloc's local peak
  held,              \* history: the bytes each thread has charged
  high,              \* history: the largest current_bytes there has been
  raced,             \* history: two try_allocs have overlapped
  resets             \* history: calls of reset

counters == <<currentBytes, peakBytes, totalAllocated, totalDeallocated,
              allocCount, deallocCount>>
locals   == <<pc, bytes, newCurrent, seenPeak>>
history  == <<held, high, raced, resets>>
vars     == <<counters, locals, history>>

Steps == {"idle", "count", "add", "loadPeak", "cas", "uncount", "sub",
          "zeroCurrent", "zeroPeak", "zeroTotals"}

\* The threads whose limit check passed and whose charge is not yet in
\* current_bytes: what they will add, no other thread can see.
Passed == {t \in Threads : pc[t] \in {"count", "add"}}

AtRest == \A t \in Threads : pc[t] = "idle"

At(t, from, to) == pc[t] = from /\ pc' = [pc EXCEPT ![t] = to]

\* An operation that returns has no locals any more.
Forget(t) ==
  /\ bytes' = [bytes EXCEPT ![t] = 0]
  /\ newCurrent' = [newCurrent EXCEPT ![t] = 0]
  /\ seenPeak' = [seenPeak EXCEPT ![t] = 0]

-----------------------------------------------------------------------------
Init ==
  /\ currentBytes = 0 /\ peakBytes = 0
  /\ totalAllocated = 0 /\ totalDeallocated = 0
  /\ allocCount = 0 /\ deallocCount = 0
  /\ pc = [t \in Threads |-> "idle"]
  /\ bytes = [t \in Threads |-> 0]
  /\ newCurrent = [t \in Threads |-> 0]
  /\ seenPeak = [t \in Threads |-> 0]
  /\ held = [t \in Threads |-> 0]
  /\ high = 0 /\ raced = FALSE /\ resets = 0

-----------------------------------------------------------------------------
(* try_alloc and track_alloc *)

\* A check that forgets what is already charged.
WithinCapAlone(n) == n <= MaxMemory
WithinCap(n) == currentBytes + n <= MaxMemory

\* try_alloc loads current_bytes and compares.  A refusal returns
\* MemoryLimitExceeded and changes nothing, so it is no step.
TryAlloc(t, n) ==
  /\ totalAllocated + n <= MaxTotal
  /\ WithinCap(n)
  /\ At(t, "idle", "count")
  /\ bytes' = [bytes EXCEPT ![t] = n]
  /\ raced' = (raced \/ Passed # {})
  /\ UNCHANGED <<counters, newCurrent, seenPeak, held, high, resets>>

CountAlloc(t) ==
  /\ At(t, "count", "add")
  /\ allocCount' = allocCount + 1
  /\ totalAllocated' = totalAllocated + bytes[t]
  /\ UNCHANGED <<currentBytes, peakBytes, totalDeallocated, deallocCount,
                 bytes, newCurrent, seenPeak, history>>

AddCurrent(t) ==
  /\ At(t, "add", "loadPeak")
  /\ currentBytes' = currentBytes + bytes[t]
  /\ newCurrent' = [newCurrent EXCEPT ![t] = currentBytes + bytes[t]]
  /\ held' = [held EXCEPT ![t] = @ + bytes[t]]
  /\ high' = IF currentBytes' > high THEN currentBytes' ELSE high
  /\ UNCHANGED <<peakBytes, totalAllocated, totalDeallocated, allocCount,
                 deallocCount, bytes, seenPeak, raced, resets>>

\* The condition of the while loop, after a load or a failed exchange.
SeePeak(t) ==
  \/ /\ newCurrent[t] > peakBytes
     /\ seenPeak' = [seenPeak EXCEPT ![t] = peakBytes]
     /\ pc' = [pc EXCEPT ![t] = "cas"]
     /\ UNCHANGED <<bytes, newCurrent>>
  \/ /\ newCurrent[t] <= peakBytes
     /\ pc' = [pc EXCEPT ![t] = "idle"]
     /\ Forget(t)

LoadPeak(t) ==
  /\ pc[t] = "loadPeak"
  /\ SeePeak(t)
  /\ UNCHANGED <<counters, history>>

\* A store in place of the compare-and-exchange.
StorePeak(t) ==
  /\ At(t, "cas", "idle")
  /\ peakBytes' = newCurrent[t]
  /\ Forget(t)
  /\ UNCHANGED <<currentBytes, totalAllocated, totalDeallocated, allocCount,
                 deallocCount, history>>

ExchangePeak(t) ==
  /\ peakBytes = seenPeak[t]
  /\ StorePeak(t)

\* compare_exchange_weak fails when the value moved, and may fail for no
\* reason: the loop then looks at the actual value.
ExchangeFails(t) ==
  /\ pc[t] = "cas"
  /\ SeePeak(t)
  /\ UNCHANGED <<counters, history>>

-----------------------------------------------------------------------------
(* track_dealloc, of bytes the thread has charged *)

TrackDealloc(t, n) ==
  /\ n <= held[t]
  /\ At(t, "idle", "uncount")
  /\ bytes' = [bytes EXCEPT ![t] = n]
  /\ UNCHANGED <<counters, newCurrent, seenPeak, history>>

\* The call counted, its bytes not.
CountCallOnly(t) ==
  /\ At(t, "uncount", "sub")
  /\ deallocCount' = deallocCount + 1
  /\ UNCHANGED <<currentBytes, peakBytes, totalAllocated, totalDeallocated,
                 allocCount, bytes, newCurrent, seenPeak, history>>

CountDealloc(t) ==
  /\ At(t, "uncount", "sub")
  /\ deallocCount' = deallocCount + 1
  /\ totalDeallocated' = totalDeallocated + bytes[t]
  /\ UNCHANGED <<currentBytes, peakBytes, totalAllocated, allocCount,
                 bytes, newCurrent, seenPeak, history>>

\* usize::saturating_sub, and what it replaces: an unchecked difference and
\* a fetch_sub that wraps (16 bits wide here).
UncheckedSub(n) == currentBytes - n
WrappingSub(n) == (currentBytes - n) % (2^16)
SaturatingSub(n) == IF currentBytes >= n THEN currentBytes - n ELSE 0

SubCurrent(t) ==
  /\ At(t, "sub", "idle")
  /\ currentBytes' = SaturatingSub(bytes[t])
  /\ held' = [held EXCEPT ![t] = @ - bytes[t]]
  /\ Forget(t)
  /\ UNCHANGED <<peakBytes, totalAllocated, totalDeallocated, allocCount,
                 deallocCount, high, raced, resets>>

-----------------------------------------------------------------------------
(* reset: the stores, in the order of the code *)

ZeroCurrent(t) ==
  /\ resets < MaxResets
  /\ At(t, "idle", "zeroPeak")
  /\ currentBytes' = 0
  /\ resets' = resets + 1
  /\ UNCHANGED <<peakBytes, totalAllocated, totalDeallocated, allocCount,
                 deallocCount, bytes, newCurrent, seenPeak, held, high, raced>>

ZeroPeak(t) ==
  /\ At(t, "zeroPeak", "zeroTotals")
  /\ peakBytes' = 0
  /\ UNCHANGED <<currentBytes, totalAllocated, totalDeallocated, allocCount,
                 deallocCount, bytes, newCurrent, seenPeak, history>>

ZeroTotals(t) ==
  /\ At(t, "zeroTotals", "idle")
  /\ totalAllocated' = 0 /\ totalDeallocated' = 0
  /\ allocCount' = 0 /\ deallocCount' = 0
  /\ UNCHANGED <<currentBytes, peakBytes, bytes, newCurrent, seenPeak, history>>

-----------------------------------------------------------------------------
Alloc(t) ==
  \/ \E n \in Sizes : TryAlloc(t, n)
  \/ CountAlloc(t) \/ AddCurrent(t) \/ LoadPeak(t)
  \/ ExchangePeak(t) \/ ExchangeFails(t)

Dealloc(t) ==
  \/ \E n \in Sizes : TrackDealloc(t, n)
  \/ CountDealloc(t) \/ SubCurrent(t)

Reset(t) == ZeroCurrent(t) \/ ZeroPeak(t) \/ ZeroTotals(t)

Next == \E t \in Threads : Alloc(t) \/ Dealloc(t) \/ Reset(t)

Spec == Init /\ [][Next]_vars

-----------------------------------------------------------------------------
(* Every counter is a natural number and every thread is at some step.     *)
TypeOK ==
  /\ currentBytes \in Nat /\ peakBytes \in Nat
  /\ totalAllocated \in Nat /\ totalDeallocated \in Nat
  /\ allocCount \in Nat /\ deallocCount \in Nat
  /\ pc \in [Threads -> Steps]
  /\ bytes \in [Threads -> Nat]
  /\ newCurrent \in [Threads -> Nat]
  /\ seenPeak \in [Threads -> Nat]
  /\ held \in [Threads -> Nat]
  /\ high \in Nat /\ raced \in BOOLEAN /\ resets \in Nat

(* track_alloc's compare-and-exchange loop loses no maximum: when every    *)
(* operation has returned, peak_bytes is exactly the largest value         *)
(* current_bytes ever had, however the loops interleaved.                  *)
PeakExactAtRest == AtRest /\ resets = 0 => peakBytes = high

(* Nothing is charged twice or forgotten: when every operation has         *)
(* returned, current_bytes is what the threads hold, and what was          *)
(* allocated less what was deallocated.                                    *)
ConservedAtRest ==
  AtRest /\ resets = 0 =>
    /\ currentBytes = MapThenSumSet(LAMBDA t : held[t], Threads)
    /\ currentBytes = totalAllocated - totalDeallocated

(* track_dealloc saturates: even when reset forgot charges that are later  *)
(* released, current_bytes never wraps to more than what is really held.   *)
NeverOvercharged ==
  currentBytes <= MapThenSumSet(LAMBDA t : held[t], Threads)

(* try_alloc enforces max_memory as long as no two calls overlap: this is  *)
(* what the sequential decoder and encoder rely on.                        *)
CapUnlessRaced == ~raced => currentBytes <= MaxMemory

(* When calls do overlap, each thread but one can slip one allocation past *)
(* the check that another thread's charge has not reached yet.             *)
OvershootBounded ==
  currentBytes <= MaxMemory + (Cardinality(Threads) - 1) * Max(Sizes)

=============================================================================
