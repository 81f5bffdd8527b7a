------------------------------- MODULE Playback -------------------------------
(***************************************************************************)
(* What encoding and viewing promise together: the frames a viewer shows   *)
(* are the frames that were added, the same pixels for the same time, in   *)
(* order, as far as they have come, and again from the first once the file *)
(* is complete and all of it was shown.                                    *)
(***************************************************************************)
EXTENDS Sequences, Naturals

CONSTANT Inputs  \* the frames that may be added

VARIABLES
  added,    \* the frames added
  seen,     \* the frames shown in this round
  complete  \* the file is complete

vars == <<added, seen, complete>>

Init == added = <<>> /\ seen = <<>> /\ complete = FALSE

Add(f) == ~complete /\ added' = Append(added, f) /\ UNCHANGED <<seen, complete>>

Show ==
  /\ Len(seen) < Len(added)
  /\ seen' = Append(seen, added[Len(seen) + 1])
  /\ UNCHANGED <<added, complete>>

Complete == ~complete /\ complete' = TRUE /\ UNCHANGED <<added, seen>>

Rewind == complete /\ seen = added /\ seen' = <<>> /\ UNCHANGED <<added, complete>>

Next == (\E f \in Inputs : Add(f)) \/ Show \/ Complete \/ Rewind

Spec == Init /\ [][Next]_vars
=============================================================================
