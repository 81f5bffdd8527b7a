----------------------------- MODULE MCInventory ------------------------------
(* Files of up to five blocks over a screen of two points: every kind of     *)
(* block, whole, malformed and, as the last one, cut off.                    *)
EXTENDS DecodeJob

CONSTANTS p, q, Longest

C(delay, transparent, dispose) ==
  [delay |-> delay, transparent |-> transparent, dispose |-> dispose]

Control(first, last) == [kind |-> "control", whole |-> TRUE, first |-> first, last |-> last]

Image(own, area, code) ==
  [kind |-> "image", own |-> own, inside |-> TRUE, reads |-> "whole",
   area |-> area, beyond |-> {}, code |-> code]

Loop == [kind |-> "loop", whole |-> TRUE, counts |-> TRUE]

Unknown(hides) == [kind |-> "unknown", whole |-> TRUE, hides |-> hides]

Trailer == [kind |-> "trailer"]

Whole ==
  {Image(FALSE, {p, q}, 1), Image(FALSE, {p}, 2), Image(TRUE, {p, q}, 1),
   [Image(FALSE, {p, q}, 3) EXCEPT !.beyond = {q}],
   [Image(TRUE, {p, q}, 2) EXCEPT !.reads = "fails"],
   [Image(TRUE, {p, q}, 2) EXCEPT !.inside = FALSE],
   Control(C(2, FALSE, "keep"), C(2, FALSE, "keep")),
   Control(C(1, TRUE, "background"), C(1, TRUE, "background")),
   Control(C(0, FALSE, "previous"), C(0, FALSE, "previous")),
   Control(C(3, TRUE, "keep"), NoControl),
   Loop, [kind |-> "other", whole |-> TRUE, children |-> 1],
   Unknown(<<Loop>>), Trailer}

Cut ==
  {[Image(FALSE, {p, q}, 1) EXCEPT !.reads = "cut"],
   [Image(TRUE, {p, q}, 1) EXCEPT !.reads = "table"],
   [Image(FALSE, {p, q}, 1) EXCEPT !.reads = "descriptor"],
   [Control(C(1, TRUE, "keep"), C(1, TRUE, "keep")) EXCEPT !.whole = FALSE],
   [Loop EXCEPT !.whole = FALSE],
   [Unknown(<<Image(FALSE, {p}, 2)>>) EXCEPT !.whole = FALSE]}

BlocksMC == Whole \cup Cut

Bodies == UNION {[1 .. n -> Whole] : n \in 1 .. Longest}

\* Longer files of fewer kinds of block.
Core ==
  {Image(FALSE, {p, q}, 1), Image(TRUE, {p, q}, 1), Loop, Trailer,
   Control(C(1, TRUE, "background"), C(1, TRUE, "background"))}

BodiesMC == [1 .. Longest + 2 -> Core] \cup Bodies
            \cup {Append(s, b) : s \in Bodies \cup {<<>>}, b \in Cut}

FilesMC ==
  {[screen |-> "ok", colours |-> "whole", entries |-> 4, blocks |-> s] : s \in BodiesMC} \cup
  {[screen |-> s, colours |-> c, entries |-> 4, blocks |-> b] :
     s \in {"ok", "memory"}, c \in {"none"},
     b \in UNION {[1 .. n -> {Image(FALSE, {p, q}, 1), Image(TRUE, {p, q}, 1), Loop}] : n \in 1 .. 3}} \cup
  {[screen |-> s, colours |-> "cut", entries |-> 4, blocks |-> <<>>] : s \in {"ok", "dims", "short"}}
=============================================================================
