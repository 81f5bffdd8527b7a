-------------------------- MODULE DifferencingProofs --------------------------
(***************************************************************************)
(* Where the differences between two canvases lie: the region a diff draws *)
(* is on the canvas, needs no clipping, and has every changed point in it. *)
(* Both the steps of the streaming encoder and the palettes build on this. *)
(***************************************************************************)
EXTENDS Differencing, SumProofs, TLAPS

(* The least and the largest of a set of numbers are among them.           *)
LEMMA MinIsLeast ==
  ASSUME NEW S, S \subseteq Nat, S # {}
  PROVE  Min(S) \in S /\ \A m \in S : Min(S) <= m
BY LeastNat DEF Min

LEMMA MaxIsLargest ==
  ASSUME NEW n \in Nat, NEW S, S \subseteq 0 .. n - 1, S # {}
  PROVE  Max(S) \in S /\ \A m \in S : m <= Max(S)
<1> DEFINE B == {b \in Nat : \A m \in S : m <= b}
<1>1. n \in B
  OBVIOUS
<1>2. PICK b \in B : \A c \in B : b <= c
  <2>1. B \subseteq Nat /\ B # {}
    BY <1>1
  <2> HIDE DEF B
  <2>2. QED
    BY <2>1, LeastNat
<1>3. b \in S
  <2>1. SUFFICES ASSUME b \notin S PROVE FALSE
    OBVIOUS
  <2>2. \A m \in S : m \in Nat /\ m < b
    BY <1>2, <2>1
  <2>7. PICK x \in S : TRUE
    OBVIOUS
  <2>8. b \in Nat
    BY <1>2
  <2>3. b \in Nat /\ b # 0
    BY <2>2, <2>7, <2>8
  <2>4. b - 1 \in Nat /\ \A m \in S : m <= b - 1
    BY <2>2, <2>3
  <2>5. b - 1 \in B
    BY <2>4
  <2>6. QED
    BY <1>2, <2>3, <2>5
<1>4. \A m \in S : m <= b
  BY <1>2
<1>5. \E x \in S : \A y \in S : x >= y
  BY <1>3, <1>4
<1>6. Max(S) \in S /\ \A m \in S : Max(S) >= m
  BY <1>5 DEF Max
<1>7. S \subseteq Nat
  OBVIOUS
<1>8. QED
  BY <1>6, <1>7

\* A rectangle with an area that lies on the canvas.
Inside(r) ==
  /\ r.left \in Nat /\ r.top \in Nat /\ r.width \in Nat \ {0} /\ r.height \in Nat \ {0}
  /\ r.left + r.width <= Width /\ r.top + r.height <= Height

(* Nothing of it is clipped.                                               *)
LEMMA InsideIsUnclipped ==
  ASSUME NEW r, Inside(r)
  PROVE  /\ Area(ClipFrameBounds(r)) = Area(r) /\ Area(r) \subseteq Points
         /\ <<r.left, r.top>> \in Area(r)
<1> DEFINE c == ClipFrameBounds(r)
<1>1. Width \in Nat /\ Height \in Nat
  BY CanvasAssumption
<1>2. AtMost(r.left, Width) = r.left /\ AtMost(r.top, Height) = r.top
  BY <1>1 DEF AtMost, Inside
<1>3. AtMost(r.width, Width - r.left) = r.width /\ AtMost(r.height, Height - r.top) = r.height
  BY <1>1 DEF AtMost, Inside
<1>4. c.left = r.left /\ c.top = r.top /\ c.width = r.width /\ c.height = r.height
  BY <1>2, <1>3 DEF ClipFrameBounds
<1> HIDE DEF c
<1>5. Area(c) = Area(r)
  BY <1>4 DEF Area
<1>6. /\ r.left .. r.left + r.width - 1 \subseteq 0 .. Width - 1
      /\ r.top .. r.top + r.height - 1 \subseteq 0 .. Height - 1
  BY <1>1 DEF Inside
<1>7. r.left \in r.left .. r.left + r.width - 1 /\ r.top \in r.top .. r.top + r.height - 1
  BY DEF Inside
<1>8. QED
  BY <1>5, <1>6, <1>7 DEF Area, Points, c

LEMMA WholeIsInside ==
  /\ Inside(Whole) /\ Area(Whole) = Points
  /\ Inside([left |-> 0, top |-> 0, width |-> 1, height |-> 1])
<1>1. Width \in Nat \ {0} /\ Height \in Nat \ {0}
  BY CanvasAssumption
<1>2. Inside(Whole) /\ Inside([left |-> 0, top |-> 0, width |-> 1, height |-> 1])
  BY <1>1 DEF Inside, Whole
<1>3. 0 .. 0 + Width - 1 = 0 .. Width - 1 /\ 0 .. 0 + Height - 1 = 0 .. Height - 1
  BY <1>1
<1>4. QED
  BY <1>2, <1>3 DEF Area, Whole, Points

(* The rectangle around some points lies on the canvas and has them all.   *)
LEMMA AroundIsInside ==
  ASSUME NEW points, points \subseteq Points, points # {}
  PROVE  Inside(Around(points)) /\ points \subseteq Area(Around(points))
<1> DEFINE xs == {p[1] : p \in points}
           ys == {p[2] : p \in points}
           r == Around(points)
<1>1. Width \in Nat /\ Height \in Nat
  BY CanvasAssumption
<1>2. /\ xs \subseteq 0 .. Width - 1 /\ xs # {}
      /\ ys \subseteq 0 .. Height - 1 /\ ys # {}
  BY DEF Points
<1>3. \A p \in points : p[1] \in xs /\ p[2] \in ys /\ p = <<p[1], p[2]>>
  BY DEF Points
<1>4. /\ r.left = Min(xs) /\ r.top = Min(ys)
      /\ r.width = Max(xs) - Min(xs) + 1 /\ r.height = Max(ys) - Min(ys) + 1
  BY DEF Around
<1> HIDE DEF xs, ys, r
<1>5. /\ Min(xs) \in xs /\ \A x \in xs : Min(xs) <= x
      /\ Min(ys) \in ys /\ \A y \in ys : Min(ys) <= y
  <2>1. xs \subseteq Nat /\ ys \subseteq Nat
    BY <1>1, <1>2
  <2>2. QED
    BY <1>2, <2>1, MinIsLeast
<1>6. /\ Max(xs) \in xs /\ \A x \in xs : x <= Max(xs)
      /\ Max(ys) \in ys /\ \A y \in ys : y <= Max(ys)
  BY <1>1, <1>2, MaxIsLargest
<1>7. /\ Min(xs) \in 0 .. Width - 1 /\ Max(xs) \in 0 .. Width - 1 /\ Min(xs) <= Max(xs)
      /\ Min(ys) \in 0 .. Height - 1 /\ Max(ys) \in 0 .. Height - 1 /\ Min(ys) <= Max(ys)
  BY <1>2, <1>5, <1>6
<1>8. Inside(r)
  BY <1>1, <1>4, <1>7 DEF Inside
<1>9. ASSUME NEW p \in points PROVE p \in Area(r)
  <2>1. p[1] \in Min(xs) .. Max(xs) /\ p[2] \in Min(ys) .. Max(ys)
    BY <1>1, <1>2, <1>3, <1>5, <1>6
  <2>2. r.left + r.width - 1 = Max(xs) /\ r.top + r.height - 1 = Max(ys)
    BY <1>4, <1>7
  <2>3. QED
    BY <1>3, <1>4, <2>1, <2>2 DEF Area
<1>10. QED
  BY <1>8, <1>9 DEF r

(* Whatever has changed is in the region that is drawn.                    *)
LEMMA ChangedIsInside ==
  ASSUME NEW new, NEW old
  PROVE  /\ Inside(DiffRect(new, old))
         /\ Changed(new, old) \subseteq Area(DiffRect(new, old))
<1> DEFINE rect == DiffRect(new, old)
           changed == Changed(new, old)
<1>1. CASE changed = {}
  <2>1. rect = [left |-> 0, top |-> 0, width |-> 1, height |-> 1]
    BY <1>1 DEF DiffRect
  <2> HIDE DEF rect, changed
  <2>2. QED
    BY <1>1, <2>1, WholeIsInside DEF rect, changed
<1>2. CASE changed # {}
  <2>1. rect = Around(changed)
    BY <1>2 DEF DiffRect
  <2>2. changed \subseteq Points
    BY DEF Changed
  <2> HIDE DEF rect, changed
  <2>3. QED
    BY <1>2, <2>1, <2>2, AroundIsInside DEF rect, changed
<1>3. QED
  BY <1>1, <1>2
=============================================================================
