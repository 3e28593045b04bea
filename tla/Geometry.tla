------------------------------ MODULE Geometry ------------------------------
(***************************************************************************)
(* JNP 1, task 3: collections of rectangles that are split in place and    *)
(* moved together (geometry.cc).  A failing assert ends the program, so    *)
(* the asserts are guards.                                                 *)
(***************************************************************************)
EXTENDS Integers, SequencesExt

CONSTANTS
    Whole,          \* the rectangle a collection begins with: [width, height, pos]
    Vector,         \* vectors it is moved by: [x, y]
    Shifts,         \* bound: the sums of the vectors
    MaxRectangles   \* bound: size()

Position == [x : Int, y : Int]
Rectangle == [width : Nat \ {0}, height : Nat \ {0}, pos : Position]

GeometryConstants ==
    Whole \in Rectangle /\ Vector \subseteq Position /\ Shifts \subseteq Position

VARIABLES
    rectangles,     \* _rectangles
    shift           \* the sum of the vectors so far

geometryVars == <<rectangles, shift>>

Rect(w, h, p) == [width |-> w, height |-> h, pos |-> p]
Plus(p, v) == [x |-> p.x + v.x, y |-> p.y + v.y]
Less(p, q) == p.x < q.x \/ (p.x = q.x /\ p.y < q.y)
Mirrored(p) == [x |-> p.y, y |-> p.x]

reflection(r) == Rect(r.height, r.width, Mirrored(r.pos))
Moved(r, v) == Rect(r.width, r.height, Plus(r.pos, v))

Low(r, place) == Rect(r.width, place, r.pos)
High(r, place) == Rect(r.width, r.height - place, Plus(r.pos, [x |-> 0, y |-> place]))
Left(r, place) == Rect(place, r.height, r.pos)
Right(r, place) == Rect(r.width - place, r.height, Plus(r.pos, [x |-> place, y |-> 0]))

CanMergeHorizontally(r, s) ==
    r.width = s.width /\ Plus(r.pos, [x |-> 0, y |-> r.height]) = s.pos
merge_horizontally(r, s) == Rect(r.width, r.height + s.height, r.pos)
CanMergeVertically(r, s) ==
    r.height = s.height /\ Plus(r.pos, [x |-> r.width, y |-> 0]) = s.pos
merge_vertically(r, s) == Rect(r.width + s.width, r.height, r.pos)

\* operator==: both sorted by position.
Equal(a, b) ==
    SortSeq(a, LAMBDA r, s : Less(r.pos, s.pos)) = SortSeq(b, LAMBDA r, s : Less(r.pos, s.pos))

Init == rectangles = <<Whole>> /\ shift = [x |-> 0, y |-> 0]

\* The first half takes the place of the rectangle, the second is inserted behind it.
Halved(idx, first, second) ==
    /\ Len(rectangles) < MaxRectangles
    /\ rectangles' = InsertAt([rectangles EXCEPT ![idx] = first], idx + 1, second)
    /\ UNCHANGED shift

split_horizontally(idx, place) ==
    LET r == rectangles[idx] IN
    place < r.height /\ 0 < place /\ Halved(idx, Low(r, place), High(r, place))

split_vertically(idx, place) ==
    LET r == rectangles[idx] IN
    place < r.width /\ 0 < place /\ Halved(idx, Left(r, place), Right(r, place))

\* operator+=
Move(vec) ==
    /\ shift' = Plus(shift, vec) /\ shift' \in Shifts
    /\ rectangles' = [i \in DOMAIN rectangles |-> Moved(rectangles[i], vec)]

Next ==
    \/ \E idx \in DOMAIN rectangles :
          \/ \E place \in 1 .. Whole.height : split_horizontally(idx, place)
          \/ \E place \in 1 .. Whole.width : split_vertically(idx, place)
    \/ \E vec \in Vector : Move(vec)

Spec == Init /\ [][Next]_geometryVars
-----------------------------------------------------------------------------
TypeOK ==
    /\ \A i \in DOMAIN rectangles : rectangles[i].width > 0 /\ rectangles[i].height > 0
    /\ shift \in Shifts \cup {[x |-> 0, y |-> 0]}

\* The unit squares of a rectangle.
Cells(r) == (r.pos.x .. r.pos.x + r.width - 1) \X (r.pos.y .. r.pos.y + r.height - 1)

\* However it is split and moved, the collection covers the rectangle it began with, moved
\* as a whole, and no two of its rectangles overlap.
TilesStay ==
    /\ UNION {Cells(rectangles[i]) : i \in DOMAIN rectangles} = Cells(Moved(Whole, shift))
    /\ \A i, j \in DOMAIN rectangles : i # j => Cells(rectangles[i]) \cap Cells(rectangles[j]) = {}

\* The halves of a rectangle may be merged, and give it back; split the other way, its
\* reflection gives the reflected halves.
HalvesMerge ==
    \A i \in DOMAIN rectangles :
        LET r == rectangles[i] IN
        /\ \A p \in 1 .. r.height - 1 :
              /\ CanMergeHorizontally(Low(r, p), High(r, p))
              /\ merge_horizontally(Low(r, p), High(r, p)) = r
              /\ Left(reflection(r), p) = reflection(Low(r, p))
              /\ Right(reflection(r), p) = reflection(High(r, p))
        /\ \A p \in 1 .. r.width - 1 :
              /\ CanMergeVertically(Left(r, p), Right(r, p))
              /\ merge_vertically(Left(r, p), Right(r, p)) = r

\* Collections of the same tiles are equal, in whatever order they hold them.  (Of two
\* rectangles at one position the comparison sees the order.)
OrderIsIgnored ==
    \A o \in Permutations(DOMAIN rectangles) :
        Equal(rectangles, [i \in DOMAIN rectangles |-> rectangles[o[i]]])
=============================================================================
