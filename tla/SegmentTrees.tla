----------------------------- MODULE SegmentTrees -----------------------------
(***************************************************************************)
(* Two trees over ranges with lazy changes: kre.cpp adds to a range, knows *)
(* the largest and the smallest value of one, and counts the places where  *)
(* the values increase; mal.cpp paints a range and counts the white cells. *)
(* A change waits at the highest node whose range it covers and is pushed  *)
(* down by whoever passes.                                                 *)
(***************************************************************************)
EXTENDS Integers, Sequences, FiniteSetsExt

CONSTANTS
    Data,       \* the values kre.cpp may read at the beginning: sequences of one length
    Change,     \* what it adds
    MAX_VALUE, INF,
    Cells       \* how many mal.cpp paints

TreeConstants == Cells \in Nat \ {0} /\ MAX_VALUE < INF

VARIABLES
    sums,       \* kre.cpp: [max, min, lazy, increase, increases]
    values,     \* what its values ought to be
    wall,       \* mal.cpp: [sum, lazy, white], white what it printed last
    colours     \* what its cells ought to be

treeVars == <<sums, values, wall, colours>>

MIN_VALUE == 0

\* The leaves: twice as many as needed, a power of two.
next_pow(n) == 2 * Min({p \in {2 ^ k : k \in 0 .. n} : p >= n})

n == Len(CHOOSE d \in Data : TRUE)
N == next_pow(n)
Node == 1 .. 2 * N - 1
Mid(a, b) == (a + b) \div 2

Larger(a, b) == IF a < b THEN b ELSE a
Smaller(a, b) == IF a < b THEN a ELSE b

\* Leaf i of the values d, 0-based, or a node of two children.
Built(d, empty, Combined(_, _)) ==
    LET f[v \in Node] == IF v < N THEN Combined(f[2 * v], f[2 * v + 1])
                         ELSE IF v - N < n THEN d[v - N + 1] ELSE empty
    IN f

SegmentTree(d) ==
    [max |-> Built(d, -INF, Larger), min |-> Built(d, INF, Smaller),
     lazy |-> [v \in Node |-> 0],
     increase |-> [i \in 1 .. n - 1 |-> d[i] < d[i + 1]],
     increases |-> Cardinality({i \in 1 .. n - 1 : d[i] < d[i + 1]})]

push_lazy(t, node, a, b) ==
    LET v == t.lazy[node] IN
    [t EXCEPT !.max[node] = @ + v, !.min[node] = @ + v,
              !.lazy = [x \in Node |-> IF x = node THEN 0
                                       ELSE IF a # b /\ x \in {2 * node, 2 * node + 1}
                                       THEN @[x] + v ELSE @[x]]]

RECURSIVE update_tree(_, _, _, _, _, _, _)
update_tree(t, node, a, b, i, j, v) ==
    LET pushed == push_lazy(t, node, a, b)
        left == update_tree(pushed, 2 * node, a, Mid(a, b), i, j, v)
        both == update_tree(left, 2 * node + 1, Mid(a, b) + 1, b, i, j, v)
    IN IF b < i \/ a > j THEN pushed
       ELSE IF a >= i /\ b <= j
       THEN push_lazy([pushed EXCEPT !.lazy[node] = @ + v], node, a, b)
       ELSE [both EXCEPT !.max[node] = Larger(both.max[2 * node], both.max[2 * node + 1]),
                         !.min[node] = Smaller(both.min[2 * node], both.min[2 * node + 1])]

\* A query pushes too: [tree, result].
RECURSIVE query_tree_max(_, _, _, _, _, _)
query_tree_max(t, node, a, b, i, j) ==
    LET pushed == push_lazy(t, node, a, b)
        q1 == query_tree_max(pushed, 2 * node, a, Mid(a, b), i, j)
        q2 == query_tree_max(q1.tree, 2 * node + 1, Mid(a, b) + 1, b, i, j)
    IN IF a > j \/ b < i THEN [tree |-> t, result |-> -INF]
       ELSE IF a >= i /\ b <= j THEN [tree |-> pushed, result |-> pushed.max[node]]
       ELSE [tree |-> q2.tree, result |-> Larger(q1.result, q2.result)]

RECURSIVE query_tree_min(_, _, _, _, _, _)
query_tree_min(t, node, a, b, i, j) ==
    LET pushed == push_lazy(t, node, a, b)
        q1 == query_tree_min(pushed, 2 * node, a, Mid(a, b), i, j)
        q2 == query_tree_min(q1.tree, 2 * node + 1, Mid(a, b) + 1, b, i, j)
    IN IF a > j \/ b < i THEN [tree |-> t, result |-> INF]
       ELSE IF a >= i /\ b <= j THEN [tree |-> pushed, result |-> pushed.min[node]]
       ELSE [tree |-> q2.tree, result |-> Smaller(q1.result, q2.result)]

Ancestors(v) == {v \div 2 ^ k : k \in 1 .. N} \ {0}

\* mutant: what waits above the leaf is forgotten
LeafValue(t, i) == t.max[N + i] + t.lazy[N + i]

\* The leaf and all that waits on the way to it.
getValue(t, i) ==
    t.max[N + i] + t.lazy[N + i] + MapThenSumSet(LAMBDA v : t.lazy[v], Ancestors(N + i))

update_increase(t, i) ==
    LET new == getValue(t, i - 1) < getValue(t, i) IN
    IF i <= 0 \/ i > n - 1 \/ t.increase[i] = new THEN t
    ELSE [t EXCEPT !.increase[i] = new, !.increases = IF new THEN @ + 1 ELSE @ - 1]

\* Values l .. r - 1; refused when one would leave its bounds.
queryRange(l, r, d) ==
    \E largest \in {query_tree_max(sums, 1, 0, N - 1, l, r - 1)} :
    \E smallest \in {query_tree_min(largest.tree, 1, 0, N - 1, l, r - 1)} :
       sums' = IF d + largest.result > MAX_VALUE \/ d + smallest.result < MIN_VALUE
               THEN smallest.tree
               ELSE update_increase(
                      update_increase(update_tree(smallest.tree, 1, 0, N - 1, l, r - 1, d), r), l)

AddToRange(l, r, d) ==
    LET wanted == [i \in 1 .. n |-> IF i - 1 \in l .. r - 1 THEN values[i] + d ELSE values[i]] IN
    /\ queryRange(l, r, d)
    /\ values' = IF \A i \in 1 .. n : wanted[i] \in MIN_VALUE .. MAX_VALUE THEN wanted ELSE values
    /\ UNCHANGED <<wall, colours>>
-----------------------------------------------------------------------------
M == next_pow(Cells)
Unpainted == -1

\* node.size
Size[v \in 1 .. 2 * M - 1] == IF v >= M THEN 1 ELSE 2 * Size[2 * v]

\* A colour that waits replaces one that waited below.
push_colour(t, node, l, r) ==
    IF t.lazy[node] = Unpainted THEN t
    ELSE [t EXCEPT !.sum[node] = t.lazy[node] * Size[node],
                   !.lazy = [x \in DOMAIN @ |->
                               IF x = node THEN Unpainted
                               ELSE IF l # r /\ x \in {2 * node, 2 * node + 1}
                               THEN @[node] ELSE @[x]]]

RECURSIVE query_tree_set_value(_, _, _, _, _, _, _)
query_tree_set_value(t, root, l, r, i, j, value) ==
    LET pushed == push_colour(t, root, l, r)
        left == query_tree_set_value(pushed, 2 * root, l, Mid(l, r), i, j, value)
        both == query_tree_set_value(left, 2 * root + 1, Mid(l, r) + 1, r, i, j, value)
    IN IF l > j \/ r < i THEN pushed
       ELSE IF i <= l /\ r <= j
       THEN push_colour([pushed EXCEPT !.lazy[root] = value], root, l, r)
       ELSE [both EXCEPT !.sum[root] = both.sum[2 * root] + both.sum[2 * root + 1]]

\* query_tree_sum over all: the root, pushed.
Paint(a, b, value) ==
    /\ \E painted \in {query_tree_set_value(wall, 1, 0, M - 1, a, b, value)} :
          wall' = [push_colour(painted, 1, 0, M - 1) EXCEPT !.white = painted.sum[1]]
    /\ colours' = [c \in DOMAIN colours |-> IF c \in a .. b THEN value ELSE colours[c]]
    /\ UNCHANGED <<sums, values>>

Init ==
    /\ values \in Data
    /\ sums = SegmentTree(values)
    /\ wall = [sum |-> [v \in 1 .. 2 * M - 1 |-> 0], lazy |-> [v \in 1 .. 2 * M - 1 |-> Unpainted],
               white |-> 0]
    /\ colours = [c \in 0 .. Cells - 1 |-> 0]

Ranges(length) == {<<a, b>> \in (0 .. length - 1) \X (0 .. length - 1) : a <= b}

Add == \E range \in Ranges(n), d \in Change : AddToRange(range[1], range[2] + 1, d)
PaintSome == \E range \in Ranges(Cells), value \in {0, 1} : Paint(range[1], range[2], value)

Next == Add \/ PaintSome

Spec == Init /\ [][Next]_treeVars
-----------------------------------------------------------------------------
TypeOK ==
    /\ \A v \in Node : sums.max[v] \in -INF .. INF /\ sums.min[v] \in -INF .. INF
    /\ sums.increases \in 0 .. n - 1
    /\ wall.white \in 0 .. Cells /\ \A v \in DOMAIN wall.lazy : wall.lazy[v] \in {Unpainted, 0, 1}

\* However changes wait on top of each other in the tree, what it tells is what an array
\* would: every value, what it refuses, and the increases it has counted since the start.
ValuesAgree ==
    /\ \A i \in 1 .. n : getValue(sums, i - 1) = values[i]
    /\ sums.increases = Cardinality({i \in 1 .. n - 1 : values[i] < values[i + 1]})

\* The white cells are as many as those painted white last.
WhiteIsCounted == wall.white = Cardinality({c \in DOMAIN colours : colours[c] = 1})
=============================================================================
