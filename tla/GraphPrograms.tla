---------------------------- MODULE GraphPrograms ----------------------------
(***************************************************************************)
(* The algorithms course: programs about graphs and trees.  Each is named  *)
(* for its file and stands beside what it ought to compute; `asked` is one *)
(* program and its input.                                                  *)
(***************************************************************************)
EXTENDS Integers, SequencesExt

CONSTANTS
    INF,                \* larger than the cost of any path
    MAX_DEPTH,          \* par.cpp: links of a node, of 1, 2, 4, ... steps
    NONE

GraphConstants == INF > 100 /\ MAX_DEPTH \in Nat \ {0}

VARIABLE asked
graphVars == asked

SumOver(S, f(_)) == MapThenSumSet(f, S)
Abs(x) == IF x < 0 THEN -x ELSE x

\* The references: the cheapest walks from a node, whose number is 1 .. m.
Cheapest(m, from, Cost(_, _)) ==
    LET Further(d, k) ==
            SubSeq([v \in 1 .. m |-> Min({d[v]} \cup {d[u] + Cost(u, v) : u \in 1 .. m})], 1, m)
    IN FoldLeft(Further, [v \in 1 .. m |-> IF v = from THEN 0 ELSE INF], [k \in 1 .. m |-> k])

\* Edges are sequences of [u, v, ...]; these go both ways.
Neighbours(edges, v) ==
    {edges[i].v : i \in {i \in DOMAIN edges : edges[i].u = v}}
    \cup {edges[i].u : i \in {i \in DOMAIN edges : edges[i].v = v}}

Linked(n, edges, v) ==
    Cheapest(n, v, LAMBDA x, y : IF y \in Neighbours(edges, x) THEN 1 ELSE INF)
-----------------------------------------------------------------------------
\* A priority queue of pairs <<distance, node>>, as a set: the same pair twice does
\* nothing more, and a pair whose distance is no longer the node's is dropped.
Top(Q) == CHOOSE p \in Q : \A q \in Q : p[1] < q[1] \/ (p[1] = q[1] /\ p[2] <= q[2])

\* A way to node `to`, of length d: r is [distances, Q].
Relax(r, to, d) ==
    IF r.distances[to] > d
    THEN [distances |-> [r.distances EXCEPT ![to] = d], Q |-> r.Q \cup {<<d, to>>}]
    ELSE r

\* edges[v] are [to, cost, from]: from where v is, or from a distance of its own.
RECURSIVE Dijkstra(_, _)
Dijkstra(r, edges) ==
    LET p == Top(r.Q)
        Out(s, e) == Relax(s, e.to, (IF e.from = NONE THEN s.distances[p[2]] ELSE e.from) + e.cost)
        rest == [r EXCEPT !.Q = @ \ {p}]
    IN IF r.Q = {} THEN r.distances
       ELSE Dijkstra(IF p[1] = r.distances[p[2]] THEN FoldLeft(Out, rest, edges[p[2]]) ELSE rest,
                     edges)

Start(nodes, first) ==
    LET far == [v \in nodes |-> IF v = first THEN 0 ELSE INF]
    IN [distances |-> far, Q |-> {<<far[v], v>> : v \in nodes}]
-----------------------------------------------------------------------------
\* kap.cpp: from the first point to the last, where a step between two costs the smaller
\* of their distances by x and y; only neighbours by x or by y are linked.
MinDistance(data, a, b) == Min({Abs(data[a][1] - data[b][1]), Abs(data[a][2] - data[b][2])})

\* The nodes in the order of the coordinate c, then the other, then their numbers.
SortedBy(data, c) ==
    SortSeq([i \in DOMAIN data |-> i],
            LAMBDA a, b : \/ data[a][c] < data[b][c]
                          \/ data[a][c] = data[b][c] /\ data[a][3 - c] < data[b][3 - c]
                          \/ data[a] = data[b] /\ a < b)

make_edge(a, b, data) == [to |-> b, cost |-> MinDistance(data, a, b), from |-> NONE]

GraphOf(data) ==
    LET Next(order, a) == {b \in DOMAIN data : \E i, j \in DOMAIN data :
                              Abs(i - j) = 1 /\ order[i] = a /\ order[j] = b}
        graph(x, y) == [a \in DOMAIN data |->
                           SetToSeq({make_edge(a, b, data) : b \in Next(x, a) \cup Next(y, a)})]
    IN graph(SortedBy(data, 1), SortedBy(data, 2))

kap(data) == Dijkstra(Start(DOMAIN data, 1), GraphOf(data))[Len(data)]

ShortestOfAll(data) ==
    Cheapest(Len(data), 1, LAMBDA a, b : MinDistance(data, a, b))[Len(data)]
-----------------------------------------------------------------------------
\* tan.cpp: roads [u, v, cost, after], at most k of them at the price after a discount.
Level(n, edges, i, below) ==
    LET Full(v) == SelectSeq(edges, LAMBDA e : e.u = v)
        Both(v, e) == <<[to |-> e.v, cost |-> e.cost, from |-> NONE]>>
                      \o IF i = 0 THEN << >>
                         ELSE <<[to |-> e.v, cost |-> e.after, from |-> below[v]]>>
    IN Dijkstra(Start(0 .. n - 1, 0),
                [v \in 0 .. n - 1 |-> FlattenSeq([j \in DOMAIN Full(v) |-> Both(v, Full(v)[j])])])

tan(n, k, edges) ==
    LET all == FoldLeft(LAMBDA below, i : Level(n, edges, i, below), NONE, [j \in 1 .. k + 1 |-> j - 1])
    IN IF all[n - 1] = INF THEN -1 ELSE all[n - 1]

\* In as many copies of the map as discounts, a discount leads to the next.
WithDiscounts(n, k, edges) ==
    LET Place(x) == (x - 1) % n
        Used(x) == (x - 1) \div n
        Roads(x, y) == {e \in ToSet(edges) : e.u = Place(x) /\ e.v = Place(y)}
        Prices(x, y) == IF Used(x) = Used(y) THEN {e.cost : e \in Roads(x, y)}
                        ELSE IF Used(x) + 1 = Used(y) THEN {e.after : e \in Roads(x, y)} ELSE {}
        all == Cheapest(n * (k + 1), 1, LAMBDA x, y : Min({INF} \cup Prices(x, y)))
        best == Min({all[n * i] : i \in 1 .. k + 1})
    IN IF best = INF THEN -1 ELSE best
-----------------------------------------------------------------------------
\* gra.cpp: the shortest walks from 1 that change colour at every edge [u, v, colour].
Steps(edges, v) ==
    {<<edges[i].v, edges[i].colour>> : i \in {i \in DOMAIN edges : edges[i].u = v}}
    \cup {<<edges[i].u, edges[i].colour>> : i \in {i \in DOMAIN edges : edges[i].v = v}}

\* [visited, distances, Q]: by a node and the colour of the edge it was reached by.
RECURSIVE bfs(_, _)
bfs(r, edges) ==
    LET p == Head(r.Q)
        new == {s \in Steps(edges, p[1]) : s \notin r.visited /\ s[2] # p[2]}
    IN IF r.Q = << >> THEN r.distances
       ELSE bfs([visited |-> r.visited \cup new,
                 distances |-> [s \in DOMAIN r.distances |->
                     IF s \in new THEN Min({r.distances[s], 1 + r.distances[p]})
                     ELSE r.distances[s]],
                 Q |-> Tail(r.Q) \o SetToSeq(new)], edges)

do_bfs(n, edges, col) ==
    bfs([visited |-> {}, Q |-> << <<1, col>> >>,
         distances |-> [s \in (1 .. n) \X {0, 1} |-> IF s[1] = 1 THEN 0 ELSE INF]], edges)

gra(n, edges) ==
    LET Answers(reached) ==
            [i \in 2 .. n |-> LET dist == Min({d[i, c] : d \in reached, c \in {0, 1}})
                             IN IF dist = INF THEN -1 ELSE dist]
    IN Answers({do_bfs(n, edges, col) : col \in {0, 1}})

\* The copy c of the map holds the places reached by colour c.
Alternating(n, edges) ==
    LET Place(x) == ((x - 1) % n) + 1
        Colour(x) == (x - 1) \div n
        From(col) == Cheapest(2 * n, 1 + n * col,
                              LAMBDA x, y : IF Colour(x) # Colour(y) /\
                                               <<Place(y), Colour(y)>> \in Steps(edges, Place(x))
                                            THEN 1 ELSE INF)
        Answers(reached) ==
            [i \in 2 .. n |-> LET dist == Min({d[i + n * c] : d \in reached, c \in {0, 1}})
                             IN IF dist = INF THEN -1 ELSE dist]
    IN Answers({From(col) : col \in {0, 1}})
-----------------------------------------------------------------------------
\* test/par.cpp: whom one meets first, going from 1 through places that are not taken.
RECURSIVE Meet(_, _, _, _, _)
Meet(edges, taken, visited, result, Q) ==
    LET new == Neighbours(edges, Head(Q)) \ visited
    IN IF Q = << >> THEN result
       ELSE Meet(edges, taken, visited \cup new, result \cup (new \cap taken),
                 Tail(Q) \o SetToSeq(new \ taken))

FirstMet(edges, taken) == Meet(edges, taken, {}, {}, <<1>>)

Bordering(n, edges, taken) ==
    LET free == SelectSeq(edges, LAMBDA e : {e.u, e.v} \cap taken = {})
    IN {v \in taken : \E u \in Neighbours(edges, v) : Linked(n, free, 1)[u] < INF}
-----------------------------------------------------------------------------
\* prj.cpp: of k projects, each behind those it needs, the largest one is as small as can
\* be; the smallest that is ready goes first.  An edge [u, v]: u needs v.
RECURSIVE Choose(_, _, _, _)
Choose(needed, edges, done, k) ==
    LET ready == {i \in DOMAIN needed \ done :
                     \A j \in DOMAIN edges : edges[j].u = i => edges[j].v \in done}
        node == Top({<<needed[i], i>> : i \in ready})
    IN IF k = 0 THEN 0 ELSE Max({node[1], Choose(needed, edges, done \cup {node[2]}, k - 1)})

prj(needed, edges, k) == Choose(needed, edges, {}, k)

SmallestTeam(needed, edges, k) ==
    Min({Max({0} \cup {needed[i] : i \in S}) :
            S \in {S \in kSubset(k, DOMAIN needed) :
                      \A j \in DOMAIN edges : edges[j].u \in S => edges[j].v \in S}})
-----------------------------------------------------------------------------
\* pre.cpp: two different shops at the smallest price; neighbours pay 2 b more.  erase
\* removes every copy of a price from the multiset p, and insert brings back one.
House(prices, edges, r, i) ==
    LET near == {e \in ToSet(edges) : i \in {e.u, e.v}}
        Other(e) == IF e.u = i THEN e.v ELSE e.u
        erased == {prices[x] : x \in {Other(e) : e \in near} \cup {i}}
        Copies(x) == Cardinality({j \in DOMAIN edges : i \in {edges[j].u, edges[j].v}
                                                       /\ prices[Other(edges[j])] = x})
                     + IF prices[i] = x THEN 1 ELSE 0
        left == {x \in DOMAIN r.p : r.p[x] > 0 /\ x \notin erased}
    IN [result |-> Min({r.result} \cup {prices[i] + prices[Other(e)] + 2 * e.b : e \in near}
                       \cup {prices[i] + x : x \in IF left = {} THEN {} ELSE {Min(left)}}),
        p |-> [x \in DOMAIN r.p |-> IF x \in erased THEN Copies(x) ELSE r.p[x]]]

pre(prices, edges) ==
    FoldLeft(LAMBDA r, i : House(prices, edges, r, i),
             [result |-> INF,
              p |-> [x \in ToSet(prices) |-> Cardinality({i \in DOMAIN prices : prices[i] = x})]],
             [i \in DOMAIN prices |-> i]).result

\* Two prices that are equal leave the multiset together, and the pair may be missed that
\* is the cheapest: then the answer is too high, never too low.
CheapestTwo(prices, edges) ==
    Min({INF} \cup UNION {LET links == {e \in ToSet(edges) : {e.u, e.v} = {i, j}}
                          IN IF links = {} THEN {prices[i] + prices[j]}
                             ELSE {prices[i] + prices[j] + 2 * e.b : e \in links} :
                          <<i, j>> \in {q \in (DOMAIN prices) \X (DOMAIN prices) : q[1] < q[2]}})
PairFound(prices, edges) ==
    LET distinct == Cardinality(ToSet(prices)) = Len(prices) IN
    IF distinct THEN pre(prices, edges) = CheapestTwo(prices, edges)
    ELSE pre(prices, edges) >= CheapestTwo(prices, edges)
-----------------------------------------------------------------------------
\* pad.cpp: sets of places joined by union and find.
RECURSIVE Root(_, _)
Root(parent, x) == IF parent[x] = x THEN x ELSE Root(parent, parent[x])

RECURSIVE Way(_, _)
Way(parent, x) == IF parent[x] = x THEN {x} ELSE {x} \cup Way(parent, parent[x])

\* find leaves all nodes on the way below the root.
find(sets, x) ==
    [sets EXCEPT !.parent =
        SubSeq([v \in DOMAIN @ |-> IF v \in Way(@, x) THEN Root(@, x) ELSE @[v]], 1, Len(@))]

Under(sets, low, high) == [sets EXCEPT !.parent[low] = high]
Joined(sets, x, y) ==
    CASE sets.h[x] > sets.h[y] -> Under(sets, y, x)
      [] sets.h[x] < sets.h[y] -> Under(sets, x, y)
      [] OTHER -> [Under(sets, y, x) EXCEPT !.h[x] = @ + 1]

union_s(sets, x, y) ==
    Joined(find(find(sets, x), y), Root(sets.parent, x), Root(sets.parent, y))

\* Places that are not taken are joined first: [sets, visited, Q].
RECURSIVE Spread(_, _, _)
Spread(r, taken, edges) ==
    LET v == Head(r.Q)
        new == Neighbours(edges, v) \ r.visited
        next == SetToSeq(new \ taken)
    IN IF r.Q = << >> THEN r
       ELSE Spread([sets |-> FoldLeft(LAMBDA s, x : union_s(s, v, x), r.sets, next),
                    visited |-> r.visited \cup new, Q |-> Tail(r.Q) \o next], taken, edges)

FreeTogether(n, taken, edges) ==
    FoldLeft(LAMBDA r, i : IF i \in r.visited \cup taken THEN r
                           ELSE Spread([r EXCEPT !.Q = <<i>>], taken, edges),
             [sets |-> [parent |-> [v \in 1 .. n |-> v], h |-> [v \in 1 .. n |-> 1]],
              visited |-> {}, Q |-> << >>], [i \in 1 .. n |-> i]).sets

Around(edges, m) == SetToSeq(Neighbours(edges, m))

\* May m be freed, to be with w?  Its neighbours are looked at up to the first with w.
Free(edges, r, q) ==
    LET blocked == q.w \in r.taken /\ q.w # q.m
        with == SelectInSeq(Around(edges, q.m),
                            LAMBDA x : Root(r.sets.parent, x) = Root(r.sets.parent, q.w))
        res == ~blocked /\ with # 0
        looked == IF blocked THEN << >>
                  ELSE IF res THEN SubSeq(Around(edges, q.m), 1, with) ELSE Around(edges, q.m)
        found == FoldLeft(find, r.sets, <<q.w>> \o looked)
    IN [taken |-> IF res THEN r.taken \ {q.m} ELSE r.taken,
        sets |-> IF res THEN FoldLeft(LAMBDA s, x : union_s(s, x, q.m), found, Around(edges, q.m))
                 ELSE found,
        printed |-> Append(r.printed, res)]

pad(n, taken, edges, queries) ==
    FoldLeft(LAMBDA r, q : Free(edges, r, q),
             [taken |-> taken, sets |-> FreeTogether(n, taken, edges), printed |-> << >>],
             queries).printed

\* The same by the pairs that were joined, with no sets.
ByPairs(n, taken, edges, queries) ==
    LET Together(joined, x, y) == Linked(n, joined, x)[y] < INF
        Answer(r, q) ==
            LET res == /\ q.w \in r.taken => q.w = q.m
                       /\ \E x \in Neighbours(edges, q.m) : Together(r.joined, x, q.w)
            IN [taken |-> IF res THEN r.taken \ {q.m} ELSE r.taken,
                joined |-> IF res THEN r.joined \o SelectSeq(edges, LAMBDA e : q.m \in {e.u, e.v})
                           ELSE r.joined,
                printed |-> Append(r.printed, res)]
    IN FoldLeft(Answer, [taken |-> taken, printed |-> << >>,
                         joined |-> SelectSeq(edges, LAMBDA e : {e.u, e.v} \cap taken = {})],
                queries).printed

-----------------------------------------------------------------------------
\* hard.cpp: for every node of a tree the sum of the distances to all others.
\* type 0 of visit: the nodes below x, each with its parent.
RECURSIVE visit(_, _, _)
visit(edges, x, parent) ==
    LET next == Neighbours(edges, x) \ {parent}
    IN {<<v, x>> : v \in next} \cup UNION {visit(edges, v, x) : v \in next}

hard(n, edges) ==
    LET below == visit(edges, 1, 1)
        Children(x) == {v \in 1 .. n : <<v, x>> \in below}
        s[x \in 1 .. n] == 1 + SumOver(Children(x), LAMBDA v : s[v])
        p[x \in 1 .. n] == SumOver(Children(x), LAMBDA v : p[v] + s[v])
        d[x \in 1 .. n] == IF x = 1 THEN p[1]
                           ELSE n - 2 * s[x] + d[(CHOOSE e \in below : e[1] = x)[2]]
    IN [x \in 1 .. n |-> d[x]]

SumsOfDistances(n, edges) ==
    [x \in 1 .. n |-> SumOver(1 .. n, LAMBDA v : Linked(n, edges, x)[v])]
-----------------------------------------------------------------------------
\* par.cpp: a node at distance d from another in a binary tree of root 1; nodes[i] is
\* [left, right], 0 where there is none (-1 in the code).
Kids(nodes, v) == {nodes[v].left, nodes[v].right} \ {0}
parentOf(nodes, v) ==
    IF \E u \in DOMAIN nodes : v \in Kids(nodes, u)
    THEN CHOOSE u \in DOMAIN nodes : v \in Kids(nodes, u) ELSE 0

getBrother(nodes, v) ==
    LET u == parentOf(nodes, v) IN
    IF u = 0 THEN 0 ELSE IF nodes[u].left = v THEN nodes[u].right ELSE nodes[u].left

\* calculate_data and setup_links; the links of the longest way down and of the way up.
Height(nodes) ==
    LET height[v \in DOMAIN nodes] ==
            IF Kids(nodes, v) = {} THEN 0 ELSE 1 + Max({height[u] : u \in Kids(nodes, v)})
    IN height
Position(nodes) ==
    LET pos[v \in DOMAIN nodes] == IF v = 1 THEN 0 ELSE 1 + pos[parentOf(nodes, v)]
    IN pos

downLink(nodes, height, v) ==
    LET H(u) == IF u = 0 THEN 0 ELSE height[u]
        left == nodes[v].left
        right == nodes[v].right
    IN IF H(left) >= H(right) /\ left # 0 THEN left ELSE right

setup_links(nodes, first) ==
    LET links[i \in 0 .. MAX_DEPTH - 1, v \in DOMAIN nodes \cup {0}] ==
            IF v = 0 THEN 0 ELSE IF i = 0 THEN first[v] ELSE links[i - 1, links[i - 1, v]]
    IN links

\* The brother of v or of one above it under whom it is farthest from v.
BestTurn(nodes, height, pos) ==
    LET bestTurn[v \in DOMAIN nodes] ==
            LET brother == getBrother(nodes, v)
                above == IF v = 1 THEN 0 ELSE bestTurn[parentOf(nodes, v)]
            IN IF brother = 0 THEN above
               ELSE IF above = 0 \/ height[brother] >= pos[v] - pos[above] + height[above]
               THEN brother ELSE above
    IN bestTurn

finalize(nodes) ==
    LET height == Height(nodes)
        pos == Position(nodes)
    IN [height |-> height, pos |-> pos, bestTurn |-> BestTurn(nodes, height, pos),
        up |-> setup_links(nodes, [v \in DOMAIN nodes |-> parentOf(nodes, v)]),
        down |-> setup_links(nodes, [v \in DOMAIN nodes |-> downLink(nodes, height, v)])]

RECURSIVE goDirection(_, _, _, _)
goDirection(links, v, d, pos) ==
    IF d = 0 THEN v
    ELSE goDirection(links, IF d % 2 = 1 THEN links[pos, v] ELSE v, d \div 2, pos + 1)

findNode(tree, a, d) ==
    LET turn == tree.bestTurn[a]
        toTop == tree.pos[a] - tree.pos[turn] + 1
    IN IF tree.height[a] >= d THEN goDirection(tree.down, a, d, 0)
       ELSE IF turn = 0 THEN 0
       ELSE IF toTop >= d THEN goDirection(tree.up, a, d, 0)
       ELSE IF d - (toTop + 1) <= tree.height[turn]
       THEN goDirection(tree.down, turn, d - (toTop + 1), 0) ELSE 0

TreeEdges(nodes) ==
    SetToSeq({[u |-> v, v |-> w] : <<v, w>> \in {p \in (DOMAIN nodes) \X (DOMAIN nodes) :
                                                   p[2] \in Kids(nodes, p[1])}})

\* A node that is found has the distance; only nodes straight above may be missed.
FoundRight(nodes, d) ==
    \A a \in DOMAIN nodes :
    \A tree \in {finalize(nodes)}, dist \in {Linked(Len(nodes), TreeEdges(nodes), a)} :
    \A found \in {findNode(tree, a, d)} :
       IF found # 0 THEN dist[found] = d
       ELSE \A v \in DOMAIN nodes \ {goDirection(tree.up, a, k, 0) : k \in 1 .. tree.pos[a]} :
               dist[v] # d
-----------------------------------------------------------------------------
\* JNP/zadanie7/tree.h: a tree of nodes, NONE the one without a value.
createValueNode(value, left, right) == [value |-> value, left |-> left, right |-> right]

RECURSIVE inorder(_), preorder(_), postorder(_)
inorder(t) == IF t = NONE THEN <<>> ELSE inorder(t.left) \o <<t.value>> \o inorder(t.right)
preorder(t) == IF t = NONE THEN <<>> ELSE <<t.value>> \o preorder(t.left) \o preorder(t.right)
postorder(t) == IF t = NONE THEN <<>> ELSE postorder(t.left) \o postorder(t.right) \o <<t.value>>

\* A result of filter_: a subtree and how far to the right in it its last node is, which is
\* the node that attach gives another right child.
RECURSIVE attach(_, _, _)
attach(t, far, right) ==
    IF far = 0 THEN [t EXCEPT !.right = right]
    ELSE [t EXCEPT !.right = attach(@, far - 1, right)]

filter_(pred, value, left, right) ==
    IF value \in pred
    THEN [first |-> createValueNode(value, left.first, right.first),
          second |-> IF right.second = NONE THEN 0 ELSE right.second + 1]
    ELSE IF left.second = NONE THEN right
    ELSE [first |-> attach(left.first, left.second, right.first),
          second |-> IF right.second = NONE THEN NONE ELSE left.second + 1 + right.second]

\* What fold does with a node; lazy_map leaves the value to be computed.
Folded(f, value, left, right) ==
    CASE f.name = "height" -> 1 + Max({left, right})
      [] f.name = "size" -> 1 + left + right
      [] f.name = "map" -> createValueNode(f.transformer[value], left, right)
      [] f.name = "lazy_map" -> createValueNode(NONE, left, right)
      [] f.name = "filter" -> filter_(f.pred, value, left, right)

RECURSIVE fold_(_, _, _)
fold_(f, init, t) ==
    IF t = NONE THEN init
    ELSE Folded(f, t.value, fold_(f, init, t.left), fold_(f, init, t.right))

height(t) == fold_([name |-> "height"], 0, t)
size(t) == fold_([name |-> "size"], 0, t)
map(transformer, t) == fold_([name |-> "map", transformer |-> transformer], NONE, t)
lazy_map(t) == fold_([name |-> "lazy_map"], NONE, t)
filter(pred, t) ==
    fold_([name |-> "filter", pred |-> pred], [first |-> NONE, second |-> NONE], t).first
is_bst(t) == \A i \in 1 .. size(t) - 1 : inorder(t)[i] <= inorder(t)[i + 1]

\* apply hands its function references: `op` changes the values where they are.
RECURSIVE apply(_, _)
apply(op, t) ==
    IF t = NONE THEN NONE ELSE createValueNode(op[t.value], apply(op, t.left), apply(op, t.right))

\* All of a lazy tree read: a value that was not computed is, from the tree it was made of.
RECURSIVE getValue(_, _, _)
getValue(lazy, transformer, t) ==
    IF t = NONE THEN NONE
    ELSE createValueNode(IF lazy.value = NONE THEN transformer[t.value] ELSE lazy.value,
                         getValue(lazy.left, transformer, t.left),
                         getValue(lazy.right, transformer, t.right))

RECURSIVE Subtrees(_)
Subtrees(t) == IF t = NONE THEN {} ELSE {t} \cup Subtrees(t.left) \cup Subtrees(t.right)

IsSearchTree(t) ==
    \A u \in Subtrees(t) : /\ \A v \in ToSet(preorder(u.left)) : v <= u.value
                           /\ \A v \in ToSet(preorder(u.right)) : u.value <= v

RECURSIVE Mirrored(_)
Mirrored(t) ==
    IF t = NONE THEN NONE ELSE createValueNode(t.value, Mirrored(t.right), Mirrored(t.left))

\* filter keeps nothing but what it is to keep, in order; it keeps all of it where no node
\* is dropped that has something to keep on its left and nothing on its right.  Elsewhere it
\* may lose values (FilterKeepsAll): the last node it returns is a null pointer beside a tree.
Filtered(t, pred) ==
    LET kept == inorder(filter(pred, t))
        wanted == SelectSeq(inorder(t), LAMBDA v : v \in pred)
        Some(u) == ToSet(preorder(u)) \cap pred # {}
    IN  /\ \E I \in SUBSET DOMAIN wanted : 
              kept = [i \in 1 .. Cardinality(I) |-> wanted[SetToSortSeq(I, <)[i]]]
        /\ (\A u \in Subtrees(t) : u.value \notin pred /\ Some(u.left) => Some(u.right)) => kept = wanted

TreeRight(t) ==
    LET add == [v \in 0 .. 9 |-> v + 1]
        double == [v \in 0 .. 9 |-> 2 * v]
        changed == apply(add, t)
        read == getValue(lazy_map(t), double, changed)
    IN  /\ size(t) = Len(inorder(t))
        /\ height(t) = IF t = NONE THEN 0 ELSE 1 + Max({height(t.left), height(t.right)})
        /\ postorder(t) = Reverse(preorder(Mirrored(t)))
        /\ is_bst(t) = IsSearchTree(t)
        /\ map(double, changed) = read
        /\ getValue(read, double, apply(add, changed)) = read
        /\ \A pred \in SUBSET (1 .. 3) : Filtered(t, pred)
-----------------------------------------------------------------------------
\* Small graphs: edges between two of n nodes, and labels for them.
Links(n) == [u : 1 .. n, v : 1 .. n]
Upward(E) == {e \in E : e.u > e.v}
Labelled(E, labels) == {e @@ l : e \in E, l \in labels}
SomeEdges(edges, max) == {SetToSeq(E) : E \in UNION {kSubset(k, edges) : k \in 0 .. max}}

Prices == {[cost |-> 3, after |-> 1], [cost |-> 2, after |-> 2]}

Trees(n) == {SetToSeq({[u |-> v, v |-> p[v - 1]] : v \in 2 .. n}) :
                p \in {p \in [1 .. n - 1 -> 1 .. n] : \A i \in 1 .. n - 1 : p[i] <= i}}

\* The binary trees of n nodes whose numbers grow downwards.
RECURSIVE Binary(_)
Binary(n) ==
    LET Grown(t, v, side) == Append([t EXCEPT ![v][side] = n], [left |-> 0, right |-> 0])
    IN IF n = 1 THEN {<<[left |-> 0, right |-> 0]>>}
       ELSE UNION {{Grown(t, v, side) : <<v, side>> \in
                      {p \in (1 .. n - 1) \X {"left", "right"} : t[p[1]][p[2]] = 0}} :
                    t \in Binary(n - 1)}

\* All trees of at most n nodes with values of V.
RECURSIVE ValueTrees(_, _)
ValueTrees(n, V) ==
    {NONE} \cup UNION {{createValueNode(v, left, right) :
                          v \in V, left \in ValueTrees(k, V), right \in ValueTrees(n - 1 - k, V)} :
                      k \in 0 .. n - 1}

Ask(program, inputs) ==
    /\ asked = NONE
    /\ \E input \in inputs : asked' = [program |-> program, input |-> input]

Init == asked = NONE
Next ==
    \/ Ask("kap", {p \in [1 .. 4 -> {0, 2, 3} \X {0, 1, 3}] : p[1] = <<2, 1>>})
    \/ Ask("tan", SomeEdges(Labelled({e \in [u : 0 .. 2, v : 0 .. 2] : e.u # e.v}, Prices), 3)
                  \X (0 .. 2))
    \/ Ask("gra", SomeEdges(Labelled(Upward(Links(4)), [colour : {0, 1}]), 4))
    \/ Ask("FirstMet", SomeEdges(Upward(Links(4)), 4) \X SUBSET (2 .. 4))
    \/ Ask("prj", SomeEdges(Upward(Links(4)), 3)
                  \X {<<3, 1, 2, 2>>, <<1, 3, 2, 1>>, <<2, 1, 3, 1>>})
    \/ Ask("pre", {<<1, 3, 2, 6>>, <<4, 2, 1, 3>>, <<2, 1, 1, 2>>, <<1, 1, 1, 3>>}
                  \X SomeEdges(Labelled(Upward(Links(4)), [b : {0, 1}]), 4))
    \/ Ask("pad", SomeEdges(Upward(Links(4)), 3) \X {{2}, {1, 2}, {2, 3}, {2, 3, 4}}
                  \X [1 .. 2 -> [m : 2 .. 4, w : {1, 4}]])
    \/ Ask("hard", Trees(5))
    \/ Ask("par", Binary(5))
    \/ Ask("tree", ValueTrees(4, 1 .. 3))

Spec == Init /\ [][Next]_graphVars
-----------------------------------------------------------------------------
\* What a program prints is what the plain definition of its task gives, for all the inputs of
\* Next, with three exceptions: pre may answer too high where prices are equal (PairFound),
\* par may miss a node straight above (FoundRight) and the filter of trees may lose values
\* (Filtered, and FilterKeepsAll below).
AnswerRight(program, input) ==
    CASE program = "kap" -> kap(input) = ShortestOfAll(input)
      [] program = "tan" -> tan(3, input[2], input[1]) = WithDiscounts(3, input[2], input[1])
      [] program = "gra" -> gra(4, input) = Alternating(4, input)
      [] program = "FirstMet" -> FirstMet(input[1], input[2]) = Bordering(4, input[1], input[2])
      [] program = "prj" ->
            \A k \in 1 .. 4 : prj(input[2], input[1], k) = SmallestTeam(input[2], input[1], k)
      [] program = "pre" -> PairFound(input[1], input[2])
      [] program = "pad" ->
            pad(4, input[2], input[1], input[3]) = ByPairs(4, input[2], input[1], input[3])
      [] program = "hard" -> hard(5, input) = SumsOfDistances(5, input)
      [] program = "par" -> \A d \in 0 .. 5 : FoundRight(input, d)
      [] program = "tree" -> TreeRight(input)

AnswersRight == asked # NONE => AnswerRight(asked.program, asked.input)

\* A filtered tree has all the values that the predicate accepts: of the odd ones of a tree
\* year_II/JNP/zadanie7/tests/test.cc:76 asserts "correct.empty()".  tree.h:241-242 puts
\* what is right of a dropped node behind the last node on its left and returns the last node
\* on the right, which is none where nothing is kept there: the node above takes the tree it
\* is given to be empty and loses it when it is dropped, too.
FilterKeepsAll ==
    asked # NONE /\ asked.program = "tree" =>
        LET odd == {v \in 1 .. 3 : v % 2 = 1} IN
        inorder(filter(odd, asked.input)) = SelectSeq(inorder(asked.input), LAMBDA v : v \in odd)
=============================================================================
