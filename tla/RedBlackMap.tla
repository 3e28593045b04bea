---------------------------- MODULE RedBlackMap ----------------------------
(***************************************************************************)
(* map.c of the game Middle Ages: a red-black tree from points to pieces.  *)
(* A node is named by its key, which no rotation or removal changes.       *)
(***************************************************************************)
EXTENDS Integers, Functions, FiniteSets

CONSTANTS
    Key,        \* the points, numbered in the order of comparePoints
    Value,      \* the pieces
    Nil         \* def_map.nil

VARIABLE tree

Side == {"left", "right"}
Other(s) == IF s = "left" THEN "right" ELSE "left"
Node == Key \cup {Nil}

NewNode == [value |-> Nil, parent |-> Nil, color |-> "black", left |-> Nil, right |-> Nil]
newMap == [root |-> Nil, node |-> [k \in Node |-> NewNode]]

Init == tree = newMap

Parent(t, n) == t.node[n].parent
Color(t, n) == t.node[n].color
Grandparent(t, n) == Parent(t, Parent(t, n))
\* The side of its parent a node is on.
SideOf(t, n) == IF t.node[Parent(t, n)].left = n THEN "left" ELSE "right"

Paint(t, n, c) == [t EXCEPT !.node[n].color = c]

\* What takes the place of old under old's parent; the new node's parent is not set.
Hang(t, old, new) ==
    IF Parent(t, old) = Nil THEN [t EXCEPT !.root = new]
    ELSE [t EXCEPT !.node[Parent(t, old)][SideOf(t, old)] = new]

\* left_rotate for "left", right_rotate for "right".
Rotate(t, n, s) ==
    LET y == t.node[n][Other(s)]
        inner == t.node[y][s]
        T1 == [t EXCEPT !.node[n][Other(s)] = inner]
        T2 == IF inner = Nil THEN T1 ELSE [T1 EXCEPT !.node[inner].parent = n]
        T3 == Hang([T2 EXCEPT !.node[y].parent = Parent(t, n)], n, y)
    IN [T3 EXCEPT !.node[y][s] = n, !.node[n].parent = y]

\* mutant: the parent is not set
TransplantDown(t, u, v) == Hang(t, u, v)

transplant(t, u, v) == [Hang(t, u, v) EXCEPT !.node[v].parent = Parent(t, u)]

RECURSIVE Descend(_, _, _)
Descend(t, k, v) ==
    IF v = Nil \/ v = k THEN v
    ELSE Descend(t, k, t.node[v][IF k < v THEN "left" ELSE "right"])
getNodeByKey(t, k) == Descend(t, k, t.root)
getValue(t, k) ==
    LET n == getNodeByKey(t, k) IN IF n = Nil THEN Nil ELSE t.node[n].value

RECURSIVE tree_minimum(_, _)
tree_minimum(t, n) ==
    IF t.node[n].left = Nil THEN n ELSE tree_minimum(t, t.node[n].left)

\* The loop at the end of insertValue.
RECURSIVE InsertFixup(_, _)
InsertFixup(t, n) ==
    IF Color(t, Parent(t, n)) = "black" THEN Paint(t, t.root, "black")
    ELSE LET s == SideOf(t, Parent(t, n))
             uncle == t.node[Grandparent(t, n)][Other(s)]
         IN IF Color(t, uncle) = "red"
            THEN InsertFixup(Paint(Paint(Paint(t, Parent(t, n), "black"), uncle, "black"),
                                   Grandparent(t, n), "red"),
                             Grandparent(t, n))
            ELSE LET inner == SideOf(t, n) # s
                     m == IF inner THEN Parent(t, n) ELSE n
                     T1 == IF inner THEN Rotate(t, m, s) ELSE t
                     T2 == Paint(Paint(T1, Parent(T1, m), "black"), Grandparent(T1, m), "red")
                 IN InsertFixup(Rotate(T2, Grandparent(T2, m), Other(s)), m)

RECURSIVE LeafFor(_, _, _)
LeafFor(t, k, v) ==
    LET next == t.node[v][IF k < v THEN "left" ELSE "right"]
    IN IF next = Nil THEN v ELSE LeafFor(t, k, next)

\* A key that is there already keeps its value.
insertValue(k, v) ==
    LET y == IF tree.root = Nil THEN Nil ELSE LeafFor(tree, k, tree.root)
        T1 == [tree EXCEPT !.node[k] = [NewNode EXCEPT !.value = v, !.parent = y, !.color = "red"]]
        T2 == IF y = Nil THEN [T1 EXCEPT !.root = k]
              ELSE [T1 EXCEPT !.node[y][IF k < y THEN "left" ELSE "right"] = k]
    IN tree' = IF getNodeByKey(tree, k) # Nil THEN tree ELSE InsertFixup(T2, k)

RECURSIVE Tree_delete_fixup(_, _)
Tree_delete_fixup(t, x) ==
    IF x = t.root \/ Color(t, x) = "red" THEN Paint(t, x, "black")
    ELSE LET p == Parent(t, x)
             s == SideOf(t, x)
             far == Other(s)
             sibling == t.node[p][far]
             T1 == IF Color(t, sibling) = "black" THEN t
                   ELSE Rotate(Paint(Paint(t, sibling, "black"), p, "red"), p, s)
             w == T1.node[p][far]
             near == Color(T1, T1.node[w][s])
         IN IF near = "black" /\ Color(T1, T1.node[w][far]) = "black"
            THEN Tree_delete_fixup(Paint(T1, w, "red"), p)
            ELSE LET T2 == IF Color(T1, T1.node[w][far]) = "red" THEN T1
                           ELSE Rotate(Paint(Paint(T1, T1.node[w][s], "black"), w, "red"), w, far)
                     u == T2.node[p][far]
                     T3 == Paint(Paint(Paint(T2, u, Color(T2, p)), p, "black"),
                                 T2.node[u][far], "black")
                     T4 == Rotate(T3, p, s)
                 IN Tree_delete_fixup(T4, T4.root)

\* The node y that leaves its place, and the node x that moves there.
Unlinked(z) ==
    LET left == tree.node[z].left
        right == tree.node[z].right
    IN IF left = Nil THEN [t |-> transplant(tree, z, right), x |-> right, y |-> z]
       ELSE IF right = Nil THEN [t |-> transplant(tree, z, left), x |-> left, y |-> z]
       ELSE LET y == tree_minimum(tree, right)
                x == tree.node[y].right
                T1 == IF Parent(tree, y) = z THEN [tree EXCEPT !.node[x].parent = y]
                      ELSE LET T0 == transplant(tree, y, x)
                           IN [T0 EXCEPT !.node[y].right = right, !.node[right].parent = y]
                T2 == transplant(T1, z, y)
            IN [t |-> [T2 EXCEPT !.node[y].left = left, !.node[left].parent = y,
                                 !.node[y].color = Color(tree, z)],
                x |-> x, y |-> y]

\* nil keeps the parent it was given last; nothing reads it before it is set again.
removeValue(k) ==
    LET z == getNodeByKey(tree, k)
        unlinked == Unlinked(z)
        t == IF Color(tree, unlinked.y) = "red" THEN unlinked.t
             ELSE Tree_delete_fixup(unlinked.t, unlinked.x)
    IN tree' = IF z = Nil THEN tree
               ELSE [t EXCEPT !.node[k] = NewNode, !.node[Nil].parent = Nil]

Next == \E k \in Key : removeValue(k) \/ \E v \in Value : insertValue(k, v)

Spec == Init /\ [][Next]_tree
-----------------------------------------------------------------------------
TypeOK ==
    /\ tree.root \in Node
    /\ \A n \in Node : /\ {tree.node[n].parent, tree.node[n].left, tree.node[n].right} \subseteq Node
                       /\ tree.node[n].value \in Value \cup {Nil}

Bound == {k \in Key : getNodeByKey(tree, k) # Nil}

\* The number of black nodes down to nil, on all ways the same; -1 if they differ, if a
\* red node has a red child or if a child does not know its parent.
RECURSIVE BlackHeight(_)
BlackHeight(n) ==
    IF n = Nil THEN 0
    ELSE LET l == BlackHeight(tree.node[n].left)
             r == BlackHeight(tree.node[n].right)
             children == {tree.node[n].left, tree.node[n].right} \ {Nil}
         IN IF \/ l # r \/ l = -1
               \/ \E c \in children : \/ Parent(tree, c) # n
                                      \/ Color(tree, n) = "red" /\ Color(tree, c) = "red"
            THEN -1
            ELSE l + (IF Color(tree, n) = "black" THEN 1 ELSE 0)

Dict == INSTANCE Dictionary WITH contents <- [k \in Bound |-> getValue(tree, k)]

\* However values are inserted and removed, the tree answers like a map and stays
\* balanced: no rotation or fix-up loses a key, and every way down has as many black nodes.
MapPromise == Dict!Spec /\ [](BlackHeight(tree.root) # -1)
=============================================================================
