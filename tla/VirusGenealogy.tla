---------------------------- MODULE VirusGenealogy ----------------------------
(***************************************************************************)
(* JNP task 5: a graph of viruses that grows from a stem.  Every node      *)
(* holds the set of its parents and the set of its children; removing a    *)
(* virus removes every virus it leaves without a parent.                   *)
(***************************************************************************)
EXTENDS Integers, FiniteSets

CONSTANTS Id, stem_id

VARIABLES
    graph,  \* [viruses, parents, children]: the keys of viruses_ and the sets of the nodes
    torn    \* a removal threw halfway

virusVars == <<graph, torn>>

Init ==
    /\ graph = [viruses |-> {stem_id},
                parents |-> [v \in Id |-> {}], children |-> [v \in Id |-> {}]]
    /\ torn = FALSE

exists(v) == v \in graph.viruses

Connected(g, child, parent) ==
    [g EXCEPT !.children[parent] = @ \cup {child}, !.parents[child] = @ \cup {parent}]

connect(child, parent) ==
    /\ exists(parent) /\ exists(child)
    /\ graph' = Connected(graph, child, parent)
    /\ UNCHANGED torn

\* create with a list of parents that all exist: the new node, then one connect for each.
create(v, parents) ==
    /\ ~exists(v) /\ parents # {} /\ \A p \in parents : exists(p)
    /\ graph' = [viruses |-> graph.viruses \cup {v},
                 parents |-> [graph.parents EXCEPT ![v] = parents],
                 children |-> [w \in Id |->
                     IF w \in parents THEN graph.children[w] \cup {v} ELSE graph.children[w]]]
    /\ UNCHANGED torn

\* mutant: the children are left as they are
RemovedAlone(g, v) ==
    {<<[viruses |-> g.viruses \ {v}, parents |-> [g.parents EXCEPT ![v] = {}],
        children |-> [w \in Id |-> IF w = v THEN {} ELSE g.children[w] \ {v}]], FALSE>>}

\* The results of remove, as pairs of the graph and whether it threw.  The children come
\* in the order of their addresses: any.
RECURSIVE Removals(_, _), Orphaned(_, _, _)
Removals(g, v) ==
    IF v \notin g.viruses \/ v = stem_id THEN {<<g, TRUE>>}
    ELSE LET left == [g EXCEPT !.children = [w \in Id |->
                         IF w \in g.parents[v] THEN g.children[w] \ {v} ELSE g.children[w]]]
         IN {IF r[2] THEN r
             ELSE <<[viruses |-> r[1].viruses \ {v},
                     parents |-> [r[1].parents EXCEPT ![v] = {}],
                     children |-> [r[1].children EXCEPT ![v] = {}]], FALSE>> :
             r \in Orphaned(left, v, left.children[v])}
Orphaned(g, v, todo) ==
    IF todo = {} THEN {<<g, FALSE>>}
    ELSE UNION {LET cut == [g EXCEPT !.parents[c] = @ \ {v}]
                    results == IF cut.parents[c] = {} THEN Removals(cut, c)
                               ELSE {<<cut, FALSE>>}
                IN UNION {IF r[2] THEN {r} ELSE Orphaned(r[1], v, todo \ {c}) : r \in results} :
                c \in todo}

remove(v) ==
    /\ exists(v) /\ v # stem_id
    /\ \E r \in Removals(graph, v) : graph' = r[1] /\ torn' = r[2]

\* Calls that throw before they change anything are no steps.  After a removal that threw
\* halfway the graph is no longer followed.
Next ==
    /\ ~torn
    /\ \/ \E v \in Id, parents \in SUBSET Id : create(v, parents)
       \/ \E c, p \in Id : connect(c, p)
       \/ \E v \in Id : remove(v)

Spec == Init /\ [][Next]_virusVars
-----------------------------------------------------------------------------
TypeOK ==
    /\ graph.viruses \subseteq Id
    /\ \A v \in Id : graph.parents[v] \cup graph.children[v] \subseteq Id
    /\ torn \in BOOLEAN

\* As long as no removal was torn, parents and children are two views of one graph of
\* existing viruses, and every virus but the stem has a parent, whatever cycles,
\* self-parents and diamonds the removals went through.
GenealogyIsSound ==
    ~torn => /\ stem_id \in graph.viruses
             /\ \A v \in Id : /\ graph.children[v] = {c \in Id : v \in graph.parents[c]}
                              /\ graph.parents[v] \subseteq graph.viruses
                              /\ v \in graph.viruses \ {stem_id} => graph.parents[v] # {}
                              /\ v \notin graph.viruses => graph.parents[v] = {}
=============================================================================
