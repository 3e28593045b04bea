---------------------------- MODULE Betweenness ----------------------------
(***************************************************************************)
(* PW task 2: betweenness centrality with Brandes's algorithm, the sources *)
(* split among threads that add to shared sums under a mutex per vertex.   *)
(* The numbers are multiples of 1 / Scale.                                 *)
(***************************************************************************)
EXTENDS Integers, SequencesExt, FiniteSetsExt

CONSTANTS
    Inputs,     \* input files: sequences of edges <<a, b>>
    MaxThreads, \* the largest number of threads asked for
    Scale       \* a multiple of every number of shortest paths between two vertices

VARIABLES
    edges,      \* the input file
    threads,    \* group |-> [todo, S, delta, read, pc] for every thread started
    BC, owner   \* the sums, and who holds the mutex of a vertex

bcVars == <<edges, threads, BC, owner>>

NoThread == 0

Vertices(e) == {e[i][1] : i \in DOMAIN e} \cup {e[i][2] : i \in DOMAIN e}
\* vertices: in the order of their first appearance.
Listed(e) ==
    LET Add(list, v) == IF Contains(list, v) THEN list ELSE Append(list, v)
    IN FoldLeft(Add, << >>, FlattenSeq(e))
\* graph[v]: an edge read twice is there twice.
Successors(e, v) == LET From(edge) == edge[1] = v
                    IN [i \in DOMAIN SelectSeq(e, From) |-> SelectSeq(e, From)[i][2]]

\* pfor_each: n \div nthreads vertices for every thread but the last, and at least one.
Groups(list, nthreads) ==
    LET group == Max({1, Len(list) \div nthreads})
        number == (Len(list) + group - 1) \div group
    IN [t \in 1 .. number |->
           SubSeq(list, (t - 1) * group + 1, Min({t * group, Len(list)}))]

\* The first loop of Brandes: breadth-first search with the number of shortest paths and
\* the predecessors on them; S holds the vertices in the order they were reached.
RECURSIVE Search(_, _)
Search(e, st) ==
    IF st.Q = << >> THEN st
    ELSE LET v == Head(st.Q)
             Visit(s, w) ==
                LET new == s.d[w] < 0
                    dist == IF new THEN s.d[v] + 1 ELSE s.d[w]
                    onPath == dist = s.d[v] + 1
                IN [s EXCEPT !.Q = IF new THEN Append(@, w) ELSE @,
                             !.d[w] = dist,
                             !.sigma[w] = IF onPath THEN @ + s.sigma[v] ELSE @,
                             !.P[w] = IF onPath THEN Append(@, v) ELSE @]
             started == [st EXCEPT !.Q = Tail(@), !.S = Append(@, v)]
         IN Search(e, FoldLeft(Visit, started, Successors(e, v)))

Searched(e, s) ==
    LET V == Vertices(e)
    IN Search(e, [Q |-> <<s>>, S |-> << >>, d |-> [v \in V |-> IF v = s THEN 0 ELSE -1],
                  sigma |-> [v \in V |-> IF v = s THEN 1 ELSE 0], P |-> [v \in V |-> << >>]])

\* The dependencies of all vertices once the stack was emptied down to w: the code
\* computes them between the additions, of local state only.
Dependencies(e, s) ==
    LET st == Searched(e, s)
        Back(delta, w) ==
            LET Spread(dl, v) ==
                    [dl EXCEPT ![v] = @ + (st.sigma[v] * (Scale + dl[w])) \div st.sigma[w]]
            IN FoldLeft(Spread, delta, st.P[w])
    IN FoldLeft(Back, [v \in Vertices(e) |-> 0], Reverse(st.S))

\* The vertices whose sums a source adds to, in the order of the stack.
Additions(e, s) == SelectSeq(Reverse(Searched(e, s).S), LAMBDA w : w # s)

Started(todo) == [todo |-> todo, S |-> << >>, delta |-> << >>, read |-> 0, pc |-> "next"]

Init ==
    /\ edges \in Inputs
    /\ \E n \in 1 .. MaxThreads :
          threads = [t \in DOMAIN Groups(Listed(edges), n) |->
                        Started(Groups(Listed(edges), n)[t])]
    /\ BC = [v \in Vertices(edges) |-> 0]
    /\ owner = [v \in Vertices(edges) |-> NoThread]

\* Brandes for the next source, up to its first addition.
NextSource(t) ==
    LET me == threads[t] IN
    /\ me.pc = "next" /\ me.todo # << >>
    /\ threads' = [threads EXCEPT ![t].S = Additions(edges, Head(me.todo)),
                                  ![t].delta = Dependencies(edges, Head(me.todo)),
                                  ![t].todo = Tail(@), ![t].pc = "lock"]
    /\ UNCHANGED <<edges, BC, owner>>

\* mutant: the mutex of another vertex is taken, so this one keeps nobody out
NoLock(t) ==
    /\ threads[t].pc = "lock" /\ threads[t].S # << >>
    /\ owner' = [owner EXCEPT ![Head(threads[t].S)] = t]
    /\ threads' = [threads EXCEPT ![t].pc = "read"]
    /\ UNCHANGED <<edges, BC>>

Lock(t) ==
    LET me == threads[t] IN
    /\ me.pc = "lock" /\ me.S # << >>
    /\ owner[Head(me.S)] = NoThread
    /\ owner' = [owner EXCEPT ![Head(me.S)] = t]
    /\ threads' = [threads EXCEPT ![t].pc = "read"]
    /\ UNCHANGED <<edges, BC>>

\* BC[w] += delta[w] reads the sum and writes it.
Read(t) ==
    /\ threads[t].pc = "read"
    /\ threads' = [threads EXCEPT ![t].read = BC[Head(threads[t].S)], ![t].pc = "write"]
    /\ UNCHANGED <<edges, BC, owner>>

Write(t) ==
    LET me == threads[t]
        w == Head(me.S)
    IN /\ me.pc = "write"
       /\ BC' = [BC EXCEPT ![w] = me.read + me.delta[w]]
       /\ threads' = [threads EXCEPT ![t].pc = "unlock", ![t].read = 0]
       /\ UNCHANGED <<edges, owner>>

Unlock(t) ==
    /\ threads[t].pc = "unlock"
    /\ owner' = [owner EXCEPT ![Head(threads[t].S)] = NoThread]
    /\ threads' = [threads EXCEPT ![t].S = Tail(@), ![t].pc = "lock"]
    /\ UNCHANGED <<edges, BC>>

SourceDone(t) ==
    /\ threads[t].pc = "lock" /\ threads[t].S = << >>
    /\ threads' = [threads EXCEPT ![t].delta = << >>, ![t].pc = "next"]
    /\ UNCHANGED <<edges, BC, owner>>

Next == \E t \in DOMAIN threads :
            NextSource(t) \/ Lock(t) \/ Read(t) \/ Write(t) \/ Unlock(t) \/ SourceDone(t)

Spec == Init /\ [][Next]_bcVars
-----------------------------------------------------------------------------
TypeOK ==
    /\ DOMAIN BC = Vertices(edges) /\ \A v \in DOMAIN BC : BC[v] \in Nat
    /\ \A v \in DOMAIN owner : owner[v] \in {NoThread} \cup DOMAIN threads
    /\ \A t \in DOMAIN threads : threads[t].pc \in {"next", "lock", "read", "write", "unlock"}

\* The shortest paths from s to t as sequences of edges, counted with their multiplicity.
Paths(s, t) ==
    LET Walks == UNION {{p \in [1 .. n -> DOMAIN edges] :
                            /\ edges[p[1]][1] = s /\ edges[p[n]][2] = t
                            /\ \A i \in 1 .. n - 1 : edges[p[i]][2] = edges[p[i + 1]][1]} :
                        n \in 1 .. Cardinality(Vertices(edges)) - 1}
    IN {p \in Walks : \A q \in Walks : Len(p) <= Len(q)}

\* Freeman's definition: the share of the shortest paths between s and t that go through
\* v, over all pairs of other vertices.
Centrality(v) ==
    LET Through(pair) ==
            LET all == Paths(pair[1], pair[2])
                via == {p \in all : \E i \in 1 .. Len(p) - 1 : edges[p[i]][2] = v}
            IN IF all = {} THEN 0 ELSE (Scale * Cardinality(via)) \div Cardinality(all)
    IN MapThenSumSet(Through, {pair \in (Vertices(edges) \ {v}) \X (Vertices(edges) \ {v}) :
                                   pair[1] # pair[2]})

\* When all threads have ended, every vertex has its centrality: no addition was lost,
\* no source was left out or counted twice by the split among threads.
CentralityIsComplete ==
    (\A t \in DOMAIN threads : threads[t].pc = "next" /\ threads[t].todo = << >>)
        => \A v \in DOMAIN BC : BC[v] = Centrality(v)
=============================================================================
