------------------------------- MODULE Circuit -------------------------------
(***************************************************************************)
(* The circuit of processes: main reads equations, turns every node of     *)
(* their expressions into a process and then asks the processes for x[0],  *)
(* round after round.  Processes talk through pipes, which are sequences   *)
(* of statuses; the round number every line carries is read by nobody.     *)
(***************************************************************************)
EXTENDS Integers, Sequences, SequencesExt, FiniteSetsExt

CONSTANTS
    Systems,        \* the inputs main may be given
    Rounds,         \* N - K, at most MAX_VARIABLES
    Variable,       \* indices of variables, 0 among them
    Value,          \* of initialisations
    None            \* NULL, or no initialisation

VARIABLES
    system,     \* the input: equations and their expressions
    phase,      \* of main
    accepted,   \* equations it has read
    unwritten,  \* the variable pipes initialize_values still has to write this round
    inits,      \* the initialisation lists read so far
    answers,    \* what main has printed
    out,        \* the pipe from every process to its reader
    in,         \* the pipe into every process of a variable
    local,      \* what every process has in its local variables
    copying     \* what the process that passes a left-hand side on does

circuitVars ==
    <<system, phase, accepted, unwritten, inits, answers, out, in, local, copying>>

(* A system has equations, each with a left variable and the root of its
   expression, and nodes: [kind, index, value, left, right].                  *)
Nodes == DOMAIN system.node
Kind(n) == system.node[n].kind

\* variable_nodes: the pipes by variable, then in the order of the expressions.
VariablePipes ==
    SetToSortSeq({n \in Nodes : Kind(n) = "var"},
                 LAMBDA m, n : \/ system.node[m].index < system.node[n].index
                               \/ system.node[m].index = system.node[n].index /\ m < n)

\* equations[v] after the first k lines, None for NULL.
Root(k, v) ==
    LET lines == {i \in 1 .. k : system.equations[i].left = v}
    IN IF lines = {} THEN None ELSE system.equations[Min(lines)].root

IsLefthandside(v) == Root(Len(system.equations), v) # None

\* get_them: the variables of an expression, from left to right.
RECURSIVE Neighbours(_)
Neighbours(n) ==
    IF n = None THEN <<>>
    ELSE CASE Kind(n) = "num" -> <<>>
           [] Kind(n) = "var" -> <<system.node[n].index>>
           [] Kind(n) = "neg" -> Neighbours(system.node[n].left)
           [] OTHER -> Neighbours(system.node[n].left) \o Neighbours(system.node[n].right)

\* visit, with the status of every variable and res in one record.
RECURSIVE Visit(_, _, _)
Visit(k, v, s) ==
    LET Look(w, t) == IF t.status[w] = "visited" THEN [t EXCEPT !.res = TRUE]
                      ELSE IF t.status[w] = "not visited" THEN Visit(k, w, t) ELSE t
        seen == FoldLeft(LAMBDA t, w : Look(w, t),
                         [s EXCEPT !.status[v] = "visited"], Neighbours(Root(k, v)))
    IN [seen EXCEPT !.status[v] = "done"]

IsCyclic(k, v) ==
    Visit(k, v, [status |-> [w \in Variable |-> "not visited"], res |-> FALSE]).res

NoValue == [status |-> "NO_VALUE"]
End == [status |-> "END"]
ValueIs(v) == [status |-> "VALUE", value |-> v]
Init_(i) == IF i = None THEN [status |-> "INIT_NO_VALUE"] ELSE [status |-> "INIT", value |-> i]

Start == [running |-> TRUE, round |-> 0, init |-> <<>>, inter |-> <<>>]
-----------------------------------------------------------------------------
Init ==
    /\ system \in Systems
    /\ phase = "equations" /\ accepted = 0 /\ unwritten = <<>> /\ inits = <<>> /\ answers = <<>>
    /\ out = [n \in Nodes |-> <<>>]
    /\ in = [n \in Nodes |-> <<>>]
    /\ local = [n \in Nodes |-> Start]
    /\ copying = [v \in Variable |-> [lines |-> 0, left |-> <<>>, line |-> End]]

pipes == <<out, in, local, copying>>

\* main reads an equation; the first wrong one ends the program.
ReadEquation ==
    LET k == accepted + 1
        v == system.equations[k].left
    IN /\ phase = "equations" /\ accepted < Len(system.equations)
       /\ IF Root(accepted, v) # None \/ IsCyclic(k, v)
          THEN phase' = "refused" /\ UNCHANGED accepted
          ELSE phase' = phase /\ accepted' = k
       /\ UNCHANGED <<system, unwritten, inits, answers, pipes>>

\* The last equation was read: the processes are forked.
ForkTrees ==
    /\ phase = "equations" /\ accepted = Len(system.equations)
    /\ phase' = "round"
    /\ UNCHANGED <<system, accepted, unwritten, inits, answers, pipes>>

\* main reads an initialisation list; without an equation for x[0] the answer is F.
BeginRound ==
    /\ phase = "round" /\ Len(answers) < Rounds
    /\ \E list \in [Variable -> Value \cup {None}] : inits' = Append(inits, list)
    /\ IF IsLefthandside(0)
       THEN unwritten' = VariablePipes /\ phase' = "write" /\ UNCHANGED answers
       ELSE answers' = Append(answers, None) /\ UNCHANGED <<unwritten, phase>>
    /\ UNCHANGED <<system, accepted, pipes>>

\* initialize_values and end_processes write one pipe after another.
WriteVariablePipe ==
    /\ phase \in {"write", "ending"} /\ unwritten # <<>>
    /\ LET n == Head(unwritten)
           line == IF phase = "ending" THEN End ELSE Init_(Last(inits)[system.node[n].index])
       IN in' = [in EXCEPT ![n] = Append(@, line)]
    /\ unwritten' = Tail(unwritten)
    /\ UNCHANGED <<system, phase, accepted, inits, answers, out, local, copying>>

\* read_value on the pipe of x[0], and the line printed.
AnswerRound ==
    LET n == Root(accepted, 0)
        st == Head(out[n])
        init == Last(inits)[0]
    IN /\ phase = "write" /\ unwritten = <<>> /\ out[n] # <<>>
       /\ out' = [out EXCEPT ![n] = Tail(@)]
       /\ answers' = Append(answers, IF init # None \/ st.status # "VALUE" THEN init ELSE st.value)
       /\ phase' = "round"
       /\ UNCHANGED <<system, accepted, unwritten, inits, in, local, copying>>

EndProcesses ==
    /\ phase = "round" /\ Len(answers) = Rounds
    /\ phase' = "ending"
    /\ unwritten' = VariablePipes
    /\ UNCHANGED <<system, accepted, inits, answers, pipes>>

Mains == <<system, phase, accepted, unwritten, inits, answers>>

IsRunning(n) == phase \notin {"equations", "refused"} /\ local[n].running

\* A process writes its lines and, after END, exits.
Write(n, lines) == out' = [out EXCEPT ![n] = @ \o lines]
Exit(n) == local' = [local EXCEPT ![n].running = FALSE]

\* create_process_num: the value for every round, then END.
NumberStep(n) ==
    /\ IsRunning(n) /\ Kind(n) = "num"
    /\ IF local[n].round < Rounds
       THEN /\ Write(n, <<ValueIs(system.node[n].value)>>)
            /\ local' = [local EXCEPT ![n].round = @ + 1]
       ELSE Write(n, <<End>>) /\ Exit(n)
    /\ UNCHANGED <<Mains, in, copying>>

\* create_process_u
MinusStep(n) ==
    LET child == system.node[n].left
        st == Head(out[child])
        line == IF st.status = "VALUE" THEN ValueIs(-st.value) ELSE st
    IN /\ IsRunning(n) /\ Kind(n) = "neg" /\ out[child] # <<>>
       /\ out' = [out EXCEPT ![child] = Tail(@), ![n] = Append(@, line)]
       /\ IF st = End THEN Exit(n) ELSE UNCHANGED local
       /\ UNCHANGED <<Mains, in, copying>>

\* create_process_bin: one line of each child.
BinaryStep(n) ==
    LET l == system.node[n].left
        r == system.node[n].right
        st == {Head(out[l]), Head(out[r])}
        line == IF End \in st THEN End
                ELSE IF NoValue \in st THEN NoValue
                ELSE IF Kind(n) = "add" THEN ValueIs(Head(out[l]).value + Head(out[r]).value)
                ELSE ValueIs(Head(out[l]).value * Head(out[r]).value)
    IN /\ IsRunning(n) /\ Kind(n) \in {"add", "mul"} /\ out[l] # <<>> /\ out[r] # <<>>
       /\ out' = [out EXCEPT ![l] = Tail(@), ![r] = Tail(@), ![n] = Append(@, line)]
       /\ IF line = End THEN Exit(n) ELSE UNCHANGED local
       /\ UNCHANGED <<Mains, in, copying>>

\* mutant: an intermediate value is passed on although the list initialises the variable
InitIgnored(round, init, inter) ==
    IF Len(init) <= round \/ Len(inter) <= round THEN <<>> ELSE <<inter[round + 1]>>

\* What a left-hand side writes once its lists have grown: the first `if` may be
\* followed by the second one in the next round.
LeftLines(round, init, inter) ==
    LET At(list, i) == IF i <= Len(list) THEN list[i].status ELSE "NONE"
        first == IF At(inter, round + 1) = "NO_VALUE" THEN <<NoValue>> ELSE <<>>
        next == round + Len(first) + 1
    IN IF Len(init) <= round \/ Len(inter) <= round THEN <<>>
       ELSE IF At(init, round + 1) = "INIT" THEN <<ValueIs(init[round + 1].value)>>
       ELSE first \o (IF At(inter, next) = "VALUE" THEN <<inter[next]>> ELSE <<>>)

\* create_process_var
VariableStep(n) ==
    LET st == Head(in[n])
        me == local[n]
        init == IF st.status \in {"INIT", "INIT_NO_VALUE"} THEN Append(me.init, st) ELSE me.init
        inter == IF st.status \in {"VALUE", "NO_VALUE"} THEN Append(me.inter, st) ELSE me.inter
        lines == IF st = End THEN <<End>>
                 ELSE IF IsLefthandside(system.node[n].index)
                      THEN LeftLines(me.round, init, inter)
                 ELSE IF st.status = "INIT" THEN <<ValueIs(st.value)>>
                 ELSE IF st.status = "INIT_NO_VALUE" THEN <<NoValue>> ELSE <<>>
    IN /\ IsRunning(n) /\ Kind(n) = "var" /\ in[n] # <<>>
       /\ in' = [in EXCEPT ![n] = Tail(@)]
       /\ Write(n, lines)
       /\ local' = [local EXCEPT ![n] = [running |-> st # End, round |-> @.round + Len(lines),
                                         init |-> init, inter |-> inter]]
       /\ UNCHANGED <<Mains, copying>>

\* create_process_pass: a line of x[v] is read, at most Rounds of them ...
PassRead(v) ==
    LET n == Root(Len(system.equations), v)
        me == copying[v]
    IN /\ phase \notin {"equations", "refused"} /\ v # 0 /\ n # None
       /\ me.left = <<>> /\ me.lines < Rounds /\ out[n] # <<>>
       /\ out' = [out EXCEPT ![n] = Tail(@)]
       /\ copying' = [copying EXCEPT ![v] =
             [lines |-> IF Head(out[n]) = End THEN Rounds ELSE me.lines + 1,
              left |-> SelectSeq(VariablePipes, LAMBDA m : system.node[m].index = v), line |-> Head(out[n])]]
       /\ UNCHANGED <<Mains, in, local>>

\* ... and written to the pipe of every occurrence of x[v].
PassWrite(v) ==
    LET me == copying[v]
    IN /\ me.left # <<>>
       /\ in' = [in EXCEPT ![Head(me.left)] = Append(@, me.line)]
       /\ copying' = [copying EXCEPT ![v].left = Tail(@)]
       /\ UNCHANGED <<Mains, out, local>>

Process ==
    \/ \E n \in Nodes : NumberStep(n) \/ MinusStep(n) \/ BinaryStep(n) \/ VariableStep(n)
    \/ \E v \in Variable : PassRead(v) \/ PassWrite(v)

Next ==
    \/ ReadEquation \/ ForkTrees \/ BeginRound \/ WriteVariablePipe \/ AnswerRound
    \/ EndProcesses \/ Process

Spec == Init /\ [][Next]_circuitVars /\ WF_circuitVars(Next)
-----------------------------------------------------------------------------
TypeOK ==
    /\ phase \in {"equations", "refused", "round", "write", "ending"}
    /\ accepted \in 0 .. Len(system.equations)
    /\ Range(unwritten) \subseteq Nodes
    /\ inits \in Seq([Variable -> Value \cup {None}])
    /\ \A n \in Nodes : local[n].round \in 0 .. Rounds + 1

\* The value of an expression under an initialisation list, by the equations.
RECURSIVE Evaluate(_, _), EvaluateVariable(_, _)
Evaluate(n, list) ==
    LET l == Evaluate(system.node[n].left, list)
        r == Evaluate(system.node[n].right, list)
    IN CASE Kind(n) = "num" -> system.node[n].value
         [] Kind(n) = "var" -> EvaluateVariable(system.node[n].index, list)
         [] Kind(n) = "neg" -> IF l = None THEN None ELSE -l
         [] OTHER -> IF l = None \/ r = None THEN None
                     ELSE IF Kind(n) = "add" THEN l + r ELSE l * r
EvaluateVariable(v, list) ==
    LET n == Root(Len(system.equations), v)
    IN IF list[v] # None \/ n = None THEN list[v] ELSE Evaluate(n, list)

\* Which left-hand sides use which variables, and the systems main should refuse.
Uses == {<<v, w>> \in Variable \X Variable :
            IsLefthandside(v) /\ w \in Range(Neighbours(Root(Len(system.equations), v)))}
IsWellFormed ==
    /\ \A i, j \in DOMAIN system.equations :
          system.equations[i].left = system.equations[j].left => i = j
    /\ ~ \E V \in (SUBSET Variable) \ {{}} : \A v \in V : \E w \in V : <<v, w>> \in Uses

Expected(list) == IF IsLefthandside(0) THEN EvaluateVariable(0, list) ELSE None

\* A system without cycles and repeated left-hand sides is accepted, every round gets
\* the value the equations give under its own initialisation list, although constants
\* run rounds ahead and values and initialisations meet in one pipe, and in the end
\* every process exits.  Any other system is refused.
EveryRoundAnsweredRight ==
    <>[](IF IsWellFormed
         THEN /\ phase = "ending" /\ unwritten = <<>>
              /\ answers = [i \in 1 .. Rounds |-> Expected(inits[i])]
              /\ \A n \in Nodes : ~local[n].running
         ELSE phase = "refused")
=============================================================================
