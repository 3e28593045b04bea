--------------------------- MODULE SequencePrograms ---------------------------
(***************************************************************************)
(* The algorithms course: programs that read a sequence and print a        *)
(* number or an order, the parser of the circuit of PW task 3, and the     *)
(* datagrams of SIK task 1.  Each is named for its file and stands beside  *)
(* what it ought to compute; `asked` is one program and its input.         *)
(***************************************************************************)
EXTENDS Integers, SequencesExt

CONSTANTS
    INF,                \* larger than any sum
    P, P_pow, Q, Q_pow, \* the hashes of lex.cpp: moduli and bases
    P_MOD,              \* of kin.cpp and sor.cpp: the answer's modulus
    NONE

ProgramConstants == INF > 100 /\ {P, Q, P_MOD} \subseteq Nat \ {0}

VARIABLE asked
sequenceVars == asked

SumOver(S, f(_)) == MapThenSumSet(f, S)
Sorted(s, Less(_, _)) == SortSeq(s, Less)
\* std::pair's order.
Before(a, x, b, y) == a < b \/ (a = b /\ x < y)
Increasing(s) == \A i \in 2 .. Len(s) : s[i - 1] <= s[i]
Pairs(s) == (DOMAIN s) \X (DOMAIN s)
Orders(n) == {o \in [1 .. n -> 1 .. n] : \A i, j \in 1 .. n : o[i] = o[j] => i = j}
-----------------------------------------------------------------------------
\* odc.cpp: how many pairs of vertical segments [x, y1, y2] meet.
Column(segments, x) ==
    Sorted(SelectSeq(segments, LAMBDA s : s.x = x),
           LAMBDA s, t : Before(s.y1, s.y2, t.y1, t.y2))

\* upper_bound of the end among the starts behind.
calc(v) ==
    SumOver(DOMAIN v, LAMBDA i : Cardinality({j \in i .. Len(v) : v[j].y1 <= v[i].y2}) - 1)

odc(segments) ==
    SumOver({segments[i].x : i \in DOMAIN segments}, LAMBDA x : calc(Column(segments, x)))

Meetings(segments) ==
    Cardinality({p \in Pairs(segments) :
                    LET s == segments[p[1]] t == segments[p[2]] IN
                    p[1] < p[2] /\ s.x = t.x /\ s.y1 <= t.y2 /\ t.y1 <= s.y2})
-----------------------------------------------------------------------------
\* szy.cpp: a group ends with the second of a kind.
szy(types) ==
    FoldLeft(LAMBDA r, t : IF t \in r.current THEN [result |-> r.result + 1, current |-> {}]
                           ELSE [r EXCEPT !.current = @ \cup {t}],
             [result |-> 0, current |-> {}], types).result

\* The most disjoint stretches with a kind twice.
PairsApart(types) ==
    LET Twice(b, e) == \E i, j \in b .. e : i < j /\ types[i] = types[j]
        most[e \in 0 .. Len(types)] ==
            IF e = 0 THEN 0
            ELSE Max({most[e - 1]} \cup {most[b - 1] + 1 : b \in {b \in 1 .. e : Twice(b, e)}})
    IN most[Len(types)]
-----------------------------------------------------------------------------

\* mro.cpp: a map from a value to how many have it; a query moves all of [l, r] to d and
\* prints how many were not there.
Move(s, q) ==
    LET moved == {v \in DOMAIN s.m : q.l <= v /\ v <= q.r /\ v # q.d}
        result == SumOver(moved, LAMBDA v : s.m[v])
        kept == IF q.d \in DOMAIN s.m THEN s.m[q.d] ELSE 0
    IN [m |-> [v \in (DOMAIN s.m \ moved) \cup {q.d} |->
                  IF v = q.d THEN kept + result ELSE s.m[v]],
        printed |-> Append(s.printed, result)]

mro(values, queries) ==
    FoldLeft(Move,
             [m |-> [v \in ToSet(values) |-> Cardinality({i \in DOMAIN values : values[i] = v})],
              printed |-> << >>], queries).printed

MovedOneByOne(values, queries) ==
    LET Moves(s, i, q) == q.l <= s[i] /\ s[i] <= q.r /\ s[i] # q.d
        Answer(s, q) == [all |-> [i \in DOMAIN s.all |-> IF Moves(s.all, i, q) THEN q.d
                                                         ELSE s.all[i]],
                         printed |-> Append(s.printed, Cardinality({i \in DOMAIN s.all :
                                                                      Moves(s.all, i, q)}))]
    IN FoldLeft(Answer, [all |-> values, printed |-> << >>], queries).printed
-----------------------------------------------------------------------------
\* easy.cpp: res[i] by how many were just taken and whether three once were.  res is
\* global, so all of res[0] is zero.
res(r, x) ==
    [s \in (0 .. 3) \X {0, 1} |->
        CASE s[1] = 0 -> Max({r[u, s[2]] : u \in 0 .. 3})
          [] s[1] \in {1, 2} -> r[s[1] - 1, s[2]] + x
          [] s[1] = 3 -> IF s[2] = 0 THEN -INF ELSE r[2, 0] + x]

calc_not_taking(r) == Max({0} \cup {r[s] : s \in DOMAIN r})
easy(d) == calc_not_taking(FoldLeft(res, [s \in (0 .. 3) \X {0, 1} |-> 0], d))

\* Never four in a row, and three at most once.
BestTaking(d) ==
    Max({SumOver(S, LAMBDA i : d[i]) :
            S \in {S \in SUBSET DOMAIN d : Cardinality({i \in S : {i + 1, i + 2} \subseteq S}) <= 1}})
-----------------------------------------------------------------------------
\* heap_sort.cpp, 0-based; of two values at least.
Swapped(d, i, j) == [d EXCEPT ![i] = d[j], ![j] = d[i]]

RECURSIVE siftDown(_, _, _)
siftDown(d, root, end) ==
    LET child == 2 * root + 1
        first == IF d[root] < d[child] THEN child ELSE root
        swap == IF child + 1 <= end /\ d[first] < d[child + 1] THEN child + 1 ELSE first
    IN IF child > end \/ swap = root THEN d ELSE siftDown(Swapped(d, root, swap), swap, end)

heapify(d, count) ==
    FoldLeft(LAMBDA e, start : siftDown(e, start, count - 1), d,
             [k \in 1 .. count \div 2 |-> count \div 2 - k])

heapsort(d, count) ==
    FoldLeft(LAMBDA e, end : siftDown(Swapped(e, 0, end), 0, end - 1), heapify(d, count),
             [k \in 1 .. count - 1 |-> count - k])

heap_sort(s) == heapsort([i \in 0 .. Len(s) - 1 |-> s[i + 1]], Len(s))
-----------------------------------------------------------------------------
\* baz.cpp: the largest odd sum of k of the costs, given in increasing order; -1 if none.
Odd(a) == a % 2 = 1
min_sufix(cost, i, odd) ==
    Min({INF} \cup {cost[j] : j \in {j \in i + 1 .. Len(cost) : Odd(cost[j]) = odd}})
max_prefix(cost, i, odd) ==
    Max({-INF} \cup {cost[j] : j \in {j \in 1 .. i : Odd(cost[j]) = odd}})

\* The k largest, or one of them changed for the nearest of the other parity.
baz(cost, k) ==
    LET idx == Len(cost) - k
        max_sum == SumOver(idx + 1 .. Len(cost), LAMBDA j : cost[j])
    IN IF Odd(max_sum) THEN max_sum
       ELSE Max({-1, max_sum - min_sufix(cost, idx, FALSE) + max_prefix(cost, idx, TRUE),
                     max_sum - min_sufix(cost, idx, TRUE) + max_prefix(cost, idx, FALSE)})

LargestOdd(cost, k) ==
    Max({-1} \cup {s \in {SumOver(S, LAMBDA j : cost[j]) : S \in kSubset(k, DOMAIN cost)} : Odd(s)})
-----------------------------------------------------------------------------
\* mat.cpp: the distance of the closest two different letters, where "*" is none.
Look(r, c) ==
    IF c = "*" THEN [r EXCEPT !.dist = @ + 1]
    ELSE [prev |-> c, dist |-> 0,
          lowest |-> IF r.prev \notin {NONE, c} THEN Min({r.dist + 1, r.lowest}) ELSE r.lowest]

mat(desc) ==
    Len(desc) + 1
    - FoldLeft(Look, [prev |-> NONE, dist |-> 0, lowest |-> Len(desc)], desc).lowest

Strip(desc) ==
    Len(desc) + 1
    - Min({Len(desc)} \cup {j - i : <<i, j>> \in
              {p \in Pairs(desc) : p[1] < p[2] /\ desc[p[1]] # desc[p[2]]
                                                  /\ "*" \notin {desc[p[1]], desc[p[2]]}}})
-----------------------------------------------------------------------------
\* sor.cpp: in how many orders people may have come to stand as t, when each stands right
\* of all if he is higher than the last who came, and left of all otherwise.
Ways(t) ==
    LET Of(answers, Fits(_)) ==
            SumOver({k \in DOMAIN answers : Fits(answers[k][1])}, LAMBDA k : answers[k][2]) % P_MOD
        ways[r \in {<<i, j>> \in Pairs(t) : i <= j}] ==
            IF r[1] = r[2] THEN << <<t[r[1]], 1>> >>
            ELSE << <<t[r[2]], Of(ways[<<r[1], r[2] - 1>>], LAMBDA last : last < t[r[2]])>>,
                    <<t[r[1]], Of(ways[<<r[1] + 1, r[2]>>], LAMBDA last : last > t[r[1]])>> >>
    IN ways[<<1, Len(t)>>]

sor(t) == SumOver(DOMAIN Ways(t), LAMBDA k : Ways(t)[k][2]) % P_MOD

Stand(r, x) ==
    [last |-> x, row |-> IF r.row = << >> \/ x > r.last THEN Append(r.row, x) ELSE <<x>> \o r.row]
OrdersOf(t) ==
    Cardinality({o \in Orders(Len(t)) :
        FoldLeft(Stand, [last |-> 0, row |-> << >>], [i \in DOMAIN o |-> t[o[i]]]).row = t})
-----------------------------------------------------------------------------
\* kin.cpp: a tree of sums from the leaves up.
RECURSIVE Width(_)
Width(m) == IF m = 0 THEN 1 ELSE 2 * Width(m \div 2)

RECURSIVE sumRange(_, _, _, _)
sumRange(data, l, r, sum) ==
    LET left == IF l % 2 = 1 THEN data[l] ELSE 0
        right == IF r % 2 = 1 THEN data[r - 1] ELSE 0
    IN IF l >= r THEN sum
       ELSE sumRange(data, (l + 1) \div 2, r \div 2, (sum + left + right) % P_MOD)

RECURSIVE Up(_, _)
Up(data, v) ==
    IF v = 0 THEN data
    ELSE Up([data EXCEPT ![v] = (data[2 * v] + data[2 * v + 1]) % P_MOD], v \div 2)
insert(data, leaf, value) == Up([data EXCEPT ![leaf] = value], leaf \div 2)

\* Tree j holds how many decreasing sequences of j + 1 end with a value.
Count(n, k, trees, x) ==
    FoldLeft(LAMBDA ts, j :
                 [ts EXCEPT ![j] = insert(ts[j], Width(n) + x - 1,
                                          IF j = 1 THEN 1
                                          ELSE sumRange(ts[j - 1], Width(n) + x, Width(n) + n, 0))],
             trees, [j \in 1 .. k |-> j])

kin(data, k) ==
    LET n == Len(data)
        empty == [j \in 1 .. k |-> [v \in 0 .. 2 * Width(n) - 1 |-> 0]]
    IN sumRange(FoldLeft(LAMBDA trees, x : Count(n, k, trees, x), empty, data)[k],
                Width(n), Width(n) + n, 0)

Inversions(data, k) ==
    Cardinality({S \in kSubset(k, DOMAIN data) :
                    \A i, j \in S : i < j => data[i] > data[j]}) % P_MOD
-----------------------------------------------------------------------------
\* lex.cpp: two substrings compared by hashes; 0-based.
calc_hash(s, base, p) ==
    LET pow[i \in 0 .. Len(s)] == IF i = 0 THEN 1 ELSE pow[i - 1] * p % base
        hash[i \in 0 .. Len(s)] == IF i = 0 THEN 0
                                   ELSE (pow[i - 1] * s[i] + hash[i - 1]) % base
    IN [hash |-> hash, pow |-> pow, base |-> base]

SameHash(h, a, c, length) ==
    h.pow[c - a] * ((h.hash[a + length] - h.hash[a] + h.base) % h.base) % h.base
    = (h.hash[c + length] - h.hash[c] + h.base) % h.base

RECURSIVE Search(_, _, _, _, _)
Search(h, a, c, l, r) ==
    LET p == (l + r + 1) \div 2
        same == \A x \in h : SameHash(x, a, c, p + 1)
    IN IF r - l <= 1 THEN l
       ELSE IF same THEN Search(h, a, c, p, r) ELSE Search(h, a, c, l, p)

Sign(x, y) == IF x < y THEN "<" ELSE IF x > y THEN ">" ELSE "hash failure"

\* The last place where a .. b and c .. d are the same, when they begin the same.
Last2(s, a, b, c, d, l) ==
    CASE a + l = b /\ c + l = d -> "="
      [] a + l = b /\ c + l < d -> "<"
      [] a + l < b /\ c + l = d -> ">"
      [] OTHER -> Sign(s[a + l + 2], s[c + l + 2])

compare(s, a, b, c, d) ==
    IF s[a + 1] # s[c + 1] THEN Sign(s[a + 1], s[c + 1])
    ELSE Last2(s, a, b, c, d,
               Search({calc_hash(s, P, P_pow), calc_hash(s, Q, Q_pow)}, a, c, 0,
                      Min({b - a + 1, d - c + 1})))

\* The substring that begins first goes first, and main turns the answer.
lex(s, a, b, c, d) ==
    IF a <= c THEN compare(s, a, b, c, d)
    ELSE CASE compare(s, c, d, a, b) = "<" -> ">"
           [] compare(s, c, d, a, b) = ">" -> "<"
           [] OTHER -> compare(s, c, d, a, b)

Lexicographic(s, a, b, c, d) ==
    LET x == SubSeq(s, a + 1, b + 1)
        y == SubSeq(s, c + 1, d + 1)
        differ == {i \in DOMAIN x \cap DOMAIN y : x[i] # y[i]}
    IN IF x = y THEN "="
       ELSE IF differ = {} THEN Sign(Len(x), Len(y)) ELSE Sign(x[Min(differ)], y[Min(differ)])
-----------------------------------------------------------------------------
\* znaczki.cpp: lines that are stamps, intervals of years or neither.
parse_data(lines) ==
    LET first == {i \in DOMAIN lines : lines[i].kind = "interval" /\ lines[i].from <= lines[i].to}
        end == Min(first \cup {Len(lines) + 1})
    IN [stamps |-> SelectSeq(SubSeq(lines, 1, end - 1), LAMBDA l : l.kind = "stamp"),
        intervals |-> SelectSeq(lines, LAMBDA l : l.kind = "interval" /\ l.from <= l.to),
        errors |-> {i \in DOMAIN lines \ first : lines[i].kind # "stamp" \/ i > end}]

\* lower_bound and upper_bound by the years of what was sorted by all.
print_solution(stamps, intervals) ==
    FlattenSeq([k \in DOMAIN intervals |->
        LET below == Cardinality({i \in DOMAIN stamps : stamps[i].year < intervals[k].from})
            upto == Cardinality({i \in DOMAIN stamps : stamps[i].year <= intervals[k].to})
        IN SubSeq(stamps, below + 1, upto)])

znaczki(lines) ==
    print_solution(Sorted(parse_data(lines).stamps,
                          LAMBDA s, t : Before(s.year, s.name, t.year, t.name)),
                   parse_data(lines).intervals)

\* The stamps before the first interval, those of its years in order for every interval.
Printed(lines) ==
    LET Valid(l) == l.kind = "interval" /\ l.from <= l.to
        early == {i \in DOMAIN lines : \A j \in 1 .. i : ~Valid(lines[j])}
        intervals == SelectSeq(lines, Valid)
        Stamp(l, k) == /\ l.kind = "stamp" /\ \E i \in early : lines[i] = l
                       /\ intervals[k].from <= l.year /\ l.year <= intervals[k].to
    IN FlattenSeq([k \in DOMAIN intervals |->
           Sorted(SelectSeq(SubSeq(lines, 1, Cardinality(early)), LAMBDA l : Stamp(l, k)),
                  LAMBDA s, t : Before(s.year, s.name, t.year, t.name))])
-----------------------------------------------------------------------------
\* PW/zadanie3/parse.c: equations and initialisation lists, text as a sequence of characters.
DigitValue == [d \in {"0", "1", "2", "3"} |-> CASE d = "0" -> 0 [] d = "1" -> 1 [] d = "2" -> 2 [] OTHER -> 3]
isdigit(c) == c \in DOMAIN DigitValue

\* A loop of the parser that skips to one of the characters.
SkipTo(text, at, chars) == Min({i \in at .. Len(text) : text[i] \in chars})

parse_number(text, at) ==
    LET behind == Min({i \in at .. Len(text) : ~isdigit(text[i])})
    IN  [value |-> FoldLeft(LAMBDA n, d : 10 * n + DigitValue[d], 0, SubSeq(text, at, behind - 1)),
         at |-> behind]

parse_variable(text, at) ==
    LET number == parse_number(text, at + 2)
    IN  [value |-> number.value, at |-> SkipTo(text, number.at, {"]"})]

new_minus_expr(child) == [type |-> "uexpr", child |-> child]
new_number_expr(value) == [type |-> "num", value |-> value]
new_variable_expr(index, pipe) == [type |-> "var", index |-> index, pipe |-> pipe]
new_binary_expr(left, right, operand) ==
    [type |-> IF operand = "+" THEN "aexpr" ELSE "mexpr", left |-> left, right |-> right]

\* The iterator stays on the last character read: the first parenthesis behind the last
\* operand, whichever expression that one closes.  desc counts the pipes of every variable.
RECURSIVE parse_expression(_, _, _)
parse_expression(text, at, desc) ==
    LET Parsed(expr, i, d) == [expr |-> expr, at |-> i, desc |-> d]
        c == text[at]
        sub == parse_expression(text, at + 2, desc)
        number == parse_number(text, at)
        variable == parse_variable(text, at)
        index == variable.value
        left == parse_expression(text, at + 1, desc)
        operator == SkipTo(text, left.at, {"*", "+"})
        right == parse_expression(text, operator + 1, left.desc)
    IN  CASE c = "\n" -> Parsed(NONE, at, desc)
          [] c = "(" /\ text[at + 1] = "-" ->
                Parsed(new_minus_expr(sub.expr), SkipTo(text, sub.at, {")"}), sub.desc)
          [] isdigit(c) -> Parsed(new_number_expr(number.value), number.at, desc)
          [] c = "x" -> Parsed(new_variable_expr(index, desc[index]), variable.at,
                               [desc EXCEPT ![index] = @ + 1])
          [] c = "(" /\ text[at + 1] # "-" ->
                Parsed(new_binary_expr(left.expr, right.expr, text[operator]),
                       SkipTo(text, right.at, {")"}), right.desc)
          [] OTHER -> parse_expression(text, at + 1, desc)

parse_equation(text) == parse_expression(text, 1, [v \in 0 .. 3 |-> 0])

\* From `at` on; init[v] is NONE where the list has no value of x[v].
RECURSIVE parse_initialization(_, _, _)
parse_initialization(text, at, init) ==
    LET variable == parse_variable(text, at)
        value == Min({i \in variable.at + 1 .. Len(text) : text[i] # " "})
        number == parse_number(text, IF text[value] = "-" THEN value + 1 ELSE value)
    IN  IF at > Len(text) THEN init
        ELSE parse_initialization(text, number.at + 1,
                 [init EXCEPT ![variable.value] =
                     IF text[value] = "-" THEN -number.value ELSE number.value])

parse_initialization_list(text) == parse_initialization(text, 1, [v \in 0 .. 3 |-> NONE])

\* communication.c: a status as a line of words, and read again.
Word(w) == [word |-> w]
NumberWord(n) == [number |-> n]
write_status(s) ==
    CASE s.status = "END" -> <<Word("END\n")>>
      [] s.status = "VALUE" -> <<NumberWord(s.round), Word("VALUE"), NumberWord(s.value)>>
      [] s.status = "NO_VALUE" -> <<NumberWord(s.round), Word("NONE\n")>>
      [] s.status = "INIT" -> <<NumberWord(s.round), Word("INIT"), NumberWord(s.value)>>
      [] s.status = "INIT_NO_VALUE" -> <<NumberWord(s.round), Word("INIT"), Word("NONE\n")>>
parse_status(line) ==
    IF line[1] = Word("END\n") THEN [status |-> "END"]
    ELSE IF line[2] = Word("NONE\n") THEN [status |-> "NO_VALUE", round |-> line[1].number]
    ELSE IF line[3] = Word("NONE\n") THEN [status |-> "INIT_NO_VALUE", round |-> line[1].number]
    ELSE [status |-> IF line[2] = Word("VALUE") THEN "VALUE" ELSE "INIT",
          round |-> line[1].number, value |-> line[3].number]

\* Expressions as an author writes them, with up to two levels, and their text.
Leaf == [type : {"num"}, digits : {<<"0">>, <<"1", "2">>}] \cup [type : {"var"}, digits : {<<"1">>, <<"3">>}]
Compound(S) == [type : {"uexpr"}, child : S] \cup [type : {"aexpr", "mexpr"}, left : S, right : S]
Written == Leaf \cup Compound(Leaf)
           \cup Compound(Compound({[type |-> "num", digits |-> <<"2">>], [type |-> "var", digits |-> <<"1">>]}))
           \cup [type : {"aexpr"}, left : Leaf, right : Compound(Leaf)]

RECURSIVE TextOf(_)
TextOf(e) ==
    CASE e.type = "num" -> e.digits
      [] e.type = "var" -> <<"x", "[">> \o e.digits \o <<"]">>
      [] e.type = "uexpr" -> <<"(", "-">> \o TextOf(e.child) \o <<")">>
      [] OTHER -> <<"(">> \o TextOf(e.left) \o <<" ", IF e.type = "aexpr" THEN "+" ELSE "*", " ">>
                  \o TextOf(e.right) \o <<")">>

\* The tree of an expression; the variables of one index get its pipes from left to right.
RECURSIVE TreeOf(_, _)
TreeOf(e, pipes) ==
    LET RECURSIVE Uses(_, _)
        Uses(f, v) == CASE f.type = "num" -> 0
                        [] f.type = "var" -> IF DigitValue[f.digits[1]] = v THEN 1 ELSE 0
                        [] f.type = "uexpr" -> Uses(f.child, v)
                        [] OTHER -> Uses(f.left, v) + Uses(f.right, v)
    IN  CASE e.type = "num" -> [type |-> "num", value |-> IF Len(e.digits) = 1 THEN DigitValue[e.digits[1]] ELSE 12]
          [] e.type = "var" ->
                [type |-> "var", index |-> DigitValue[e.digits[1]], pipe |-> pipes[DigitValue[e.digits[1]]]]
          [] e.type = "uexpr" -> [type |-> "uexpr", child |-> TreeOf(e.child, pipes)]
          [] OTHER -> [type |-> e.type, left |-> TreeOf(e.left, pipes),
                       right |-> TreeOf(e.right, [v \in DOMAIN pipes |-> pipes[v] + Uses(e.left, v)])]

\* A list gives every variable at most one value.
Initialisation == {init \in [0 .. 3 -> {NONE, -12, 0, 3}] : \E v \in 0 .. 3 : init[v] # NONE}
ListOf(init) ==
    LET Digits(n) == CASE n = -12 -> <<"-", "1", "2">> [] n = 0 -> <<"0">> [] OTHER -> <<"3">>
        Item(v) == <<"x", "[", CASE v = 0 -> "0" [] v = 1 -> "1" [] v = 2 -> "2" [] OTHER -> "3", "]", " ">>
                   \o Digits(init[v])
        given == SelectSeq(<<2, 0, 3, 1>>, LAMBDA v : init[v] # NONE)
    IN  FlattenSeq([i \in DOMAIN given |-> Item(given[i]) \o <<IF i = Len(given) THEN "\n" ELSE " ">>])

Status == [status : {"END"}] \cup [status : {"NO_VALUE", "INIT_NO_VALUE"}, round : 1 .. 2]
          \cup [status : {"VALUE", "INIT"}, round : 1 .. 2, value : -1 .. 1]
-----------------------------------------------------------------------------
\* message.h and client.cc of SIK task 1: what a client prints of the messages sent to it.
\* A timestamp is its eight bytes, the highest first; years that no int holds are left out.
Earlier(s, t) == \E i \in 1 .. 8 : s[i] < t[i] /\ \A j \in 1 .. i - 1 : s[j] = t[j]
YEAR_1717 == <<255, 255, 255, 254, 36, 31, 175, 0>>
YEAR_4243 == <<0, 0, 0, 16, 179, 96, 174, 0>>
isinvalid_message(timestamp) ==
    IF timestamp[1] > 127 THEN Earlier(timestamp, YEAR_1717) ELSE ~Earlier(timestamp, YEAR_4243)

\* Of a little-endian machine.
htonll(timestamp) == Reverse(timestamp)
send_message(m) == htonll(m.timestamp) \o <<m.letter>> \o m.data

\* The datagram overwrites the front of the buffer, which an invalid one leaves as it is.
receive_message(r, datagram) ==
    LET buf == datagram \o SubSeq(r.buf, Len(datagram) + 1, Len(r.buf))
        timestamp == htonll(SubSeq(buf, 1, 8))
        ends == {i \in 10 .. Len(buf) : buf[i] = 0} \cup {Len(buf) + 1}
    IN  IF isinvalid_message(timestamp) THEN [r EXCEPT !.buf = buf]
        ELSE [buf |-> << >>,
              printed |-> Append(r.printed, [timestamp |-> timestamp, letter |-> buf[9],
                                             data |-> SubSeq(buf, 10, Min(ends) - 1)])]

message(sent) ==
    FoldLeft(LAMBDA r, m : receive_message(r, send_message(m)),
             [buf |-> << >>, printed |-> << >>], sent).printed

\* The messages of years from 1717 to 4242; behind the data of each, what is longer of the
\* invalid ones that came since the last valid one.
Heard(sent) ==
    LET Valid(i) == ~isinvalid_message(sent[i].timestamp)
        Since(i) == {j \in 1 .. i : \A k \in j .. i - 1 : ~Valid(k)}
        Longer(i, k) == {j \in Since(i) : Len(sent[j].data) >= k}
        Data(i) == [k \in 1 .. Max({Len(sent[j].data) : j \in Since(i)}) |->
                       sent[Max(Longer(i, k))].data[k]]
        valid == SelectSeq([i \in DOMAIN sent |-> i], Valid)
    IN  [n \in DOMAIN valid |-> [sent[valid[n]] EXCEPT !.data = Data(valid[n])]]

\* Around the limits: 4242-12-31, 4243-01-01, 1969-12-31, 1717-01-01, 1716-12-31.
Timestamp == {<<0, 0, 0, 16, 179, 96, 173, 255>>, YEAR_4243, [i \in 1 .. 8 |-> 255],
              YEAR_1717, <<255, 255, 255, 254, 36, 31, 174, 255>>}
Message == [timestamp : Timestamp, letter : {0, 97}, data : {<< >>, <<98>>, <<99, 100, 101>>}]
-----------------------------------------------------------------------------
Ordinal == 0 .. 2
Segment == {s \in [x : {0, 1}, y1 : Ordinal, y2 : Ordinal] : s.y1 <= s.y2}
Query == {q \in [l : Ordinal, r : Ordinal, d : Ordinal] : q.l <= q.r}
Line == [kind : {"interval"}, from : {1, 2}, to : {1, 2}] \cup [kind : {"junk"}]
        \cup [kind : {"stamp"}, year : {1, 2}, name : {1, 2}]
Substring(s) == {<<a, b>> \in (0 .. Len(s) - 1) \X (0 .. Len(s) - 1) : a <= b}
Permutation(k) == UNION {Orders(m) : m \in 1 .. k}

Ask(program, inputs) ==
    /\ asked = NONE
    /\ \E input \in inputs : asked' = [program |-> program, input |-> input]

Init == asked = NONE
Next ==
    \/ Ask("odc", BoundedSeq(Segment, 3))
    \/ Ask("szy", BoundedSeq(Ordinal, 5))
    \/ Ask("mro", BoundedSeq(Ordinal, 3) \X BoundedSeq(Query, 2))
    \/ Ask("easy", BoundedSeq({-1, 1, 2}, 7))
    \/ Ask("heap_sort", {s \in BoundedSeq(Ordinal, 5) : Len(s) > 1} \cup (Orders(6)))
    \/ Ask("baz", {s \in BoundedSeq(0 .. 4, 5) : Increasing(s)} \X (1 .. 5))
    \/ Ask("mat", BoundedSeq({"*", "a", "b"}, 5))
    \/ Ask("sor", Permutation(5))
    \/ Ask("kin", Permutation(5) \X (1 .. 4))
    \/ Ask("lex", {97, 98} \X BoundedSeq({97, 98}, 3))
    \/ Ask("znaczki", BoundedSeq(Line, 3))
    \/ Ask("expression", Written)
    \/ Ask("initialisation", Initialisation)
    \/ Ask("status", Status)
    \/ Ask("message", BoundedSeq(Message, 2) \cup [1 .. 3 -> {m \in Message : m.letter = 97}])

Spec == Init /\ [][Next]_sequenceVars
-----------------------------------------------------------------------------
\* What a program prints is what the plain definition of its task gives, for all the inputs of
\* Next.  These leave out: fewer than two values for heap_sort, whose main sorts five (the
\* counts it computes of none or one are below zero); a number chosen of fewer costs, and
\* costs that do not grow, for baz; rows in which a number stands twice for sor and kin.
AnswerRight(program, input) ==
    CASE program = "odc" -> odc(input) = Meetings(input)
      [] program = "szy" -> szy(input) = PairsApart(input)
      [] program = "mro" -> mro(input[1], input[2]) = MovedOneByOne(input[1], input[2])
      [] program = "easy" -> easy(input) = BestTaking(input)
      [] program = "heap_sort" ->
            /\ \A i \in 1 .. Len(input) - 1 : heap_sort(input)[i - 1] <= heap_sort(input)[i]
            /\ \A v \in ToSet(input) : Cardinality({i \in DOMAIN input : input[i] = v})
                      = Cardinality({i \in 0 .. Len(input) - 1 : heap_sort(input)[i] = v})
      [] program = "baz" ->
            input[2] <= Len(input[1]) => baz(input[1], input[2]) = LargestOdd(input[1], input[2])
      [] program = "mat" -> mat(input) = Strip(input)
      [] program = "sor" -> sor(input) = OrdersOf(input) % P_MOD
      [] program = "kin" -> kin(input[1], input[2]) = Inversions(input[1], input[2])
      [] program = "lex" ->
            LET s == <<input[1]>> \o input[2] IN
            \A x, y \in Substring(s) :
                lex(s, x[1], x[2], y[1], y[2]) = Lexicographic(s, x[1], x[2], y[1], y[2])
      [] program = "znaczki" ->
            /\ znaczki(input) = Printed(input)
            /\ Cardinality(parse_data(input).errors) + Len(parse_data(input).stamps)
               + Len(parse_data(input).intervals) = Len(input)
      [] program = "expression" ->
            parse_equation(TextOf(input) \o <<"\n">>).expr = TreeOf(input, [v \in 0 .. 3 |-> 0])
      [] program = "initialisation" -> parse_initialization_list(ListOf(input)) = input
      [] program = "status" -> parse_status(write_status(input)) = input
      [] program = "message" -> message(input) = Heard(input)

AnswersRight == asked # NONE => AnswerRight(asked.program, asked.input)
=============================================================================
