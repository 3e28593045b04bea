---------------------------- MODULE Counts_proofs ----------------------------
(***************************************************************************)
(* Proofs about the programs that keep sums, coverings and counts.  The    *)
(* library's induction theorems take an operator, so this module first     *)
(* derives induction for a SET of numbers or of finite subsets, from it    *)
(* that the folds of the community modules exist and what they keep, and   *)
(* from that how a sum changes with one of its terms.  Then: schedule.c    *)
(* keeps its tokens, votes_api its sums, geometry.cc its tiling, the towns *)
(* of JNP 1 the number of their living and the hours of their attacks.     *)
(***************************************************************************)
EXTENDS Services_proofs, SequencesExt, WellFoundedInduction

-----------------------------------------------------------------------------
(* Induction over numbers and finite sets *)

\* A set of numbers has a least one.
LEMMA LeastNumber ==
  ASSUME NEW B \in SUBSET Nat, B # {}
  PROVE  \E m \in B : \A k \in B : m <= k
<1> DEFINE R == {p \in Nat \X Nat : p[1] < p[2]}
<1>1. IsWellFoundedOn(R, Nat)
  <2>1. OpToRel(<, Nat) = R
    BY DEF OpToRel
  <2> QED BY <2>1, NatLessThanWellFounded
<1>2. PICK m \in B : \A k \in B : ~ (<<k, m>> \in R)
  <2> HIDE DEF R
  <2> QED BY <1>1, WFMin
<1>3. ASSUME NEW k \in B PROVE m <= k
  <2>1. k \in Nat /\ m \in Nat /\ ~ (<<k, m>> \in R)
    BY <1>2
  <2> QED BY <2>1
<1> QED BY <1>3

\* Induction over the numbers, for a set of them.
LEMMA NumberInduction ==
  ASSUME NEW A, 0 \in A, \A n \in Nat : n \in A => n + 1 \in A
  PROVE  Nat \subseteq A
<1> SUFFICES ASSUME Nat \ A # {} PROVE FALSE
  OBVIOUS
<1>1. PICK m \in Nat \ A : \A k \in Nat \ A : m <= k
  BY LeastNumber
<1>2. m - 1 \in Nat
  OBVIOUS
<1>3. m - 1 \in A
  BY <1>1, <1>2
<1>4. m - 1 + 1 \in A
  BY <1>2, <1>3
<1> QED BY <1>4

\* The subsets of a finite set have sizes, and lose one with an element.
LEMMA Sizes ==
  ASSUME NEW S, IsFiniteSet(S), NEW T \in SUBSET S
  PROVE  /\ IsFiniteSet(T) /\ Cardinality(T) \in Nat /\ Cardinality(T) <= Cardinality(S)
         /\ Cardinality(T) = 0 <=> T = {}
         /\ \A x \in T : Cardinality(T) > 0 /\ Cardinality(T \ {x}) = Cardinality(T) - 1
<1>1. IsFiniteSet(T) /\ Cardinality(T) <= Cardinality(S)
  BY FS_Subset
<1>2. Cardinality(T) \in Nat
  BY <1>1, FS_CardinalityType
<1>3. Cardinality(T) = 0 <=> T = {}
  BY <1>1, FS_EmptySet
<1>4. \A x \in T : Cardinality(T \ {x}) = Cardinality(T) - 1
  BY <1>1, FS_RemoveElement
<1> QED BY <1>1, <1>2, <1>3, <1>4

\* Induction over the subsets of a finite set.
LEMMA SubsetInduction ==
  ASSUME NEW S, IsFiniteSet(S), NEW A, {} \in A,
         \A T \in SUBSET S : T # {} /\ (\A x \in T : T \ {x} \in A) => T \in A
  PROVE  SUBSET S \subseteq A
<1> DEFINE Sound == {n \in Nat : \A T \in SUBSET S : Cardinality(T) = n => T \in A}
<1>1. 0 \in Sound
  BY Sizes
<1>2. ASSUME NEW n \in Nat, n \in Sound PROVE n + 1 \in Sound
  <2> SUFFICES ASSUME NEW T \in SUBSET S, Cardinality(T) = n + 1 PROVE T \in A
    OBVIOUS
  <2>1. T # {}
    BY Sizes
  <2>2. ASSUME NEW x \in T PROVE T \ {x} \in A
    <3>1. T \ {x} \in SUBSET S /\ Cardinality(T \ {x}) = n
      BY Sizes
    <3> QED BY <3>1, <1>2
  <2> QED BY <2>1, <2>2
<1>3. Nat \subseteq Sound
  <2> HIDE DEF Sound
  <2> QED BY <1>1, <1>2, NumberInduction
<1> SUFFICES ASSUME NEW T \in SUBSET S PROVE T \in A
  OBVIOUS
<1>4. Cardinality(T) \in Nat
  BY Sizes
<1> QED BY <1>3, <1>4

-----------------------------------------------------------------------------
(* Folds over finite sets, as MapThenFoldSet makes them *)

\* An element is chosen from every set.
Chooses(ch, S) == \A T \in SUBSET S : T # {} => ch[T] \in T

\* What a fold over T is, from the fold over T without the element that is chosen.
Fold(it, T, F, base, ch) == IF T = {} THEN base ELSE F[<<ch[T], it[T \ {ch[T]}]>>]

IsFold(it, S, F, base, ch) == \A T \in SUBSET S : it[T] = Fold(it, T, F, base, ch)

\* The same for the subsets of up to n elements.
FoldsTo(it, S, F, base, ch, n) ==
    \A T \in SUBSET S : Cardinality(T) <= n => it[T] = Fold(it, T, F, base, ch)

\* There is a function that is the fold of every subset, with the values F keeps to.
LEMMA FoldExists ==
  ASSUME NEW S, IsFiniteSet(S), NEW V, NEW F \in [S \X V -> V], NEW base \in V,
         NEW ch, Chooses(ch, S)
  PROVE  \E it \in [SUBSET S -> V] : IsFold(it, S, F, base, ch)
<1> USE DEF Chooses
<1> DEFINE Good(n) == \E it \in [SUBSET S -> V] : FoldsTo(it, S, F, base, ch, n)
           Goods == {n \in Nat : Good(n)}
<1>1. 0 \in Goods
  <2> DEFINE it == [T \in SUBSET S |-> base]
  <2>1. it \in [SUBSET S -> V]
    OBVIOUS
  <2>2. ASSUME NEW T \in SUBSET S, Cardinality(T) <= 0
        PROVE  it[T] = Fold(it, T, F, base, ch)
    <3>1. T = {}
      BY <2>2, Sizes
    <3> QED BY <3>1 DEF Fold
  <2>3. FoldsTo(it, S, F, base, ch, 0)
    BY <2>2 DEF FoldsTo
  <2> HIDE DEF it
  <2> QED BY <2>1, <2>3
<1>2. ASSUME NEW n \in Nat, n \in Goods PROVE n + 1 \in Goods
  <2>1. PICK old \in [SUBSET S -> V] : FoldsTo(old, S, F, base, ch, n)
    BY <1>2
  <2> DEFINE new == [T \in SUBSET S |-> Fold(old, T, F, base, ch)]
  <2>2. ASSUME NEW T \in SUBSET S PROVE Fold(old, T, F, base, ch) \in V
    <3>1. CASE T = {}
      BY <3>1 DEF Fold
    <3>2. CASE T # {}
      <4>1. ch[T] \in S /\ T \ {ch[T]} \in SUBSET S
        BY <3>2
      <4>2. old[T \ {ch[T]}] \in V
        BY <4>1
      <4>3. <<ch[T], old[T \ {ch[T]}]>> \in S \X V
        BY <4>1, <4>2
      <4> QED BY <3>2, <4>3 DEF Fold
    <3> QED BY <3>1, <3>2
  <2>3. new \in [SUBSET S -> V]
    BY <2>2
  <2>4. ASSUME NEW T \in SUBSET S, Cardinality(T) <= n PROVE new[T] = old[T]
    BY <2>1, <2>4 DEF FoldsTo
  <2>5. ASSUME NEW T \in SUBSET S, Cardinality(T) <= n + 1
        PROVE  new[T] = Fold(new, T, F, base, ch)
    <3>1. CASE T = {}
      BY <3>1 DEF Fold
    <3>2. CASE T # {}
      <4>1. ch[T] \in T /\ T \ {ch[T]} \in SUBSET S
        BY <3>2
      <4>2. Cardinality(T \ {ch[T]}) <= n
        BY <4>1, <2>5, Sizes
      <4>3. new[T \ {ch[T]}] = old[T \ {ch[T]}]
        BY <2>4, <4>1, <4>2
      <4> QED BY <3>2, <4>3 DEF Fold
    <3> QED BY <3>1, <3>2
  <2> HIDE DEF new
  <2> QED BY <2>3, <2>5 DEF FoldsTo
<1>3. Good(Cardinality(S))
  <2>1. Nat \subseteq Goods
    <3> HIDE DEF Goods
    <3> QED BY <1>1, <1>2, NumberInduction
  <2>2. Cardinality(S) \in Nat
    BY FS_CardinalityType
  <2> QED BY <2>1, <2>2
<1>4. PICK it \in [SUBSET S -> V] : FoldsTo(it, S, F, base, ch, Cardinality(S))
  BY <1>3
<1>5. \A T \in SUBSET S : it[T] = Fold(it, T, F, base, ch)
  BY <1>4, Sizes DEF FoldsTo
<1> QED BY <1>5 DEF IsFold

\* Two functions agree on a set when they agree on it without the element chosen.
Agree(f, g, S, ch) ==
    \A T \in SUBSET S : (T # {} => f[T \ {ch[T]}] = g[T \ {ch[T]}]) => f[T] = g[T]

\* So there is only one such function.
LEMMA FoldUnique ==
  ASSUME NEW S, IsFiniteSet(S), NEW ch, Chooses(ch, S), NEW f, NEW g, Agree(f, g, S, ch)
  PROVE  \A T \in SUBSET S : f[T] = g[T]
<1> DEFINE A == {T \in SUBSET S : f[T] = g[T]}
<1>1. {} \in A
  BY DEF Agree
<1>2. ASSUME NEW T \in SUBSET S, T # {}, \A x \in T : T \ {x} \in A PROVE T \in A
  BY <1>2 DEF Agree, Chooses
<1>3. SUBSET S \subseteq A
  <2> HIDE DEF A
  <2> QED BY <1>1, <1>2, SubsetInduction
<1> QED BY <1>3

-----------------------------------------------------------------------------
(* Sums *)

\* A function of sets adds up the values of f, whichever element is taken first.
AddsUp(it, f, S) ==
    /\ it \in [SUBSET S -> Int]
    /\ it[{}] = 0
    /\ \A T \in SUBSET S : \A x \in T : it[T] = f[x] + it[T \ {x}]

\* The sums of the community modules add up.
LEMMA SumAddsUp ==
  ASSUME NEW S, IsFiniteSet(S), NEW f \in [S -> Int]
  PROVE  \E it : AddsUp(it, f, S) /\ SumFunctionOnSet(f, S) = it[S]
<1> DEFINE ch == [T \in SUBSET S |-> CHOOSE x \in T : TRUE]
           F == [p \in S \X Int |-> f[p[1]] + p[2]]
           Iter(it) == [T \in SUBSET S |-> IF T = {} THEN 0
               ELSE f[CHOOSE x \in T : TRUE] + it[T \ {CHOOSE x \in T : TRUE}]]
<1>1. Chooses(ch, S)
  BY DEF Chooses
<1>2. F \in [S \X Int -> Int]
  OBVIOUS
<1>3. PICK any \in [SUBSET S -> Int] : IsFold(any, S, F, 0, ch)
  <2>1. 0 \in Int
    OBVIOUS
  <2> HIDE DEF ch, F
  <2> QED BY <1>1, <1>2, <2>1, FoldExists, Zenon
<1>4. \A T \in SUBSET S : T # {} => ch[T] \in T /\ any[T] = f[ch[T]] + any[T \ {ch[T]}]
  <2> SUFFICES ASSUME NEW T \in SUBSET S, T # {} PROVE any[T] = f[ch[T]] + any[T \ {ch[T]}]
    BY <1>1 DEF Chooses
  <2>1. any[T] = F[<<ch[T], any[T \ {ch[T]}]>>]
    <3> HIDE DEF ch, F
    <3> QED BY <1>3 DEF IsFold, Fold
  <2>2. ch[T] \in S /\ any[T \ {ch[T]}] \in Int
    BY <1>1 DEF Chooses
  <2> HIDE DEF ch
  <2> QED BY <2>1, <2>2
<1>5. any[{}] = 0
  BY <1>3 DEF IsFold, Fold
<1>6. any = Iter(any)
  <2> SUFFICES ASSUME NEW T \in SUBSET S, T # {}
               PROVE  any[T] = f[CHOOSE x \in T : TRUE] + any[T \ {CHOOSE x \in T : TRUE}]
    BY <1>5
  <2>1. ch[T] = CHOOSE x \in T : TRUE
    OBVIOUS
  <2>2. any[T] = f[ch[T]] + any[T \ {ch[T]}]
    BY <1>4
  <2> HIDE DEF ch
  <2> QED BY <2>1, <2>2
<1>7. PICK it : it = (CHOOSE i : i = Iter(i)) /\ it = Iter(it)
  <2> HIDE DEF Iter
  <2> QED BY <1>6
<1>8. \A T \in SUBSET S : it[T] = any[T]
  <2>1. ASSUME NEW T \in SUBSET S, T # {} => it[T \ {ch[T]}] = any[T \ {ch[T]}]
        PROVE  it[T] = any[T]
    <3>1. it[T] = Iter(it)[T] /\ any[T] = Iter(any)[T]
      <4> HIDE DEF Iter
      <4> QED BY <1>6, <1>7
    <3> QED BY <3>1, <2>1
  <2>2. Agree(it, any, S, ch)
    <3> HIDE DEF ch
    <3> QED BY <2>1 DEF Agree
  <2> HIDE DEF ch, Iter
  <2> QED BY <1>1, <2>2, FoldUnique
<1>9. SumFunctionOnSet(f, S) = any[S]
  BY <1>7, <1>8 DEF SumFunctionOnSet, FoldFunctionOnSet, MapThenFoldSet
<1> HIDE DEF Iter, ch, F
<1> DEFINE A == {T \in SUBSET S : \A x \in T : any[T] = f[x] + any[T \ {x}]}
<1>10. {} \in A
  OBVIOUS
<1>11. ASSUME NEW T \in SUBSET S, T # {}, \A x \in T : T \ {x} \in A PROVE T \in A
  <2> SUFFICES ASSUME NEW x \in T PROVE any[T] = f[x] + any[T \ {x}]
    OBVIOUS
  <2>1. PICK y \in T : any[T] = f[y] + any[T \ {y}]
    BY <1>4, <1>11
  <2>2. CASE x = y
    BY <2>1, <2>2
  <2>3. CASE x # y
    <3>1. any[T \ {y}] = f[x] + any[(T \ {y}) \ {x}]
      BY <1>11, <2>3
    <3>2. any[T \ {x}] = f[y] + any[(T \ {y}) \ {x}]
      <4>1. any[T \ {x}] = f[y] + any[(T \ {x}) \ {y}]
        BY <1>11, <2>3
      <4>2. (T \ {y}) \ {x} = (T \ {x}) \ {y}
        OBVIOUS
      <4> QED BY <4>1, <4>2, Zenon
    <3> DEFINE rest == any[(T \ {y}) \ {x}]
    <3>3. f[x] \in Int /\ f[y] \in Int /\ rest \in Int
      OBVIOUS
    <3>4. any[T] = f[y] + (f[x] + rest) /\ any[T \ {x}] = f[y] + rest
      BY <2>1, <3>1, <3>2, Zenon
    <3> HIDE DEF A, rest
    <3> QED BY <3>3, <3>4
  <2> QED BY <2>2, <2>3
<1>12. SUBSET S \subseteq A
  <2> HIDE DEF A
  <2> QED BY <1>10, <1>11, SubsetInduction
<1>13. AddsUp(any, f, S)
  BY <1>5, <1>12 DEF AddsUp
<1> QED BY <1>9, <1>13

\* Sums are numbers.
LEMMA SumIsInt ==
  ASSUME NEW S, IsFiniteSet(S), NEW f \in [S -> Int]
  PROVE  SumFunctionOnSet(f, S) \in Int
<1>1. PICK it : AddsUp(it, f, S) /\ SumFunctionOnSet(f, S) = it[S]
  BY SumAddsUp
<1> QED BY <1>1 DEF AddsUp

\* When f becomes smaller by d on P, its sum becomes smaller by the sum of d.
LEMMA SumMoves ==
  ASSUME NEW S, IsFiniteSet(S), NEW P \in SUBSET S,
         NEW f \in [S -> Int], NEW g \in [S -> Int], NEW d \in [P -> Int],
         \A x \in S : g[x] = IF x \in P THEN f[x] - d[x] ELSE f[x]
  PROVE  SumFunctionOnSet(g, S) = SumFunctionOnSet(f, S) - SumFunctionOnSet(d, P)
<1>1. IsFiniteSet(P)
  BY FS_Subset
<1>2. PICK before : AddsUp(before, f, S) /\ SumFunctionOnSet(f, S) = before[S]
  BY SumAddsUp
<1>3. PICK after : AddsUp(after, g, S) /\ SumFunctionOnSet(g, S) = after[S]
  BY SumAddsUp
<1>4. PICK less : AddsUp(less, d, P) /\ SumFunctionOnSet(d, P) = less[P]
  BY <1>1, SumAddsUp
<1> DEFINE A == {T \in SUBSET S : after[T] = before[T] - less[T \cap P]}
<1>5. {} \in A
  <2>1. {} \cap P = {}
    OBVIOUS
  <2> QED BY <1>2, <1>3, <1>4, <2>1 DEF AddsUp
<1>6. ASSUME NEW T \in SUBSET S, T # {}, \A x \in T : T \ {x} \in A PROVE T \in A
  <2>1. PICK x \in T : TRUE
    BY <1>6
  <2>2. after[T \ {x}] = before[T \ {x}] - less[(T \ {x}) \cap P]
    BY <1>6
  <2>3. after[T] = g[x] + after[T \ {x}] /\ before[T] = f[x] + before[T \ {x}]
    BY <1>2, <1>3 DEF AddsUp
  <2>4. /\ after[T \ {x}] \in Int /\ before[T \ {x}] \in Int /\ less[(T \ {x}) \cap P] \in Int
        /\ f[x] \in Int /\ g[x] \in Int
    BY <1>2, <1>3, <1>4 DEF AddsUp
  <2>5. CASE x \in P
    <3>1. (T \ {x}) \cap P = (T \cap P) \ {x} /\ T \cap P \in SUBSET P /\ x \in T \cap P
      BY <2>5
    <3>2. less[T \cap P] = d[x] + less[(T \ {x}) \cap P]
      <4>1. less[T \cap P] = d[x] + less[(T \cap P) \ {x}]
        BY <1>4, <3>1 DEF AddsUp
      <4> QED BY <3>1, <4>1, Zenon
    <3>3. g[x] = f[x] - d[x] /\ d[x] \in Int
      BY <2>5
    <3> QED BY <2>2, <2>3, <2>4, <3>2, <3>3
  <2>6. CASE x \notin P
    <3>1. (T \ {x}) \cap P = T \cap P
      BY <2>6
    <3>2. g[x] = f[x]
      BY <2>6
    <3> QED BY <2>2, <2>3, <2>4, <3>1, <3>2
  <2> QED BY <2>5, <2>6
<1>7. SUBSET S \subseteq A
  <2> HIDE DEF A
  <2> QED BY <1>5, <1>6, SubsetInduction
<1>8. S \in A /\ S \cap P = P
  BY <1>7
<1> QED BY <1>2, <1>3, <1>4, <1>8

\* The sum over one place.
LEMMA SumOfOne ==
  ASSUME NEW x, NEW d \in [{x} -> Int]
  PROVE  SumFunctionOnSet(d, {x}) = d[x]
<1>1. IsFiniteSet({x})
  BY FS_Singleton
<1>2. PICK it : AddsUp(it, d, {x}) /\ SumFunctionOnSet(d, {x}) = it[{x}]
  BY <1>1, SumAddsUp
<1>3. {x} \ {x} = {}
  OBVIOUS
<1> QED BY <1>2, <1>3 DEF AddsUp
\* The sum of zeros is 0.
LEMMA SumOfZeros ==
  ASSUME NEW S, IsFiniteSet(S), NEW f \in [S -> Int], \A x \in S : f[x] = 0
  PROVE  SumFunctionOnSet(f, S) = 0
<1>1. PICK it : AddsUp(it, f, S) /\ SumFunctionOnSet(f, S) = it[S]
  BY SumAddsUp
<1> DEFINE A == {T \in SUBSET S : it[T] = 0}
<1>2. {} \in A
  BY <1>1 DEF AddsUp
<1>3. ASSUME NEW T \in SUBSET S, T # {}, \A x \in T : T \ {x} \in A PROVE T \in A
  <2>1. PICK x \in T : TRUE
    BY <1>3
  <2>2. it[T \ {x}] = 0
    BY <1>3
  <2>3. it[T] = f[x] + it[T \ {x}] /\ f[x] = 0
    BY <1>1 DEF AddsUp
  <2>4. it[T] = 0 + 0
    BY <2>2, <2>3, Zenon
  <2> QED BY <2>4
<1>4. SUBSET S \subseteq A
  <2> HIDE DEF A
  <2> QED BY <1>2, <1>3, SubsetInduction
<1> QED BY <1>1, <1>4

\* The sum of ones is the number of the terms.
LEMMA SumOfOnes ==
  ASSUME NEW S, IsFiniteSet(S), NEW f \in [S -> Int], \A x \in S : f[x] = 1
  PROVE  SumFunctionOnSet(f, S) = Cardinality(S)
<1>1. PICK it : AddsUp(it, f, S) /\ SumFunctionOnSet(f, S) = it[S]
  BY SumAddsUp
<1> DEFINE A == {T \in SUBSET S : it[T] = Cardinality(T)}
<1>2. {} \in A
  BY <1>1, FS_EmptySet DEF AddsUp
<1>3. ASSUME NEW T \in SUBSET S, T # {}, \A x \in T : T \ {x} \in A PROVE T \in A
  <2>1. PICK x \in T : TRUE
    BY <1>3
  <2>2. it[T \ {x}] = Cardinality(T \ {x})
    BY <1>3
  <2>3. it[T] = f[x] + it[T \ {x}] /\ f[x] = 1
    BY <1>1 DEF AddsUp
  <2>4. Cardinality(T \ {x}) = Cardinality(T) - 1 /\ Cardinality(T) \in Nat
    BY Sizes
  <2>5. it[T] = 1 + (Cardinality(T) - 1)
    BY <2>2, <2>3, <2>4, Zenon
  <2> QED BY <2>4, <2>5
<1>4. SUBSET S \subseteq A
  <2> HIDE DEF A
  <2> QED BY <1>2, <1>3, SubsetInduction
<1> QED BY <1>1, <1>4


-----------------------------------------------------------------------------
(* The tokens of schedule.c *)

\* The schedule adds up as the lemmas above do.
LEMMA TokenSums == \A f : Tokens!SumFunction(f) = SumFunction(f)
BY DEF SumFunction, SumFunctionOnSet, FoldFunctionOnSet, MapThenFoldSet,
       Tokens!SumFunction, Tokens!SumFunctionOnSet, Tokens!FoldFunctionOnSet, Tokens!MapThenFoldSet

SlotRow == [inUse : BOOLEAN, priority : Tokens!Priority, max_priority : Tokens!Priority,
            tok_sys_time : Int, used_sys_time : Nat]

\* What the slots of s hold.
HeldBy(s) == SumFunction([p \in Tokens!Proc |-> s[p].tok_sys_time])

\* No slot holds more than MAX_TOKENS or was charged more than it used; one out of use
\* holds nothing, or the tokens of a start that failed.
SlotsOK(s) ==
    /\ s \in [Tokens!Proc -> SlotRow]
    /\ \A p \in Tokens!Proc :
          /\ s[p].tok_sys_time <= MAX_TOKENS
          /\ ~s[p].inUse => s[p].tok_sys_time \in {0, MAX_TOKENS}

Charged(s) == \A p \in Tokens!Proc : s[p].used_sys_time <= cpu[p]

TokenInv ==
    /\ tokens \in Int /\ proc_nr \in Tokens!Proc /\ spent \in Int /\ forgotten \in Int
    /\ last_fill \in Nat /\ uptime \in Nat /\ last_fill <= uptime /\ uptime <= MaxTicks
    /\ cpu \in [Tokens!Proc -> Nat] /\ runnable \subseteq Tokens!Proc
    /\ SlotsOK(slot) /\ Charged(slot)
    /\ tokens + HeldBy(slot) + spent + forgotten = last_fill

\* There are finitely many process numbers.
LEMMA ProcsAreFinite ==
    ASSUME Tokens!SchedulerConstants
    PROVE  IsFiniteSet(Tokens!Proc) /\ Tokens!Proc \in SUBSET Nat
<1>1. NR_PROCS - 1 \in Int /\ 0 \in Int
  BY DEF Tokens!SchedulerConstants
<1> QED BY <1>1, FS_Interval DEF Tokens!Proc, Tokens!SchedulerConstants

\* The tokens held add up to a number.
LEMMA HeldIsInt ==
    ASSUME Tokens!SchedulerConstants, NEW s, SlotsOK(s)
    PROVE  HeldBy(s) \in Int
<1> DEFINE f == [p \in Tokens!Proc |-> s[p].tok_sys_time]
<1>1. f \in [Tokens!Proc -> Int]
  BY DEF SlotsOK, SlotRow
<1>2. HeldBy(s) = SumFunctionOnSet(f, Tokens!Proc)
  BY DEF HeldBy, SumFunction
<1> HIDE DEF f
<1> QED BY <1>1, <1>2, ProcsAreFinite, SumIsInt

\* Slots that hold d less on P hold its sum less together.
LEMMA HeldMoves ==
    ASSUME Tokens!SchedulerConstants, NEW s, SlotsOK(s), NEW t, SlotsOK(t),
           NEW P \in SUBSET Tokens!Proc, NEW d \in [P -> Int],
           \A p \in Tokens!Proc :
              t[p].tok_sys_time = IF p \in P THEN s[p].tok_sys_time - d[p] ELSE s[p].tok_sys_time
    PROVE  /\ HeldBy(t) = HeldBy(s) - SumFunction(d)
           /\ SumFunction(d) \in Int
<1> DEFINE f == [p \in Tokens!Proc |-> s[p].tok_sys_time]
           g == [p \in Tokens!Proc |-> t[p].tok_sys_time]
<1>1. f \in [Tokens!Proc -> Int] /\ g \in [Tokens!Proc -> Int]
  BY DEF SlotsOK, SlotRow
<1>2. HeldBy(s) = SumFunctionOnSet(f, Tokens!Proc) /\ HeldBy(t) = SumFunctionOnSet(g, Tokens!Proc)
  BY DEF HeldBy, SumFunction
<1>3. SumFunction(d) = SumFunctionOnSet(d, P)
  BY DEF SumFunction
<1>4. \A p \in Tokens!Proc : g[p] = IF p \in P THEN f[p] - d[p] ELSE f[p]
  OBVIOUS
<1>5. IsFiniteSet(Tokens!Proc) /\ IsFiniteSet(P)
  BY ProcsAreFinite, FS_Subset
<1> HIDE DEF f, g
<1>6. SumFunctionOnSet(g, Tokens!Proc) = SumFunctionOnSet(f, Tokens!Proc) - SumFunctionOnSet(d, P)
  BY <1>1, <1>4, <1>5, SumMoves
<1>7. SumFunctionOnSet(d, P) \in Int
  BY <1>5, SumIsInt
<1> QED BY <1>2, <1>3, <1>6, <1>7

\* The same when only one slot changes.
LEMMA HeldMovesAt ==
    ASSUME Tokens!SchedulerConstants, NEW s, SlotsOK(s), NEW t, SlotsOK(t),
           NEW q \in Tokens!Proc,
           \A p \in Tokens!Proc : p # q => t[p].tok_sys_time = s[p].tok_sys_time
    PROVE  HeldBy(t) = HeldBy(s) - s[q].tok_sys_time + t[q].tok_sys_time
<1> DEFINE d == [p \in {q} |-> s[q].tok_sys_time - t[q].tok_sys_time]
<1>1. s[q].tok_sys_time \in Int /\ t[q].tok_sys_time \in Int
  BY DEF SlotsOK, SlotRow
<1>2. d \in [{q} -> Int] /\ d[q] = s[q].tok_sys_time - t[q].tok_sys_time
  BY <1>1
<1>3. \A p \in Tokens!Proc :
        t[p].tok_sys_time = IF p \in {q} THEN s[p].tok_sys_time - d[p] ELSE s[p].tok_sys_time
  BY <1>1, <1>2
<1>4. SumFunction(d) = d[q]
  <2>1. SumFunction(d) = SumFunctionOnSet(d, {q})
    BY DEF SumFunction
  <2> HIDE DEF d
  <2> QED BY <1>2, <2>1, SumOfOne
<1>5. HeldBy(t) = HeldBy(s) - SumFunction(d)
  <2> HIDE DEF d
  <2> QED BY <1>2, <1>3, HeldMoves
<1> HIDE DEF d
<1> QED BY <1>1, <1>2, <1>4, <1>5, HeldIsInt

\* And when none does.
LEMMA HeldStays ==
    ASSUME Tokens!SchedulerConstants, NEW s, SlotsOK(s), NEW t, SlotsOK(t),
           \A p \in Tokens!Proc : t[p].tok_sys_time = s[p].tok_sys_time
    PROVE  HeldBy(t) = HeldBy(s)
<1>1. [p \in Tokens!Proc |-> s[p].tok_sys_time] = [p \in Tokens!Proc |-> t[p].tok_sys_time]
  OBVIOUS
<1> QED BY <1>1 DEF HeldBy

\* The smaller and the larger of two numbers.
LEMMA MinMaxOfTwo ==
    ASSUME NEW a \in Int, NEW b \in Int
    PROVE  /\ Tokens!Min({a, b}) = IF a <= b THEN a ELSE b
           /\ Tokens!Max({a, b}) = IF a <= b THEN b ELSE a
<1>1. \E x \in {a, b} : \A y \in {a, b} : x <= y
  OBVIOUS
<1>2. \E x \in {a, b} : \A y \in {a, b} : x >= y
  OBVIOUS
<1>3. Tokens!Min({a, b}) \in {a, b} /\ \A y \in {a, b} : Tokens!Min({a, b}) <= y
  BY <1>1 DEF Tokens!Min
<1>4. Tokens!Max({a, b}) \in {a, b} /\ \A y \in {a, b} : Tokens!Max({a, b}) >= y
  BY <1>2 DEF Tokens!Max
<1> QED BY <1>3, <1>4

\* A row that is charged.
Charge(r, x, y) == [r EXCEPT !.tok_sys_time = x, !.used_sys_time = y]

\* A slot that is charged keeps its kind and pays what it is charged.
LEMMA RowCharged ==
    ASSUME NEW r \in SlotRow, NEW x \in Int, NEW y \in Nat,
           NEW q, q = Charge(r, x, y)
    PROVE  q \in SlotRow /\ q.tok_sys_time = x /\ q.used_sys_time = y /\ q.inUse = r.inUse
BY DEF SlotRow, Charge

\* A slot is paid for what its process has used: together they hold what was paid less.
LEMMA PaidKeeps ==
    ASSUME Tokens!SchedulerConstants, TokenInv, NEW s, SlotsOK(s), Charged(s),
           NEW P \in SUBSET Tokens!Proc, \A p \in P : s[p].inUse
    PROVE  /\ SlotsOK(Tokens!Paid(s, P)) /\ Charged(Tokens!Paid(s, P))
           /\ SumFunction([p \in P |-> Tokens!Due(p, s)]) \in Int
           /\ HeldBy(Tokens!Paid(s, P)) + SumFunction([p \in P |-> Tokens!Due(p, s)]) = HeldBy(s)
<1> DEFINE t == Tokens!Paid(s, P)
           d == [p \in P |-> Tokens!Due(p, s)]
<1>1. \A p \in P : Tokens!Due(p, s) \in Nat
  BY DEF Tokens!Due, Charged, SlotsOK, SlotRow, TokenInv
<1>2. d \in [P -> Int]
  BY <1>1
<1>3. \A p \in Tokens!Proc :
        /\ p \in P => t[p] = Charge(s[p], s[p].tok_sys_time - Tokens!Due(p, s), cpu[p])
        /\ p \notin P => t[p] = s[p]
  BY DEF Tokens!Paid, Charge
<1>4. t = [p \in Tokens!Proc |-> t[p]]
  BY DEF Tokens!Paid
<1>5. ASSUME NEW p \in Tokens!Proc
      PROVE  /\ t[p] \in SlotRow
             /\ t[p].tok_sys_time <= MAX_TOKENS
             /\ ~t[p].inUse => t[p].tok_sys_time \in {0, MAX_TOKENS}
             /\ t[p].used_sys_time <= cpu[p]
             /\ t[p].tok_sys_time = IF p \in P THEN s[p].tok_sys_time - d[p] ELSE s[p].tok_sys_time
  <2>1. /\ s[p] \in SlotRow /\ s[p].tok_sys_time <= MAX_TOKENS /\ cpu[p] \in Nat
        /\ ~s[p].inUse => s[p].tok_sys_time \in {0, MAX_TOKENS}
        /\ s[p].used_sys_time <= cpu[p] /\ MAX_TOKENS \in Nat
    BY DEF SlotsOK, Charged, TokenInv, Tokens!SchedulerConstants
  <2>2. CASE p \in P
    <3>1. t[p] = Charge(s[p], s[p].tok_sys_time - Tokens!Due(p, s), cpu[p])
      BY <1>3, <2>2
    <3>2. Tokens!Due(p, s) \in Nat /\ d[p] = Tokens!Due(p, s) /\ s[p].inUse
      BY <1>1, <2>2
    <3>3. s[p].tok_sys_time \in Int /\ s[p].tok_sys_time - Tokens!Due(p, s) \in Int
      BY <2>1, <3>2 DEF SlotRow
    <3> HIDE DEF t, d
    <3>4. /\ t[p] \in SlotRow /\ t[p].tok_sys_time = s[p].tok_sys_time - Tokens!Due(p, s)
          /\ t[p].used_sys_time = cpu[p] /\ t[p].inUse = s[p].inUse
      BY <2>1, <3>1, <3>3, RowCharged
    <3> QED BY <2>1, <2>2, <3>2, <3>3, <3>4
  <2>3. CASE p \notin P
    <3>1. t[p] = s[p]
      BY <1>3, <2>3
    <3> HIDE DEF t, d
    <3> QED BY <2>1, <2>3, <3>1
  <2> QED BY <2>2, <2>3
<1>6. SlotsOK(t) /\ Charged(t)
  <2> HIDE DEF t
  <2> QED BY <1>4, <1>5 DEF SlotsOK, Charged
<1>7. HeldBy(t) = HeldBy(s) - SumFunction(d) /\ SumFunction(d) \in Int
  <2> HIDE DEF t, d
  <2> QED BY <1>2, <1>5, <1>6, HeldMoves
<1>8. HeldBy(s) \in Int
  BY HeldIsInt
<1>9. HeldBy(t) + SumFunction(d) = HeldBy(s)
  <2>1. HeldBy(t) \in Int
    <3> HIDE DEF t
    <3> QED BY <1>6, HeldIsInt
  <2> HIDE DEF t, d
  <2> QED BY <1>7, <1>8, <2>1
<1> QED BY <1>6, <1>7, <1>9, Zenon

\* What refill_tokens works on, and what stays true of it: the tokens and what the slots hold
\* are `total`, and the slots in use are the same.
RefillType == [tokens : Int, proc_nr : Tokens!Proc, slot : [Tokens!Proc -> SlotRow]]

RefillKeeps(r, total) ==
    /\ r \in RefillType /\ SlotsOK(r.slot) /\ Charged(r.slot)
    /\ \A p \in Tokens!Proc : r.slot[p].inUse = slot[p].inUse
    /\ r.tokens + HeldBy(r.slot) = total

\* A record with other tokens, in one slot and in the pool.
Fill(r, p, m, x) == [r EXCEPT !.slot[p].tok_sys_time = m, !.tokens = x]

IsFilled(q, r, p, m, x) ==
    /\ q \in RefillType /\ q.tokens = x
    /\ q.slot[p].tok_sys_time = m /\ q.slot[p].inUse = r.slot[p].inUse
    /\ q.slot[p].used_sys_time = r.slot[p].used_sys_time
    /\ \A o \in Tokens!Proc : o # p => q.slot[o] = r.slot[o]

\* A slot that is refilled keeps its kind and receives what it is given.
LEMMA RowFilled ==
    ASSUME NEW r \in RefillType, NEW p \in Tokens!Proc, NEW m \in Int, NEW x \in Int
    PROVE  IsFilled(Fill(r, p, m, x), r, p, m, x)
<1> DEFINE row == [r.slot[p] EXCEPT !.tok_sys_time = m]
           slots == [r.slot EXCEPT ![p] = row]
<1>1. r.slot \in [Tokens!Proc -> SlotRow] /\ r.slot[p] \in SlotRow
  BY DEF RefillType
<1>2. /\ row \in SlotRow /\ row.tok_sys_time = m /\ row.inUse = r.slot[p].inUse
      /\ row.used_sys_time = r.slot[p].used_sys_time
  BY <1>1 DEF SlotRow
<1> HIDE DEF row
<1>3. /\ slots \in [Tokens!Proc -> SlotRow] /\ slots[p] = row
      /\ \A o \in Tokens!Proc : o # p => slots[o] = r.slot[o]
  BY <1>1, <1>2
<1> DEFINE q == Fill(r, p, m, x)
<1>4. q = [r EXCEPT !.slot = slots, !.tokens = x]
  BY Zenon DEF Fill, row
<1> HIDE DEF slots
<1>5. q \in RefillType /\ q.tokens = x /\ q.slot = slots
  <2> HIDE DEF q
  <2> QED BY <1>3, <1>4 DEF RefillType
<1> HIDE DEF q
<1>6. IsFilled(q, r, p, m, x)
  BY <1>2, <1>3, <1>5 DEF IsFilled
<1> QED BY <1>6 DEF q

\* fill_tokens_proc moves tokens into a slot in use, up to its limit.
LEMMA FillKeeps ==
    ASSUME Tokens!SchedulerConstants, TokenInv, NEW total \in Int, NEW r, RefillKeeps(r, total),
           NEW p \in Tokens!Proc, r.slot[p].inUse
    PROVE  RefillKeeps(Tokens!FillTokensProc(r, p), total)
<1> DEFINE filled == r.slot[p].tok_sys_time + r.tokens
           m == IF filled <= MAX_TOKENS THEN filled ELSE MAX_TOKENS
           x == IF filled - MAX_TOKENS <= 0 THEN 0 ELSE filled - MAX_TOKENS
<1>0. PICK q : q = Fill(r, p, m, x)
  OBVIOUS
<1>1. /\ r \in RefillType /\ SlotsOK(r.slot) /\ Charged(r.slot)
      /\ \A o \in Tokens!Proc : r.slot[o].inUse = slot[o].inUse
      /\ r.tokens + HeldBy(r.slot) = total
  BY DEF RefillKeeps
<1>2. MAX_TOKENS \in Int /\ r.tokens \in Int /\ r.slot[p].tok_sys_time \in Int
  BY <1>1 DEF RefillType, SlotRow, Tokens!SchedulerConstants
<1>3. Tokens!FillTokensProc(r, p) = q
  <2>1. filled \in Int /\ filled - MAX_TOKENS \in Int /\ 0 \in Int
    BY <1>2
  <2>2. Tokens!Min({filled, MAX_TOKENS}) = m /\ Tokens!Max({filled - MAX_TOKENS, 0}) = x
    <3> HIDE DEF filled
    <3> QED BY <1>2, <2>1, MinMaxOfTwo
  <2>3. Tokens!FillTokensProc(r, p)
          = Fill(r, p, Tokens!Min({filled, MAX_TOKENS}), Tokens!Max({filled - MAX_TOKENS, 0}))
    BY Zenon DEF Tokens!FillTokensProc, Fill
  <2> HIDE DEF filled, m, x
  <2> QED BY <1>0, <2>2, <2>3, Zenon
<1>4. /\ m \in Int /\ x \in Int /\ m <= MAX_TOKENS
      /\ m + x = r.slot[p].tok_sys_time + r.tokens
  BY <1>2
<1> HIDE DEF filled, m, x
<1>5. /\ q \in RefillType /\ q.tokens = x
      /\ q.slot[p].tok_sys_time = m /\ q.slot[p].inUse = r.slot[p].inUse
      /\ q.slot[p].used_sys_time = r.slot[p].used_sys_time
      /\ \A o \in Tokens!Proc : o # p => q.slot[o] = r.slot[o]
  <2>1. r \in RefillType /\ m \in Int /\ x \in Int
    BY <1>1, <1>4
  <2>2. IsFilled(q, r, p, m, x)
    BY <1>0, <2>1, RowFilled
  <2> QED BY <2>2 DEF IsFilled
<1>6. q.slot \in [Tokens!Proc -> SlotRow]
  BY <1>5 DEF RefillType
<1>7. ASSUME NEW o \in Tokens!Proc
      PROVE  /\ q.slot[o].tok_sys_time <= MAX_TOKENS
             /\ ~q.slot[o].inUse => q.slot[o].tok_sys_time \in {0, MAX_TOKENS}
             /\ q.slot[o].used_sys_time <= cpu[o]
             /\ q.slot[o].inUse = slot[o].inUse
  <2>1. CASE o = p
    BY <1>1, <1>4, <1>5, <2>1 DEF Charged
  <2>2. CASE o # p
    BY <1>1, <1>5, <2>2 DEF SlotsOK, Charged
  <2> QED BY <2>1, <2>2
<1>8. SlotsOK(q.slot) /\ Charged(q.slot)
  BY <1>6, <1>7 DEF SlotsOK, Charged
<1>9. HeldBy(q.slot) = HeldBy(r.slot) - r.slot[p].tok_sys_time + q.slot[p].tok_sys_time
  <2>1. \A o \in Tokens!Proc : o # p => q.slot[o].tok_sys_time = r.slot[o].tok_sys_time
    BY <1>5
  <2> QED BY <1>1, <1>8, <2>1, HeldMovesAt
<1>10. HeldBy(r.slot) \in Int
  BY <1>1, HeldIsInt
<1>11. q.tokens + HeldBy(q.slot) = total
  BY <1>1, <1>2, <1>4, <1>5, <1>9, <1>10
<1> QED BY <1>3, <1>5, <1>7, <1>8, <1>11 DEF RefillKeeps

\* A visit of one slot by the refill keeps the kinds and the number of tokens.
LEMMA VisitKeeps ==
    ASSUME Tokens!SchedulerConstants, TokenInv, NEW total \in Int, NEW r, RefillKeeps(r, total),
           NEW i \in 0 .. NR_PROCS - 1
    PROVE  RefillKeeps(Tokens!Visit(r, i), total)
<1> DEFINE t == [r EXCEPT !.proc_nr = (@ + 1) % NR_PROCS]
           p == Tokens!Visited(i)
<1>1. /\ r \in RefillType /\ SlotsOK(r.slot) /\ Charged(r.slot)
      /\ \A o \in Tokens!Proc : r.slot[o].inUse = slot[o].inUse
      /\ r.tokens + HeldBy(r.slot) = total
  BY DEF RefillKeeps
<1>2. (r.proc_nr + 1) % NR_PROCS \in Tokens!Proc
  BY <1>1 DEF RefillType, Tokens!Proc, Tokens!SchedulerConstants
<1>3. t \in RefillType /\ t.slot = r.slot /\ t.tokens = r.tokens
  BY <1>1, <1>2 DEF RefillType
<1>4. RefillKeeps(t, total)
  <2> HIDE DEF t
  <2> QED BY <1>1, <1>3 DEF RefillKeeps
<1>5. p \in Tokens!Proc
  BY DEF Tokens!Visited, Tokens!Proc, TokenInv, Tokens!SchedulerConstants
<1>6. Tokens!Visit(r, i) = IF i > 0 /\ r.tokens <= 0 THEN r
                           ELSE IF r.slot[p].inUse THEN Tokens!FillTokensProc(t, p) ELSE t
  BY DEF Tokens!Visit
<1> HIDE DEF t, p
<1>7. r.slot[p].inUse => RefillKeeps(Tokens!FillTokensProc(t, p), total)
  BY <1>3, <1>4, <1>5, FillKeeps
<1> QED BY <1>4, <1>6, <1>7

\* The chooser of FoldLeft.
LEMMA MaxIsChosen ==
    ASSUME NEW n \in Nat, NEW T \in SUBSET (1 .. n), T # {}
    PROVE  Tokens!Max(T) \in T
<1> DEFINE B == {n - k : k \in T}
<1>1. B \in SUBSET Nat /\ B # {}
  <2>1. \A k \in T : n - k \in Nat
    OBVIOUS
  <2>2. \A b \in B : b \in Nat
    BY <2>1
  <2>3. PICK k \in T : TRUE
    OBVIOUS
  <2>4. n - k \in B
    OBVIOUS
  <2> HIDE DEF B
  <2> QED BY <2>2, <2>4
<1>2. PICK m \in B : \A k \in B : m <= k
  <2> HIDE DEF B
  <2> QED BY <1>1, LeastNumber
<1>3. PICK x \in T : m = n - x
  OBVIOUS
<1>4. ASSUME NEW y \in T PROVE x >= y
  <2>1. n - y \in B
    OBVIOUS
  <2>2. m <= n - y
    BY <1>2, <2>1
  <2> QED BY <1>3, <2>2
<1> QED BY <1>4 DEF Tokens!Max

\* refill_tokens goes around the slots: a fold over their numbers.
LEMMA LoopKeeps ==
    ASSUME Tokens!SchedulerConstants, TokenInv, NEW total \in Int,
           NEW s0, RefillKeeps(s0, total)
    PROVE  RefillKeeps(Tokens!RefillLoop(s0), total)
<1> DEFINE S == 1 .. NR_PROCS
           V == {r \in RefillType : RefillKeeps(r, total)}
           F == [x \in S \X V |-> Tokens!Visit(x[2], x[1] - 1)]
           ch == [T \in SUBSET S |-> Tokens!Max(T)]
           seq == [i \in S |-> i - 1]
           Iter(it) == [T \in SUBSET S |-> IF T = {} THEN s0
                           ELSE Tokens!Visit(it[T \ {Tokens!Max(T)}], seq[Tokens!Max(T)])]
<1>1. IsFiniteSet(S)
  BY FS_Interval DEF Tokens!SchedulerConstants
<1>2. Chooses(ch, S)
  BY MaxIsChosen DEF Chooses, Tokens!SchedulerConstants
<1>3. F \in [S \X V -> V]
  <2>1. ASSUME NEW i \in S, NEW r \in V PROVE Tokens!Visit(r, i - 1) \in V
    <3>1. i - 1 \in 0 .. NR_PROCS - 1
      BY DEF Tokens!SchedulerConstants
    <3>2. RefillKeeps(Tokens!Visit(r, i - 1), total)
      BY <3>1, VisitKeeps
    <3> QED BY <3>2 DEF RefillKeeps
  <2> HIDE DEF S, V
  <2> QED BY <2>1
<1>4. s0 \in V
  BY DEF RefillKeeps
<1>5. PICK any \in [SUBSET S -> V] : IsFold(any, S, F, s0, ch)
  <2> HIDE DEF S, V, F, ch
  <2> QED BY <1>1, <1>2, <1>3, <1>4, FoldExists
<1>6. \A T \in SUBSET S : T # {} => any[T] = Tokens!Visit(any[T \ {Tokens!Max(T)}], seq[Tokens!Max(T)])
  <2> SUFFICES ASSUME NEW T \in SUBSET S, T # {}
               PROVE  any[T] = Tokens!Visit(any[T \ {Tokens!Max(T)}], seq[Tokens!Max(T)])
    OBVIOUS
  <2>1. any[T] = F[<<ch[T], any[T \ {ch[T]}]>>]
    <3> HIDE DEF ch, F, S, V
    <3> QED BY <1>5 DEF IsFold, Fold
  <2>2. ch[T] = Tokens!Max(T) /\ Tokens!Max(T) \in S
    BY <1>2 DEF Chooses
  <2>3. any[T \ {ch[T]}] \in V
    <3> HIDE DEF V
    <3> QED OBVIOUS
  <2>4. any[T] = Tokens!Visit(any[T \ {ch[T]}], ch[T] - 1)
    <3> HIDE DEF ch, V
    <3> QED BY <2>1, <2>2, <2>3
  <2> QED BY <2>2, <2>4
<1>7. any[{}] = s0
  BY <1>5 DEF IsFold, Fold
<1>8. any = Iter(any)
  <2> HIDE DEF V, F, ch, seq
  <2> QED BY <1>6, <1>7
<1>9. PICK it : it = (CHOOSE i : i = Iter(i)) /\ it = Iter(it)
  <2> HIDE DEF Iter
  <2> QED BY <1>8
<1>10. it[S] = any[S]
  <2>1. ASSUME NEW T \in SUBSET S, T # {} => it[T \ {ch[T]}] = any[T \ {ch[T]}]
        PROVE  it[T] = any[T]
    <3>1. it[T] = Iter(it)[T] /\ any[T] = Iter(any)[T]
      <4> HIDE DEF Iter
      <4> QED BY <1>8, <1>9
    <3> HIDE DEF V, F, seq, S
    <3> QED BY <3>1, <2>1
  <2>2. Agree(it, any, S, ch)
    <3> HIDE DEF ch, S
    <3> QED BY <2>1 DEF Agree
  <2>3. \A T \in SUBSET S : it[T] = any[T]
    <3> HIDE DEF ch, Iter, S
    <3> QED BY <1>1, <1>2, <2>2, FoldUnique
  <2> QED BY <2>3
<1>11. Tokens!RefillLoop(s0) = it[S]
  BY <1>9 DEF Tokens!RefillLoop, Tokens!FoldLeft, Tokens!MapThenFoldSet
<1>12. any[S] \in V
  <2> HIDE DEF V
  <2> QED OBVIOUS
<1> QED BY <1>10, <1>11, <1>12

\* refill_tokens: the time since the last time goes to the tokens and from there to slots.
LEMMA RefilledKeeps ==
    ASSUME Tokens!SchedulerConstants, TokenInv
    PROVE  RefillKeeps(Tokens!Refilled, tokens + uptime - last_fill + HeldBy(slot))
<1> DEFINE s0 == [tokens |-> tokens + uptime - last_fill, proc_nr |-> proc_nr, slot |-> slot]
           total == tokens + uptime - last_fill + HeldBy(slot)
<1>1. total \in Int
  BY HeldIsInt DEF TokenInv
<1>2. RefillKeeps(s0, total)
  BY DEF RefillKeeps, RefillType, TokenInv, SlotsOK
<1>3. Tokens!Refilled = IF s0.tokens < 0 THEN s0 ELSE Tokens!RefillLoop(s0)
  BY DEF Tokens!Refilled
<1> HIDE DEF s0, total
<1>4. RefillKeeps(Tokens!RefillLoop(s0), total)
  BY <1>1, <1>2, LoopKeeps
<1>5. RefillKeeps(Tokens!Refilled, total)
  BY <1>2, <1>3, <1>4
<1> QED BY <1>5 DEF total

\* After it the tokens and the slots hold what time has handed out.
LEMMA Refilling ==
    ASSUME Tokens!SchedulerConstants, TokenInv, Tokens!Refill
    PROVE  /\ tokens' \in Int /\ proc_nr' \in Tokens!Proc
           /\ last_fill' \in Nat /\ last_fill' <= uptime
           /\ SlotsOK(Tokens!Refilled.slot) /\ Charged(Tokens!Refilled.slot)
           /\ \A p \in Tokens!Proc : Tokens!Refilled.slot[p].inUse = slot[p].inUse
           /\ tokens' + HeldBy(Tokens!Refilled.slot) + spent + forgotten = last_fill'
<1> DEFINE r == Tokens!Refilled
<1>1. /\ tokens' = r.tokens /\ proc_nr' = r.proc_nr /\ last_fill' = uptime
  BY DEF Tokens!Refill
<1>2. /\ r \in RefillType /\ SlotsOK(r.slot) /\ Charged(r.slot)
      /\ \A p \in Tokens!Proc : r.slot[p].inUse = slot[p].inUse
      /\ r.tokens + HeldBy(r.slot) = tokens + uptime - last_fill + HeldBy(slot)
  BY RefilledKeeps DEF RefillKeeps
<1> HIDE DEF r
<1>3. r.tokens \in Int /\ r.proc_nr \in Tokens!Proc
  BY <1>2 DEF RefillType
<1>4. HeldBy(r.slot) \in Int /\ HeldBy(slot) \in Int
  BY <1>2, HeldIsInt DEF TokenInv
<1>5. /\ tokens \in Int /\ uptime \in Nat /\ last_fill \in Nat /\ spent \in Int /\ forgotten \in Int
      /\ tokens + HeldBy(slot) + spent + forgotten = last_fill
  BY DEF TokenInv
<1>6. tokens' + HeldBy(r.slot) + spent + forgotten = last_fill'
  BY <1>1, <1>2, <1>3, <1>4, <1>5
<1>7. tokens' \in Int /\ proc_nr' \in Tokens!Proc /\ last_fill' \in Nat /\ last_fill' <= uptime
  BY <1>1, <1>3, <1>5
<1> QED BY <1>2, <1>6, <1>7 DEF r

\* schedule_process keeps the books that are right before it.
LEMMA SchedulingKeeps ==
    ASSUME Tokens!SchedulerConstants, TokenInv, NEW s, SlotsOK(s), Charged(s),
           NEW P \in SUBSET Tokens!Proc, \A p \in P : s[p].inUse,
           NEW refused, NEW expired, Tokens!SchedulesExcept(s, P, refused, expired),
           tokens' \in Int, proc_nr' \in Tokens!Proc, last_fill' \in Nat, last_fill' <= uptime,
           forgotten' \in Int, UNCHANGED <<uptime, cpu>>,
           tokens' + HeldBy(s) + spent + forgotten' = last_fill'
    PROVE  TokenInv'
<1> DEFINE paid == SumFunction([p \in P |-> Tokens!Due(p, s)])
<1>1. /\ SlotsOK(Tokens!Paid(s, P)) /\ Charged(Tokens!Paid(s, P)) /\ paid \in Int
      /\ HeldBy(Tokens!Paid(s, P)) + paid = HeldBy(s)
  BY PaidKeeps
<1>2. slot' = Tokens!Paid(s, P) /\ spent' = spent + paid
  BY TokenSums DEF Tokens!SchedulesExcept
<1>3. runnable' \subseteq Tokens!Proc
  BY DEF Tokens!SchedulesExcept, TokenInv
<1> HIDE DEF paid
<1>4. HeldBy(slot') \in Int /\ spent \in Int
  BY <1>1, <1>2, HeldIsInt DEF TokenInv
<1>5. tokens' + HeldBy(slot') + spent' + forgotten' = last_fill' /\ spent' \in Int
  BY <1>1, <1>2, <1>4
<1>6. SlotsOK(slot') /\ Charged(slot')
  BY <1>1, <1>2
<1>7. HeldBy(slot)' = HeldBy(slot') /\ SlotsOK(slot)' = SlotsOK(slot')
  BY DEF HeldBy, SlotsOK
<1>8. Charged(slot)'
  BY <1>6 DEF Charged
<1> QED BY <1>3, <1>5, <1>6, <1>7, <1>8 DEF TokenInv

\* The steps that do not schedule.
LEMMA SlotsMove ==
    ASSUME Tokens!SchedulerConstants, TokenInv, SlotsOK(slot'), Charged(slot)',
           tokens' \in Int, proc_nr' \in Tokens!Proc, last_fill' \in Nat, last_fill' <= uptime,
           forgotten' \in Int, spent' \in Int, UNCHANGED uptime, runnable' \subseteq Tokens!Proc,
           cpu' \in [Tokens!Proc -> Nat],
           tokens' + HeldBy(slot') + spent' + forgotten' = last_fill'
    PROVE  TokenInv'
<1>1. HeldBy(slot)' = HeldBy(slot') /\ SlotsOK(slot)' = SlotsOK(slot')
  BY DEF HeldBy, SlotsOK
<1> QED BY <1>1 DEF TokenInv

\* The processor runs: time passes for the process that is charged later.
LEMMA RunKeeps == ASSUME Tokens!SchedulerConstants, TokenInv, Tokens!Run PROVE TokenInv'
<1>1. /\ uptime < MaxTicks /\ uptime' = uptime + 1
      /\ UNCHANGED <<tokens, proc_nr, last_fill, slot, runnable, spent, forgotten, starts>>
      /\ cpu' \in {cpu} \cup {[cpu EXCEPT ![p] = @ + 1] : p \in runnable}
  BY DEF Tokens!Run
<1>2. cpu \in [Tokens!Proc -> Nat] /\ runnable \subseteq Tokens!Proc
  BY DEF TokenInv
<1>3. cpu' \in [Tokens!Proc -> Nat] /\ \A p \in Tokens!Proc : cpu'[p] >= cpu[p]
  BY <1>1, <1>2
<1>4. Charged(slot)'
  <2> SUFFICES ASSUME NEW p \in Tokens!Proc PROVE slot[p].used_sys_time <= cpu'[p]
    BY <1>1 DEF Charged
  <2>1. slot[p].used_sys_time \in Nat /\ slot[p].used_sys_time <= cpu[p]
    BY DEF TokenInv, SlotsOK, SlotRow, Charged
  <2> QED BY <1>2, <1>3, <2>1
<1>5. HeldBy(slot)' = HeldBy(slot) /\ SlotsOK(slot)'
  BY <1>1 DEF HeldBy, SlotsOK, TokenInv
<1>6. uptime' \in Nat /\ last_fill' <= uptime' /\ uptime' <= MaxTicks /\ last_fill' \in Nat
  BY <1>1 DEF TokenInv, Tokens!SchedulerConstants
<1> QED BY <1>1, <1>3, <1>4, <1>5, <1>6 DEF TokenInv

\* A late notice keeps the invariant: it refills like any other.
LEMMA LateKeeps ==
    ASSUME Tokens!SchedulerConstants, TokenInv, Tokens!LateNoquantum PROVE TokenInv'
<1>1. /\ Tokens!Refill /\ slot' = Tokens!Refilled.slot
      /\ UNCHANGED <<uptime, cpu, runnable, spent, forgotten, starts>>
  BY DEF Tokens!LateNoquantum
<1>2. /\ tokens' \in Int /\ proc_nr' \in Tokens!Proc
      /\ last_fill' \in Nat /\ last_fill' <= uptime
      /\ SlotsOK(slot') /\ Charged(slot')
      /\ tokens' + HeldBy(slot') + spent + forgotten = last_fill'
  BY <1>1, Refilling
<1>3. Charged(slot)'
  BY <1>1, <1>2 DEF Charged
<1> QED BY <1>1, <1>2, <1>3, SlotsMove DEF TokenInv

\* A priority is part of a row and of no sum.
LEMMA PriorityChanged ==
    ASSUME Tokens!SchedulerConstants, NEW s, SlotsOK(s), Charged(s),
           NEW t \in [Tokens!Proc -> SlotRow],
           \A p \in Tokens!Proc : /\ t[p].tok_sys_time = s[p].tok_sys_time
                                  /\ t[p].used_sys_time = s[p].used_sys_time
                                  /\ t[p].inUse = s[p].inUse
    PROVE  SlotsOK(t) /\ Charged(t) /\ HeldBy(t) = HeldBy(s)
<1>1. SlotsOK(t)
  BY DEF SlotsOK
<1>2. Charged(t)
  BY DEF Charged
<1> QED BY <1>1, <1>2, HeldStays

\* do_noquantum keeps the invariant.
LEMMA NoquantumKeeps ==
    ASSUME Tokens!SchedulerConstants, TokenInv, NEW p \in Tokens!Proc, Tokens!DoNoquantum(p)
    PROVE  TokenInv'
<1> DEFINE s == Tokens!Refilled.slot
           q == Tokens!Min({s[p].priority + 1, MaxPriority})
           t == [s EXCEPT ![p].priority = q]
<1>1. slot[p].inUse /\ Tokens!Refill /\ UNCHANGED <<uptime, cpu, forgotten, starts>>
  BY DEF Tokens!DoNoquantum
<1>2. PICK refused \in SUBSET {p} : Tokens!SchedulesExcept(t, {p}, refused, {p})
  BY DEF Tokens!DoNoquantum
<1>3. /\ tokens' \in Int /\ proc_nr' \in Tokens!Proc /\ last_fill' \in Nat /\ last_fill' <= uptime
      /\ SlotsOK(s) /\ Charged(s)
      /\ \A o \in Tokens!Proc : s[o].inUse = slot[o].inUse
      /\ tokens' + HeldBy(s) + spent + forgotten = last_fill'
  BY <1>1, Refilling
<1> HIDE DEF s
<1>4. s \in [Tokens!Proc -> SlotRow]
  BY <1>3 DEF SlotsOK
<1>5. q \in Tokens!Priority
  <2>1. s[p].priority \in Nat /\ s[p].priority + 1 \in Int /\ MaxPriority \in Nat /\ MaxPriority \in Int
    BY <1>4 DEF SlotRow, Tokens!Priority, Tokens!SchedulerConstants
  <2>2. q = IF s[p].priority + 1 <= MaxPriority THEN s[p].priority + 1 ELSE MaxPriority
    BY <2>1, MinMaxOfTwo
  <2> HIDE DEF q
  <2> QED BY <2>1, <2>2 DEF Tokens!Priority
<1> HIDE DEF q
<1>6. /\ t \in [Tokens!Proc -> SlotRow]
      /\ \A o \in Tokens!Proc : /\ t[o].tok_sys_time = s[o].tok_sys_time
                                /\ t[o].used_sys_time = s[o].used_sys_time
                                /\ t[o].inUse = s[o].inUse
  BY <1>4, <1>5 DEF SlotRow
<1> HIDE DEF t
<1>7. SlotsOK(t) /\ Charged(t) /\ HeldBy(t) = HeldBy(s) /\ t[p].inUse
  BY <1>1, <1>3, <1>6, PriorityChanged
<1>8. {p} \in SUBSET Tokens!Proc /\ \A o \in {p} : t[o].inUse
  BY <1>7
<1>9. forgotten' \in Int /\ tokens' + HeldBy(t) + spent + forgotten' = last_fill'
  BY <1>1, <1>3, <1>7 DEF TokenInv
<1> QED BY <1>1, <1>2, <1>3, <1>7, <1>8, <1>9, SchedulingKeeps

\* A slot that is emptied, and one that is set up.
SlotIs(t, s, p, x, y) ==
    /\ t \in [Tokens!Proc -> SlotRow]
    /\ t[p].tok_sys_time = x /\ t[p].used_sys_time = y
    /\ \A o \in Tokens!Proc : o # p => t[o] = s[o]

\* A slot that is given up gives back what it held.
LEMMA SlotEmptied ==
    ASSUME NEW s \in [Tokens!Proc -> SlotRow], NEW p \in Tokens!Proc, NEW t,
           NEW x \in Int, NEW y \in Nat, NEW b \in BOOLEAN,
           t = [s EXCEPT ![p].used_sys_time = y, ![p].tok_sys_time = x, ![p].inUse = b]
    PROVE  SlotIs(t, s, p, x, y)
BY DEF SlotRow, SlotIs

\* A slot that is set up anew.
LEMMA SlotSetUp ==
    ASSUME NEW s \in [Tokens!Proc -> SlotRow], NEW p \in Tokens!Proc, NEW t,
           NEW x \in Int, NEW y \in Nat, NEW maxprio \in Tokens!Priority,
           t = [s EXCEPT ![p].max_priority = maxprio, ![p].tok_sys_time = x, ![p].used_sys_time = y]
    PROVE  SlotIs(t, s, p, x, y)
BY DEF SlotRow, SlotIs

\* do_stop_scheduling keeps the invariant.
LEMMA StopKeeps ==
    ASSUME Tokens!SchedulerConstants, TokenInv, NEW p \in Tokens!Proc, Tokens!DoStopScheduling(p)
    PROVE  TokenInv'
<1>1. /\ tokens' = tokens + slot[p].tok_sys_time
      /\ slot' = [slot EXCEPT ![p].used_sys_time = 0, ![p].tok_sys_time = 0, ![p].inUse = FALSE]
      /\ runnable' = runnable \ {p} /\ cpu' = [cpu EXCEPT ![p] = 0]
      /\ UNCHANGED <<proc_nr, last_fill, uptime, spent, forgotten, starts>>
  BY DEF Tokens!DoStopScheduling
<1>2. /\ SlotsOK(slot) /\ Charged(slot) /\ slot \in [Tokens!Proc -> SlotRow]
      /\ cpu \in [Tokens!Proc -> Nat]
  BY DEF TokenInv, SlotsOK
<1>3. /\ slot' \in [Tokens!Proc -> SlotRow]
      /\ slot'[p].tok_sys_time = 0 /\ slot'[p].used_sys_time = 0
      /\ \A o \in Tokens!Proc : o # p => slot'[o] = slot[o]
  <2>1. 0 \in Int /\ 0 \in Nat /\ FALSE \in BOOLEAN
    OBVIOUS
  <2>2. SlotIs(slot', slot, p, 0, 0)
    BY <1>1, <1>2, <2>1, SlotEmptied, Zenon
  <2> QED BY <2>2 DEF SlotIs
<1>4. cpu' \in [Tokens!Proc -> Nat] /\ \A o \in Tokens!Proc : cpu'[o] = IF o = p THEN 0 ELSE cpu[o]
  BY <1>1, <1>2
<1>5. SlotsOK(slot')
  <2> SUFFICES ASSUME NEW o \in Tokens!Proc
               PROVE  /\ slot'[o].tok_sys_time <= MAX_TOKENS
                      /\ ~slot'[o].inUse => slot'[o].tok_sys_time \in {0, MAX_TOKENS}
    BY <1>3 DEF SlotsOK
  <2> QED BY <1>2, <1>3 DEF SlotsOK, Tokens!SchedulerConstants
<1>6. Charged(slot)'
  BY <1>2, <1>3, <1>4 DEF Charged
<1>7. HeldBy(slot') = HeldBy(slot) - slot[p].tok_sys_time + slot'[p].tok_sys_time
  <2>1. \A o \in Tokens!Proc : o # p => slot'[o].tok_sys_time = slot[o].tok_sys_time
    BY <1>3
  <2> QED BY <1>2, <1>5, <2>1, HeldMovesAt
<1>8. /\ tokens \in Int /\ slot[p].tok_sys_time \in Int /\ HeldBy(slot) \in Int
      /\ spent \in Int /\ forgotten \in Int /\ last_fill \in Nat
      /\ tokens + HeldBy(slot) + spent + forgotten = last_fill
  BY <1>2, HeldIsInt DEF TokenInv, SlotRow
<1>9. tokens' \in Int /\ tokens' + HeldBy(slot') + spent' + forgotten' = last_fill'
  BY <1>1, <1>3, <1>7, <1>8
<1>10. /\ proc_nr' \in Tokens!Proc /\ last_fill' \in Nat /\ last_fill' <= uptime
       /\ forgotten' \in Int /\ spent' \in Int /\ UNCHANGED uptime /\ runnable' \subseteq Tokens!Proc
  BY <1>1 DEF TokenInv
<1> QED BY <1>4, <1>5, <1>6, <1>9, <1>10, SlotsMove

\* Setting a slot up gives it MAX_TOKENS; what it held is forgotten.
LEMMA SettingUp ==
    ASSUME Tokens!SchedulerConstants, TokenInv, NEW p \in Tokens!Proc,
           NEW maxprio \in Tokens!Priority, Tokens!StartsOrFails(p)
    PROVE  LET t == Tokens!SetUp(p, maxprio) IN
           /\ SlotsOK(t) /\ Charged(t)
           /\ tokens' \in Int /\ proc_nr' \in Tokens!Proc /\ last_fill' \in Nat
           /\ last_fill' <= uptime /\ forgotten' \in Int /\ UNCHANGED <<uptime, cpu>>
           /\ tokens' + HeldBy(t) + spent + forgotten' = last_fill'
<1> DEFINE t == Tokens!SetUp(p, maxprio)
<1>1. /\ tokens' = tokens - MAX_TOKENS /\ forgotten' = forgotten + slot[p].tok_sys_time
      /\ ~slot[p].inUse /\ UNCHANGED <<proc_nr, last_fill, uptime, cpu>>
  BY DEF Tokens!StartsOrFails
<1>2. SlotsOK(slot) /\ Charged(slot) /\ slot \in [Tokens!Proc -> SlotRow] /\ MAX_TOKENS \in Nat
      /\ cpu \in [Tokens!Proc -> Nat]
  BY DEF TokenInv, SlotsOK, Tokens!SchedulerConstants
<1>3. /\ t \in [Tokens!Proc -> SlotRow]
      /\ t[p].tok_sys_time = MAX_TOKENS /\ t[p].used_sys_time = 0
      /\ \A o \in Tokens!Proc : o # p => t[o] = slot[o]
  <2>1. t = [slot EXCEPT ![p].max_priority = maxprio, ![p].tok_sys_time = MAX_TOKENS,
                         ![p].used_sys_time = 0]
    BY DEF Tokens!SetUp
  <2>2. MAX_TOKENS \in Int /\ 0 \in Nat
    BY <1>2
  <2>3. SlotIs(t, slot, p, MAX_TOKENS, 0)
    <3> HIDE DEF t
    <3> QED BY <1>2, <2>1, <2>2, SlotSetUp, Zenon
  <2> QED BY <2>3 DEF SlotIs
<1> HIDE DEF t
<1>4. SlotsOK(t)
  <2> SUFFICES ASSUME NEW o \in Tokens!Proc
               PROVE  /\ t[o].tok_sys_time <= MAX_TOKENS
                      /\ ~t[o].inUse => t[o].tok_sys_time \in {0, MAX_TOKENS}
    BY <1>3 DEF SlotsOK
  <2> QED BY <1>2, <1>3 DEF SlotsOK
<1>5. Charged(t)
  BY <1>2, <1>3 DEF Charged
<1>6. HeldBy(t) = HeldBy(slot) - slot[p].tok_sys_time + t[p].tok_sys_time
  <2>1. \A o \in Tokens!Proc : o # p => t[o].tok_sys_time = slot[o].tok_sys_time
    BY <1>3
  <2> QED BY <1>2, <1>4, <2>1, HeldMovesAt
<1>7. /\ tokens \in Int /\ slot[p].tok_sys_time \in Int /\ HeldBy(slot) \in Int
      /\ spent \in Int /\ forgotten \in Int /\ last_fill \in Nat
      /\ tokens + HeldBy(slot) + spent + forgotten = last_fill
  BY <1>2, HeldIsInt DEF TokenInv, SlotRow
<1>8. /\ tokens' \in Int /\ forgotten' \in Int
      /\ tokens' + HeldBy(t) + spent + forgotten' = last_fill'
  BY <1>1, <1>2, <1>3, <1>6, <1>7
<1>9. proc_nr' \in Tokens!Proc /\ last_fill' \in Nat /\ last_fill' <= uptime
  BY <1>1 DEF TokenInv
<1> QED BY <1>1, <1>4, <1>5, <1>8, <1>9 DEF t

\* do_start_scheduling keeps the invariant.
LEMMA StartKeeps ==
    ASSUME Tokens!SchedulerConstants, TokenInv, NEW p \in Tokens!Proc,
           NEW maxprio \in Tokens!Priority, Tokens!DoStartScheduling(p, maxprio)
    PROVE  TokenInv'
<1> DEFINE s == Tokens!SetUp(p, maxprio)
<1>1. PICK priority \in {maxprio} \cup {slot[q].priority : q \in {r \in Tokens!Proc : slot[r].inUse}},
           refused \in SUBSET {p} :
           Tokens!SchedulesExcept([s EXCEPT ![p].priority = priority, ![p].inUse = TRUE],
                                  {p}, refused, {})
  BY DEF Tokens!DoStartScheduling
<1> DEFINE t == [s EXCEPT ![p].priority = priority, ![p].inUse = TRUE]
<1>2. /\ SlotsOK(s) /\ Charged(s)
      /\ tokens' \in Int /\ proc_nr' \in Tokens!Proc /\ last_fill' \in Nat
      /\ last_fill' <= uptime /\ forgotten' \in Int /\ UNCHANGED <<uptime, cpu>>
      /\ tokens' + HeldBy(s) + spent + forgotten' = last_fill'
  BY SettingUp DEF Tokens!DoStartScheduling
<1>3. priority \in Tokens!Priority
  BY DEF TokenInv, SlotsOK, SlotRow
<1> HIDE DEF s
<1>4. s \in [Tokens!Proc -> SlotRow]
  BY <1>2 DEF SlotsOK
<1>5. /\ t \in [Tokens!Proc -> SlotRow] /\ t[p].inUse
      /\ t[p].tok_sys_time = s[p].tok_sys_time /\ t[p].used_sys_time = s[p].used_sys_time
      /\ \A o \in Tokens!Proc : o # p => t[o] = s[o]
  BY <1>3, <1>4 DEF SlotRow
<1> HIDE DEF t
<1>6. SlotsOK(t) /\ Charged(t)
  BY <1>2, <1>5 DEF SlotsOK, Charged
<1>7. HeldBy(t) = HeldBy(s)
  <2>1. \A o \in Tokens!Proc : t[o].tok_sys_time = s[o].tok_sys_time
    BY <1>5
  <2> QED BY <1>2, <1>6, <2>1, HeldStays
<1>8. Tokens!SchedulesExcept(t, {p}, refused, {})
  BY <1>1 DEF t
<1>9. {p} \in SUBSET Tokens!Proc /\ \A o \in {p} : t[o].inUse
  BY <1>5
<1> QED BY <1>2, <1>6, <1>7, <1>8, <1>9, SchedulingKeeps

\* A start the kernel refuses keeps the invariant.
LEMMA FailKeeps ==
    ASSUME Tokens!SchedulerConstants, TokenInv, NEW p \in Tokens!Proc,
           NEW maxprio \in Tokens!Priority, Tokens!FailStartScheduling(p, maxprio)
    PROVE  TokenInv'
<1>1. slot' = Tokens!SetUp(p, maxprio) /\ UNCHANGED <<runnable, spent>>
  BY DEF Tokens!FailStartScheduling
<1>2. /\ SlotsOK(slot') /\ Charged(slot')
      /\ tokens' \in Int /\ proc_nr' \in Tokens!Proc /\ last_fill' \in Nat
      /\ last_fill' <= uptime /\ forgotten' \in Int /\ UNCHANGED <<uptime, cpu>>
      /\ tokens' + HeldBy(slot') + spent + forgotten' = last_fill'
  BY <1>1, SettingUp DEF Tokens!FailStartScheduling
<1>3. Charged(slot)'
  BY <1>2 DEF Charged
<1> QED BY <1>1, <1>2, <1>3, SlotsMove DEF TokenInv

\* do_nice keeps the invariant.
LEMMA NiceKeeps ==
    ASSUME Tokens!SchedulerConstants, TokenInv, NEW p \in Tokens!Proc,
           NEW q \in Tokens!Priority, Tokens!DoNice(p, q)
    PROVE  TokenInv'
<1> DEFINE t == [slot EXCEPT ![p].priority = q, ![p].max_priority = q]
<1>1. slot[p].inUse /\ UNCHANGED <<tokens, proc_nr, last_fill, uptime, cpu, forgotten, starts>>
  BY DEF Tokens!DoNice
<1>2. \/ Tokens!SchedulesExcept(t, {p}, {}, {})
      \/ /\ slot' = Tokens!Paid(slot, {p}) /\ spent' = spent + Tokens!Due(p, slot)
         /\ UNCHANGED runnable
  BY DEF Tokens!DoNice
<1>3. SlotsOK(slot) /\ Charged(slot) /\ slot \in [Tokens!Proc -> SlotRow]
  BY DEF TokenInv, SlotsOK
<1>4. /\ t \in [Tokens!Proc -> SlotRow]
      /\ \A o \in Tokens!Proc : /\ t[o].tok_sys_time = slot[o].tok_sys_time
                                /\ t[o].used_sys_time = slot[o].used_sys_time
                                /\ t[o].inUse = slot[o].inUse
  BY <1>3 DEF SlotRow
<1> HIDE DEF t
<1>5. SlotsOK(t) /\ Charged(t) /\ HeldBy(t) = HeldBy(slot) /\ t[p].inUse
  BY <1>1, <1>3, <1>4, PriorityChanged
<1>6. /\ tokens' \in Int /\ proc_nr' \in Tokens!Proc /\ last_fill' \in Nat /\ last_fill' <= uptime
      /\ forgotten' \in Int /\ UNCHANGED <<uptime, cpu>>
      /\ tokens' + HeldBy(slot) + spent + forgotten' = last_fill'
  BY <1>1 DEF TokenInv
<1>7. CASE Tokens!SchedulesExcept(t, {p}, {}, {})
  <2>1. {p} \in SUBSET Tokens!Proc /\ \A o \in {p} : t[o].inUse
    BY <1>5
  <2> QED BY <1>5, <1>6, <1>7, <2>1, SchedulingKeeps
\* The rollback is a schedule for the process as it was, without the kernel.
<1>8. CASE /\ slot' = Tokens!Paid(slot, {p}) /\ spent' = spent + Tokens!Due(p, slot)
           /\ UNCHANGED runnable
  <2> DEFINE d == [o \in {p} |-> Tokens!Due(o, slot)]
  <2>1. /\ SlotsOK(slot') /\ Charged(slot') /\ SumFunction(d) \in Int
        /\ HeldBy(slot') + SumFunction(d) = HeldBy(slot)
    <3>1. {p} \in SUBSET Tokens!Proc /\ \A o \in {p} : slot[o].inUse
      BY <1>1
    <3> QED BY <1>3, <1>8, <3>1, PaidKeeps
  <2>2. SumFunction(d) = Tokens!Due(p, slot)
    <3>1. Tokens!Due(p, slot) \in Int
      BY DEF Tokens!Due, TokenInv, SlotsOK, SlotRow
    <3>2. d \in [{p} -> Int] /\ d[p] = Tokens!Due(p, slot)
      BY <3>1
    <3>3. SumFunction(d) = SumFunctionOnSet(d, {p})
      BY DEF SumFunction
    <3> HIDE DEF d
    <3> QED BY <3>2, <3>3, SumOfOne
  <2> HIDE DEF d
  <2>3. Charged(slot)'
    BY <1>6, <2>1 DEF Charged
  <2>4. spent \in Int /\ HeldBy(slot') \in Int /\ runnable \subseteq Tokens!Proc /\ cpu \in [Tokens!Proc -> Nat]
    BY <2>1, HeldIsInt DEF TokenInv
  <2>5. spent' \in Int /\ tokens' + HeldBy(slot') + spent' + forgotten' = last_fill'
    BY <1>6, <1>8, <2>1, <2>2, <2>4
  <2> QED BY <1>6, <1>8, <2>1, <2>3, <2>4, <2>5, SlotsMove
<1> QED BY <1>2, <1>7, <1>8

\* balance_queues keeps the invariant.
LEMMA BalanceKeeps ==
    ASSUME Tokens!SchedulerConstants, TokenInv, Tokens!BalanceQueues PROVE TokenInv'
<1> DEFINE s == Tokens!Refilled.slot
           below == {p \in Tokens!Proc : s[p].inUse /\ s[p].priority > s[p].max_priority}
           t == [p \in Tokens!Proc |-> IF p \in below THEN [s[p] EXCEPT !.priority = @ - 1] ELSE s[p]]
<1>1. Tokens!Refill /\ UNCHANGED <<uptime, cpu, forgotten, starts>>
  BY DEF Tokens!BalanceQueues
<1>2. PICK refused \in SUBSET below : Tokens!SchedulesExcept(t, below, refused, {})
  BY DEF Tokens!BalanceQueues
<1>3. /\ tokens' \in Int /\ proc_nr' \in Tokens!Proc /\ last_fill' \in Nat /\ last_fill' <= uptime
      /\ SlotsOK(s) /\ Charged(s)
      /\ tokens' + HeldBy(s) + spent + forgotten = last_fill'
  BY <1>1, Refilling
<1> HIDE DEF s
<1>4. ASSUME NEW p \in Tokens!Proc
      PROVE  /\ t[p] \in SlotRow /\ t[p].tok_sys_time = s[p].tok_sys_time
             /\ t[p].used_sys_time = s[p].used_sys_time /\ t[p].inUse = s[p].inUse
  <2>1. s[p] \in SlotRow
    BY <1>3 DEF SlotsOK
  <2>2. CASE p \in below
    <3>1. s[p].priority - 1 \in Tokens!Priority
      <4>1. /\ s[p].priority \in 0 .. MaxPriority /\ s[p].max_priority \in 0 .. MaxPriority
            /\ s[p].priority > s[p].max_priority /\ MaxPriority \in Nat
        BY <2>1, <2>2 DEF SlotRow, Tokens!Priority, Tokens!SchedulerConstants
      <4> QED BY <4>1 DEF Tokens!Priority
    <3>2. t[p] = [s[p] EXCEPT !.priority = s[p].priority - 1]
      BY <2>2
    <3> HIDE DEF t
    <3> QED BY <2>1, <3>1, <3>2 DEF SlotRow
  <2>3. CASE p \notin below
    BY <2>1, <2>3
  <2> QED BY <2>2, <2>3
<1>5. t \in [Tokens!Proc -> SlotRow]
  <2>1. t = [p \in Tokens!Proc |-> t[p]]
    OBVIOUS
  <2> HIDE DEF t
  <2> QED BY <1>4, <2>1
<1> HIDE DEF t
<1>6. SlotsOK(t) /\ Charged(t) /\ HeldBy(t) = HeldBy(s)
  BY <1>3, <1>4, <1>5, PriorityChanged
<1>7. below \in SUBSET Tokens!Proc /\ \A p \in below : t[p].inUse
  BY <1>4
<1>8. forgotten' \in Int /\ tokens' + HeldBy(t) + spent + forgotten' = last_fill'
  BY <1>1, <1>3, <1>6 DEF TokenInv
<1> HIDE DEF below
<1> QED BY <1>1, <1>2, <1>3, <1>6, <1>7, <1>8, SchedulingKeeps

\* The invariant holds in the beginning.
LEMMA TokenInit == ASSUME Tokens!SchedulerConstants PROVE Tokens!Init => TokenInv
<1> SUFFICES ASSUME Tokens!Init PROVE TokenInv
  OBVIOUS
<1> DEFINE f == [p \in Tokens!Proc |-> 0]
<1>1. /\ \A p \in Tokens!Proc : slot[p] \in SlotRow /\ slot[p].tok_sys_time = 0
                                /\ slot[p].used_sys_time = 0
      /\ slot = [p \in Tokens!Proc |-> slot[p]]
  BY DEF Tokens!Init, SlotRow, Tokens!Priority, Tokens!SchedulerConstants
<1>2. SlotsOK(slot)
  BY <1>1 DEF SlotsOK, Tokens!SchedulerConstants
<1>3. Charged(slot) /\ cpu \in [Tokens!Proc -> Nat]
  BY <1>1 DEF Charged, Tokens!Init
<1>4. HeldBy(slot) = 0
  <2>1. [p \in Tokens!Proc |-> slot[p].tok_sys_time] = f
    BY <1>1
  <2>2. HeldBy(slot) = SumFunctionOnSet(f, Tokens!Proc)
    BY <2>1 DEF HeldBy, SumFunction
  <2>3. f \in [Tokens!Proc -> Int] /\ \A p \in Tokens!Proc : f[p] = 0
    OBVIOUS
  <2> HIDE DEF f
  <2>4. IsFiniteSet(Tokens!Proc)
    BY ProcsAreFinite
  <2> QED BY <2>2, <2>3, <2>4, SumOfZeros
<1>5. /\ tokens = 0 /\ proc_nr \in Tokens!Proc /\ last_fill = 0 /\ uptime = 0 /\ spent = 0
      /\ forgotten = 0 /\ runnable = {} /\ MaxTicks \in Nat
  BY DEF Tokens!Init, Tokens!Proc, Tokens!SchedulerConstants
<1> QED BY <1>2, <1>3, <1>4, <1>5 DEF TokenInv

\* Every step of the scheduler keeps the invariant.
LEMMA TokenStep ==
    ASSUME Tokens!SchedulerConstants
    PROVE  TokenInv /\ [Tokens!Next]_Tokens!schedVars => TokenInv'
<1> SUFFICES ASSUME TokenInv, [Tokens!Next]_Tokens!schedVars PROVE TokenInv'
  OBVIOUS
<1>1. CASE UNCHANGED Tokens!schedVars
  BY <1>1 DEF Tokens!schedVars, TokenInv, SlotsOK, Charged, HeldBy
<1>2. CASE Tokens!Run
  BY <1>2, RunKeeps
<1>3. CASE Tokens!LateNoquantum
  BY <1>3, LateKeeps
<1>4. CASE Tokens!BalanceQueues
  BY <1>4, BalanceKeeps
<1>5. ASSUME NEW p \in Tokens!Proc, Tokens!DoNoquantum(p) PROVE TokenInv'
  BY <1>5, NoquantumKeeps
<1>6. ASSUME NEW p \in Tokens!Proc, Tokens!DoStopScheduling(p) PROVE TokenInv'
  BY <1>6, StopKeeps
<1>7. ASSUME NEW p \in Tokens!Proc, NEW q \in Tokens!Priority,
             Tokens!DoStartScheduling(p, q) \/ Tokens!FailStartScheduling(p, q) \/ Tokens!DoNice(p, q)
      PROVE  TokenInv'
  BY <1>7, StartKeeps, FailKeeps, NiceKeeps
<1> QED BY <1>1, <1>2, <1>3, <1>4, <1>5, <1>6, <1>7 DEF Tokens!Next

\* schedule.c: whatever starts, stops, refills, renices and rollbacks happen, for any number of
\* slots and any limit, the pool, the slots, what was paid and what a second set-up overwrote
\* are together what time has handed out; and a slot out of use holds nothing or a full load.
THEOREM TokensConserved ==
    ASSUME Tokens!SchedulerConstants
    PROVE  Tokens!Spec => [](Tokens!TypeOK /\ Tokens!TokensAreConserved)
<1>1. TokenInv => Tokens!TypeOK
  BY DEF TokenInv, Tokens!TypeOK, SlotsOK, SlotRow, Charged, Tokens!SchedulerConstants
<1>2. TokenInv => Tokens!TokensAreConserved
  BY TokenSums DEF TokenInv, Tokens!TokensAreConserved, SlotsOK, HeldBy
<1> QED BY <1>1, <1>2, TokenInit, TokenStep, PTL DEF Tokens!Spec

-----------------------------------------------------------------------------
(* The votes of the election pages *)

VoteCount == 0 .. MaxVotes
SummaryRow == [votes_valid : Int, votes_invalid : Int, ballot_papers : Int]
AtSummary == [pc : {"summary"}, candidate : CandidateId, votes : -1 .. MaxVotes, row : VoteCount]
AtSave == [pc : {"save"}, candidate : CandidateId, votes : -1 .. MaxVotes, row : VoteCount,
           summary : SummaryRow]

\* The papers that are not valid votes.
Rest(s) == s.ballot_papers - s.votes_valid

TotalVotes == SumFunctionOnSet(votes, CandidateId)

\* A request that nobody overlapped has the rows as they are.
UpToDate(w) ==
    workers[w].pc # "free" =>
        /\ workers[w].row = votes[workers[w].candidate]
        /\ workers[w].pc = "save" => workers[w].summary = summary

VotesInv ==
    /\ votes \in [CandidateId -> VoteCount]
    /\ summary \in SummaryRow /\ Rest(summary) = Invalid + Spare
    /\ workers \in [Worker -> {Votes!Free} \cup AtSummary \cup AtSave]
    /\ served \in 0 .. MaxServed /\ overlapped \in BOOLEAN
    /\ \A w \in Worker : workers[w].pc = "save" => Rest(workers[w].summary) = Invalid + Spare
    /\ ~overlapped =>
          /\ summary.votes_valid = TotalVotes
          /\ \A w \in Worker : UpToDate(w)
          /\ \A v, w \in Worker : workers[v].pc # "free" /\ workers[w].pc # "free" => v = w

\* The votes add up as the lemmas above do.
LEMMA VoteSums == \A f, S : Votes!SumFunctionOnSet(f, S) = SumFunctionOnSet(f, S)
BY DEF SumFunctionOnSet, FoldFunctionOnSet, MapThenFoldSet,
       Votes!SumFunctionOnSet, Votes!FoldFunctionOnSet, Votes!MapThenFoldSet

\* The cardinality of the module of the votes is that of the library.
LEMMA VoteSizes ==
    \A S : Votes!IsFiniteSet(S) = IsFiniteSet(S) /\ Votes!Cardinality(S) = Cardinality(S)
BY DEF Votes!Cardinality, Cardinality, Votes!IsFiniteSet, IsFiniteSet

\* There are finitely many candidates.
LEMMA CandidatesAreFinite ==
    ASSUME Votes!VotesConstants
    PROVE  /\ IsFiniteSet(CandidateId) /\ MaxVotes \in Nat \ {0} /\ MaxServed \in Nat
           /\ Invalid \in Nat /\ Spare \in Nat
BY VoteSizes DEF Votes!VotesConstants

\* A row whose two numbers are set to others.
SetRow(s, x, y) == [s EXCEPT !.votes_valid = x, !.ballot_papers = y]
\* A summary row that two numbers are written into.
LEMMA RowMoves ==
    ASSUME NEW s \in SummaryRow, NEW x \in Int, NEW y \in Int,
           NEW t, t = SetRow(s, x, y)
    PROVE  t \in SummaryRow /\ t.votes_valid = x /\ t.ballot_papers = y
BY DEF SummaryRow, SetRow

\* A summary row moved by d votes.
LEMMA MovedRow ==
    ASSUME NEW s \in SummaryRow, NEW d \in Int
    PROVE  /\ Votes!Moved(s, d) \in SummaryRow
           /\ Votes!Moved(s, d).votes_valid = s.votes_valid + d
           /\ Votes!Moved(s, d).ballot_papers = s.ballot_papers + d
<1>1. s.votes_valid + d \in Int /\ s.ballot_papers + d \in Int
  BY DEF SummaryRow
<1>2. PICK x \in Int : x = s.votes_valid + d
  BY <1>1
<1>3. PICK y \in Int : y = s.ballot_papers + d
  BY <1>1
<1>4. Votes!Moved(s, d) = SetRow(s, x, y)
  BY <1>2, <1>3, Zenon DEF Votes!Moved, SetRow
<1>5. PICK t : t = SetRow(s, x, y)
  OBVIOUS
<1>6. t \in SummaryRow /\ t.votes_valid = x /\ t.ballot_papers = y
  BY <1>5, RowMoves
<1> QED BY <1>2, <1>3, <1>4, <1>5, <1>6

\* What a worker is, by its pc.
LEMMA WorkerKinds ==
    ASSUME VotesInv, NEW w \in Worker
    PROVE  /\ workers[w].pc \in {"free", "summary", "save"}
           /\ workers[w].pc = "free" <=> workers[w] = Votes!Free
           /\ workers[w].pc = "summary" => workers[w] \in AtSummary
           /\ workers[w].pc = "save" => workers[w] \in AtSave
<1>1. workers[w] \in {Votes!Free} \cup AtSummary \cup AtSave
  BY DEF VotesInv
<1>2. CASE workers[w] = Votes!Free
  BY <1>2 DEF Votes!Free
<1>3. CASE workers[w] \in AtSummary
  BY <1>3 DEF AtSummary, Votes!Free
<1>4. CASE workers[w] \in AtSave
  BY <1>4 DEF AtSave, Votes!Free
<1> QED BY <1>1, <1>2, <1>3, <1>4

\* The invariant holds in the beginning.
LEMMA VotesInit == ASSUME Votes!VotesConstants PROVE Votes!Init => VotesInv
<1> SUFFICES ASSUME Votes!Init PROVE VotesInv
  OBVIOUS
<1>1. /\ votes = [c \in CandidateId |-> 1]
      /\ summary = [votes_valid |-> Cardinality(CandidateId), votes_invalid |-> Invalid,
                    ballot_papers |-> Cardinality(CandidateId) + Invalid + Spare]
      /\ workers = [w \in Worker |-> Votes!Free] /\ served = 0 /\ overlapped = FALSE
      /\ IsFiniteSet(CandidateId) /\ MaxVotes \in Nat \ {0} /\ MaxServed \in Nat
      /\ Invalid \in Nat /\ Spare \in Nat
  BY CandidatesAreFinite, VoteSizes DEF Votes!Init
<1>2. votes \in [CandidateId -> VoteCount] /\ votes \in [CandidateId -> Int]
      /\ \A c \in CandidateId : votes[c] = 1
  BY <1>1 DEF VoteCount
<1>3. Cardinality(CandidateId) \in Nat
  BY <1>1, FS_CardinalityType
<1>4. summary \in SummaryRow /\ Rest(summary) = Invalid + Spare
      /\ summary.votes_valid = Cardinality(CandidateId)
  BY <1>1, <1>3 DEF SummaryRow, Rest
<1>5. TotalVotes = Cardinality(CandidateId)
  BY <1>1, <1>2, SumOfOnes DEF TotalVotes
<1>6. \A w \in Worker : workers[w] = Votes!Free /\ workers[w].pc = "free"
  BY <1>1 DEF Votes!Free
<1>7. /\ workers \in [Worker -> {Votes!Free} \cup AtSummary \cup AtSave]
      /\ served \in 0 .. MaxServed /\ overlapped \in BOOLEAN
  <2>1. workers \in [Worker -> {Votes!Free} \cup AtSummary \cup AtSave]
    BY <1>1
  <2>2. served = 0 /\ overlapped = FALSE /\ MaxServed \in Nat
    BY <1>1, Zenon
  <2>3. 0 \in 0 .. MaxServed
    BY <2>2
  <2> QED BY <2>1, <2>2, <2>3, Zenon
<1> QED BY <1>2, <1>4, <1>5, <1>6, <1>7 DEF VotesInv, UpToDate

\* Reading the candidate keeps the invariant.
LEMMA CandidateRead ==
    ASSUME Votes!VotesConstants, VotesInv, NEW w \in Worker, Votes!ReadCandidate(w)
    PROVE  VotesInv'
<1>1. PICK c \in CandidateId, n \in -1 .. MaxVotes :
        workers' = [workers EXCEPT ![w] =
            [pc |-> "summary", candidate |-> c, votes |-> n, row |-> votes[c]]]
  BY DEF Votes!ReadCandidate
<1> DEFINE me == [pc |-> "summary", candidate |-> c, votes |-> n, row |-> votes[c]]
<1>2. /\ workers[w] = Votes!Free /\ served < MaxServed /\ served' = served + 1
      /\ overlapped' = (overlapped \/ Votes!Busy # {}) /\ UNCHANGED <<votes, summary>>
  BY DEF Votes!ReadCandidate
<1>3. me \in AtSummary /\ me.pc = "summary" /\ me.row = votes[me.candidate]
  BY DEF AtSummary, VotesInv
<1> HIDE DEF me
<1>4. /\ workers' \in [Worker -> {Votes!Free} \cup AtSummary \cup AtSave]
      /\ workers'[w] = me /\ \A v \in Worker : v # w => workers'[v] = workers[v]
  <2>1. workers' = [workers EXCEPT ![w] = me]
    BY <1>1 DEF me
  <2> QED BY <1>3, <2>1 DEF VotesInv
<1>5. served' \in 0 .. MaxServed /\ overlapped' \in BOOLEAN
  BY <1>2 DEF VotesInv, Votes!VotesConstants
<1>6. ASSUME NEW v \in Worker, workers'[v].pc = "save"
      PROVE  Rest(workers'[v].summary) = Invalid + Spare
  <2>1. v # w
    BY <1>3, <1>4, <1>6
  <2> QED BY <1>4, <1>6, <2>1 DEF VotesInv
<1>7. ASSUME ~overlapped'
      PROVE  /\ summary'.votes_valid = TotalVotes'
             /\ \A v \in Worker : UpToDate(v)'
             /\ \A u, v \in Worker : workers'[u].pc # "free" /\ workers'[v].pc # "free" => u = v
  <2>1. ~overlapped /\ \A v \in Worker : workers[v] = Votes!Free
    BY <1>2, <1>7 DEF Votes!Busy
  <2>2. \A v \in Worker : v # w => workers'[v].pc = "free"
    BY <1>4, <2>1 DEF Votes!Free
  <2>3. summary'.votes_valid = TotalVotes'
    BY <1>2, <2>1 DEF VotesInv, TotalVotes
  <2>4. \A v \in Worker : UpToDate(v)'
    BY <1>2, <1>3, <1>4, <2>2 DEF UpToDate
  <2> QED BY <2>2, <2>3, <2>4
<1>8. votes' \in [CandidateId -> VoteCount] /\ summary' \in SummaryRow /\ Rest(summary') = Invalid + Spare
  BY <1>2 DEF VotesInv
<1> QED BY <1>4, <1>5, <1>6, <1>7, <1>8, Zenon DEF VotesInv, Rest

\* Reading the summary keeps the invariant.
LEMMA SummaryRead ==
    ASSUME Votes!VotesConstants, VotesInv, NEW w \in Worker, Votes!ReadSummary(w)
    PROVE  VotesInv'
<1> DEFINE old == workers[w]
           me == [pc |-> "save", candidate |-> old.candidate, votes |-> old.votes,
                  row |-> old.row, summary |-> summary]
<1>1. /\ old.pc = "summary" /\ workers' = [workers EXCEPT ![w] = me]
      /\ UNCHANGED <<votes, summary, served, overlapped>>
  BY DEF Votes!ReadSummary
<1>2. old \in AtSummary
  BY <1>1, WorkerKinds
<1>3. /\ me \in AtSave /\ me.pc = "save" /\ me.row = old.row /\ me.candidate = old.candidate
      /\ me.summary = summary
  <2>1. summary \in SummaryRow
    BY DEF VotesInv
  <2> HIDE DEF old
  <2> QED BY <1>2, <2>1 DEF AtSummary, AtSave
<1> HIDE DEF me
<1>4. /\ workers' \in [Worker -> {Votes!Free} \cup AtSummary \cup AtSave]
      /\ workers'[w] = me /\ \A v \in Worker : v # w => workers'[v] = workers[v]
  BY <1>1, <1>3 DEF VotesInv
<1>5. ASSUME NEW v \in Worker, workers'[v].pc = "save"
      PROVE  Rest(workers'[v].summary) = Invalid + Spare
  <2>1. CASE v = w
    BY <1>3, <1>4, <2>1 DEF VotesInv
  <2>2. CASE v # w
    BY <1>4, <1>5, <2>2 DEF VotesInv
  <2> QED BY <2>1, <2>2
<1>6. ASSUME ~overlapped'
      PROVE  /\ summary'.votes_valid = TotalVotes'
             /\ \A v \in Worker : UpToDate(v)'
             /\ \A u, v \in Worker : workers'[u].pc # "free" /\ workers'[v].pc # "free" => u = v
  <2>1. /\ summary.votes_valid = TotalVotes /\ \A v \in Worker : UpToDate(v)
        /\ \A u, v \in Worker : workers[u].pc # "free" /\ workers[v].pc # "free" => u = v
    BY <1>1, <1>6 DEF VotesInv
  <2>2. summary'.votes_valid = TotalVotes'
    BY <1>1, <2>1 DEF TotalVotes
  <2>3. \A v \in Worker : v # w => workers'[v].pc = "free" /\ workers'[v] = workers[v]
    BY <1>1, <1>4, <2>1
  <2>4. UpToDate(w)'
    <3>1. old.row = votes[old.candidate]
      BY <1>1, <2>1 DEF UpToDate
    <3> QED BY <1>1, <1>3, <1>4, <3>1 DEF UpToDate
  <2>5. \A v \in Worker : UpToDate(v)'
    BY <2>3, <2>4 DEF UpToDate
  <2> QED BY <2>2, <2>3, <2>5
<1>7. /\ votes' \in [CandidateId -> VoteCount] /\ summary' \in SummaryRow
      /\ Rest(summary') = Invalid + Spare /\ served' \in 0 .. MaxServed /\ overlapped' \in BOOLEAN
  BY <1>1 DEF VotesInv
<1> QED BY <1>4, <1>5, <1>6, <1>7, Zenon DEF VotesInv, Rest

\* Setting the votes of one candidate moves the sum by the difference.
LEMMA OneCandidateMoves ==
    ASSUME Votes!VotesConstants, VotesInv, NEW c \in CandidateId, NEW n \in VoteCount,
           votes' = [votes EXCEPT ![c] = n]
    PROVE  TotalVotes' = TotalVotes + (n - votes[c]) /\ TotalVotes \in Int
<1> DEFINE d == [x \in {c} |-> votes[c] - n]
<1>1. VoteCount \in SUBSET Int
  BY DEF VoteCount
<1>2. /\ votes \in [CandidateId -> Int] /\ votes' \in [CandidateId -> Int]
      /\ n \in Int /\ votes[c] \in Int
  BY <1>1 DEF VotesInv
<1>3. d \in [{c} -> Int] /\ d[c] = votes[c] - n
  BY <1>2
<1>4. \A x \in CandidateId : votes'[x] = IF x \in {c} THEN votes[x] - d[x] ELSE votes[x]
  BY <1>2, <1>3
<1>5. IsFiniteSet(CandidateId)
  BY CandidatesAreFinite
<1> HIDE DEF d
<1>6. SumFunctionOnSet(votes', CandidateId)
        = SumFunctionOnSet(votes, CandidateId) - SumFunctionOnSet(d, {c})
  <2> DEFINE f == votes
             g == votes'
             P == {c}
  <2>1. /\ P \in SUBSET CandidateId /\ f \in [CandidateId -> Int] /\ g \in [CandidateId -> Int]
        /\ d \in [P -> Int] /\ \A x \in CandidateId : g[x] = IF x \in P THEN f[x] - d[x] ELSE f[x]
    BY <1>2, <1>3, <1>4
  <2>2. SumFunctionOnSet(g, CandidateId)
          = SumFunctionOnSet(f, CandidateId) - SumFunctionOnSet(d, P)
    <3> HIDE DEF f, g, P
    <3> QED BY <1>5, <2>1, SumMoves
  <2> QED BY <2>2
<1>7. SumFunctionOnSet(d, {c}) = d[c] /\ SumFunctionOnSet(votes, CandidateId) \in Int
  BY <1>2, <1>3, <1>5, SumOfOne, SumIsInt
<1>8. TotalVotes' = SumFunctionOnSet(votes', CandidateId)
  BY DEF TotalVotes
<1> QED BY <1>2, <1>3, <1>6, <1>7, <1>8 DEF TotalVotes

\* Saving both rows keeps the invariant.
LEMMA BothSaved ==
    ASSUME Votes!VotesConstants, VotesInv, NEW w \in Worker, Votes!SaveBoth(w)
    PROVE  VotesInv'
<1> DEFINE me == workers[w]
           moved == Votes!Moved(me.summary, me.votes - me.row)
<1>1. /\ me.pc = "save" /\ workers' = [workers EXCEPT ![w] = Votes!Free]
      /\ UNCHANGED <<served, overlapped>>
  BY DEF Votes!SaveBoth
<1>2. \/ /\ Votes!Valid(me.votes, moved) /\ summary' = moved
         /\ votes' = [votes EXCEPT ![me.candidate] = me.votes]
      \/ UNCHANGED <<votes, summary>>
  BY DEF Votes!SaveBoth
<1>3. me \in AtSave /\ Rest(me.summary) = Invalid + Spare
  BY <1>1, WorkerKinds DEF VotesInv
<1> HIDE DEF me
<1>4. /\ me.candidate \in CandidateId /\ me.votes \in -1 .. MaxVotes /\ me.row \in VoteCount
      /\ me.summary \in SummaryRow
  BY <1>3 DEF AtSave
<1>5. /\ moved \in SummaryRow /\ Rest(moved) = Invalid + Spare
      /\ moved.votes_valid = me.summary.votes_valid + (me.votes - me.row)
  <2>1. me.votes - me.row \in Int
    BY <1>4 DEF VoteCount
  <2>2. /\ me.summary.votes_valid \in Int /\ me.summary.ballot_papers \in Int
        /\ me.summary.votes_invalid \in Int
    BY <1>4 DEF SummaryRow
  <2>3. /\ moved \in SummaryRow
        /\ moved.votes_valid = me.summary.votes_valid + (me.votes - me.row)
        /\ moved.ballot_papers = me.summary.ballot_papers + (me.votes - me.row)
    BY <1>4, <2>1, MovedRow
  <2> HIDE DEF moved
  <2> QED BY <1>3, <2>1, <2>2, <2>3 DEF Rest
<1> HIDE DEF moved
<1>6. /\ workers' \in [Worker -> {Votes!Free} \cup AtSummary \cup AtSave]
      /\ workers'[w] = Votes!Free /\ \A v \in Worker : v # w => workers'[v] = workers[v]
  BY <1>1 DEF VotesInv
<1>7. Votes!Free.pc = "free"
  BY DEF Votes!Free
<1>8. Votes!Valid(me.votes, moved) => me.votes \in VoteCount
  BY <1>4 DEF Votes!Valid, VoteCount
<1>9. /\ votes' \in [CandidateId -> VoteCount] /\ summary' \in SummaryRow
      /\ Rest(summary') = Invalid + Spare /\ served' \in 0 .. MaxServed /\ overlapped' \in BOOLEAN
  BY <1>1, <1>2, <1>4, <1>5, <1>8 DEF VotesInv
<1>10. ASSUME NEW v \in Worker, workers'[v].pc = "save"
       PROVE  Rest(workers'[v].summary) = Invalid + Spare
  <2>1. v # w
    BY <1>6, <1>7, <1>10
  <2> QED BY <1>6, <1>10, <2>1 DEF VotesInv
<1>11. ASSUME ~overlapped'
       PROVE  /\ summary'.votes_valid = TotalVotes'
              /\ \A v \in Worker : UpToDate(v)'
              /\ \A u, v \in Worker : workers'[u].pc # "free" /\ workers'[v].pc # "free" => u = v
  <2>1. /\ summary.votes_valid = TotalVotes /\ UpToDate(w)
        /\ \A u, v \in Worker : workers[u].pc # "free" /\ workers[v].pc # "free" => u = v
    BY <1>1, <1>11 DEF VotesInv
  <2>2. me.row = votes[me.candidate] /\ me.summary = summary
    BY <1>1, <2>1 DEF UpToDate, me
  <2>3. \A v \in Worker : workers'[v].pc = "free"
    <3> SUFFICES ASSUME NEW v \in Worker, v # w PROVE workers[v].pc = "free"
      BY <1>6, <1>7
    <3> QED BY <1>1, <2>1 DEF me
  <2>4. summary'.votes_valid = TotalVotes'
    <3>1. CASE UNCHANGED <<votes, summary>>
      BY <2>1, <3>1 DEF TotalVotes
    <3>2. CASE /\ Votes!Valid(me.votes, moved) /\ summary' = moved
               /\ votes' = [votes EXCEPT ![me.candidate] = me.votes]
      <4>1. TotalVotes' = TotalVotes + (me.votes - votes[me.candidate])
        BY <1>4, <1>8, <3>2, OneCandidateMoves
      <4> QED BY <1>5, <2>1, <2>2, <3>2, <4>1
    <3> QED BY <1>2, <3>1, <3>2
  <2> QED BY <2>3, <2>4 DEF UpToDate
<1> QED BY <1>6, <1>9, <1>10, <1>11, Zenon DEF VotesInv, Rest

\* votes_api: however the requests overlap, the papers that are no valid votes stay as many
\* as they were; and as long as none read before another had saved, the summary is the sum
\* of the candidates' votes, for any candidates.
THEOREM VotesAddUp ==
    ASSUME Votes!VotesConstants
    PROVE  Votes!Spec => [](Votes!TypeOK /\ Votes!SummaryAddsUp)
<1>1. VotesInv /\ [Votes!Next]_Votes!votesVars => VotesInv'
  <2> SUFFICES ASSUME VotesInv, [Votes!Next]_Votes!votesVars PROVE VotesInv'
    OBVIOUS
  <2>1. CASE UNCHANGED Votes!votesVars
    BY <2>1 DEF Votes!votesVars, VotesInv, UpToDate, TotalVotes
  <2>2. ASSUME NEW w \in Worker,
               Votes!ReadCandidate(w) \/ Votes!ReadSummary(w) \/ Votes!SaveBoth(w)
        PROVE  VotesInv'
    BY <2>2, CandidateRead, SummaryRead, BothSaved
  <2> QED BY <2>1, <2>2 DEF Votes!Next
<1>2. VotesInv => Votes!TypeOK
  <2> SUFFICES ASSUME VotesInv PROVE Votes!TypeOK
    OBVIOUS
  <2>1. \A w \in Worker : workers[w].pc \in {"free", "summary", "save"}
    BY WorkerKinds
  <2> QED BY <2>1 DEF VotesInv, VoteCount, Votes!TypeOK
<1>3. VotesInv => Votes!SummaryAddsUp
  BY VoteSums DEF VotesInv, Rest, TotalVotes, Votes!SummaryAddsUp
<1> QED BY <1>1, <1>2, <1>3, VotesInit, PTL DEF Votes!Spec

-----------------------------------------------------------------------------
(* The rectangles of geometry.cc *)

Tiles(s) == UNION {Geometry!Cells(s[i]) : i \in DOMAIN s}
Apart(s) == \A i, j \in DOMAIN s : i # j => Geometry!Cells(s[i]) \cap Geometry!Cells(s[j]) = {}

\* first and second share out the cells of r.
ShareOut(first, second, r) ==
    /\ Geometry!Cells(first) \cup Geometry!Cells(second) = Geometry!Cells(r)
    /\ Geometry!Cells(first) \cap Geometry!Cells(second) = {}

TilingInv ==
    /\ rectangles \in Seq(Geometry!Rectangle)
    /\ shift \in Geometry!Position
    /\ shift \in Shifts \cup {[x |-> 0, y |-> 0]}
    /\ Geometry!TilesStay

\* A rectangle by its parts.
LEMMA RectParts ==
    ASSUME NEW w \in Nat \ {0}, NEW h \in Nat \ {0}, NEW p \in Geometry!Position
    PROVE  /\ Geometry!Rect(w, h, p) \in Geometry!Rectangle
           /\ Geometry!Rect(w, h, p).width = w /\ Geometry!Rect(w, h, p).height = h
           /\ Geometry!Rect(w, h, p).pos = p
BY DEF Geometry!Rect, Geometry!Rectangle

\* The parts of a rectangle.
LEMMA PartsOfRect ==
    ASSUME NEW r \in Geometry!Rectangle
    PROVE  /\ r.width \in Nat \ {0} /\ r.height \in Nat \ {0} /\ r.pos \in Geometry!Position
           /\ r.pos.x \in Int /\ r.pos.y \in Int
           /\ r = Geometry!Rect(r.width, r.height, r.pos)
BY DEF Geometry!Rect, Geometry!Rectangle, Geometry!Position

\* A position moved by a vector.
LEMMA SumOfPositions ==
    ASSUME NEW p \in Geometry!Position, NEW v \in Geometry!Position
    PROVE  /\ Geometry!Plus(p, v) \in Geometry!Position
           /\ Geometry!Plus(p, v).x = p.x + v.x /\ Geometry!Plus(p, v).y = p.y + v.y
BY DEF Geometry!Plus, Geometry!Position

\* A cell by its corner.
LEMMA CellAt ==
    ASSUME NEW r \in Geometry!Rectangle
    PROVE  /\ \A c \in Geometry!Cells(r) : \E a, b \in Int : c = <<a, b>>
           /\ \A a, b \in Int : <<a, b>> \in Geometry!Cells(r) <=>
                  /\ r.pos.x <= a /\ a < r.pos.x + r.width
                  /\ r.pos.y <= b /\ b < r.pos.y + r.height
<1>1. r.width \in Nat /\ r.height \in Nat /\ r.pos.x \in Int /\ r.pos.y \in Int
  BY PartsOfRect
<1> QED BY <1>1 DEF Geometry!Cells

\* Sets of cells compared cell by cell.
LEMMA CellByCell ==
    ASSUME NEW R, NEW F, NEW G,
           \A c \in R \cup F \cup G : \E a, b \in Int : c = <<a, b>>,
           \A a, b \in Int : /\ <<a, b>> \in R <=> <<a, b>> \in F \/ <<a, b>> \in G
                             /\ ~(<<a, b>> \in F /\ <<a, b>> \in G)
    PROVE  F \cup G = R /\ F \cap G = {}
<1>1. ASSUME NEW c \in R \cup F \cup G
      PROVE  (c \in R <=> c \in F \/ c \in G) /\ ~(c \in F /\ c \in G)
  <2>1. PICK a \in Int, b \in Int : c = <<a, b>>
    BY <1>1
  <2>2. /\ <<a, b>> \in R <=> <<a, b>> \in F \/ <<a, b>> \in G
        /\ ~(<<a, b>> \in F /\ <<a, b>> \in G)
    OBVIOUS
  <2> QED BY <2>1, <2>2
<1> QED BY <1>1

\* The halves of a rectangle share out its cells.
LEMMA Halves ==
    ASSUME NEW r \in Geometry!Rectangle, NEW place \in Int, 0 < place
    PROVE  /\ place < r.height =>
                 /\ Geometry!Low(r, place) \in Geometry!Rectangle
                 /\ Geometry!High(r, place) \in Geometry!Rectangle
                 /\ ShareOut(Geometry!Low(r, place), Geometry!High(r, place), r)
           /\ place < r.width =>
                 /\ Geometry!Left(r, place) \in Geometry!Rectangle
                 /\ Geometry!Right(r, place) \in Geometry!Rectangle
                 /\ ShareOut(Geometry!Left(r, place), Geometry!Right(r, place), r)
<1>1. /\ r.width \in Nat \ {0} /\ r.height \in Nat \ {0} /\ r.pos \in Geometry!Position
      /\ r.pos.x \in Int /\ r.pos.y \in Int
  BY PartsOfRect
<1> DEFINE up == [x |-> 0, y |-> place]
           side == [x |-> place, y |-> 0]
<1>2. /\ up \in Geometry!Position /\ up.x = 0 /\ up.y = place
      /\ side \in Geometry!Position /\ side.x = place /\ side.y = 0
  BY DEF Geometry!Position
<1>3. ASSUME place < r.height
      PROVE  /\ Geometry!Low(r, place) \in Geometry!Rectangle
             /\ Geometry!High(r, place) \in Geometry!Rectangle
             /\ ShareOut(Geometry!Low(r, place), Geometry!High(r, place), r)
  <2> DEFINE first == Geometry!Low(r, place)
             second == Geometry!High(r, place)
             above == Geometry!Plus(r.pos, up)
  <2> HIDE DEF up, side
  <2>1. above \in Geometry!Position /\ above.x = r.pos.x /\ above.y = r.pos.y + place
    BY <1>1, <1>2, SumOfPositions
  <2>2. place \in Nat \ {0} /\ r.height - place \in Nat \ {0}
    BY <1>1, <1>3
  <2>3. first = Geometry!Rect(r.width, place, r.pos)
    BY DEF Geometry!Low
  <2>4. second = Geometry!Rect(r.width, r.height - place, above)
    BY DEF Geometry!High, up
  <2> HIDE DEF first, second, above
  <2>5. /\ first \in Geometry!Rectangle /\ first.width = r.width /\ first.height = place
        /\ first.pos = r.pos
    BY <1>1, <2>2, <2>3, RectParts
  <2>6. /\ second \in Geometry!Rectangle /\ second.width = r.width
        /\ second.height = r.height - place /\ second.pos = above
    BY <1>1, <2>1, <2>2, <2>4, RectParts
  <2>7. \A a, b \in Int :
           /\ <<a, b>> \in Geometry!Cells(r) <=>
                 <<a, b>> \in Geometry!Cells(first) \/ <<a, b>> \in Geometry!Cells(second)
           /\ ~(<<a, b>> \in Geometry!Cells(first) /\ <<a, b>> \in Geometry!Cells(second))
    <3> SUFFICES ASSUME NEW a \in Int, NEW b \in Int
                 PROVE  /\ <<a, b>> \in Geometry!Cells(r) <=>
                             <<a, b>> \in Geometry!Cells(first) \/ <<a, b>> \in Geometry!Cells(second)
                        /\ ~(<<a, b>> \in Geometry!Cells(first) /\ <<a, b>> \in Geometry!Cells(second))
      OBVIOUS
    <3>1. <<a, b>> \in Geometry!Cells(r) <=>
              r.pos.x <= a /\ a < r.pos.x + r.width /\ r.pos.y <= b /\ b < r.pos.y + r.height
      BY CellAt
    <3>2. <<a, b>> \in Geometry!Cells(first) <=>
              r.pos.x <= a /\ a < r.pos.x + r.width /\ r.pos.y <= b /\ b < r.pos.y + place
      BY <2>5, CellAt
    <3>3. <<a, b>> \in Geometry!Cells(second) <=>
              /\ r.pos.x <= a /\ a < r.pos.x + r.width
              /\ r.pos.y + place <= b /\ b < r.pos.y + place + (r.height - place)
      BY <2>1, <2>6, CellAt
    <3> QED BY <1>1, <1>3, <3>1, <3>2, <3>3
  <2>8. \A c \in Geometry!Cells(r) \cup Geometry!Cells(first) \cup Geometry!Cells(second) :
            \E a, b \in Int : c = <<a, b>>
    BY <2>5, <2>6, CellAt
  <2>9. ShareOut(first, second, r)
    BY <2>7, <2>8, CellByCell DEF ShareOut
  <2> QED BY <2>5, <2>6, <2>9 DEF first, second
<1>4. ASSUME place < r.width
      PROVE  /\ Geometry!Left(r, place) \in Geometry!Rectangle
             /\ Geometry!Right(r, place) \in Geometry!Rectangle
             /\ ShareOut(Geometry!Left(r, place), Geometry!Right(r, place), r)
  <2> DEFINE first == Geometry!Left(r, place)
             second == Geometry!Right(r, place)
             beside == Geometry!Plus(r.pos, side)
  <2> HIDE DEF up, side
  <2>1. beside \in Geometry!Position /\ beside.x = r.pos.x + place /\ beside.y = r.pos.y
    BY <1>1, <1>2, SumOfPositions
  <2>2. place \in Nat \ {0} /\ r.width - place \in Nat \ {0}
    BY <1>1, <1>4
  <2>3. first = Geometry!Rect(place, r.height, r.pos)
    BY DEF Geometry!Left
  <2>4. second = Geometry!Rect(r.width - place, r.height, beside)
    BY DEF Geometry!Right, side
  <2> HIDE DEF first, second, beside
  <2>5. /\ first \in Geometry!Rectangle /\ first.width = place /\ first.height = r.height
        /\ first.pos = r.pos
    BY <1>1, <2>2, <2>3, RectParts
  <2>6. /\ second \in Geometry!Rectangle /\ second.width = r.width - place
        /\ second.height = r.height /\ second.pos = beside
    BY <1>1, <2>1, <2>2, <2>4, RectParts
  <2>7. \A a, b \in Int :
           /\ <<a, b>> \in Geometry!Cells(r) <=>
                 <<a, b>> \in Geometry!Cells(first) \/ <<a, b>> \in Geometry!Cells(second)
           /\ ~(<<a, b>> \in Geometry!Cells(first) /\ <<a, b>> \in Geometry!Cells(second))
    <3> SUFFICES ASSUME NEW a \in Int, NEW b \in Int
                 PROVE  /\ <<a, b>> \in Geometry!Cells(r) <=>
                             <<a, b>> \in Geometry!Cells(first) \/ <<a, b>> \in Geometry!Cells(second)
                        /\ ~(<<a, b>> \in Geometry!Cells(first) /\ <<a, b>> \in Geometry!Cells(second))
      OBVIOUS
    <3>1. <<a, b>> \in Geometry!Cells(r) <=>
              r.pos.x <= a /\ a < r.pos.x + r.width /\ r.pos.y <= b /\ b < r.pos.y + r.height
      BY CellAt
    <3>2. <<a, b>> \in Geometry!Cells(first) <=>
              r.pos.x <= a /\ a < r.pos.x + place /\ r.pos.y <= b /\ b < r.pos.y + r.height
      BY <2>5, CellAt
    <3>3. <<a, b>> \in Geometry!Cells(second) <=>
              /\ r.pos.x + place <= a /\ a < r.pos.x + place + (r.width - place)
              /\ r.pos.y <= b /\ b < r.pos.y + r.height
      BY <2>1, <2>6, CellAt
    <3> QED BY <1>1, <1>4, <3>1, <3>2, <3>3
  <2>8. \A c \in Geometry!Cells(r) \cup Geometry!Cells(first) \cup Geometry!Cells(second) :
            \E a, b \in Int : c = <<a, b>>
    BY <2>5, <2>6, CellAt
  <2>9. ShareOut(first, second, r)
    BY <2>7, <2>8, CellByCell DEF ShareOut
  <2> QED BY <2>5, <2>6, <2>9 DEF first, second
<1> QED BY <1>3, <1>4

\* A moved rectangle has the cells, moved.
LEMMA MovedCells ==
    ASSUME NEW r \in Geometry!Rectangle, NEW v \in Geometry!Position
    PROVE  /\ Geometry!Moved(r, v) \in Geometry!Rectangle
           /\ \A a, b \in Int : <<a, b>> \in Geometry!Cells(Geometry!Moved(r, v))
                                  <=> <<a - v.x, b - v.y>> \in Geometry!Cells(r)
           /\ Geometry!Moved(r, v).pos = Geometry!Plus(r.pos, v)
           /\ Geometry!Moved(r, v).width = r.width /\ Geometry!Moved(r, v).height = r.height
<1> DEFINE m == Geometry!Moved(r, v)
           p == Geometry!Plus(r.pos, v)
<1>1. /\ r.width \in Nat \ {0} /\ r.height \in Nat \ {0} /\ r.pos \in Geometry!Position
      /\ r.pos.x \in Int /\ r.pos.y \in Int
  BY PartsOfRect
<1>2. v.x \in Int /\ v.y \in Int
  BY DEF Geometry!Position
<1>3. p \in Geometry!Position /\ p.x = r.pos.x + v.x /\ p.y = r.pos.y + v.y
  BY <1>1, SumOfPositions
<1>4. m = Geometry!Rect(r.width, r.height, p)
  BY DEF Geometry!Moved
<1> HIDE DEF m, p
<1>5. m \in Geometry!Rectangle /\ m.width = r.width /\ m.height = r.height /\ m.pos = p
  BY <1>1, <1>3, <1>4, RectParts
<1>6. ASSUME NEW a \in Int, NEW b \in Int
      PROVE  <<a, b>> \in Geometry!Cells(m) <=> <<a - v.x, b - v.y>> \in Geometry!Cells(r)
  <2>1. <<a, b>> \in Geometry!Cells(m) <=>
            /\ r.pos.x + v.x <= a /\ a < r.pos.x + v.x + r.width
            /\ r.pos.y + v.y <= b /\ b < r.pos.y + v.y + r.height
    BY <1>3, <1>5, CellAt
  <2>2. a - v.x \in Int /\ b - v.y \in Int
    BY <1>2
  <2>3. <<a - v.x, b - v.y>> \in Geometry!Cells(r) <=>
            /\ r.pos.x <= a - v.x /\ a - v.x < r.pos.x + r.width
            /\ r.pos.y <= b - v.y /\ b - v.y < r.pos.y + r.height
    BY <2>2, CellAt
  <2> QED BY <1>1, <1>2, <2>1, <2>3
<1> QED BY <1>5, <1>6 DEF m, p

\* u is s with x in place n; t is s with two elements in the place n.
Put(u, s, n, x) == Len(u) = Len(s) /\ \A k \in 1 .. Len(s) : u[k] = IF k = n THEN x ELSE s[k]
TwoFor(t, s, n, x, y) ==
    /\ DOMAIN s = 1 .. Len(s) /\ DOMAIN t = 1 .. Len(s) + 1 /\ Len(s) \in Nat
    /\ t[n] = x /\ t[n + 1] = y
    /\ \A k \in 1 .. n - 1 : t[k] = s[k]
    /\ \A k \in n + 1 .. Len(s) : t[k + 1] = s[k]

\* What is in a sequence of which one element is replaced by two.
LEMMA ReplacedByTwo ==
    ASSUME NEW S, NEW s \in Seq(S), NEW n \in 1 .. Len(s), NEW first \in S, NEW second \in S,
           NEW u \in Seq(S), Put(u, s, n, first),
           NEW t, t = Geometry!InsertAt(u, n + 1, second)
    PROVE  t \in Seq(S) /\ TwoFor(t, s, n, first, second)
<1> DEFINE before == SubSeq(u, 1, n)
           behind == SubSeq(u, n + 1, Len(u))
           mid == before \o <<second>>
<1>1. Len(s) \in Nat /\ n \in Int /\ 1 <= n /\ n <= Len(s)
  OBVIOUS
<1>2. /\ u \in Seq(S) /\ Len(u) = Len(s)
      /\ \A k \in 1 .. Len(s) : u[k] = IF k = n THEN first ELSE s[k]
  BY DEF Put
<1>3. t = mid \o behind
  <2> DEFINE m == n + 1
  <2>1. m - 1 = n
    BY <1>1
  <2>2. t = Geometry!InsertAt(u, m, second)
    OBVIOUS
  <2> HIDE DEF m
  <2>3. t = SubSeq(u, 1, m - 1) \o <<second>> \o SubSeq(u, m, Len(u))
    BY <2>2, Zenon DEF Geometry!InsertAt
  <2> QED BY <2>1, <2>3 DEF m
<1>4. \A k \in 1 .. Len(u) : u[k] \in S
  BY <1>2, ElementOfSeq
<1>5. /\ before \in Seq(S) /\ Len(before) = n
      /\ \A k \in 1 .. n : before[k] = u[k]
  <2>1. \A k \in 1 .. n : u[k] \in S
    BY <1>1, <1>2, <1>4
  <2>2. /\ before \in Seq(S) /\ Len(before) = IF 1 <= n THEN n - 1 + 1 ELSE 0
        /\ \A k \in 1 .. n - 1 + 1 : before[k] = u[1 + k - 1]
    BY <1>1, <2>1, SubSeqProperties
  <2> HIDE DEF before
  <2> QED BY <1>1, <2>2
<1>6. /\ behind \in Seq(S) /\ Len(behind) = Len(s) - n
      /\ \A k \in 1 .. Len(s) - n : behind[k] = u[n + k]
  <2>1. \A k \in n + 1 .. Len(u) : u[k] \in S
    BY <1>1, <1>2, <1>4
  <2>2. n + 1 \in Int /\ Len(u) \in Int
    BY <1>1, <1>2
  <2>3. /\ behind \in Seq(S) /\ Len(behind) = IF n + 1 <= Len(u) THEN Len(u) - (n + 1) + 1 ELSE 0
        /\ \A k \in 1 .. Len(u) - (n + 1) + 1 : behind[k] = u[n + 1 + k - 1]
    BY <2>1, <2>2, SubSeqProperties
  <2> HIDE DEF behind
  <2> QED BY <1>1, <1>2, <2>3
<1>7. <<second>> \in Seq(S) /\ Len(<<second>>) = 1 /\ <<second>>[1] = second
  OBVIOUS
<1> HIDE DEF before, behind
<1>8. /\ mid \in Seq(S) /\ Len(mid) = n + 1
      /\ \A k \in 1 .. n + 1 : mid[k] = IF k <= n THEN before[k] ELSE second
  <2>1. /\ mid \in Seq(S) /\ Len(mid) = Len(before) + Len(<<second>>)
        /\ \A k \in 1 .. Len(before) + Len(<<second>>) :
              mid[k] = IF k <= Len(before) THEN before[k] ELSE <<second>>[k - Len(before)]
    BY <1>5, <1>7, ConcatProperties
  <2> HIDE DEF mid
  <2> QED BY <1>1, <1>5, <1>7, <2>1
<1> HIDE DEF mid
<1>9. /\ t \in Seq(S) /\ Len(t) = Len(mid) + Len(behind)
      /\ \A k \in 1 .. Len(mid) + Len(behind) :
            t[k] = IF k <= Len(mid) THEN mid[k] ELSE behind[k - Len(mid)]
  <2>1. /\ mid \o behind \in Seq(S) /\ Len(mid \o behind) = Len(mid) + Len(behind)
        /\ \A k \in 1 .. Len(mid) + Len(behind) :
              (mid \o behind)[k] = IF k <= Len(mid) THEN mid[k] ELSE behind[k - Len(mid)]
    <3>1. mid \in Seq(S) /\ behind \in Seq(S)
      BY <1>6, <1>8
    <3> QED BY <3>1, ConcatProperties, Zenon
  <2> QED BY <1>3, <2>1, Zenon
<1>10. Len(t) = Len(s) + 1
  BY <1>1, <1>6, <1>8, <1>9
<1>11. ASSUME NEW k \in 1 .. n + 1 PROVE t[k] = mid[k]
  <2>1. k \in 1 .. Len(mid) + Len(behind) /\ k <= Len(mid)
    BY <1>1, <1>6, <1>8
  <2> QED BY <1>9, <2>1
<1>12. \A k \in 1 .. n : t[k] = u[k]
  BY <1>1, <1>5, <1>8, <1>11
<1>13. t[n + 1] = second
  BY <1>1, <1>8, <1>11
<1>14. ASSUME NEW k \in n + 1 .. Len(s) PROVE t[k + 1] = s[k]
  <2>1. /\ k + 1 \in 1 .. Len(mid) + Len(behind) /\ ~(k + 1 <= Len(mid))
        /\ (k + 1) - Len(mid) = k - n /\ k - n \in 1 .. Len(s) - n /\ n + (k - n) = k
        /\ k \in 1 .. Len(s) /\ k # n
    BY <1>1, <1>6, <1>8
  <2>2. t[k + 1] = behind[k - n]
    BY <1>9, <2>1
  <2>3. behind[k - n] = u[n + (k - n)]
    BY <1>6, <2>1
  <2> QED BY <1>2, <2>1, <2>2, <2>3
<1>15. t[n] = first
  BY <1>1, <1>2, <1>12
<1>16. ASSUME NEW k \in 1 .. n - 1 PROVE t[k] = s[k]
  <2>1. k \in 1 .. n /\ k \in 1 .. Len(s) /\ k # n
    BY <1>1
  <2> QED BY <1>2, <1>12, <2>1
<1>17. DOMAIN s = 1 .. Len(s) /\ DOMAIN t = 1 .. Len(s) + 1
  BY <1>9, <1>10
<1> QED BY <1>1, <1>9, <1>13, <1>14, <1>15, <1>16, <1>17 DEF TwoFor

\* A collection in which one rectangle is split.
LEMMA HalvedCollection ==
    ASSUME NEW s, NEW t, NEW first, NEW second, NEW idx \in 1 .. Len(s),
           TwoFor(t, s, idx, first, second),
           ShareOut(first, second, s[idx]), Apart(s)
    PROVE  Tiles(t) = Tiles(s) /\ Apart(t)
<1> DEFINE n == Len(s)
<1>0. /\ n \in Nat /\ idx \in 1 .. n /\ DOMAIN s = 1 .. n /\ DOMAIN t = 1 .. n + 1
      /\ t[idx] = first /\ t[idx + 1] = second
      /\ \A k \in 1 .. idx - 1 : t[k] = s[k]
      /\ \A k \in idx + 1 .. n : t[k + 1] = s[k]
  BY DEF TwoFor
<1> HIDE DEF n
<1> USE <1>0 DEF ShareOut
<1>1. ASSUME NEW k \in 1 .. n + 1, k \notin {idx, idx + 1}
      PROVE  \E i \in 1 .. n : i # idx /\ t[k] = s[i] /\ i = IF k < idx THEN k ELSE k - 1
  <2>1. CASE k < idx
    <3>1. k \in 1 .. n /\ k \in 1 .. idx - 1
      BY <2>1
    <3> QED BY <2>1, <3>1
  <2>2. CASE ~(k < idx)
    <3>1. k - 1 \in idx + 1 .. n /\ k - 1 \in 1 .. n /\ (k - 1) + 1 = k /\ k - 1 # idx
      BY <1>1, <2>2
    <3>2. t[(k - 1) + 1] = s[k - 1]
      BY <3>1
    <3> QED BY <2>2, <3>1, <3>2
  <2> QED BY <2>1, <2>2
<1>2. ASSUME NEW i \in 1 .. n, i # idx PROVE \E k \in 1 .. n + 1 : t[k] = s[i]
  <2>1. CASE i < idx
    <3>1. i \in 1 .. n + 1 /\ i \in 1 .. idx - 1
      BY <2>1
    <3> QED BY <3>1
  <2>2. CASE i > idx
    <3>1. i + 1 \in 1 .. n + 1 /\ i \in idx + 1 .. n
      BY <2>2
    <3> QED BY <3>1
  <2> QED BY <1>2, <2>1, <2>2
<1>3. idx \in 1 .. n + 1 /\ idx + 1 \in 1 .. n + 1
  OBVIOUS
<1>4. Tiles(t) = Tiles(s)
  <2>1. ASSUME NEW c \in Tiles(t) PROVE c \in Tiles(s)
    <3>1. PICK k \in 1 .. n + 1 : c \in Geometry!Cells(t[k])
      BY <2>1 DEF Tiles
    <3>2. \E i \in 1 .. n : c \in Geometry!Cells(s[i])
      <4>1. CASE k \in {idx, idx + 1}
        BY <3>1, <4>1
      <4>2. CASE k \notin {idx, idx + 1}
        BY <1>1, <3>1, <4>2
      <4> QED BY <4>1, <4>2
    <3> QED BY <3>2 DEF Tiles
  <2>2. ASSUME NEW c \in Tiles(s) PROVE c \in Tiles(t)
    <3>1. PICK i \in 1 .. n : c \in Geometry!Cells(s[i])
      BY <2>2 DEF Tiles
    <3>2. \E k \in 1 .. n + 1 : c \in Geometry!Cells(t[k])
      <4>1. CASE i = idx
        BY <1>3, <3>1, <4>1
      <4>2. CASE i # idx
        BY <1>2, <3>1, <4>2
      <4> QED BY <4>1, <4>2
    <3> QED BY <3>2 DEF Tiles
  <2> QED BY <2>1, <2>2
<1>5. ASSUME NEW k \in 1 .. n + 1, NEW l \in 1 .. n + 1, k # l
      PROVE  Geometry!Cells(t[k]) \cap Geometry!Cells(t[l]) = {}
  <2>1. \A i, j \in 1 .. n : i # j => Geometry!Cells(s[i]) \cap Geometry!Cells(s[j]) = {}
    BY DEF Apart
  <2>2. ASSUME NEW i \in 1 .. n, i # idx
        PROVE  /\ Geometry!Cells(first) \cap Geometry!Cells(s[i]) = {}
               /\ Geometry!Cells(second) \cap Geometry!Cells(s[i]) = {}
    <3>1. Geometry!Cells(s[idx]) \cap Geometry!Cells(s[i]) = {}
      BY <2>1, <2>2
    <3> QED BY <3>1
  <2>3. CASE k \in {idx, idx + 1} /\ l \in {idx, idx + 1}
    BY <1>5, <2>3
  <2>4. CASE k \in {idx, idx + 1} /\ l \notin {idx, idx + 1}
    <3>1. PICK j \in 1 .. n : j # idx /\ t[l] = s[j]
      BY <1>1, <2>4
    <3> QED BY <2>2, <2>4, <3>1
  <2>5. CASE k \notin {idx, idx + 1} /\ l \in {idx, idx + 1}
    <3>1. PICK i \in 1 .. n : i # idx /\ t[k] = s[i]
      BY <1>1, <2>5
    <3> QED BY <2>2, <2>5, <3>1
  <2>6. CASE k \notin {idx, idx + 1} /\ l \notin {idx, idx + 1}
    <3>1. PICK i \in 1 .. n : t[k] = s[i] /\ i = IF k < idx THEN k ELSE k - 1
      BY <1>1, <2>6
    <3>2. PICK j \in 1 .. n : t[l] = s[j] /\ j = IF l < idx THEN l ELSE l - 1
      BY <1>1, <2>6
    <3>3. i # j
      BY <1>5, <2>6, <3>1, <3>2
    <3> QED BY <2>1, <3>1, <3>2, <3>3
  <2> QED BY <2>3, <2>4, <2>5, <2>6
<1> QED BY <1>4, <1>5 DEF Apart

\* A collection that is moved.
LEMMA MovedCollection ==
    ASSUME NEW s \in Seq(Geometry!Rectangle), NEW v \in Geometry!Position, NEW t,
           t = [i \in DOMAIN s |-> Geometry!Moved(s[i], v)], Apart(s)
    PROVE  /\ t \in Seq(Geometry!Rectangle) /\ Apart(t)
           /\ \A r \in Geometry!Rectangle :
                 Tiles(s) = Geometry!Cells(r) => Tiles(t) = Geometry!Cells(Geometry!Moved(r, v))
<1>1. /\ DOMAIN t = DOMAIN s /\ DOMAIN s = 1 .. Len(s)
      /\ \A i \in DOMAIN s : t[i] = Geometry!Moved(s[i], v) /\ s[i] \in Geometry!Rectangle
  OBVIOUS
<1>2. t \in Seq(Geometry!Rectangle)
  <2>1. \A i \in DOMAIN s : Geometry!Moved(s[i], v) \in Geometry!Rectangle
    BY <1>1, MovedCells
  <2> QED BY <1>1, <2>1
<1>3. v.x \in Int /\ v.y \in Int
  BY DEF Geometry!Position
<1>4. ASSUME NEW i \in DOMAIN s, NEW a \in Int, NEW b \in Int
      PROVE  <<a, b>> \in Geometry!Cells(t[i]) <=> <<a - v.x, b - v.y>> \in Geometry!Cells(s[i])
  BY <1>1, MovedCells
<1>5. \A i \in DOMAIN s : \A c \in Geometry!Cells(t[i]) : \E a, b \in Int : c = <<a, b>>
  <2>1. \A i \in DOMAIN s : t[i] \in Geometry!Rectangle
    BY <1>1, MovedCells
  <2> QED BY <2>1, CellAt
<1>6. Apart(t)
  <2> SUFFICES ASSUME NEW i \in DOMAIN s, NEW j \in DOMAIN s, i # j,
                      NEW c \in Geometry!Cells(t[i]), c \in Geometry!Cells(t[j])
               PROVE  FALSE
    BY <1>1 DEF Apart
  <2>1. PICK a \in Int, b \in Int : c = <<a, b>>
    BY <1>5
  <2>2. <<a - v.x, b - v.y>> \in Geometry!Cells(s[i]) /\ <<a - v.x, b - v.y>> \in Geometry!Cells(s[j])
    BY <1>4, <2>1
  <2> QED BY <2>2 DEF Apart
<1>7. ASSUME NEW r \in Geometry!Rectangle, Tiles(s) = Geometry!Cells(r)
      PROVE  Tiles(t) = Geometry!Cells(Geometry!Moved(r, v))
  <2> DEFINE m == Geometry!Moved(r, v)
  <2>1. m \in Geometry!Rectangle
        /\ \A a, b \in Int : <<a, b>> \in Geometry!Cells(m) <=> <<a - v.x, b - v.y>> \in Geometry!Cells(r)
    BY MovedCells
  <2> HIDE DEF m
  <2>2. \A c \in Geometry!Cells(m) : \E a, b \in Int : c = <<a, b>>
    BY <2>1, CellAt
  <2>3. \A c \in Tiles(t) : \E a, b \in Int : c = <<a, b>>
    BY <1>1, <1>5 DEF Tiles
  <2>4. ASSUME NEW a \in Int, NEW b \in Int
        PROVE  <<a, b>> \in Tiles(t) <=> <<a, b>> \in Geometry!Cells(m)
    <3>1. <<a, b>> \in Tiles(t) <=> \E i \in DOMAIN s : <<a, b>> \in Geometry!Cells(t[i])
      BY <1>1 DEF Tiles
    <3>2. <<a - v.x, b - v.y>> \in Tiles(s)
            <=> \E i \in DOMAIN s : <<a - v.x, b - v.y>> \in Geometry!Cells(s[i])
      BY DEF Tiles
    <3> QED BY <1>4, <1>7, <2>1, <3>1, <3>2
  <2>5. Tiles(t) = Geometry!Cells(m)
    <3>1. ASSUME NEW c \in Tiles(t) \cup Geometry!Cells(m)
          PROVE  c \in Tiles(t) <=> c \in Geometry!Cells(m)
      <4>1. PICK a \in Int, b \in Int : c = <<a, b>>
        BY <2>2, <2>3, <3>1
      <4> QED BY <2>4, <4>1
    <3> QED BY <3>1
  <2> QED BY <2>5 DEF m
<1> QED BY <1>2, <1>6, <1>7

\* Two positions are one when their coordinates are.
LEMMA SamePosition ==
    ASSUME NEW p \in Geometry!Position, NEW q \in Geometry!Position, p.x = q.x, p.y = q.y
    PROVE  p = q
BY DEF Geometry!Position

\* A position mirrored.
LEMMA MirroredPosition ==
    ASSUME NEW p \in Geometry!Position
    PROVE  /\ Geometry!Mirrored(p) \in Geometry!Position
           /\ Geometry!Mirrored(p).x = p.y /\ Geometry!Mirrored(p).y = p.x
BY DEF Geometry!Position, Geometry!Mirrored

\* The halves of a rectangle fit together again, and so do those of its reflection.
LEMMA HalvesFit ==
    ASSUME NEW r \in Geometry!Rectangle, NEW p \in Nat \ {0}
    PROVE  /\ p < r.height =>
                 /\ Geometry!CanMergeHorizontally(Geometry!Low(r, p), Geometry!High(r, p))
                 /\ Geometry!merge_horizontally(Geometry!Low(r, p), Geometry!High(r, p)) = r
                 /\ Geometry!Left(Geometry!reflection(r), p) = Geometry!reflection(Geometry!Low(r, p))
                 /\ Geometry!Right(Geometry!reflection(r), p) = Geometry!reflection(Geometry!High(r, p))
           /\ p < r.width =>
                 /\ Geometry!CanMergeVertically(Geometry!Left(r, p), Geometry!Right(r, p))
                 /\ Geometry!merge_vertically(Geometry!Left(r, p), Geometry!Right(r, p)) = r
<1> DEFINE up == [x |-> 0, y |-> p]
           side == [x |-> p, y |-> 0]
           w == r.width
           h == r.height
           q == r.pos
<1>1. /\ w \in Nat \ {0} /\ h \in Nat \ {0} /\ q \in Geometry!Position
      /\ r = Geometry!Rect(w, h, q)
  BY PartsOfRect
<1>2. /\ up \in Geometry!Position /\ up.x = 0 /\ up.y = p
      /\ side \in Geometry!Position /\ side.x = p /\ side.y = 0
  BY DEF Geometry!Position
<1> DEFINE above == Geometry!Plus(q, up)
           beside == Geometry!Plus(q, side)
           back == Geometry!Mirrored(q)
<1>3. above \in Geometry!Position /\ beside \in Geometry!Position /\ back \in Geometry!Position
  BY <1>1, <1>2, SumOfPositions, MirroredPosition
<1>4. ASSUME p < h
      PROVE  /\ Geometry!CanMergeHorizontally(Geometry!Low(r, p), Geometry!High(r, p))
             /\ Geometry!merge_horizontally(Geometry!Low(r, p), Geometry!High(r, p)) = r
             /\ Geometry!Left(Geometry!reflection(r), p) = Geometry!reflection(Geometry!Low(r, p))
             /\ Geometry!Right(Geometry!reflection(r), p) = Geometry!reflection(Geometry!High(r, p))
  <2> DEFINE first == Geometry!Low(r, p)
             second == Geometry!High(r, p)
             mirror == Geometry!reflection(r)
  <2>1. first = Geometry!Rect(w, p, q) /\ second = Geometry!Rect(w, h - p, above)
    BY DEF Geometry!Low, Geometry!High
  <2>2. mirror = Geometry!Rect(h, w, back)
    BY DEF Geometry!reflection
  <2>3. h - p \in Nat \ {0} /\ p + (h - p) = h
    BY <1>1, <1>4
  <2> HIDE DEF w, h, q, above, beside, back
  <2>4. /\ first.width = w /\ first.height = p /\ first.pos = q
        /\ second.width = w /\ second.height = h - p /\ second.pos = above
        /\ mirror.width = h /\ mirror.height = w /\ mirror.pos = back
    <3> HIDE DEF first, second, mirror
    <3> QED BY <1>1, <1>3, <2>1, <2>2, <2>3, RectParts
  <2> HIDE DEF first, second, mirror
  <2>5. Geometry!CanMergeHorizontally(first, second)
    BY <2>4 DEF Geometry!CanMergeHorizontally, above
  <2>6. Geometry!merge_horizontally(first, second) = r
    BY <1>1, <2>3, <2>4 DEF Geometry!merge_horizontally
  <2>7. Geometry!Left(mirror, p) = Geometry!reflection(first)
    BY <2>4 DEF Geometry!Left, Geometry!reflection, back
  <2>8. Geometry!Plus(back, side) = Geometry!Mirrored(above)
    <3>1. /\ Geometry!Plus(back, side) \in Geometry!Position
          /\ Geometry!Plus(back, side).x = back.x + side.x
          /\ Geometry!Plus(back, side).y = back.y + side.y
          /\ back.x = q.y /\ back.y = q.x /\ above.x = q.x + up.x /\ above.y = q.y + up.y
      BY <1>1, <1>2, <1>3, SumOfPositions, MirroredPosition DEF back, above
    <3>2. /\ Geometry!Mirrored(above) \in Geometry!Position
          /\ Geometry!Mirrored(above).x = above.y /\ Geometry!Mirrored(above).y = above.x
      BY <1>3, MirroredPosition
    <3>3. side.x = up.y /\ side.y = up.x
      BY <1>2
    <3> HIDE DEF up, side
    <3>4. /\ Geometry!Plus(back, side).x = Geometry!Mirrored(above).x
          /\ Geometry!Plus(back, side).y = Geometry!Mirrored(above).y
      BY <3>1, <3>2, <3>3
    <3> QED BY <3>1, <3>2, <3>4, SamePosition
  <2>9. Geometry!Right(mirror, p) = Geometry!reflection(second)
    BY <2>4, <2>8 DEF Geometry!Right, Geometry!reflection
  <2> QED BY <2>5, <2>6, <2>7, <2>9 DEF first, second, mirror
<1>5. ASSUME p < w
      PROVE  /\ Geometry!CanMergeVertically(Geometry!Left(r, p), Geometry!Right(r, p))
             /\ Geometry!merge_vertically(Geometry!Left(r, p), Geometry!Right(r, p)) = r
  <2> DEFINE first == Geometry!Left(r, p)
             second == Geometry!Right(r, p)
  <2>1. first = Geometry!Rect(p, h, q) /\ second = Geometry!Rect(w - p, h, beside)
    BY DEF Geometry!Left, Geometry!Right
  <2>2. w - p \in Nat \ {0} /\ p + (w - p) = w
    BY <1>1, <1>5
  <2> HIDE DEF w, h, q, above, beside, back
  <2>3. /\ first.width = p /\ first.height = h /\ first.pos = q
        /\ second.width = w - p /\ second.height = h /\ second.pos = beside
    <3> HIDE DEF first, second
    <3> QED BY <1>1, <1>3, <2>1, <2>2, RectParts
  <2> HIDE DEF first, second
  <2>4. Geometry!CanMergeVertically(first, second)
    BY <2>3 DEF Geometry!CanMergeVertically, beside
  <2>5. Geometry!merge_vertically(first, second) = r
    BY <1>1, <2>2, <2>3 DEF Geometry!merge_vertically
  <2> QED BY <2>4, <2>5 DEF first, second
<1> QED BY <1>4, <1>5

\* The collection begins as a tiling.
LEMMA TilingInit == ASSUME Geometry!GeometryConstants PROVE Geometry!Init => TilingInv
<1> SUFFICES ASSUME Geometry!Init PROVE TilingInv
  OBVIOUS
<1>1. rectangles = <<Whole>> /\ shift = [x |-> 0, y |-> 0] /\ Whole \in Geometry!Rectangle
  BY DEF Geometry!Init, Geometry!GeometryConstants
<1>2. /\ rectangles \in Seq(Geometry!Rectangle) /\ DOMAIN rectangles = {1} /\ rectangles[1] = Whole
      /\ shift \in Geometry!Position /\ shift.x = 0 /\ shift.y = 0
  BY <1>1 DEF Geometry!Position
<1>3. Geometry!Moved(Whole, shift) = Whole
  <2>1. /\ Whole.pos \in Geometry!Position
        /\ Whole = Geometry!Rect(Whole.width, Whole.height, Whole.pos)
    BY <1>1, PartsOfRect
  <2>2. Geometry!Plus(Whole.pos, shift) = Whole.pos
    BY <1>2, <2>1 DEF Geometry!Plus, Geometry!Position
  <2> QED BY <2>1, <2>2 DEF Geometry!Moved
<1>4. Geometry!TilesStay
  BY <1>2, <1>3 DEF Geometry!TilesStay
<1> QED BY <1>1, <1>2, <1>4 DEF TilingInv

\* A split keeps the tiling.
LEMMA TilingSplit ==
    ASSUME TilingInv, NEW idx \in DOMAIN rectangles, NEW place \in Int,
           \/ Geometry!split_horizontally(idx, place) \/ Geometry!split_vertically(idx, place)
    PROVE  TilingInv'
<1> DEFINE r == rectangles[idx]
<1>1. r \in Geometry!Rectangle /\ rectangles \in Seq(Geometry!Rectangle)
  BY DEF TilingInv
<1>2. Apart(rectangles) /\ Tiles(rectangles) = Geometry!Cells(Geometry!Moved(Whole, shift))
  BY DEF TilingInv, Geometry!TilesStay, Apart, Tiles
<1>3. PICK first \in Geometry!Rectangle, second \in Geometry!Rectangle :
         Geometry!Halved(idx, first, second) /\ ShareOut(first, second, r)
  <2>1. CASE Geometry!split_horizontally(idx, place)
    <3>1. /\ place < r.height /\ 0 < place
          /\ Geometry!Halved(idx, Geometry!Low(r, place), Geometry!High(r, place))
      BY <2>1 DEF Geometry!split_horizontally
    <3> HIDE DEF r
    <3> QED BY <1>1, <3>1, Halves
  <2>2. CASE Geometry!split_vertically(idx, place)
    <3>1. /\ place < r.width /\ 0 < place
          /\ Geometry!Halved(idx, Geometry!Left(r, place), Geometry!Right(r, place))
      BY <2>2 DEF Geometry!split_vertically
    <3> HIDE DEF r
    <3> QED BY <1>1, <3>1, Halves
  <2> QED BY <2>1, <2>2
<1>4. /\ rectangles' = Geometry!InsertAt([rectangles EXCEPT ![idx] = first], idx + 1, second)
      /\ shift' = shift
  BY <1>3 DEF Geometry!Halved
<1>5. /\ rectangles' \in Seq(Geometry!Rectangle) /\ Tiles(rectangles') = Tiles(rectangles)
      /\ Apart(rectangles')
  <2> DEFINE s == rectangles
             t == rectangles'
             u == [s EXCEPT ![idx] = first]
  <2>1. /\ s \in Seq(Geometry!Rectangle) /\ idx \in 1 .. Len(s)
        /\ t = Geometry!InsertAt(u, idx + 1, second)
    BY <1>1, <1>4
  <2>2. Apart(s) /\ ShareOut(first, second, s[idx])
    BY <1>2, <1>3
  <2> HIDE DEF s, t
  <2>3. u \in Seq(Geometry!Rectangle) /\ Put(u, s, idx, first)
    BY <2>1, ExceptSeq DEF Put
  <2> HIDE DEF u
  <2>4. t \in Seq(Geometry!Rectangle) /\ TwoFor(t, s, idx, first, second)
    BY <2>1, <2>3, ReplacedByTwo, Zenon
  <2>5. Tiles(t) = Tiles(s) /\ Apart(t)
    BY <2>1, <2>2, <2>4, HalvedCollection, Zenon
  <2> QED BY <2>4, <2>5 DEF s, t
<1>6. Geometry!TilesStay'
  BY <1>2, <1>4, <1>5 DEF Geometry!TilesStay, Apart, Tiles
<1> QED BY <1>4, <1>5, <1>6 DEF TilingInv

\* A move keeps the tiling.
LEMMA TilingMove ==
    ASSUME Geometry!GeometryConstants, TilingInv, NEW vec \in Vector, Geometry!Move(vec)
    PROVE  TilingInv'
<1>1. vec \in Geometry!Position /\ Whole \in Geometry!Rectangle /\ shift \in Geometry!Position
  BY DEF Geometry!GeometryConstants, TilingInv
<1>2. /\ shift' = Geometry!Plus(shift, vec) /\ shift' \in Shifts
      /\ rectangles' = [i \in DOMAIN rectangles |-> Geometry!Moved(rectangles[i], vec)]
  BY DEF Geometry!Move
<1>3. rectangles \in Seq(Geometry!Rectangle) /\ Apart(rectangles)
      /\ Tiles(rectangles) = Geometry!Cells(Geometry!Moved(Whole, shift))
  BY DEF TilingInv, Geometry!TilesStay, Apart, Tiles
<1>4. Geometry!Moved(Whole, shift) \in Geometry!Rectangle
  BY <1>1, MovedCells
<1>5. /\ rectangles' \in Seq(Geometry!Rectangle) /\ Apart(rectangles')
      /\ Tiles(rectangles') = Geometry!Cells(Geometry!Moved(Geometry!Moved(Whole, shift), vec))
  BY <1>1, <1>2, <1>3, <1>4, MovedCollection
<1>6. Geometry!Moved(Geometry!Moved(Whole, shift), vec) = Geometry!Moved(Whole, shift')
  <2>1. /\ Geometry!Moved(Whole, shift).pos = Geometry!Plus(Whole.pos, shift)
        /\ Geometry!Moved(Whole, shift).width = Whole.width
        /\ Geometry!Moved(Whole, shift).height = Whole.height
    BY <1>1, MovedCells
  <2>2. Geometry!Plus(Geometry!Plus(Whole.pos, shift), vec) = Geometry!Plus(Whole.pos, shift')
    <3>1. Whole.pos \in Geometry!Position
      BY <1>1, PartsOfRect
    <3> QED BY <1>1, <1>2, <3>1 DEF Geometry!Plus, Geometry!Position
  <2>3. Geometry!Moved(Geometry!Moved(Whole, shift), vec)
          = Geometry!Rect(Whole.width, Whole.height, Geometry!Plus(Geometry!Plus(Whole.pos, shift), vec))
    BY <2>1, Zenon DEF Geometry!Moved
  <2>4. Geometry!Moved(Whole, shift')
          = Geometry!Rect(Whole.width, Whole.height, Geometry!Plus(Whole.pos, shift'))
    BY DEF Geometry!Moved
  <2> QED BY <2>2, <2>3, <2>4
<1>7. Geometry!TilesStay'
  BY <1>5, <1>6 DEF Geometry!TilesStay, Apart, Tiles
<1>8. shift' \in Geometry!Position
  BY <1>1, <1>2, SumOfPositions
<1> QED BY <1>2, <1>5, <1>7, <1>8 DEF TilingInv

\* Every step of the collection keeps the tiling.
LEMMA TilingStep ==
    ASSUME Geometry!GeometryConstants, TilingInv, [Geometry!Next]_Geometry!geometryVars
    PROVE  TilingInv'
<1>1. CASE UNCHANGED Geometry!geometryVars
  BY <1>1 DEF TilingInv, Geometry!TilesStay, Geometry!geometryVars
<1>2. ASSUME NEW idx \in DOMAIN rectangles, NEW place \in 1 .. Whole.height,
             Geometry!split_horizontally(idx, place)
      PROVE  TilingInv'
  BY <1>2, TilingSplit
<1>3. ASSUME NEW idx \in DOMAIN rectangles, NEW place \in 1 .. Whole.width,
             Geometry!split_vertically(idx, place)
      PROVE  TilingInv'
  BY <1>3, TilingSplit
<1>4. ASSUME NEW vec \in Vector, Geometry!Move(vec) PROVE TilingInv'
  BY <1>4, TilingMove
<1> QED BY <1>1, <1>2, <1>3, <1>4 DEF Geometry!Next

\* In a collection of rectangles all halves merge.
LEMMA HalvesAlwaysMerge == TilingInv => Geometry!HalvesMerge
<1> SUFFICES ASSUME TilingInv, NEW i \in DOMAIN rectangles
             PROVE  LET r == rectangles[i] IN
                    /\ \A p \in 1 .. r.height - 1 :
                          /\ Geometry!CanMergeHorizontally(Geometry!Low(r, p), Geometry!High(r, p))
                          /\ Geometry!merge_horizontally(Geometry!Low(r, p), Geometry!High(r, p)) = r
                          /\ Geometry!Left(Geometry!reflection(r), p)
                               = Geometry!reflection(Geometry!Low(r, p))
                          /\ Geometry!Right(Geometry!reflection(r), p)
                               = Geometry!reflection(Geometry!High(r, p))
                    /\ \A p \in 1 .. r.width - 1 :
                          /\ Geometry!CanMergeVertically(Geometry!Left(r, p), Geometry!Right(r, p))
                          /\ Geometry!merge_vertically(Geometry!Left(r, p), Geometry!Right(r, p)) = r
  BY DEF Geometry!HalvesMerge
<1>1. PICK r \in Geometry!Rectangle : r = rectangles[i]
  BY DEF TilingInv
<1>2. r.width \in Nat /\ r.height \in Nat
  BY PartsOfRect
<1>3. \A p \in 1 .. r.height - 1 : p \in Nat \ {0} /\ p < r.height
  BY <1>2
<1>4. \A p \in 1 .. r.width - 1 : p \in Nat \ {0} /\ p < r.width
  BY <1>2
<1> QED BY <1>1, <1>3, <1>4, HalvesFit, Zenon

\* Splits and moves of geometry.cc keep a collection a tiling of what it began with,
\* whatever the rectangle, the vectors and their order, and the halves of each fit together.
THEOREM TilingsStay ==
    ASSUME Geometry!GeometryConstants
    PROVE  Geometry!Spec => [](Geometry!TypeOK /\ Geometry!TilesStay /\ Geometry!HalvesMerge)
<1>1. TilingInv => Geometry!TypeOK
  BY PartsOfRect DEF TilingInv, Geometry!TypeOK
<1>2. TilingInv => Geometry!TilesStay
  BY DEF TilingInv
<1> QED BY <1>1, <1>2, HalvesAlwaysMerge, TilingInit, TilingStep, PTL DEF Geometry!Spec
-----------------------------------------------------------------------------
(* The four programs together *)

\* Nothing is lost or made in the scheduler, the commissions, the votes and the rectangles,
\* for any processes, requests, candidates and rectangle, and any number of them.
THEOREM NothingIsEverLost ==
    ASSUME Tokens!SchedulerConstants, Commissions!CommissionConstants, Votes!VotesConstants,
           Geometry!GeometryConstants
    PROVE  Tokens!Spec /\ Commissions!Spec /\ Votes!Spec /\ Geometry!Spec => []NothingIsLost
<1>1. /\ Tokens!TokensAreConserved /\ Commissions!FinishedMeansPaid /\ Votes!SummaryAddsUp
      /\ Geometry!TilesStay /\ Geometry!HalvesMerge
      => NothingIsLost
  BY DEF NothingIsLost
<1> QED BY <1>1, TokensConserved, FinishedIsPaid, VotesAddUp, TilingsStay, PTL
-----------------------------------------------------------------------------
(* The towns of JNP 1 *)

\* A fold from the left, in the form the community modules give it, exists.
LeftIter(it, n, F, base) ==
    [T \in SUBSET (1 .. n) |-> IF T = {} THEN base
                               ELSE F[<<Tokens!Max(T), it[T \ {Tokens!Max(T)}]>>]]

IsLeftFold(it, n, F, base) == it = LeftIter(it, n, F, base)

\* It exists for every beginning of the sequence.
LEMMA LeftFoldExists ==
    ASSUME NEW n \in Nat, NEW V, NEW F \in [(1 .. n) \X V -> V], NEW base \in V
    PROVE  \E it \in [SUBSET (1 .. n) -> V] : IsLeftFold(it, n, F, base)
<1> DEFINE S == 1 .. n
           ch == [T \in SUBSET S |-> Tokens!Max(T)]
<1>1. IsFiniteSet(S)
  BY FS_Interval
<1>2. Chooses(ch, S)
  BY MaxIsChosen DEF Chooses
<1>3. PICK it \in [SUBSET S -> V] : IsFold(it, S, F, base, ch)
  <2>1. F \in [S \X V -> V]
    OBVIOUS
  <2> HIDE DEF S, ch
  <2> QED BY <1>1, <1>2, <2>1, FoldExists
<1>4. \A T \in SUBSET S : it[T] = LeftIter(it, n, F, base)[T]
  <2> SUFFICES ASSUME NEW T \in SUBSET S PROVE it[T] = LeftIter(it, n, F, base)[T]
    OBVIOUS
  <2>1. it[T] = IF T = {} THEN base ELSE F[<<ch[T], it[T \ {ch[T]}]>>]
    BY <1>3 DEF IsFold, Fold
  <2>2. ch[T] = Tokens!Max(T)
    OBVIOUS
  <2> QED BY <2>1, <2>2 DEF LeftIter
<1>5. it = LeftIter(it, n, F, base)
  BY <1>4 DEF LeftIter
<1> QED BY <1>3, <1>5 DEF IsLeftFold

\* Whatever folds a sequence so ends up among the values F keeps to.
LEMMA LeftFoldStays ==
    ASSUME NEW n \in Nat, NEW V, NEW it, it[{}] \in V,
           \A T \in SUBSET (1 .. n) : T # {} /\ it[T \ {Tokens!Max(T)}] \in V => it[T] \in V
    PROVE  it[1 .. n] \in V
<1> DEFINE S == 1 .. n
           A == {T \in SUBSET S : it[T] \in V}
<1>1. IsFiniteSet(S)
  BY FS_Interval
<1>2. ASSUME NEW T \in SUBSET S, T # {}, \A x \in T : T \ {x} \in A
      PROVE  T \in A
  <2>1. Tokens!Max(T) \in T
    BY <1>2, MaxIsChosen
  <2> QED BY <1>2, <2>1
<1>3. SUBSET S \subseteq A
  <2>1. {} \in A
    OBVIOUS
  <2> HIDE DEF S, A
  <2> QED BY <1>1, <1>2, <2>1, SubsetInduction
<1> QED BY <1>3

\* Sums grow with their terms.
LEMMA SumGrows ==
  ASSUME NEW S, IsFiniteSet(S), NEW f \in [S -> Int], NEW g \in [S -> Int],
         \A x \in S : f[x] <= g[x]
  PROVE  SumFunctionOnSet(f, S) <= SumFunctionOnSet(g, S)
<1>2. PICK less : AddsUp(less, f, S) /\ SumFunctionOnSet(f, S) = less[S]
  BY SumAddsUp
<1>3. PICK more : AddsUp(more, g, S) /\ SumFunctionOnSet(g, S) = more[S]
  BY SumAddsUp
<1> DEFINE A == {T \in SUBSET S : less[T] <= more[T]}
<1>5. {} \in A
  BY <1>2, <1>3 DEF AddsUp
<1>6. ASSUME NEW T \in SUBSET S, T # {}, \A x \in T : T \ {x} \in A PROVE T \in A
  <2>1. PICK x \in T : TRUE
    BY <1>6
  <2>2. less[T \ {x}] <= more[T \ {x}]
    BY <1>6
  <2>3. less[T] = f[x] + less[T \ {x}] /\ more[T] = g[x] + more[T \ {x}]
    BY <1>2, <1>3 DEF AddsUp
  <2>4. /\ less[T \ {x}] \in Int /\ more[T \ {x}] \in Int
        /\ f[x] \in Int /\ g[x] \in Int /\ f[x] <= g[x]
    BY <1>2, <1>3 DEF AddsUp
  <2> QED BY <2>2, <2>3, <2>4
<1>7. SUBSET S \subseteq A
  <2> HIDE DEF A
  <2> QED BY <1>5, <1>6, SubsetInduction
<1> QED BY <1>2, <1>3, <1>7

\* Sums of numbers that are not negative are not.
LEMMA SumIsNat ==
  ASSUME NEW S, IsFiniteSet(S), NEW f \in [S -> Nat]
  PROVE  SumFunctionOnSet(f, S) \in Nat
<1> DEFINE zeros == [x \in S |-> 0]
<1>1. SumFunctionOnSet(zeros, S) = 0
  <2>1. zeros \in [S -> Int] /\ \A x \in S : zeros[x] = 0
    OBVIOUS
  <2> HIDE DEF zeros
  <2> QED BY <2>1, SumOfZeros
<1>2. f \in [S -> Int] /\ zeros \in [S -> Int] /\ \A x \in S : zeros[x] <= f[x]
  OBVIOUS
<1>3. SumFunctionOnSet(zeros, S) <= SumFunctionOnSet(f, S)
  <2> HIDE DEF zeros
  <2> QED BY <1>2, SumGrows
<1>4. SumFunctionOnSet(f, S) \in Int
  BY <1>2, SumIsInt
<1> QED BY <1>1, <1>3, <1>4


\* The towns add up as the lemmas above do,
LEMMA TownSums == \A f : Towns!SumFunction(f) = SumFunctionOnSet(f, DOMAIN f)
BY DEF SumFunctionOnSet, FoldFunctionOnSet, MapThenFoldSet,
       Towns!SumFunction, Towns!SumFunctionOnSet, Towns!FoldFunctionOnSet, Towns!MapThenFoldSet

\* count,
LEMMA TownSizes == \A S : Towns!Cardinality(S) = Cardinality(S)
BY DEF Towns!Cardinality, Cardinality, Towns!IsFiniteSet, IsFiniteSet

\* and choose the largest of some numbers as the scheduler does.
LEMMA TownMax == \A T : Towns!Max(T) = Tokens!Max(T)
BY DEF Towns!Max, Tokens!Max

\* Who may be hit, and the monsters a town is built with.
Everybody == Citizen \cup Fiend
Group == Seq(Fiend)

\* Nobody in h has become healthier than in g.
Lower(h, g) == \A x \in Everybody : h[x] <= g[x]

\* A blow takes health, of its victim alone.
LEMMA BlowLowers ==
    ASSUME NEW h \in [Everybody -> Nat], NEW x \in Everybody, NEW d \in Nat
    PROVE  /\ Towns!Hit(h, x, d) \in [Everybody -> Nat]
           /\ Lower(Towns!Hit(h, x, d), h)
           /\ \A y \in Everybody : y # x => Towns!Hit(h, x, d)[y] = h[y]
           /\ Towns!Hit(h, x, d)[x] \in Nat
BY DEF Towns!Hit, Towns!NonNegative, Lower

\* What monsters have together.
LEMMA GroupStrength ==
    ASSUME Towns!TownConstants, NEW h \in [Everybody -> Nat], NEW group \in Group
    PROVE  Towns!groupHealth(h, group) \in Nat /\ Towns!groupPower(h, group) \in Nat
<1> DEFINE f == [i \in DOMAIN group |-> h[group[i]]]
           p == [i \in DOMAIN group |-> IF h[group[i]] > 0 THEN Power[group[i]] ELSE 0]
           S == DOMAIN group
<1>1. /\ S = 1 .. Len(group) /\ Len(group) \in Nat
      /\ \A i \in S : group[i] \in Everybody
  BY DEF Group, Everybody
<1>2. IsFiniteSet(S)
  BY <1>1, FS_Interval
<1>3. f \in [S -> Nat] /\ p \in [S -> Nat]
  BY <1>1 DEF Towns!TownConstants, Everybody
<1>4. SumFunctionOnSet(f, S) \in Nat /\ SumFunctionOnSet(p, S) \in Nat
  <2> HIDE DEF f, p, S
  <2> QED BY <1>2, <1>3, SumIsNat
<1>5. DOMAIN f = S /\ DOMAIN p = S
  OBVIOUS
<1>6. Towns!SumFunction(f) \in Nat /\ Towns!SumFunction(p) \in Nat
  <2> HIDE DEF f, p, S
  <2> QED BY <1>4, <1>5, TownSums, Zenon
<1> QED BY <1>6 DEF Towns!groupHealth, Towns!groupPower

\* Monsters who have lost their health do not get it back.
LEMMA GroupStaysDown ==
    ASSUME Towns!TownConstants, NEW h \in [Everybody -> Nat], NEW g \in [Everybody -> Nat],
           Lower(h, g), NEW group \in Group, Towns!groupHealth(g, group) = 0
    PROVE  Towns!groupHealth(h, group) = 0
<1> DEFINE f == [i \in DOMAIN group |-> h[group[i]]]
           e == [i \in DOMAIN group |-> g[group[i]]]
           S == DOMAIN group
<1>1. /\ S = 1 .. Len(group) /\ Len(group) \in Nat
      /\ \A i \in S : group[i] \in Everybody
  BY DEF Group, Everybody
<1>2. IsFiniteSet(S)
  BY <1>1, FS_Interval
<1>3. f \in [S -> Int] /\ e \in [S -> Int] /\ \A i \in S : f[i] <= e[i]
  BY <1>1 DEF Lower
<1>4. SumFunctionOnSet(f, S) <= SumFunctionOnSet(e, S)
  <2> HIDE DEF f, e, S
  <2> QED BY <1>2, <1>3, SumGrows
<1>5. DOMAIN f = S /\ DOMAIN e = S
  OBVIOUS
<1>6. Towns!SumFunction(f) <= Towns!SumFunction(e)
  <2>1. Towns!SumFunction(f) = SumFunctionOnSet(f, S) /\ Towns!SumFunction(e) = SumFunctionOnSet(e, S)
    <3> HIDE DEF f, e, S
    <3> QED BY <1>5, TownSums, Zenon
  <2> HIDE DEF f, e, S
  <2> QED BY <1>4, <2>1, Zenon
<1>7. Towns!groupHealth(h, group) <= Towns!groupHealth(g, group)
  BY <1>6, Zenon DEF Towns!groupHealth
<1> QED BY <1>7, GroupStrength

\* What damage makes of everybody's health: monsters lose some, citizens none.
Damaged(h) == {g \in [Everybody -> Nat] : Lower(g, h) /\ \A c \in Citizen : g[c] = h[c]}

\* GroupOfMonsters::takeDamage goes from monster to monster.
LEMMA DamageLowers ==
    ASSUME Towns!TownConstants, NEW h \in [Everybody -> Nat], NEW group \in Group, NEW d \in Nat
    PROVE  Towns!takeDamage(h, group, d) \in Damaged(h)
<1> DEFINE S == DOMAIN group
           V == Damaged(h)
           F == [x \in S \X V |-> Towns!Hit(x[2], group[x[1]], d)]
           Iter(it) == [T \in SUBSET S |-> IF T = {} THEN h
                           ELSE Towns!Hit(it[T \ {Towns!Max(T)}], group[Towns!Max(T)], d)]
<1>1. /\ S = 1 .. Len(group) /\ Len(group) \in Nat
      /\ \A i \in S : group[i] \in Everybody /\ group[i] \notin Citizen
  <2>1. S = 1 .. Len(group) /\ Len(group) \in Nat /\ \A i \in S : group[i] \in Fiend
    BY DEF Group
  <2> HIDE DEF S
  <2> QED BY <2>1 DEF Everybody, Towns!TownConstants
<1>2. h \in V
  BY DEF Damaged, Lower
<1>3. \A g \in V : \A i \in S : Towns!Hit(g, group[i], d) \in V
  <2> SUFFICES ASSUME NEW g \in V, NEW i \in S PROVE Towns!Hit(g, group[i], d) \in V
    OBVIOUS
  <2>1. g \in [Everybody -> Nat] /\ Lower(g, h) /\ \A c \in Citizen : g[c] = h[c]
    BY DEF Damaged
  <2>2. group[i] \in Everybody /\ group[i] \notin Citizen
    BY <1>1
  <2> DEFINE k == Towns!Hit(g, group[i], d)
  <2>3. /\ k \in [Everybody -> Nat] /\ Lower(k, g)
        /\ \A y \in Everybody : y # group[i] => k[y] = g[y]
    BY <2>1, <2>2, BlowLowers
  <2> HIDE DEF k
  <2>4. \A y \in Everybody : k[y] \in Nat /\ g[y] \in Nat /\ h[y] \in Nat
    BY <2>1, <2>3
  <2>5. Lower(k, h)
    BY <2>1, <2>3, <2>4 DEF Lower
  <2>6. \A c \in Citizen : k[c] = h[c]
    BY <2>1, <2>2, <2>3 DEF Everybody
  <2>7. k \in V
    BY <2>3, <2>5, <2>6 DEF Damaged
  <2> QED BY <2>7 DEF k
<1>4. F \in [S \X V -> V]
  <2> HIDE DEF S, V
  <2> QED BY <1>3
<1>5. PICK any \in [SUBSET S -> V] : IsLeftFold(any, Len(group), F, h)
  <2> HIDE DEF V, F
  <2>1. PICK n \in Nat : n = Len(group) /\ S = 1 .. n
    BY <1>1
  <2> HIDE DEF S
  <2>2. F \in [(1 .. n) \X V -> V]
    BY <1>4, <2>1, Zenon
  <2>3. \E it \in [SUBSET (1 .. n) -> V] : IsLeftFold(it, n, F, h)
    BY <1>2, <2>2, LeftFoldExists
  <2> QED BY <2>1, <2>3, Zenon
<1>6. \A T \in SUBSET S : T # {} => Towns!Max(T) \in S
  BY <1>1, TownMax, MaxIsChosen
<1>7. any = Iter(any)
  <2>1. \A T \in SUBSET S : any[T] = Iter(any)[T]
    <3> SUFFICES ASSUME NEW T \in SUBSET S PROVE any[T] = Iter(any)[T]
      OBVIOUS
    <3>1. any[T] = LeftIter(any, Len(group), F, h)[T]
      BY <1>5, Zenon DEF IsLeftFold
    <3>2. any[T] = IF T = {} THEN h ELSE F[<<Towns!Max(T), any[T \ {Towns!Max(T)}]>>]
      <4> HIDE DEF F, V
      <4> QED BY <3>1, <1>1, TownMax DEF LeftIter
    <3>3. T # {} => any[T \ {Towns!Max(T)}] \in V /\ Towns!Max(T) \in S
      <4> HIDE DEF V
      <4> QED BY <1>6
    <3>4. T # {} => F[<<Towns!Max(T), any[T \ {Towns!Max(T)}]>>]
                      = Towns!Hit(any[T \ {Towns!Max(T)}], group[Towns!Max(T)], d)
      <4> HIDE DEF V, S
      <4> QED BY <3>3
    <3> HIDE DEF F, V
    <3> QED BY <3>2, <3>4
  <2> HIDE DEF V, F
  <2> QED BY <2>1
<1>8. PICK it : it = (CHOOSE i : i = Iter(i)) /\ it = Iter(it)
  <2> HIDE DEF Iter
  <2> QED BY <1>7
<1>9. Towns!takeDamage(h, group, d) = it[S]
  BY <1>8 DEF Towns!takeDamage, Towns!FoldLeft, Towns!MapThenFoldSet
<1>10. it[{}] \in V
  <2>1. it[{}] = Iter(it)[{}]
    <3> HIDE DEF Iter
    <3> QED BY <1>8
  <2> HIDE DEF V
  <2> QED BY <1>2, <2>1
<1>11. ASSUME NEW T \in SUBSET S, T # {}, it[T \ {Towns!Max(T)}] \in V PROVE it[T] \in V
  <2>1. it[T] = Iter(it)[T]
    <3> HIDE DEF Iter
    <3> QED BY <1>8
  <2>2. it[T] = Towns!Hit(it[T \ {Towns!Max(T)}], group[Towns!Max(T)], d)
    <3> HIDE DEF V
    <3> QED BY <1>11, <2>1
  <2> HIDE DEF V, S
  <2> QED BY <1>3, <1>6, <1>11, <2>2
<1>12. it[1 .. Len(group)] \in V
  <2> HIDE DEF V, Iter
  <2>1. \A T \in SUBSET (1 .. Len(group)) : T # {} /\ it[T \ {Tokens!Max(T)}] \in V => it[T] \in V
    BY <1>1, <1>11, TownMax
  <2> HIDE DEF S
  <2> QED BY <1>1, <1>10, <2>1, LeftFoldStays
<1> HIDE DEF V, S, Iter
<1> QED BY <1>1, <1>9, <1>12 DEF V

\* Citizens, each of them once.
NoneTwice(s) == \A i, j \in DOMAIN s : s[i] = s[j] => i = j
CitizenLists == {s \in Seq(Citizen) : NoneTwice(s)}

\* Builder::citizen adds one who is not there yet.
WithCitizen(s, c) == IF Towns!Contains(s, c) THEN s ELSE Append(s, c)

\* The list still holds nobody twice.
LEMMA OnceEach ==
    ASSUME NEW s \in CitizenLists, NEW c \in Citizen
    PROVE  WithCitizen(s, c) \in CitizenLists
<1>1. s \in Seq(Citizen) /\ NoneTwice(s)
  BY DEF CitizenLists
<1>2. CASE Towns!Contains(s, c)
  BY <1>2 DEF WithCitizen
<1>3. CASE ~ Towns!Contains(s, c)
  <2>1. \A i \in 1 .. Len(s) : s[i] # c
    BY <1>3 DEF Towns!Contains
  <2> DEFINE t == Append(s, c)
  <2>2. /\ t \in Seq(Citizen) /\ DOMAIN t = 1 .. Len(s) + 1 /\ t[Len(s) + 1] = c
        /\ \A i \in 1 .. Len(s) : t[i] = s[i]
    BY <1>1
  <2>3. Len(s) \in Nat /\ DOMAIN s = 1 .. Len(s)
    BY <1>1
  <2> HIDE DEF t
  <2>4. NoneTwice(t)
    BY <1>1, <2>1, <2>2, <2>3 DEF NoneTwice
  <2>5. t \in CitizenLists
    BY <2>2, <2>4 DEF CitizenLists
  <2> QED BY <1>3, <2>5 DEF WithCitizen, t
<1> QED BY <1>2, <1>3

\* A town holds nobody twice, whatever the calls of Builder::citizen.
LEMMA TownsHoldEachOnce ==
    ASSUME NEW calls \in Seq(Citizen)
    PROVE  Towns!Added(calls) \in CitizenLists
<1> DEFINE S == DOMAIN calls
           V == CitizenLists
           F == [x \in S \X V |-> WithCitizen(x[2], calls[x[1]])]
           Iter(it) == [T \in SUBSET S |-> IF T = {} THEN << >>
                           ELSE IF Towns!Contains(it[T \ {Towns!Max(T)}], calls[Towns!Max(T)])
                                THEN it[T \ {Towns!Max(T)}]
                                ELSE Append(it[T \ {Towns!Max(T)}], calls[Towns!Max(T)])]
<1>1. S = 1 .. Len(calls) /\ Len(calls) \in Nat /\ \A i \in S : calls[i] \in Citizen
  OBVIOUS
<1>2. << >> \in V
  BY DEF CitizenLists, NoneTwice
<1>3. \A s \in V : \A i \in S : WithCitizen(s, calls[i]) \in V
  <2> HIDE DEF S
  <2> QED BY <1>1, OnceEach
<1>4. F \in [S \X V -> V]
  <2> HIDE DEF S, V
  <2> QED BY <1>3
<1>5. PICK any \in [SUBSET S -> V] : IsLeftFold(any, Len(calls), F, << >>)
  <2> HIDE DEF V, F
  <2>1. PICK n \in Nat : n = Len(calls) /\ S = 1 .. n
    BY <1>1
  <2> HIDE DEF S
  <2>2. F \in [(1 .. n) \X V -> V]
    BY <1>4, <2>1, Zenon
  <2>3. \E it \in [SUBSET (1 .. n) -> V] : IsLeftFold(it, n, F, << >>)
    BY <1>2, <2>2, LeftFoldExists
  <2> QED BY <2>1, <2>3, Zenon
<1>6. \A T \in SUBSET S : T # {} => Towns!Max(T) \in S
  BY <1>1, TownMax, MaxIsChosen
<1>7. any = Iter(any)
  <2>1. \A T \in SUBSET S : any[T] = Iter(any)[T]
    <3> SUFFICES ASSUME NEW T \in SUBSET S PROVE any[T] = Iter(any)[T]
      OBVIOUS
    <3>1. any[T] = LeftIter(any, Len(calls), F, << >>)[T]
      BY <1>5, Zenon DEF IsLeftFold
    <3>2. any[T] = IF T = {} THEN << >> ELSE F[<<Towns!Max(T), any[T \ {Towns!Max(T)}]>>]
      <4> HIDE DEF F, V
      <4> QED BY <3>1, <1>1, TownMax DEF LeftIter
    <3>3. T # {} => any[T \ {Towns!Max(T)}] \in V /\ Towns!Max(T) \in S
      <4> HIDE DEF V
      <4> QED BY <1>6
    <3>4. T # {} => F[<<Towns!Max(T), any[T \ {Towns!Max(T)}]>>]
                      = WithCitizen(any[T \ {Towns!Max(T)}], calls[Towns!Max(T)])
      <4> HIDE DEF V, S
      <4> QED BY <3>3
    <3> HIDE DEF F, V
    <3> QED BY <3>2, <3>4 DEF WithCitizen
  <2> HIDE DEF V, F
  <2> QED BY <2>1
<1>8. PICK it : it = (CHOOSE i : i = Iter(i)) /\ it = Iter(it)
  <2> HIDE DEF Iter
  <2> QED BY <1>7
<1>9. Towns!Added(calls) = it[S]
  BY <1>8 DEF Towns!Added, Towns!FoldLeft, Towns!MapThenFoldSet
<1>10. it[{}] \in V
  <2>1. it[{}] = Iter(it)[{}]
    <3> HIDE DEF Iter
    <3> QED BY <1>8
  <2> HIDE DEF V
  <2> QED BY <1>2, <2>1
<1>11. ASSUME NEW T \in SUBSET S, T # {}, it[T \ {Towns!Max(T)}] \in V PROVE it[T] \in V
  <2>1. it[T] = Iter(it)[T]
    <3> HIDE DEF Iter
    <3> QED BY <1>8
  <2>2. it[T] = WithCitizen(it[T \ {Towns!Max(T)}], calls[Towns!Max(T)])
    <3> HIDE DEF V
    <3> QED BY <1>11, <2>1 DEF WithCitizen
  <2> HIDE DEF V, S
  <2> QED BY <1>3, <1>6, <1>11, <2>2
<1>12. it[1 .. Len(calls)] \in V
  <2> HIDE DEF V, Iter
  <2>1. \A T \in SUBSET (1 .. Len(calls)) : T # {} /\ it[T \ {Tokens!Max(T)}] \in V => it[T] \in V
    BY <1>1, <1>11, TownMax
  <2>2. PICK n \in Nat : n = Len(calls)
    BY <1>1
  <2> HIDE DEF S
  <2> QED BY <1>1, <1>10, <2>1, <2>2, LeftFoldStays
<1> HIDE DEF V, S, Iter
<1> QED BY <1>1, <1>9, <1>12 DEF V

-----------------------------------------------------------------------------
\* What the attack on s, in the order of its citizens, makes of everybody's health: those
\* of other towns are left alone, and the killed are counted.
Fought(h, s) ==
    {r \in [health : [Everybody -> Nat], killed : Nat] :
        /\ Lower(r.health, h)
        /\ \A c \in Citizen \ Towns!ToSet(s) : r.health[c] = h[c]
        /\ Cardinality(Towns!Alive(r.health, s)) + r.killed = Cardinality(Towns!Alive(h, s))}

\* Those of a list who are alive can be counted.
LEMMA AliveAreCounted ==
    ASSUME NEW s \in CitizenLists, NEW h
    PROVE  /\ Towns!Alive(h, s) \subseteq DOMAIN s /\ IsFiniteSet(Towns!Alive(h, s))
           /\ Cardinality(Towns!Alive(h, s)) \in Nat
<1>1. DOMAIN s = 1 .. Len(s) /\ Len(s) \in Nat
  BY DEF CitizenLists
<1>2. Towns!Alive(h, s) \subseteq DOMAIN s
  BY DEF Towns!Alive
<1>3. IsFiniteSet(DOMAIN s)
  BY <1>1, FS_Interval
<1> QED BY <1>2, <1>3, FS_Subset, FS_CardinalityType

\* Nobody rises, so the number of the living does not either.
LEMMA LivingBecomeFewer ==
    ASSUME NEW s \in CitizenLists, NEW h \in [Everybody -> Nat], NEW g \in [Everybody -> Nat],
           Lower(h, g)
    PROVE  Cardinality(Towns!Alive(h, s)) <= Cardinality(Towns!Alive(g, s))
<1>1. \A i \in DOMAIN s : s[i] \in Everybody
  BY DEF CitizenLists, Everybody
<1>2. Towns!Alive(h, s) \subseteq Towns!Alive(g, s)
  BY <1>1 DEF Lower, Towns!Alive
<1> QED BY <1>2, AliveAreCounted, FS_Subset

\* Citizens nobody hit live on.
LEMMA SameLive ==
    ASSUME NEW s \in CitizenLists, NEW h, NEW g, \A i \in DOMAIN s : h[s[i]] = g[s[i]]
    PROVE  Towns!Alive(h, s) = Towns!Alive(g, s)
BY DEF Towns!Alive

\* A pair of everybody's health and a count, and what it is made of.
FightOf(health_, killed_) == [health |-> health_, killed |-> killed_]

\* Which parts such a pair has.
LEMMA PartsOfFight ==
    ASSUME NEW g \in [Everybody -> Nat], NEW k \in Nat
    PROVE  /\ FightOf(g, k) \in [health : [Everybody -> Nat], killed : Nat]
           /\ FightOf(g, k).health = g /\ FightOf(g, k).killed = k
BY DEF FightOf

\* Citizen::attack and Sheriff::attack count one killed for each who falls.
LEMMA AttackCounts ==
    ASSUME Towns!TownConstants, NEW h \in [Everybody -> Nat], NEW group \in Group,
           NEW s \in CitizenLists, NEW r \in Fought(h, s), NEW i \in DOMAIN s
    PROVE  Towns!attack(group, r, s[i]) \in Fought(h, s)
<1> DEFINE c == s[i]
           p == Towns!groupPower(r.health, group)
           hit == Towns!Hit(r.health, c, p)
           after == Towns!takeDamage(hit, group, Power[c])
           n == r.killed + (IF hit[c] = 0 THEN 1 ELSE 0)
<1>1. /\ r.health \in [Everybody -> Nat] /\ r.killed \in Nat
      /\ Lower(r.health, h)
      /\ \A x \in Citizen \ Towns!ToSet(s) : r.health[x] = h[x]
      /\ Cardinality(Towns!Alive(r.health, s)) + r.killed = Cardinality(Towns!Alive(h, s))
  BY DEF Fought
<1>2. /\ c \in Citizen /\ c \in Towns!ToSet(s) /\ \A j \in DOMAIN s : s[j] = c => j = i
      /\ \A j \in DOMAIN s : s[j] \in Citizen /\ s[j] \in Towns!ToSet(s)
  BY DEF CitizenLists, NoneTwice, Towns!ToSet
<1>3. CASE Towns!groupHealth(r.health, group) = 0 \/ r.health[c] = 0
  BY <1>3 DEF Towns!attack
<1>4. CASE ~ (Towns!groupHealth(r.health, group) = 0 \/ r.health[c] = 0)
  <2>1. Towns!attack(group, r, c) = FightOf(after, n)
    BY <1>4 DEF Towns!attack, FightOf
  <2>2. p \in Nat /\ Power[c] \in Nat /\ c \in Everybody
    BY <1>1, <1>2, GroupStrength DEF Towns!TownConstants, Everybody
  <2>3. /\ hit \in [Everybody -> Nat] /\ Lower(hit, r.health)
        /\ \A y \in Everybody : y # c => hit[y] = r.health[y]
    <3> HIDE DEF p, c
    <3> QED BY <1>1, <2>2, BlowLowers
  <2> HIDE DEF p, hit
  <2>4. after \in [Everybody -> Nat] /\ Lower(after, hit) /\ \A x \in Citizen : after[x] = hit[x]
    <3>1. after \in Damaged(hit)
      <4> HIDE DEF c
      <4> QED BY <2>2, <2>3, DamageLowers
    <3> QED BY <3>1 DEF Damaged
  <2> HIDE DEF after
  <2>5. n \in Nat
    BY <1>1
  <2>6. Lower(after, h)
    <3>1. \A x \in Everybody : after[x] <= hit[x] /\ hit[x] <= r.health[x] /\ r.health[x] <= h[x]
      BY <1>1, <2>3, <2>4 DEF Lower
    <3>2. \A x \in Everybody : after[x] \in Nat /\ hit[x] \in Nat /\ r.health[x] \in Nat /\ h[x] \in Nat
      BY <1>1, <2>3, <2>4
    <3> QED BY <3>1, <3>2 DEF Lower
  <2>7. \A x \in Citizen \ Towns!ToSet(s) : after[x] = h[x]
    BY <1>1, <1>2, <2>3, <2>4 DEF Everybody
  <2>8. Towns!Alive(after, s) = Towns!Alive(hit, s)
    <3> HIDE DEF c
    <3> QED BY <1>2, <2>4, SameLive
  <2>9. /\ i \in Towns!Alive(r.health, s)
        /\ Towns!Alive(hit, s) = IF hit[c] = 0 THEN Towns!Alive(r.health, s) \ {i}
                                 ELSE Towns!Alive(r.health, s)
    <3>1. r.health[c] > 0 /\ hit[c] \in Nat
      BY <1>1, <1>4, <2>2, <2>3
    <3>2. \A j \in DOMAIN s : j # i => hit[s[j]] = r.health[s[j]]
      BY <1>2, <2>3 DEF Everybody
    <3> QED BY <3>1, <3>2 DEF Towns!Alive
  <2>10. Cardinality(Towns!Alive(after, s)) + n = Cardinality(Towns!Alive(h, s))
    <3> DEFINE A == Towns!Alive(r.health, s)
    <3>1. IsFiniteSet(A) /\ Cardinality(A) \in Nat
      BY AliveAreCounted
    <3>2. Cardinality(A \ {i}) = Cardinality(A) - 1
      BY <2>9, <3>1, FS_RemoveElement
    <3>3. Cardinality(A) + r.killed = Cardinality(Towns!Alive(h, s)) /\ r.killed \in Nat
      BY <1>1
    <3>4. Cardinality(Towns!Alive(after, s))
            = IF hit[c] = 0 THEN Cardinality(A \ {i}) ELSE Cardinality(A)
      BY <2>8, <2>9
    <3> HIDE DEF A
    <3> QED BY <3>1, <3>2, <3>3, <3>4
  <2>11. /\ FightOf(after, n) \in [health : [Everybody -> Nat], killed : Nat]
         /\ FightOf(after, n).health = after /\ FightOf(after, n).killed = n
    <3> HIDE DEF n
    <3> QED BY <2>4, <2>5, PartsOfFight
  <2> HIDE DEF n
  <2>12. FightOf(after, n) \in Fought(h, s)
    BY <2>6, <2>7, <2>10, <2>11 DEF Fought
  <2> QED BY <2>1, <2>12
<1> QED BY <1>3, <1>4

\* All citizens of a town under attack, one after the other.
Fight(h, group, s) ==
    Towns!FoldLeft(LAMBDA r, c : Towns!attack(group, r, c), [health |-> h, killed |-> 0], s)

\* The count of the killed is what the living have become fewer.
LEMMA FightCounts ==
    ASSUME Towns!TownConstants, NEW h \in [Everybody -> Nat], NEW group \in Group,
           NEW s \in CitizenLists
    PROVE  Fight(h, group, s) \in Fought(h, s)
<1> DEFINE S == DOMAIN s
           V == Fought(h, s)
           base == [health |-> h, killed |-> 0]
           F == [x \in S \X V |-> Towns!attack(group, x[2], s[x[1]])]
           Iter(it) == [T \in SUBSET S |-> IF T = {} THEN base
                           ELSE Towns!attack(group, it[T \ {Towns!Max(T)}], s[Towns!Max(T)])]
<1>1. S = 1 .. Len(s) /\ Len(s) \in Nat
  BY DEF CitizenLists
<1>2. base \in V
  <2>1. Lower(h, h) /\ 0 \in Nat
    BY DEF Lower
  <2>2. base = FightOf(h, 0)
    BY DEF FightOf
  <2>3. base \in [health : [Everybody -> Nat], killed : Nat] /\ base.health = h /\ base.killed = 0
    <3> HIDE DEF base
    <3> QED BY <2>1, <2>2, PartsOfFight
  <2>4. Cardinality(Towns!Alive(h, s)) \in Nat
    BY AliveAreCounted
  <2> HIDE DEF base
  <2> QED BY <2>1, <2>3, <2>4 DEF Fought
<1>3. \A r \in V : \A i \in S : Towns!attack(group, r, s[i]) \in V
  BY AttackCounts
<1>4. F \in [S \X V -> V]
  <2> HIDE DEF S, V
  <2> QED BY <1>3
<1> HIDE DEF base
<1>5. PICK any \in [SUBSET S -> V] : IsLeftFold(any, Len(s), F, base)
  <2> HIDE DEF V, F
  <2>1. PICK n \in Nat : n = Len(s) /\ S = 1 .. n
    BY <1>1
  <2> HIDE DEF S
  <2>2. F \in [(1 .. n) \X V -> V]
    BY <1>4, <2>1, Zenon
  <2>3. \E it \in [SUBSET (1 .. n) -> V] : IsLeftFold(it, n, F, base)
    BY <1>2, <2>2, LeftFoldExists
  <2> QED BY <2>1, <2>3, Zenon
<1>6. \A T \in SUBSET S : T # {} => Towns!Max(T) \in S
  BY <1>1, TownMax, MaxIsChosen
<1>7. any = Iter(any)
  <2>1. \A T \in SUBSET S : any[T] = Iter(any)[T]
    <3> SUFFICES ASSUME NEW T \in SUBSET S PROVE any[T] = Iter(any)[T]
      OBVIOUS
    <3>1. any[T] = LeftIter(any, Len(s), F, base)[T]
      BY <1>5, Zenon DEF IsLeftFold
    <3>2. any[T] = IF T = {} THEN base ELSE F[<<Towns!Max(T), any[T \ {Towns!Max(T)}]>>]
      <4> HIDE DEF F, V
      <4> QED BY <3>1, <1>1, TownMax DEF LeftIter
    <3>3. T # {} => any[T \ {Towns!Max(T)}] \in V /\ Towns!Max(T) \in S
      <4> HIDE DEF V
      <4> QED BY <1>6
    <3>4. T # {} => F[<<Towns!Max(T), any[T \ {Towns!Max(T)}]>>]
                      = Towns!attack(group, any[T \ {Towns!Max(T)}], s[Towns!Max(T)])
      <4> HIDE DEF V, S
      <4> QED BY <3>3
    <3> HIDE DEF F, V
    <3> QED BY <3>2, <3>4
  <2> HIDE DEF V, F
  <2> QED BY <2>1
<1>8. PICK it : it = (CHOOSE i : i = Iter(i)) /\ it = Iter(it)
  <2> HIDE DEF Iter
  <2> QED BY <1>7
<1>9. Fight(h, group, s) = it[S]
  BY <1>8 DEF Fight, Towns!FoldLeft, Towns!MapThenFoldSet, base
<1>10. it[{}] \in V
  <2>1. it[{}] = Iter(it)[{}]
    <3> HIDE DEF Iter
    <3> QED BY <1>8
  <2> HIDE DEF V
  <2> QED BY <1>2, <2>1
<1>11. ASSUME NEW T \in SUBSET S, T # {}, it[T \ {Towns!Max(T)}] \in V PROVE it[T] \in V
  <2>1. it[T] = Iter(it)[T]
    <3> HIDE DEF Iter
    <3> QED BY <1>8
  <2>2. it[T] = Towns!attack(group, it[T \ {Towns!Max(T)}], s[Towns!Max(T)])
    <3> HIDE DEF V
    <3> QED BY <1>11, <2>1
  <2> HIDE DEF V, S
  <2> QED BY <1>3, <1>6, <1>11, <2>2
<1>12. it[1 .. Len(s)] \in V
  <2> HIDE DEF V, Iter
  <2>1. \A T \in SUBSET (1 .. Len(s)) : T # {} /\ it[T \ {Tokens!Max(T)}] \in V => it[T] \in V
    BY <1>1, <1>11, TownMax
  <2>2. PICK n \in Nat : n = Len(s)
    BY <1>1
  <2> HIDE DEF S
  <2> QED BY <1>1, <1>10, <2>1, <2>2, LeftFoldStays
<1> HIDE DEF V, S, Iter
<1> QED BY <1>1, <1>9, <1>12 DEF V

\* The invariant of the towns: their promises, and that a town lists nobody twice, which the
\* count of a fight needs.
TownInv ==
    /\ health \in [Everybody -> Nat]
    /\ town \in [Town -> Towns!Place \cup {Nothing}]
    /\ \A t \in Towns!Built : town[t].citizens \in CitizenLists
    /\ said # Nothing => said.town \in Towns!Built
    /\ Towns!LivingAreCounted /\ Towns!VerdictsHold

\* A town that is built has a place.
LEMMA BuiltHavePlaces ==
    ASSUME Towns!TownConstants, TownInv, NEW t \in Towns!Built
    PROVE  /\ t \in Town /\ town[t] \in Towns!Place
           /\ town[t].alive \in Int /\ town[t].time \in Int
           /\ town[t].attacker \in Group /\ town[t].citizens \in CitizenLists
BY DEF TownInv, Towns!Built, Towns!Place, Group

\* The living of a list.
LEMMA LivingOf ==
    ASSUME NEW s \in CitizenLists
    PROVE  Towns!Living(s) = Cardinality(Towns!Alive(health, s)) /\ Towns!Living(s) \in Nat
BY TownSizes, AliveAreCounted DEF Towns!Living

\* What a town says is what it counts, of monsters with n health points together.
SaysSo(v, n, alive) ==
    /\ v \in {"MONSTER WON", "DRAW"} => ~ (alive > 0)
    /\ v \in {"CITIZENS WON", "DRAW"} => ~ (n > 0)
    /\ v = "CITIZENS WON" => alive > 0
    /\ v = Nothing => n > 0 /\ alive > 0

\* The verdict of SmallTown::tick says so, in all four cases.
LEMMA VerdictMeans ==
    ASSUME Towns!TownConstants, NEW n, NEW alive
    PROVE  SaysSo(Towns!Verdict(n > 0, alive > 0), n, alive)
<1> PICK v : v = Towns!Verdict(n > 0, alive > 0)
  OBVIOUS
<1>1. Nothing # "MONSTER WON" /\ Nothing # "DRAW" /\ Nothing # "CITIZENS WON"
  BY Zenon DEF Towns!TownConstants
<1>2. n > 0 /\ ~ (alive > 0) => v = "MONSTER WON"
  BY Zenon DEF Towns!Verdict
<1>3. ~ (n > 0) /\ ~ (alive > 0) => v = "DRAW"
  BY Zenon DEF Towns!Verdict
<1>4. ~ (n > 0) /\ alive > 0 => v = "CITIZENS WON"
  BY Zenon DEF Towns!Verdict
<1>5. n > 0 /\ alive > 0 => v = Nothing
  BY Zenon DEF Towns!Verdict
<1>6. "MONSTER WON" # "DRAW" /\ "MONSTER WON" # "CITIZENS WON" /\ "DRAW" # "CITIZENS WON"
  OBVIOUS
<1>7. SaysSo(v, n, alive)
  BY <1>1, <1>2, <1>3, <1>4, <1>5, <1>6, Zenon DEF SaysSo
<1> QED BY <1>7, Zenon

\* A place with another number and another hour.
TickedPlace(place, a, x) == [place EXCEPT !.alive = a, !.time = x]

\* It stays a place, of the same citizens and monsters.
LEMMA PlaceTicked ==
    ASSUME NEW place \in Towns!Place, NEW a \in Int, NEW x \in Int
    PROVE  /\ TickedPlace(place, a, x) \in Towns!Place /\ TickedPlace(place, a, x).alive = a
           /\ TickedPlace(place, a, x).citizens = place.citizens
           /\ TickedPlace(place, a, x).attacker = place.attacker
BY DEF Towns!Place, TickedPlace

\* What the constants are, without the verdicts.
LEMMA TownNumbers ==
    ASSUME Towns!TownConstants
    PROVE  Hours \subseteq Nat /\ TownStep \subseteq Nat /\ Clock \in Nat /\ Nothing \notin Towns!Place
BY Zenon DEF Towns!TownConstants

\* The numbers of a town at its next tick.
TickedTown(tw, t, k, step) ==
    [tw EXCEPT ![t].alive = @ - k, ![t].time = (@ + step) % (Clock + 1)]

IsTownTicked(new, tw, t, k) ==
    /\ new \in [Town -> Towns!Place \cup {Nothing}]
    /\ \A u \in Town : u # t => new[u] = tw[u]
    /\ new[t] \in Towns!Place /\ new[t].alive = tw[t].alive - k
    /\ new[t].citizens = tw[t].citizens /\ new[t].attacker = tw[t].attacker

\* Only this town is another one, with k fewer alive.
LEMMA TownTicked ==
    ASSUME NEW tw \in [Town -> Towns!Place \cup {Nothing}], NEW t \in Town, tw[t] \in Towns!Place,
           Nothing \notin Towns!Place, NEW k \in Int, NEW step \in Nat, Clock \in Nat, NEW new,
           new = TickedTown(tw, t, k, step)
    PROVE  IsTownTicked(new, tw, t, k)
<1> DEFINE a == tw[t].alive - k
           x == (tw[t].time + step) % (Clock + 1)
<1> PICK row : row = TickedPlace(tw[t], a, x)
  OBVIOUS
<1>1. tw[t].alive \in Int /\ tw[t].time \in Int
  BY DEF Towns!Place
<1>2. a \in Int /\ x \in Int
  BY <1>1
<1>3. new = [tw EXCEPT ![t] = row]
  BY DEF Towns!Place, TickedPlace, TickedTown
<1> HIDE DEF a, x
<1>4. /\ row \in Towns!Place /\ row.alive = a
      /\ row.citizens = tw[t].citizens /\ row.attacker = tw[t].attacker
  <2>1. a \in Int /\ x \in Int /\ tw[t] \in Towns!Place
    BY <1>2
  <2> QED BY <2>1, PlaceTicked, Zenon
<1>5. new \in [Town -> Towns!Place \cup {Nothing}] /\ new[t] = row
      /\ \A u \in Town : u # t => new[u] = tw[u]
  BY <1>3, <1>4
<1> QED BY <1>4, <1>5 DEF a, IsTownTicked

\* The promises, of any health, towns and verdict.
Owns(tw, built, t) ==
    \A u \in built \ {t} : Towns!ToSet(tw[u].citizens) \cap Towns!ToSet(tw[t].citizens) = {}
Lives(h, tw, t) == Cardinality(Towns!Alive(h, tw[t].citizens))
Counted(h, tw, built) ==
    \A t \in built : /\ tw[t].alive >= Lives(h, tw, t)
                     /\ Owns(tw, built, t) => tw[t].alive = Lives(h, tw, t)
Promised(h, tw, built, s) ==
    s # Nothing /\ Owns(tw, built, s.town) =>
        /\ s.verdict \in {"MONSTER WON", "DRAW"} => Lives(h, tw, s.town) = 0
        /\ s.verdict \in {"CITIZENS WON", "DRAW"} => Towns!groupHealth(h, tw[s.town].attacker) = 0
        /\ s.verdict = "CITIZENS WON" => Lives(h, tw, s.town) > 0

\* They are the promises of the module, before a step
LEMMA PromisesNow ==
    /\ Towns!LivingAreCounted <=> Counted(health, town, Towns!Built)
    /\ Towns!VerdictsHold <=> Promised(health, town, Towns!Built, said)
<1>1. \A s : Towns!Living(s) = Cardinality(Towns!Alive(health, s))
  BY TownSizes DEF Towns!Living
<1>2. \A t : Towns!Own(t) <=> Owns(town, Towns!Built, t)
  BY DEF Towns!Own, Owns
<1>3. Towns!LivingAreCounted <=> Counted(health, town, Towns!Built)
  BY <1>1, <1>2, Zenon DEF Towns!LivingAreCounted, Counted, Lives
<1>4. Towns!VerdictsHold <=> Promised(health, town, Towns!Built, said)
  BY <1>1, <1>2, Zenon DEF Towns!VerdictsHold, Promised, Lives
<1> QED BY <1>3, <1>4

\* and after it.
LEMMA PromisesThen ==
    /\ (Towns!LivingAreCounted)' <=> Counted(health', town', Towns!Built')
    /\ (Towns!VerdictsHold)' <=> Promised(health', town', Towns!Built', said')
<1>1. \A S : Cardinality(S) = Towns!Cardinality(S)
  BY TownSizes
<1>3. (Towns!LivingAreCounted)' <=> Counted(health', town', Towns!Built')
  BY <1>1, Zenon DEF Towns!LivingAreCounted, Counted, Lives, Towns!Living, Owns, Towns!Own
<1>4. (Towns!VerdictsHold)' <=> Promised(health', town', Towns!Built', said')
  BY <1>1, Zenon DEF Towns!VerdictsHold, Promised, Lives, Towns!Living, Owns, Towns!Own
<1> QED BY <1>3, <1>4

\* The towns after a fight of t in which k citizens fell.
AfterFight(new, tw, built, t, k) ==
    /\ \A u \in built : new[u].citizens = tw[u].citizens /\ new[u].attacker = tw[u].attacker
    /\ \A u \in built : u # t => new[u].alive = tw[u].alive
    /\ new[t].alive = tw[t].alive - k

\* A fight keeps what towns count, and what was said of others and of t before.
LEMMA FightKeepsPromises ==
    ASSUME Towns!TownConstants, NEW h \in [Everybody -> Nat], NEW g \in [Everybody -> Nat],
           NEW tw, NEW built, \A u \in built : tw[u] \in Towns!Place /\ tw[u].citizens \in CitizenLists,
           NEW t \in built, NEW k \in Nat, NEW new, AfterFight(new, tw, built, t, k), Lower(g, h),
           \A c \in Citizen \ Towns!ToSet(tw[t].citizens) : g[c] = h[c],
           Lives(g, tw, t) + k = Lives(h, tw, t),
           Towns!groupHealth(h, tw[t].attacker) > 0, tw[t].alive > 0,
           NEW s, s # Nothing => s.town \in built,
           Counted(h, tw, built), Promised(h, tw, built, s)
    PROVE  Counted(g, new, built) /\ Promised(g, new, built, s)
<1>1. \A u \in built : Owns(new, built, u) <=> Owns(tw, built, u)
  BY DEF AfterFight, Owns
<1>2. \A u \in built : Lives(g, new, u) = Lives(g, tw, u)
  BY DEF AfterFight, Lives
<1>3. ASSUME NEW u \in built
      PROVE  /\ tw[u].alive \in Int /\ tw[u].attacker \in Group
             /\ Lives(g, tw, u) \in Nat /\ Lives(h, tw, u) \in Nat
             /\ Lives(g, tw, u) <= Lives(h, tw, u)
  <2>1. tw[u].alive \in Int /\ tw[u].attacker \in Group /\ tw[u].citizens \in CitizenLists
    BY DEF Towns!Place, Group
  <2> QED BY <2>1, AliveAreCounted, LivingBecomeFewer DEF Lives
<1>4. ASSUME NEW u \in built, u # t, Owns(tw, built, u) PROVE Lives(g, tw, u) = Lives(h, tw, u)
  <2>1. tw[u].citizens \in CitizenLists
    OBVIOUS
  <2>2. \A i \in DOMAIN tw[u].citizens : tw[u].citizens[i] \in Citizen
                                         /\ tw[u].citizens[i] \in Towns!ToSet(tw[u].citizens)
    BY <2>1 DEF CitizenLists, Towns!ToSet
  <2>3. Towns!ToSet(tw[t].citizens) \cap Towns!ToSet(tw[u].citizens) = {}
    BY <1>4 DEF Owns
  <2>4. \A i \in DOMAIN tw[u].citizens : g[tw[u].citizens[i]] = h[tw[u].citizens[i]]
    BY <2>2, <2>3
  <2> QED BY <2>1, <2>4, SameLive DEF Lives
<1>5. ASSUME NEW u \in built
      PROVE  /\ new[u].alive >= Lives(g, new, u)
             /\ Owns(new, built, u) => new[u].alive = Lives(g, new, u)
  <2>1. /\ tw[u].alive >= Lives(h, tw, u)
        /\ Owns(tw, built, u) => tw[u].alive = Lives(h, tw, u)
    BY DEF Counted
  <2>2. CASE u = t
    <3>1. new[u].alive = tw[u].alive - k
      BY <2>2 DEF AfterFight
    <3> QED BY <1>1, <1>2, <1>3, <2>1, <2>2, <3>1
  <2>3. CASE u # t
    <3>1. new[u].alive = tw[u].alive
      BY <2>3 DEF AfterFight
    <3> QED BY <1>1, <1>2, <1>3, <1>4, <2>1, <2>3, <3>1
  <2> QED BY <2>2, <2>3
<1>6. Counted(g, new, built)
  BY <1>5 DEF Counted
<1>7. ASSUME s # Nothing, Owns(new, built, s.town)
      PROVE  /\ s.verdict \in {"MONSTER WON", "DRAW"} => Lives(g, new, s.town) = 0
             /\ s.verdict \in {"CITIZENS WON", "DRAW"}
                => Towns!groupHealth(g, new[s.town].attacker) = 0
             /\ s.verdict = "CITIZENS WON" => Lives(g, new, s.town) > 0
  <2> PICK u : u = s.town
    OBVIOUS
  <2>1. u \in built /\ Owns(tw, built, u)
    BY <1>1, <1>7
  <2>2. /\ s.verdict \in {"MONSTER WON", "DRAW"} => Lives(h, tw, u) = 0
        /\ s.verdict \in {"CITIZENS WON", "DRAW"} => Towns!groupHealth(h, tw[u].attacker) = 0
        /\ s.verdict = "CITIZENS WON" => Lives(h, tw, u) > 0
    BY <1>7, <2>1 DEF Promised
  <2>0. Lives(h, tw, u) = 0 => Lives(g, new, u) = 0
    BY <1>2, <1>3, <2>1
  <2>3. s.verdict \in {"MONSTER WON", "DRAW"} => Lives(g, new, u) = 0
    BY <2>0, <2>2, Zenon
  <2>4. new[u].attacker = tw[u].attacker /\ tw[u].attacker \in Group
    BY <1>3, <2>1 DEF AfterFight
  <2>5. s.verdict \in {"CITIZENS WON", "DRAW"} => Towns!groupHealth(g, new[u].attacker) = 0
    BY <2>2, <2>4, GroupStaysDown
  <2>6. ASSUME s.verdict = "CITIZENS WON" PROVE Lives(g, new, u) > 0
    <3>1. u # t
      <4>1. Towns!groupHealth(h, tw[u].attacker) = 0
        BY <2>2, <2>6, Zenon
      <4>2. ~ (0 > 0)
        OBVIOUS
      <4> QED BY <4>1, <4>2, Zenon
    <3>2. Lives(g, tw, u) = Lives(h, tw, u)
      BY <1>4, <2>1, <3>1
    <3> QED BY <1>2, <2>1, <2>2, <2>6, <3>2
  <2> QED BY <2>3, <2>5, <2>6
<1>8. Promised(g, new, built, s)
  BY <1>7, Zenon DEF Promised
<1> QED BY <1>6, <1>8

\* A town that is built counts its living, and takes nothing from what others count or said.
LEMMA BuildingKeepsPromises ==
    ASSUME NEW h, NEW tw, NEW built, NEW t, t \notin built, NEW new, NEW after,
           after \ {t} = built,
           \A u \in built : new[u] = tw[u],
           t \in after => new[t].alive = Lives(h, new, t),
           t \in after => Lives(h, new, t) \in Nat,
           NEW s, s # Nothing => s.town \in built,
           Counted(h, tw, built), Promised(h, tw, built, s)
    PROVE  Counted(h, new, after) /\ Promised(h, new, after, s)
<1>1. \A u \in built : Owns(new, after, u) => Owns(tw, built, u)
  BY DEF Owns
<1>2. \A u \in built : Lives(h, new, u) = Lives(h, tw, u)
  BY DEF Lives
<1>3. Counted(h, new, after)
  <2> SUFFICES ASSUME NEW u \in after
               PROVE  /\ new[u].alive >= Lives(h, new, u)
                      /\ Owns(new, after, u) => new[u].alive = Lives(h, new, u)
    BY DEF Counted
  <2>1. CASE u = t
    BY <2>1
  <2>2. CASE u # t
    BY <1>1, <1>2, <2>2 DEF Counted
  <2> QED BY <2>1, <2>2
<1>4. Promised(h, new, after, s)
  <2> SUFFICES ASSUME s # Nothing, Owns(new, after, s.town)
               PROVE  /\ s.verdict \in {"MONSTER WON", "DRAW"} => Lives(h, new, s.town) = 0
                      /\ s.verdict \in {"CITIZENS WON", "DRAW"}
                         => Towns!groupHealth(h, new[s.town].attacker) = 0
                      /\ s.verdict = "CITIZENS WON" => Lives(h, new, s.town) > 0
    BY Zenon DEF Promised
  <2>1. s.town \in built /\ Owns(tw, built, s.town)
    BY <1>1
  <2>2. new[s.town] = tw[s.town] /\ Lives(h, new, s.town) = Lives(h, tw, s.town)
    BY <1>2, <2>1
  <2> QED BY <2>1, <2>2 DEF Promised
<1> QED BY <1>3, <1>4

\* What a town's place is when it is built.
LEMMA NewPlace ==
    ASSUME NEW a \in Int, NEW x \in Int, NEW group \in Group, NEW s \in CitizenLists,
           NEW row, row = [alive |-> a, time |-> x, attacker |-> group, citizens |-> s]
    PROVE  row \in Towns!Place /\ row.alive = a /\ row.citizens = s
BY DEF Towns!Place, Group, CitizenLists

\* The calls of a builder are a sequence.
LEMMA BoundedIsSeq ==
    ASSUME NEW S, NEW n \in Nat, NEW s \in Towns!BoundedSeq(S, n)
    PROVE  s \in Seq(S)
BY DEF Towns!BoundedSeq, Towns!SeqOf

\* Builder::build keeps the invariant.
LEMMA BuildKeeps ==
    ASSUME Towns!TownConstants, TownInv, NEW t \in Town,
           NEW calls \in Towns!BoundedSeq(Citizen, 3), NEW group \in Towns!BoundedSeq(Fiend, 2),
           NEW start \in Hours, Towns!build(t, calls, group, start)
    PROVE  TownInv'
<1> DEFINE s == Towns!Added(calls)
           a == Towns!Living(s)
<1> PICK row : row = [alive |-> a, time |-> start, attacker |-> group, citizens |-> s]
  OBVIOUS
<1>1. /\ town[t] = Nothing /\ town' = [town EXCEPT ![t] = row]
      /\ health' = health /\ said' = said
  BY DEF Towns!build
<1>2. s \in CitizenLists /\ group \in Group /\ start \in Int
  <2>1. 3 \in Nat /\ 2 \in Nat
    OBVIOUS
  <2>2. calls \in Seq(Citizen) /\ group \in Seq(Fiend)
    BY <2>1, BoundedIsSeq, Zenon
  <2>3. s \in CitizenLists
    BY <2>2, TownsHoldEachOnce
  <2>4. start \in Int
    BY TownNumbers
  <2> QED BY <2>2, <2>3, <2>4, Zenon DEF Group
<1> HIDE DEF s
<1>3. a = Cardinality(Towns!Alive(health, s)) /\ a \in Nat
  BY <1>2, LivingOf
<1> HIDE DEF a
<1>4. row \in Towns!Place /\ row.alive = a /\ row.citizens = s
  BY <1>2, <1>3, NewPlace
<1>5. /\ town' \in [Town -> Towns!Place \cup {Nothing}] /\ town'[t] = row
      /\ \A u \in Town : u # t => town'[u] = town[u]
  BY <1>1, <1>4 DEF TownInv
<1>6. t \notin Towns!Built /\ Towns!Built' \ {t} = Towns!Built
  BY <1>1, <1>5 DEF Towns!Built
<1>7. \A u \in Towns!Built : town'[u] = town[u]
  BY <1>5, <1>6, BuiltHavePlaces
<1>8. \A u \in Towns!Built' : town'[u].citizens \in CitizenLists
  <2>1. \A u \in Towns!Built : town[u].citizens \in CitizenLists
    BY DEF TownInv
  <2> QED BY <1>2, <1>4, <1>5, <1>6, <1>7, <2>1
<1>9. said' # Nothing => said'.town \in Towns!Built /\ said'.town \in Towns!Built'
  BY <1>1, <1>6 DEF TownInv
<1>10. Counted(health', town', Towns!Built') /\ Promised(health', town', Towns!Built', said')
  <2>1. Counted(health, town, Towns!Built) /\ Promised(health, town, Towns!Built, said)
    BY PromisesNow DEF TownInv
  <2>2. town'[t].alive = Lives(health, town', t) /\ Lives(health, town', t) \in Nat
    BY <1>3, <1>4, <1>5 DEF Lives
  <2>3. said # Nothing => said.town \in Towns!Built
    BY DEF TownInv
  <2>4. Counted(health, town', Towns!Built') /\ Promised(health, town', Towns!Built', said)
    BY <1>6, <1>7, <2>1, <2>2, <2>3, BuildingKeepsPromises
  <2> QED BY <1>1, <2>4
<1>11. health' \in [Everybody -> Nat]
  BY <1>1 DEF TownInv
<1> QED BY <1>5, <1>8, <1>9, <1>10, <1>11, PromisesThen DEF TownInv

\* What the citizens of a town and its monsters do in an hour.
Hour(h, place) == IF Towns!attackTime(place.time) THEN Fight(h, place.attacker, place.citizens)
                  ELSE FightOf(h, 0)

\* The hour of a town counts those who fall in it.
LEMMA HourCounts ==
    ASSUME Towns!TownConstants, NEW h \in [Everybody -> Nat], NEW place \in Towns!Place,
           place.citizens \in CitizenLists
    PROVE  Hour(h, place) \in Fought(h, place.citizens)
<1>1. place.attacker \in Group
  BY DEF Towns!Place, Group
<1>2. Fight(h, place.attacker, place.citizens) \in Fought(h, place.citizens)
  BY <1>1, FightCounts
<1>3. FightOf(h, 0) \in Fought(h, place.citizens)
  <2>1. Lower(h, h) /\ 0 \in Nat
    BY DEF Lower
  <2>2. /\ FightOf(h, 0) \in [health : [Everybody -> Nat], killed : Nat]
        /\ FightOf(h, 0).health = h /\ FightOf(h, 0).killed = 0
    BY <2>1, PartsOfFight
  <2>3. Cardinality(Towns!Alive(h, place.citizens)) \in Nat
    BY AliveAreCounted
  <2> QED BY <2>1, <2>2, <2>3 DEF Fought
<1> QED BY <1>2, <1>3 DEF Hour

\* A tick says what is so, or the town fights.
LEMMA TickIs ==
    ASSUME NEW t, NEW step, Towns!tick(t, step)
    PROVE  LET v == Towns!Verdict(Towns!groupHealth(health, town[t].attacker) > 0, town[t].alive > 0)
               fight == Hour(health, town[t])
           IN /\ town[t] # Nothing
              /\ \/ /\ v # Nothing /\ said' = [town |-> t, verdict |-> v]
                    /\ town' = town /\ health' = health
                 \/ /\ v = Nothing /\ health' = fight.health /\ said' = said
                    /\ town' = [town EXCEPT ![t].alive = @ - fight.killed,
                                            ![t].time = (@ + step) % (Clock + 1)]
BY Zenon DEF Towns!tick, Hour, Fight, FightOf

\* SmallTown::tick keeps the invariant.
LEMMA TickKeeps ==
    ASSUME Towns!TownConstants, TownInv, NEW t \in Town, NEW step \in TownStep, Towns!tick(t, step)
    PROVE  TownInv'
<1> DEFINE n == Towns!groupHealth(health, town[t].attacker)
           alive == town[t].alive
<1> PICK v : v = Towns!Verdict(n > 0, alive > 0)
  OBVIOUS
<1> PICK fight : fight = Hour(health, town[t])
  OBVIOUS
<1>1. /\ town[t] # Nothing
      /\ \/ /\ v # Nothing /\ said' = [town |-> t, verdict |-> v]
            /\ town' = town /\ health' = health
         \/ /\ v = Nothing /\ health' = fight.health /\ said' = said
            /\ town' = [town EXCEPT ![t].alive = @ - fight.killed,
                                    ![t].time = (@ + step) % (Clock + 1)]
  BY TickIs, Zenon
<1>2. /\ t \in Towns!Built /\ town[t] \in Towns!Place /\ alive \in Int
      /\ town[t].attacker \in Group /\ town[t].citizens \in CitizenLists
  <2>1. t \in Towns!Built
    BY <1>1 DEF Towns!Built
  <2> QED BY <2>1, BuiltHavePlaces
<1>3. health \in [Everybody -> Nat] /\ n \in Nat
  BY <1>2, GroupStrength DEF TownInv
<1>4. SaysSo(v, n, alive)
  BY VerdictMeans
<1>5. Counted(health, town, Towns!Built) /\ Promised(health, town, Towns!Built, said)
  BY PromisesNow DEF TownInv
<1> HIDE DEF n, alive
<1>6. CASE v # Nothing
  <2>1. town' = town /\ health' = health
    BY <1>1, <1>6
  <2>2. PICK s : said' = s /\ s.town = t /\ s.verdict = v
    <3>1. said' = [town |-> t, verdict |-> v]
      BY <1>1, <1>6
    <3> QED BY <3>1
  <2>3. Towns!Built' = Towns!Built
    BY <2>1 DEF Towns!Built
  <2>4. Lives(health, town, t) \in Nat
    BY <1>2, AliveAreCounted DEF Lives
  <2>5. Owns(town, Towns!Built, t) => alive = Lives(health, town, t)
    BY <1>2, <1>5 DEF Counted, alive
  <2>6. Owns(town, Towns!Built, t) =>
          /\ v \in {"MONSTER WON", "DRAW"} => Lives(health, town, t) = 0
          /\ v \in {"CITIZENS WON", "DRAW"} => n = 0
          /\ v = "CITIZENS WON" => Lives(health, town, t) > 0
    <3>1. ~ (alive > 0) /\ alive = Lives(health, town, t) => Lives(health, town, t) = 0
      BY <2>4
    <3>2. ~ (n > 0) => n = 0
      BY <1>3
    <3> QED BY <1>4, <2>5, <3>1, <3>2, Zenon DEF SaysSo
  <2>7. Promised(health, town, Towns!Built, s)
    BY <2>2, <2>6, Zenon DEF Promised, n
  <2>8. Counted(health', town', Towns!Built') /\ Promised(health', town', Towns!Built', said')
    BY <1>5, <2>1, <2>2, <2>3, <2>7
  <2>9. said' # Nothing => said'.town \in Towns!Built'
    BY <1>2, <2>2, <2>3
  <2>10. /\ health' \in [Everybody -> Nat] /\ town' \in [Town -> Towns!Place \cup {Nothing}]
         /\ \A u \in Towns!Built' : town'[u].citizens \in CitizenLists
    BY <2>1, <2>3 DEF TownInv
  <2> QED BY <2>8, <2>9, <2>10, PromisesThen DEF TownInv
<1>7. CASE v = Nothing
  <2>1. /\ health' = fight.health /\ said' = said
        /\ town' = [town EXCEPT ![t].alive = @ - fight.killed, ![t].time = (@ + step) % (Clock + 1)]
    BY <1>1, <1>7
  <2>2. n > 0 /\ alive > 0
    BY <1>4, <1>7, Zenon DEF SaysSo
  <2>3. fight \in Fought(health, town[t].citizens)
    BY <1>2, <1>3, HourCounts
  <2>4. PICK g, k : g = fight.health /\ k = fight.killed
    OBVIOUS
  <2>5. /\ g \in [Everybody -> Nat] /\ k \in Nat /\ Lower(g, health)
        /\ \A c \in Citizen \ Towns!ToSet(town[t].citizens) : g[c] = health[c]
        /\ Lives(g, town, t) + k = Lives(health, town, t)
    BY <2>3, <2>4 DEF Fought, Lives
  <2>6. /\ town' \in [Town -> Towns!Place \cup {Nothing}]
        /\ \A u \in Town : u # t => town'[u] = town[u]
        /\ town'[t] \in Towns!Place /\ town'[t].alive = town[t].alive - k
        /\ town'[t].citizens = town[t].citizens /\ town'[t].attacker = town[t].attacker
    <3>1. /\ town \in [Town -> Towns!Place \cup {Nothing}] /\ Nothing \notin Towns!Place
          /\ step \in Nat /\ Clock \in Nat /\ k \in Int
      BY <2>5, TownNumbers DEF TownInv
    <3>2. town' = TickedTown(town, t, k, step)
      BY <2>1, <2>4, Zenon DEF TickedTown
    <3>3. IsTownTicked(town', town, t, k)
      BY <1>2, <3>1, <3>2, TownTicked
    <3> QED BY <3>3 DEF IsTownTicked
  <2>7. Nothing \notin Towns!Place
    BY TownNumbers
  <2>8. Towns!Built' = Towns!Built
    BY <1>1, <2>6, <2>7 DEF Towns!Built
  <2>9. AfterFight(town', town, Towns!Built, t, k)
    BY <2>6 DEF AfterFight, Towns!Built
  <2>10. \A u \in Towns!Built : town[u] \in Towns!Place /\ town[u].citizens \in CitizenLists
    BY BuiltHavePlaces
  <2>11. said # Nothing => said.town \in Towns!Built
    BY DEF TownInv
  <2>12. /\ Towns!groupHealth(health, town[t].attacker) > 0 /\ town[t].alive > 0
    BY <2>2 DEF n, alive
  <2>13. Counted(g, town', Towns!Built) /\ Promised(g, town', Towns!Built, said)
    BY <1>2, <1>3, <1>5, <2>5, <2>9, <2>10, <2>11, <2>12, FightKeepsPromises
  <2>14. Counted(health', town', Towns!Built') /\ Promised(health', town', Towns!Built', said')
    BY <2>1, <2>4, <2>8, <2>13
  <2>15. \A u \in Towns!Built' : town'[u].citizens \in CitizenLists
    BY <2>8, <2>9, <2>10 DEF AfterFight
  <2>16. health' \in [Everybody -> Nat] /\ (said' # Nothing => said'.town \in Towns!Built')
    BY <2>1, <2>4, <2>5, <2>8, <2>11
  <2> QED BY <2>6, <2>14, <2>15, <2>16, PromisesThen DEF TownInv
<1> QED BY <1>6, <1>7

\* No town is built in the beginning.
LEMMA TownsInit == ASSUME Towns!TownConstants PROVE Towns!Init => TownInv
<1> SUFFICES ASSUME Towns!Init PROVE TownInv
  OBVIOUS
<1>1. Towns!Built = {} /\ said = Nothing
  BY DEF Towns!Init, Towns!Built
<1>2. health \in [Everybody -> Nat] /\ town \in [Town -> Towns!Place \cup {Nothing}]
  BY DEF Towns!Init, Towns!TownConstants, Everybody
<1>3. Towns!LivingAreCounted /\ Towns!VerdictsHold
  BY <1>1, Zenon DEF Towns!LivingAreCounted, Towns!VerdictsHold
<1> QED BY <1>1, <1>2, <1>3 DEF TownInv

\* However towns share citizens and monsters, those that share none keep the number of the
\* living right without counting again, no counter wraps, and verdicts stay true.
THEOREM VerdictsStayTrue ==
    ASSUME Towns!TownConstants
    PROVE  Towns!Spec => [](Towns!LivingAreCounted /\ Towns!VerdictsHold)
<1>1. TownInv /\ [Towns!Next]_Towns!townVars => TownInv'
  <2> SUFFICES ASSUME TownInv, [Towns!Next]_Towns!townVars PROVE TownInv'
    OBVIOUS
  <2>1. CASE UNCHANGED Towns!townVars
    <3>1. town' = town /\ health' = health /\ said' = said
      BY <2>1 DEF Towns!townVars
    <3>2. Towns!Built' = Towns!Built
      BY <3>1 DEF Towns!Built
    <3>3. Counted(health, town, Towns!Built) /\ Promised(health, town, Towns!Built, said)
      BY PromisesNow DEF TownInv
    <3>4. Counted(health', town', Towns!Built') /\ Promised(health', town', Towns!Built', said')
      BY <3>1, <3>2, <3>3
    <3> QED BY <3>1, <3>2, <3>4, PromisesThen DEF TownInv
  <2>2. ASSUME NEW t \in Town, NEW calls \in Towns!BoundedSeq(Citizen, 3),
               NEW group \in Towns!BoundedSeq(Fiend, 2), NEW start \in Hours,
               Towns!build(t, calls, group, start)
        PROVE  TownInv'
    BY <2>2, BuildKeeps
  <2>3. ASSUME NEW t \in Town, NEW step \in TownStep, Towns!tick(t, step) PROVE TownInv'
    BY <2>3, TickKeeps
  <2> QED BY <2>1, <2>2, <2>3 DEF Towns!Next
<1>2. TownInv => Towns!LivingAreCounted /\ Towns!VerdictsHold
  BY DEF TownInv
<1> QED BY <1>1, <1>2, TownsInit, PTL DEF Towns!Spec

\* A recursion over the numbers, the way of the Fibonacci numbers.
FibStep(g, n) == IF n = 0 THEN 0 ELSE IF n = 1 THEN 1 ELSE g[n - 1] + g[n - 2]
FibUpTo(g, n) == g \in [0 .. n -> Nat] /\ \A k \in 0 .. n : g[k] = FibStep(g, k)

\* Every beginning of the Fibonacci numbers exists,
LEMMA FibBeginnings == \A n \in Nat : \E g : FibUpTo(g, n)
<1> DEFINE A == {n \in Nat : \E g : FibUpTo(g, n)}
<1>1. 0 \in A
  <2> DEFINE g == [k \in 0 .. 0 |-> 0]
  <2>1. FibUpTo(g, 0)
    BY DEF FibUpTo, FibStep
  <2> HIDE DEF g
  <2> QED BY <2>1
<1>2. ASSUME NEW n \in Nat, n \in A PROVE n + 1 \in A
  <2>1. PICK g : FibUpTo(g, n)
    BY <1>2
  <2>2. g \in [0 .. n -> Nat] /\ \A k \in 0 .. n : g[k] = FibStep(g, k)
    BY <2>1 DEF FibUpTo
  <2> DEFINE f == [k \in 0 .. n + 1 |-> IF k <= n THEN g[k] ELSE FibStep(g, n + 1)]
  <2>3. FibStep(g, n + 1) \in Nat
    <3>1. CASE n = 0
      BY <3>1 DEF FibStep
    <3>2. CASE n > 0
      BY <2>2, <3>2 DEF FibStep
    <3> QED BY <3>1, <3>2
  <2>4. f \in [0 .. n + 1 -> Nat]
    BY <2>2, <2>3
  <2>5. ASSUME NEW k \in 0 .. n + 1 PROVE f[k] = FibStep(f, k)
    <3>1. f[k] = IF k <= n THEN g[k] ELSE FibStep(g, n + 1)
      OBVIOUS
    <3>2. f[k] = FibStep(g, k)
      BY <2>2, <3>1
    <3>3. k > 1 => f[k - 1] = g[k - 1] /\ f[k - 2] = g[k - 2]
      OBVIOUS
    <3> HIDE DEF f
    <3> QED BY <3>2, <3>3 DEF FibStep
  <2>6. FibUpTo(f, n + 1)
    <3> HIDE DEF f
    <3> QED BY <2>4, <2>5 DEF FibUpTo
  <2> HIDE DEF f
  <2> QED BY <2>6
<1>3. Nat \subseteq A
  <2> HIDE DEF A
  <2> QED BY <1>1, <1>2, NumberInduction
<1> QED BY <1>3

\* and two beginnings agree,
LEMMA FibAgree ==
    ASSUME NEW n \in Nat, NEW m \in Nat, NEW g, NEW h, FibUpTo(g, n), FibUpTo(h, m)
    PROVE  \A k \in 0 .. n : k <= m => g[k] = h[k]
<1> DEFINE Same(k) == \A j \in 0 .. k : j <= n /\ j <= m => g[j] = h[j]
           A == {k \in Nat : Same(k)}
<1>1. /\ \A k \in 0 .. n : g[k] = FibStep(g, k)
      /\ \A k \in 0 .. m : h[k] = FibStep(h, k)
  BY DEF FibUpTo
<1>2. 0 \in A
  BY <1>1 DEF FibStep
<1>3. ASSUME NEW k \in Nat, k \in A PROVE k + 1 \in A
  <2>1. Same(k)
    BY <1>3
  <2>2. ASSUME k + 1 <= n, k + 1 <= m PROVE g[k + 1] = h[k + 1]
    <3>1. g[k + 1] = FibStep(g, k + 1) /\ h[k + 1] = FibStep(h, k + 1)
      BY <1>1, <2>2
    <3>2. CASE k = 0
      BY <3>1, <3>2 DEF FibStep
    <3>3. CASE k > 0
      <4>1. g[k] = h[k] /\ g[k - 1] = h[k - 1]
        BY <2>1, <2>2, <3>3
      <4> QED BY <3>1, <3>3, <4>1 DEF FibStep
    <3> QED BY <3>2, <3>3
  <2>3. Same(k + 1)
    BY <2>1, <2>2
  <2> QED BY <2>3
<1>4. Nat \subseteq A
  <2> HIDE DEF A
  <2> QED BY <1>2, <1>3, NumberInduction
<1> SUFFICES ASSUME NEW k \in 0 .. n, k <= m PROVE g[k] = h[k]
  OBVIOUS
<1>5. k \in A
  BY <1>4
<1> QED BY <1>5

\* so the Fibonacci numbers are a function that follows its rule.
LEMMA FibonacciExists ==
    /\ Horror!fibonacci \in [Nat -> Nat]
    /\ \A n \in Nat : Horror!fibonacci[n] = FibStep(Horror!fibonacci, n)
<1> DEFINE G(n) == CHOOSE g : FibUpTo(g, n)
           f == [n \in Nat |-> G(n)[n]]
           Rule(x) == [n \in Nat |-> IF n = 0 THEN 0 ELSE IF n = 1 THEN 1 ELSE x[n - 1] + x[n - 2]]
<1>1. \A n \in Nat : FibUpTo(G(n), n)
  BY FibBeginnings
<1> HIDE DEF G
<1>2. f \in [Nat -> Nat]
  <2>1. ASSUME NEW n \in Nat PROVE G(n)[n] \in Nat
    BY <1>1 DEF FibUpTo
  <2> QED BY <2>1
<1>3. ASSUME NEW n \in Nat PROVE f[n] = FibStep(f, n)
  <2>1. FibUpTo(G(n), n)
    BY <1>1
  <2>2. G(n)[n] = FibStep(G(n), n)
    BY <2>1 DEF FibUpTo
  <2>3. ASSUME n > 1 PROVE f[n - 1] = G(n)[n - 1] /\ f[n - 2] = G(n)[n - 2]
    <3>1. /\ n - 1 \in Nat /\ n - 2 \in Nat
          /\ FibUpTo(G(n - 1), n - 1) /\ FibUpTo(G(n - 2), n - 2)
      BY <1>1, <2>3
    <3>2. G(n - 1)[n - 1] = G(n)[n - 1] /\ G(n - 2)[n - 2] = G(n)[n - 2]
      BY <2>1, <3>1, FibAgree
    <3> QED BY <3>1, <3>2
  <2>4. f[n] = G(n)[n]
    OBVIOUS
  <2> HIDE DEF f
  <2> QED BY <2>2, <2>3, <2>4 DEF FibStep
<1> HIDE DEF f
<1>4. f = Rule(f)
  BY <1>2, <1>3 DEF FibStep
<1>5. PICK x : x = (CHOOSE y : y = Rule(y)) /\ x = Rule(x)
  <2> HIDE DEF Rule
  <2> QED BY <1>4
<1>6. Horror!fibonacci = x
  BY <1>5 DEF Horror!fibonacci
<1>7. \A n \in Nat : x[n] = FibStep(x, n)
  <2>1. \A n \in Nat : x[n] = Rule(x)[n]
    <3> HIDE DEF Rule
    <3> QED BY <1>5
  <2> QED BY <2>1 DEF FibStep
<1>8. x \in [Nat -> Nat]
  <2> DEFINE A == {n \in Nat : x[n] \in Nat /\ x[n + 1] \in Nat}
  <2>1. 0 \in A
    BY <1>7 DEF FibStep
  <2>2. ASSUME NEW n \in Nat, n \in A PROVE n + 1 \in A
    <3>1. x[n + 1 + 1] = x[n + 1] + x[n]
      BY <1>7 DEF FibStep
    <3> QED BY <2>2, <3>1
  <2>3. Nat \subseteq A
    <3> HIDE DEF A
    <3> QED BY <2>1, <2>2, NumberInduction
  <2>4. \A n \in Nat : x[n] \in Nat
    BY <2>3
  <2>5. x = [n \in Nat |-> x[n]]
    BY <1>5
  <2> QED BY <2>4, <2>5
<1> QED BY <1>6, <1>7, <1>8

\* They never fall, and rise above every number.
LEMMA FibonacciRises ==
    /\ \A m, n \in Nat : m <= n => Horror!fibonacci[m] <= Horror!fibonacci[n]
    /\ \A n \in Nat : Horror!fibonacci[n + 1] >= n
<1> PICK f : f = Horror!fibonacci
  OBVIOUS
<1>1. f \in [Nat -> Nat] /\ \A n \in Nat : f[n] = FibStep(f, n)
  BY FibonacciExists
<1>2. f[0] = 0 /\ f[1] = 1 /\ \A n \in Nat : f[n + 1 + 1] = f[n + 1] + f[n]
  BY <1>1 DEF FibStep
<1>3. ASSUME NEW n \in Nat PROVE f[n] <= f[n + 1]
  <2>1. CASE n = 0
    BY <1>2, <2>1
  <2>2. CASE n > 0
    <3>1. n - 1 \in Nat /\ n - 1 + 1 = n /\ n - 1 + 1 + 1 = n + 1
      BY <2>2
    <3>2. f[n + 1] = f[n] + f[n - 1]
      BY <1>2, <3>1
    <3>3. f[n] \in Nat /\ f[n - 1] \in Nat /\ f[n + 1] \in Nat
      BY <1>1, <3>1
    <3> QED BY <3>2, <3>3
  <2> QED BY <2>1, <2>2
<1>4. ASSUME NEW m \in Nat PROVE \A n \in Nat : m <= n => f[m] <= f[n]
  <2> DEFINE A == {n \in Nat : m <= n => f[m] <= f[n]}
  <2>1. 0 \in A
    BY <1>1
  <2>2. ASSUME NEW n \in Nat, n \in A PROVE n + 1 \in A
    BY <1>1, <1>3, <2>2
  <2>3. Nat \subseteq A
    <3> HIDE DEF A
    <3> QED BY <2>1, <2>2, NumberInduction
  <2> QED BY <2>3
<1>5. \A n \in Nat : f[n + 1] >= n
  <2> DEFINE A == {n \in Nat : f[n + 1] >= n /\ f[n + 1] >= 1}
  <2>1. 0 \in A
    BY <1>2
  <2>2. ASSUME NEW n \in Nat, n \in A PROVE n + 1 \in A
    <3>1. f[n + 1 + 1] = f[n + 1] + f[n] /\ f[n] \in Nat /\ f[n + 1] \in Nat
      <4>1. f[n + 1 + 1] = f[n + 1] + f[n]
        BY <1>2
      <4>2. n + 1 \in Nat
        OBVIOUS
      <4> QED BY <1>1, <4>1, <4>2
    <3>2. CASE n = 0
      BY <1>2, <3>1, <3>2
    <3>3. CASE n > 0
      <4>1. f[1] <= f[n]
        BY <1>4, <3>3
      <4> QED BY <1>2, <2>2, <3>1, <4>1
    <3> QED BY <3>2, <3>3
  <2>3. Nat \subseteq A
    <3> HIDE DEF A
    <3> QED BY <2>1, <2>2, NumberInduction
  <2> QED BY <2>3
<1> QED BY <1>4, <1>5

\* The town of task 4 counts
LEMMA HorrorSizes == \A S : Horror!Cardinality(S) = Cardinality(S)
BY DEF Horror!Cardinality, Cardinality, Horror!IsFiniteSet, IsFiniteSet

\* and goes through its citizens as the lemmas above do.
LEMMA HorrorMax == \A T : Horror!Max(T) = Tokens!Max(T)
BY DEF Horror!Max, Tokens!Max

\* The array of the Fibonacci numbers ends with the first that is not below the last hour.
LEMMA ArrayEnds ==
    ASSUME Horror!HorrorConstants
    PROVE  /\ Horror!_last \in 0 .. t1 + 1
           /\ Horror!fibonacci[Horror!_last] >= t1
<1> PICK f : f = Horror!fibonacci
  OBVIOUS
<1> DEFINE B == {n \in Nat : f[n] >= t1}
           Good(n) == f[n] >= t1 /\ \A m \in 0 .. n - 1 : f[m] < t1
<1>1. t1 \in Nat
  BY DEF Horror!HorrorConstants
<1>2. f \in [Nat -> Nat] /\ f[t1 + 1] >= t1
  BY <1>1, FibonacciExists, FibonacciRises
<1>3. B \in SUBSET Nat /\ t1 + 1 \in B
  BY <1>1, <1>2
<1>4. PICK n \in B : \A k \in B : n <= k
  <2> HIDE DEF B
  <2> QED BY <1>3, LeastNumber
<1>5. n \in 0 .. t1 + 1 /\ f[n] >= t1
  BY <1>1, <1>3, <1>4
<1>6. \A m \in 0 .. n - 1 : f[m] < t1
  <2> SUFFICES ASSUME NEW m \in 0 .. n - 1, ~ (f[m] < t1) PROVE FALSE
    OBVIOUS
  <2>1. m \in Nat /\ f[m] \in Nat /\ n \in Nat /\ m < n
    BY <1>2, <1>5
  <2>2. m \in B
    BY <1>1, <2>1
  <2>3. n <= m
    BY <1>4, <2>2
  <2> QED BY <2>1, <2>3
<1>7. Horror!_last = CHOOSE i \in 0 .. t1 + 1 : Good(i)
  BY DEF Horror!_last, Horror!fibLimit
<1>8. n \in 0 .. t1 + 1 /\ Good(n)
  BY <1>5, <1>6
<1>9. Horror!_last \in 0 .. t1 + 1 /\ Good(Horror!_last)
  <2> HIDE DEF Good
  <2> QED BY <1>7, <1>8
<1> QED BY <1>9

\* The walk through the array ends in it, and finds exactly the Fibonacci numbers.
LEMMA WalkFinds ==
    ASSUME Horror!HorrorConstants, NEW time \in 0 .. t1
    PROVE  /\ Horror!_stop(time) \in DOMAIN Horror!myFibArray
           /\ Horror!_checkIfFib(time) <=> time \in Horror!FibonacciHours
<1> PICK f : f = Horror!fibonacci
  OBVIOUS
<1> PICK last : last = Horror!_last
  OBVIOUS
<1> DEFINE A == [i \in 0 .. last |-> f[i]]
           B == {n \in Nat : f[n] >= time}
           Good(i) == /\ i \in DOMAIN A => A[i] >= time
                      /\ \A j \in 0 .. i - 1 : j \in DOMAIN A => A[j] < time
<1>1. t1 \in Nat /\ time \in Nat /\ time <= t1
  BY DEF Horror!HorrorConstants
<1>2. f \in [Nat -> Nat] /\ \A m, n \in Nat : m <= n => f[m] <= f[n]
  BY FibonacciExists, FibonacciRises
<1>3. last \in Nat /\ last <= t1 + 1 /\ f[last] >= t1
  BY <1>1, ArrayEnds
<1>4. last \in B /\ B \in SUBSET Nat
  BY <1>1, <1>2, <1>3
<1>5. PICK n \in B : \A k \in B : n <= k
  <2> HIDE DEF B
  <2> QED BY <1>4, LeastNumber
<1>6. n \in Nat /\ n <= last /\ f[n] >= time
  BY <1>3, <1>4, <1>5
<1>7. \A m \in 0 .. n - 1 : f[m] < time
  <2> SUFFICES ASSUME NEW m \in 0 .. n - 1, ~ (f[m] < time) PROVE FALSE
    OBVIOUS
  <2>1. m \in Nat /\ f[m] \in Nat /\ m < n
    BY <1>2, <1>6
  <2>2. m \in B
    BY <1>1, <2>1
  <2>3. n <= m
    BY <1>5, <2>2
  <2> QED BY <1>6, <2>1, <2>3
<1>8. Cardinality(0 .. last) = last + 1
  BY <1>3, FS_Interval
<1>9. Horror!myFibArray = A /\ DOMAIN A = 0 .. last
  BY DEF Horror!myFibArray
<1>10. Horror!_stop(time) = CHOOSE i \in 0 .. last + 1 : Good(i)
  <2>1. Horror!Cardinality(DOMAIN A) = last + 1
    <3> HIDE DEF A
    <3> QED BY <1>8, <1>9, HorrorSizes
  <2>2. Horror!_stop(time) = CHOOSE i \in 0 .. Horror!Cardinality(DOMAIN A) : Good(i)
    <3> HIDE DEF A
    <3> QED BY <1>9 DEF Horror!_stop
  <2> HIDE DEF Good, A
  <2> QED BY <2>1, <2>2
<1>11. n \in 0 .. last + 1 /\ Good(n)
  BY <1>3, <1>6, <1>7
<1> PICK i : i = Horror!_stop(time)
  OBVIOUS
<1>12. i \in 0 .. last + 1 /\ Good(i)
  <2> HIDE DEF Good
  <2> QED BY <1>10, <1>11
<1>13. i \in 0 .. last
  <2> SUFFICES ASSUME i = last + 1 PROVE FALSE
    BY <1>3, <1>12
  <2>1. last \in 0 .. i - 1 /\ last \in DOMAIN A
    BY <1>3
  <2>2. A[last] < time
    BY <1>12, <2>1
  <2>3. f[last] < time /\ f[last] \in Nat
    BY <1>2, <1>3, <2>2
  <2> QED BY <1>1, <1>3, <2>3
<1>14. /\ i \in Nat /\ f[i] >= time /\ f[i] \in Nat /\ i <= t1 + 1
       /\ \A j \in 0 .. i - 1 : f[j] < time
  <2>1. i \in Nat /\ i <= t1 + 1 /\ i \in DOMAIN A
    BY <1>1, <1>3, <1>13
  <2>2. \A j \in 0 .. i - 1 : j \in DOMAIN A /\ A[j] = f[j]
    BY <1>3, <1>13
  <2>3. A[i] = f[i] /\ f[i] \in Nat
    BY <1>2, <1>13
  <2> QED BY <1>12, <2>1, <2>2, <2>3
<1>15. Horror!_checkIfFib(time) <=> f[i] = time
  <2>1. i \in DOMAIN A /\ A[i] = f[i]
    BY <1>13
  <2>2. Horror!_checkIfFib(time) <=> i \in DOMAIN A /\ A[i] = time
    <3> HIDE DEF A
    <3> QED BY <1>9, Zenon DEF Horror!_checkIfFib
  <2> HIDE DEF A
  <2> QED BY <2>1, <2>2
<1>16. f[i] = time <=> time \in Horror!FibonacciHours
  <2>1. ASSUME f[i] = time PROVE time \in Horror!FibonacciHours
    <3>1. i \in 0 .. t1 + 1
      BY <1>1, <1>14
    <3> QED BY <2>1, <3>1 DEF Horror!FibonacciHours
  <2>2. ASSUME time \in Horror!FibonacciHours PROVE f[i] = time
    <3>1. PICK m \in 0 .. t1 + 1 : time = f[m]
      BY <2>2 DEF Horror!FibonacciHours
    <3>2. m \in Nat
      BY <1>1
    <3>3. ~ (m < i)
      <4> SUFFICES ASSUME m < i PROVE FALSE
        OBVIOUS
      <4>1. m \in 0 .. i - 1
        BY <1>14, <3>2
      <4>2. f[m] < time
        BY <1>14, <4>1
      <4> QED BY <1>1, <3>1, <4>2
    <3>4. f[i] <= f[m]
      BY <1>2, <1>14, <3>2, <3>3
    <3> QED BY <1>1, <1>14, <3>1, <3>4
  <2> QED BY <2>1, <2>2
<1> QED BY <1>9, <1>13, <1>15, <1>16

\* The places of the citizens, and those of the living.
Person == DOMAIN Citizens
Standing(healths) == {i \in Person : healths[i] > 0}

\* The fight so far: the healths, and as many alive as there are.
HorrorFight ==
    {r \in [citizens : [Person -> Nat], monster : 0 .. Monster.health, alive : Int] :
        r.alive = Cardinality(Standing(r.citizens))}
ScareOf(c, m, a) == [citizens |-> c, monster |-> m, alive |-> a]

\* Which parts it has.
LEMMA PartsOfScare ==
    ASSUME NEW c \in [Person -> Nat], NEW m \in 0 .. Monster.health, NEW a \in Int
    PROVE  /\ ScareOf(c, m, a) \in [citizens : [Person -> Nat], monster : 0 .. Monster.health,
                                    alive : Int]
           /\ ScareOf(c, m, a).citizens = c /\ ScareOf(c, m, a).monster = m
           /\ ScareOf(c, m, a).alive = a
BY DEF ScareOf

\* The health of one citizen becomes what an attack has left.
Struck(citizens, i, left) == [citizens EXCEPT ![i] = left]

\* Nobody else is concerned.
LEMMA OneIsStruck ==
    ASSUME NEW citizens \in [Person -> Nat], NEW i \in Person, NEW left \in Nat
    PROVE  /\ Struck(citizens, i, left) \in [Person -> Nat]
           /\ Struck(citizens, i, left)[i] = left
           /\ \A j \in Person : j # i => Struck(citizens, i, left)[j] = citizens[j]
BY DEF Struck

\* Who is in the town, in numbers.
LEMMA PersonsAreFinite ==
    ASSUME Horror!HorrorConstants
    PROVE  /\ Person = 1 .. Len(Citizens) /\ Len(Citizens) \in Nat
           /\ \A i \in Person : Citizens[i].health \in Nat /\ Citizens[i].attack \in Nat
           /\ Monster.health \in Nat /\ Monster.attack \in Nat
           /\ \A healths : /\ IsFiniteSet(Standing(healths))
                           /\ Cardinality(Standing(healths)) \in 0 .. Len(Citizens)
<1>1. Citizens \in Seq([health : Nat, attack : Nat]) /\ Monster \in [health : Nat, attack : Nat]
  BY DEF Horror!HorrorConstants
<1>2. Person = 1 .. Len(Citizens) /\ Len(Citizens) \in Nat
  BY <1>1 DEF Person
<1>3. \A i \in Person : Citizens[i].health \in Nat /\ Citizens[i].attack \in Nat
  <2> DEFINE People == [health : Nat, attack : Nat]
  <2>1. Citizens \in Seq(People)
    BY <1>1
  <2>2. \A i \in 1 .. Len(Citizens) : Citizens[i] \in People
    <3> HIDE DEF People
    <3> QED BY <2>1, ElementOfSeq
  <2>3. \A person \in People : person.health \in Nat /\ person.attack \in Nat
    OBVIOUS
  <2> HIDE DEF People
  <2> QED BY <1>2, <2>2, <2>3
<1>4. IsFiniteSet(Person) /\ Cardinality(Person) = Len(Citizens)
  BY <1>2, FS_Interval
<1>5. ASSUME NEW healths
      PROVE  /\ IsFiniteSet(Standing(healths))
             /\ Cardinality(Standing(healths)) \in 0 .. Len(Citizens)
  <2>1. Standing(healths) \subseteq Person
    BY DEF Standing
  <2>2. /\ IsFiniteSet(Standing(healths))
        /\ Cardinality(Standing(healths)) <= Cardinality(Person)
    BY <1>4, <2>1, FS_Subset
  <2>3. Cardinality(Standing(healths)) \in Nat
    BY <2>2, FS_CardinalityType
  <2> QED BY <1>2, <1>4, <2>2, <2>3
<1> QED BY <1>1, <1>2, <1>3, <1>5

\* One attack counts the citizen who falls.
LEMMA ScareCounts ==
    ASSUME Horror!HorrorConstants, NEW r \in HorrorFight, NEW i \in Person
    PROVE  Horror!attack(r, i) \in HorrorFight
<1> DEFINE left == Horror!NonNegative(r.citizens[i] - Monster.attack)
           m == Horror!NonNegative(r.monster - Citizens[i].attack)
           a == r.alive - (IF left = 0 THEN 1 ELSE 0)
           c == Struck(r.citizens, i, left)
<1>1. /\ r.citizens \in [Person -> Nat] /\ r.monster \in 0 .. Monster.health /\ r.alive \in Int
      /\ r.alive = Cardinality(Standing(r.citizens))
  BY DEF HorrorFight
<1>2. CASE r.citizens[i] = 0
  BY <1>2 DEF Horror!attack
<1>3. CASE r.citizens[i] # 0
  <2>1. Horror!attack(r, i) = ScareOf(c, m, a)
    BY <1>3 DEF Horror!attack, ScareOf, Struck
  <2>2. left \in Nat
    BY <1>1, PersonsAreFinite DEF Horror!NonNegative
  <2>3. m \in 0 .. Monster.health
    BY <1>1, PersonsAreFinite DEF Horror!NonNegative
  <2>4. a \in Int
    BY <1>1
  <2>5. c \in [Person -> Nat] /\ c[i] = left /\ \A j \in Person : j # i => c[j] = r.citizens[j]
    <3> HIDE DEF left
    <3> QED BY <1>1, <2>2, OneIsStruck
  <2>6. /\ i \in Standing(r.citizens)
        /\ Standing(c) = IF left = 0 THEN Standing(r.citizens) \ {i} ELSE Standing(r.citizens)
    <3>1. r.citizens[i] > 0
      BY <1>1, <1>3
    <3> HIDE DEF left, c
    <3> QED BY <2>2, <2>5, <3>1 DEF Standing
  <2>7. a = Cardinality(Standing(c))
    <3> DEFINE A == Standing(r.citizens)
    <3>1. IsFiniteSet(A) /\ Cardinality(A) \in Nat /\ i \in A
      BY <2>6, PersonsAreFinite
    <3>2. Cardinality(A \ {i}) = Cardinality(A) - 1
      BY <3>1, FS_RemoveElement
    <3>3. Cardinality(Standing(c)) = IF left = 0 THEN Cardinality(A \ {i}) ELSE Cardinality(A)
      BY <2>6
    <3> HIDE DEF A, left, c
    <3> QED BY <1>1, <3>1, <3>2, <3>3 DEF A
  <2> HIDE DEF left, m, a, c
  <2>8. ScareOf(c, m, a) \in HorrorFight
    <3>1. /\ ScareOf(c, m, a) \in [citizens : [Person -> Nat], monster : 0 .. Monster.health,
                                   alive : Int]
          /\ ScareOf(c, m, a).citizens = c /\ ScareOf(c, m, a).alive = a
      BY <2>3, <2>4, <2>5, PartsOfScare
    <3> QED BY <2>7, <3>1 DEF HorrorFight
  <2> QED BY <2>1, <2>8
<1> QED BY <1>2, <1>3

\* All citizens, one after the other.
Scare(base) == Horror!FoldLeft(Horror!attack, base, [i \in DOMAIN Citizens |-> i])

\* The count is right after all of them.
LEMMA AllScared ==
    ASSUME Horror!HorrorConstants, NEW base \in HorrorFight
    PROVE  Scare(base) \in HorrorFight
<1> DEFINE seq == [i \in DOMAIN Citizens |-> i]
           S == DOMAIN seq
           V == HorrorFight
           F == [x \in S \X V |-> Horror!attack(x[2], seq[x[1]])]
           Iter(it) == [T \in SUBSET S |-> IF T = {} THEN base
                           ELSE Horror!attack(it[T \ {Horror!Max(T)}], seq[Horror!Max(T)])]
<1>1. S = 1 .. Len(Citizens) /\ Len(Citizens) \in Nat
  BY PersonsAreFinite DEF Person
<1>2. base \in V
  OBVIOUS
<1>3. \A r \in V : \A i \in S : Horror!attack(r, seq[i]) \in V
  <2> SUFFICES ASSUME NEW r \in V, NEW i \in S PROVE Horror!attack(r, seq[i]) \in V
    OBVIOUS
  <2>1. seq[i] = i /\ i \in Person
    BY DEF Person
  <2> QED BY <2>1, ScareCounts
<1>4. F \in [S \X V -> V]
  <2> HIDE DEF S, V, seq
  <2> QED BY <1>3
<1>5. PICK any \in [SUBSET S -> V] : IsLeftFold(any, Len(Citizens), F, base)
  <2> HIDE DEF V, F
  <2>1. PICK n \in Nat : n = Len(Citizens) /\ S = 1 .. n
    BY <1>1
  <2> HIDE DEF S
  <2>2. F \in [(1 .. n) \X V -> V]
    BY <1>4, <2>1, Zenon
  <2>3. \E it \in [SUBSET (1 .. n) -> V] : IsLeftFold(it, n, F, base)
    BY <1>2, <2>2, LeftFoldExists
  <2> QED BY <2>1, <2>3, Zenon
<1>6. \A T \in SUBSET S : T # {} => Horror!Max(T) \in S
  BY <1>1, HorrorMax, MaxIsChosen
<1>7. any = Iter(any)
  <2>1. \A T \in SUBSET S : any[T] = Iter(any)[T]
    <3> SUFFICES ASSUME NEW T \in SUBSET S PROVE any[T] = Iter(any)[T]
      OBVIOUS
    <3>1. any[T] = LeftIter(any, Len(Citizens), F, base)[T]
      BY <1>5, Zenon DEF IsLeftFold
    <3>2. any[T] = IF T = {} THEN base ELSE F[<<Horror!Max(T), any[T \ {Horror!Max(T)}]>>]
      <4> HIDE DEF F, V
      <4> QED BY <3>1, <1>1, HorrorMax DEF LeftIter
    <3>3. T # {} => any[T \ {Horror!Max(T)}] \in V /\ Horror!Max(T) \in S
      <4> HIDE DEF V
      <4> QED BY <1>6
    <3>4. T # {} => F[<<Horror!Max(T), any[T \ {Horror!Max(T)}]>>]
                      = Horror!attack(any[T \ {Horror!Max(T)}], seq[Horror!Max(T)])
      <4> HIDE DEF V, S, seq
      <4> QED BY <3>3
    <3> HIDE DEF F, V, seq
    <3> QED BY <3>2, <3>4
  <2> HIDE DEF V, F
  <2> QED BY <2>1
<1>8. PICK it : it = (CHOOSE i : i = Iter(i)) /\ it = Iter(it)
  <2> HIDE DEF Iter
  <2> QED BY <1>7
<1>9. Scare(base) = it[S]
  BY <1>8 DEF Scare, Horror!FoldLeft, Horror!MapThenFoldSet
<1>10. it[{}] \in V
  <2>1. it[{}] = Iter(it)[{}]
    <3> HIDE DEF Iter
    <3> QED BY <1>8
  <2> HIDE DEF V
  <2> QED BY <1>2, <2>1
<1>11. ASSUME NEW T \in SUBSET S, T # {}, it[T \ {Horror!Max(T)}] \in V PROVE it[T] \in V
  <2>1. it[T] = Iter(it)[T]
    <3> HIDE DEF Iter
    <3> QED BY <1>8
  <2>2. it[T] = Horror!attack(it[T \ {Horror!Max(T)}], seq[Horror!Max(T)])
    <3> HIDE DEF V, seq
    <3> QED BY <1>11, <2>1
  <2> HIDE DEF V, S, seq
  <2> QED BY <1>3, <1>6, <1>11, <2>2
<1>12. it[1 .. Len(Citizens)] \in V
  <2> HIDE DEF V, Iter
  <2>1. \A T \in SUBSET (1 .. Len(Citizens)) :
            T # {} /\ it[T \ {Tokens!Max(T)}] \in V => it[T] \in V
    BY <1>1, <1>11, HorrorMax
  <2>2. PICK n \in Nat : n = Len(Citizens)
    BY <1>1
  <2> HIDE DEF S
  <2> QED BY <1>1, <1>10, <2>1, <2>2, LeftFoldStays
<1> HIDE DEF V, S, Iter
<1> QED BY <1>1, <1>9, <1>12 DEF V

-----------------------------------------------------------------------------
(* The town of JNP 1 task 4 *)

\* The invariant: the hour is right until a step overflows, and the living are counted.
HorrorInv ==
    /\ _time \in 0 .. t1
    /\ ~overflowed => hour = _time
    /\ _citizens \in [Person -> Nat] /\ _monster \in 0 .. Monster.health
    /\ _alive = Cardinality(Standing(_citizens))

\* The hour after a step, and after one that overflowed.
LEMMA HourAdvances ==
    ASSUME Horror!HorrorConstants, NEW time \in 0 .. t1, NEW step \in Step
    PROVE  /\ Horror!advance(time, step) \in 0 .. t1
           /\ time + step <= Limit => Horror!advance(time, step) = (time + step) % (t1 + 1)
<1>1. t1 \in Nat /\ Limit \in Nat /\ t1 <= Limit /\ step \in 0 .. Limit /\ time \in Nat /\ time <= t1
  BY DEF Horror!HorrorConstants
<1>2. CASE time + step > Limit
  <2>1. Horror!advance(time, step) = step - (Limit - time + 1)
    BY <1>2 DEF Horror!advance
  <2> QED BY <1>1, <1>2, <2>1
<1>3. CASE ~ (time + step > Limit) /\ time + step > t1
  <2>1. Horror!advance(time, step) = (time + step) % (t1 + 1)
    BY <1>3 DEF Horror!advance
  <2>2. (time + step) % (t1 + 1) \in 0 .. t1
    BY <1>1
  <2> QED BY <2>1, <2>2
<1>4. CASE ~ (time + step > Limit) /\ ~ (time + step > t1)
  <2>1. Horror!advance(time, step) = time + step
    BY <1>4 DEF Horror!advance
  <2>2. (time + step) % (t1 + 1) = time + step
    BY <1>1, <1>4
  <2> QED BY <1>1, <1>4, <2>1, <2>2
<1> QED BY <1>2, <1>3, <1>4

\* SmallTown::tick of task 4 keeps the invariant.
LEMMA HorrorTick ==
    ASSUME Horror!HorrorConstants, HorrorInv, NEW step \in Step, Horror!tick(step)
    PROVE  HorrorInv'
<1> PICK base : base = ScareOf(_citizens, _monster, _alive)
  OBVIOUS
<1> PICK fight : fight = Scare(base)
  OBVIOUS
<1>1. /\ \/ /\ _citizens' = fight.citizens /\ _monster' = fight.monster /\ _alive' = fight.alive
         \/ _citizens' = _citizens /\ _monster' = _monster /\ _alive' = _alive
      /\ _time' = Horror!advance(_time, step)
      /\ hour' = (hour + step) % (t1 + 1)
      /\ overflowed' = (overflowed \/ _time + step > Limit)
  BY Zenon DEF Horror!tick, Scare, ScareOf
<1>2. /\ _time \in 0 .. t1 /\ (~overflowed => hour = _time)
      /\ _citizens \in [Person -> Nat] /\ _monster \in 0 .. Monster.health
      /\ _alive = Cardinality(Standing(_citizens)) /\ _alive \in Int
  BY PersonsAreFinite DEF HorrorInv
<1>3. base \in HorrorFight
  BY <1>2, PartsOfScare DEF HorrorFight
<1>4. fight \in HorrorFight
  BY <1>3, AllScared
<1>5. /\ _citizens' \in [Person -> Nat] /\ _monster' \in 0 .. Monster.health
      /\ _alive' = Cardinality(Standing(_citizens'))
  <2>1. /\ fight.citizens \in [Person -> Nat] /\ fight.monster \in 0 .. Monster.health
        /\ fight.alive = Cardinality(Standing(fight.citizens))
    BY <1>4 DEF HorrorFight
  <2> QED BY <1>1, <1>2, <2>1
<1>6. _time' \in 0 .. t1
  BY <1>1, <1>2, HourAdvances
<1>7. ASSUME ~overflowed' PROVE hour' = _time'
  <2>1. ~overflowed /\ ~ (_time + step > Limit)
    BY <1>1, <1>7
  <2>2. _time + step <= Limit
    BY <1>2, <2>1 DEF Horror!HorrorConstants
  <2> QED BY <1>1, <1>2, <2>1, <2>2, HourAdvances
<1> QED BY <1>5, <1>6, <1>7 DEF HorrorInv

\* The town as it is built.
LEMMA HorrorInit == ASSUME Horror!HorrorConstants PROVE Horror!Init => HorrorInv
<1> SUFFICES ASSUME Horror!Init PROVE HorrorInv
  OBVIOUS
<1>1. /\ _time = t0 /\ hour = t0
      /\ _citizens = [i \in Person |-> Citizens[i].health]
      /\ _monster = Monster.health
      /\ _alive = Horror!_numberAlive(_citizens)
  BY Zenon DEF Horror!Init, Person
<1>2. _time \in 0 .. t1 /\ hour = _time
  BY <1>1 DEF Horror!HorrorConstants
<1>3. _citizens \in [Person -> Nat] /\ _monster \in 0 .. Monster.health
  BY <1>1, PersonsAreFinite
<1>4. _alive = Cardinality(Standing(_citizens))
  <2>1. {i \in DOMAIN _citizens : _citizens[i] > 0} = Standing(_citizens)
    BY <1>3 DEF Standing
  <2> QED BY <1>1, <2>1, HorrorSizes DEF Horror!_numberAlive
<1> QED BY <1>2, <1>3, <1>4 DEF HorrorInv

\* What the invariant says of the town of task 4.
LEMMA HorrorPromises ==
    ASSUME Horror!HorrorConstants, HorrorInv
    PROVE  Horror!TypeOK /\ Horror!LivingAreCounted /\ Horror!AttacksAtFibonacci
<1>1. /\ _time \in 0 .. t1 /\ (~overflowed => hour = _time)
      /\ _citizens \in [Person -> Nat] /\ _monster \in 0 .. Monster.health
      /\ _alive = Cardinality(Standing(_citizens))
  BY DEF HorrorInv
<1>2. Horror!TypeOK
  <2>1. _alive \in 0 .. Len(Citizens)
    BY <1>1, PersonsAreFinite
  <2>2. Horror!Len(Citizens) = Len(Citizens)
    OBVIOUS
  <2> QED BY <1>1, <2>1 DEF Horror!TypeOK
<1>3. Horror!LivingAreCounted
  <2>1. {i \in DOMAIN _citizens : _citizens[i] > 0} = Standing(_citizens)
    BY <1>1 DEF Standing
  <2> QED BY <1>1, <2>1, HorrorSizes DEF Horror!LivingAreCounted, Horror!_numberAlive
<1>4. Horror!AttacksAtFibonacci
  <2>1. Horror!_stop(_time) \in DOMAIN Horror!myFibArray
    BY <1>1, WalkFinds
  <2>2. Horror!_checkIfFib(_time) <=> _time \in Horror!FibonacciHours
    BY <1>1, WalkFinds
  <2>3. Horror!_checkIfFib(_time) \in BOOLEAN
    BY DEF Horror!_checkIfFib
  <2>4. ~overflowed => Horror!_checkIfFib(_time) = (hour \in Horror!FibonacciHours)
    BY <1>1, <2>2, <2>3
  <2> QED BY <2>1, <2>4 DEF Horror!AttacksAtFibonacci
<1> QED BY <1>2, <1>3, <1>4

\* The town of JNP 1 task 4 has its number of the living right, finds the hour of every attack
\* within the array of Fibonacci numbers, and attacks at these hours only, whatever the type
\* of the hour, the steps, the citizens and the monster.
THEOREM AttacksKeepToFibonacci ==
    ASSUME Horror!HorrorConstants
    PROVE  Horror!Spec => [](Horror!TypeOK /\ Horror!LivingAreCounted /\ Horror!AttacksAtFibonacci)
<1>1. Horror!Init => HorrorInv
  BY HorrorInit
<1>2. HorrorInv /\ [Horror!Next]_(Horror!vars) => HorrorInv'
  <2> SUFFICES ASSUME HorrorInv, [Horror!Next]_(Horror!vars) PROVE HorrorInv'
    OBVIOUS
  <2>1. CASE Horror!Next
    <3>1. PICK step \in Step : Horror!tick(step)
      BY <2>1, Zenon DEF Horror!Next
    <3> QED BY <3>1, HorrorTick
  <2>2. CASE UNCHANGED Horror!vars
    <3>1. /\ _time' = _time /\ hour' = hour /\ overflowed' = overflowed
          /\ _citizens' = _citizens /\ _monster' = _monster /\ _alive' = _alive
      BY <2>2 DEF Horror!vars
    <3> QED BY <3>1 DEF HorrorInv, Standing
  <2> QED BY <2>1, <2>2
<1>3. HorrorInv => Horror!TypeOK /\ Horror!LivingAreCounted /\ Horror!AttacksAtFibonacci
  BY HorrorPromises
<1> QED BY <1>1, <1>2, <1>3, PTL DEF Horror!Spec

\* Both towns of JNP 1 count right, together.
THEOREM TownsAlwaysCountRight ==
    ASSUME Towns!TownConstants, Horror!HorrorConstants
    PROVE  Towns!Spec /\ Horror!Spec => []TownsCountRight
<1>1. /\ Towns!LivingAreCounted /\ Towns!VerdictsHold
      /\ Horror!TypeOK /\ Horror!LivingAreCounted /\ Horror!AttacksAtFibonacci
      => TownsCountRight
  BY DEF TownsCountRight
<1> QED BY <1>1, VerdictsStayTrue, AttacksKeepToFibonacci, PTL

=============================================================================
