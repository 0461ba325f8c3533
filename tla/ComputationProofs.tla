------------------------- MODULE ComputationProofs -------------------------
(***************************************************************************)
(* What is computed from tables: the placement of a job by the planner and  *)
(* what reports are believed for (Fabric), the report that a job is         *)
(* collected with (JobReport), and the weights that scores earn             *)
(* (Incentive); for any nodes, fleets, jobs, posts, scores and settings,    *)
(* and any number of changes.                                               *)
(***************************************************************************)
EXTENDS Fabric, JobReport, Incentive, FiniteSetTheorems, WellFoundedInduction, TLAPS

-----------------------------------------------------------------------------
(* Induction and finite sets.                                               *)

\* Induction over the numbers, as a statement about a set of them.
LEMMA NumberInduction ==
    ASSUME NEW Q, 0 \in Q, \A n \in Nat : n \in Q => n + 1 \in Q
    PROVE  Nat \subseteq Q
<1> DEFINE T == {n \in Nat : n \notin Q}
           R == OpToRel(<, Nat)
<1> SUFFICES ASSUME T # {} PROVE FALSE
    OBVIOUS
<1>1. IsWellFoundedOn(R, Nat) /\ T \subseteq Nat
    BY NatLessThanWellFounded
<1>2. PICK x \in T : \A y \in T : ~(<<y, x>> \in R)
    <2> HIDE DEF R, T
    <2> QED BY <1>1, WFMin
<1>3. x \in Nat /\ x \notin Q /\ x # 0
    OBVIOUS
<1>4. x - 1 \in Nat /\ (x - 1) + 1 = x
    BY <1>3
<1>5. x - 1 \notin Q
    BY <1>3, <1>4
<1>6. x - 1 \in T
    BY <1>4, <1>5
<1>7. <<x - 1, x>> \in R
    BY <1>3, <1>4 DEF OpToRel
<1> QED BY <1>2, <1>6, <1>7

\* A recursion over D: the value at d is base[d] or comes from the value at
\* pred[d], which has a lower rank, by step[d].
Descends(D, X, rank, ends, base, pred, step) ==
    /\ \E x \in X : TRUE
    /\ rank \in [D -> Nat] /\ \E N \in Nat : \A d \in D : rank[d] < N
    /\ ends \in SUBSET D /\ base \in [D -> X]
    /\ pred \in [D \ ends -> D] /\ \A d \in D \ ends : rank[pred[d]] < rank[d]
    /\ step \in [D \ ends -> [X -> X]]

\* The function that the recursion defines.
Follows(g, D, ends, base, pred, step) ==
    \A d \in D : g[d] = IF d \in ends THEN base[d] ELSE step[d][g[pred[d]]]

\* A function that is defined by such a recursion exists.
LEMMA Recursion ==
    ASSUME NEW D, NEW X, NEW rank, NEW ends, NEW base, NEW pred, NEW step,
           Descends(D, X, rank, ends, base, pred, step)
    PROVE  \E g \in [D -> X] : Follows(g, D, ends, base, pred, step)
<1> USE DEF Descends, Follows
<1>0. PICK x0 \in X, N \in Nat : \A d \in D : rank[d] < N
    OBVIOUS
<1> DEFINE Eq(g, d) == g[d] = IF d \in ends THEN base[d] ELSE step[d][g[pred[d]]]
           Q == {n \in Nat : \E g \in [D -> X] : \A d \in D : rank[d] < n => Eq(g, d)}
<1>1. 0 \in Q
    <2>1. [d \in D |-> x0] \in [D -> X]
        OBVIOUS
    <2>2. \A d \in D : ~(rank[d] < 0)
        OBVIOUS
    <2> QED BY <2>1, <2>2
<1>2. ASSUME NEW n \in Nat, n \in Q PROVE n + 1 \in Q
    <2>1. PICK g \in [D -> X] : \A d \in D : rank[d] < n => Eq(g, d)
        BY <1>2
    <2> DEFINE val(d) == IF rank[d] = n THEN IF d \in ends THEN base[d] ELSE step[d][g[pred[d]]]
                         ELSE g[d]
               h == [d \in D |-> val(d)]
    <2>2. \A d \in D : val(d) \in X
        OBVIOUS
    <2>3. h \in [D -> X] /\ \A d \in D : h[d] = val(d)
        BY <2>2
    <2>4. ASSUME NEW d \in D, rank[d] < n + 1 PROVE Eq(h, d)
        <3>1. \A e \in D : rank[e] < n => h[e] = g[e]
            BY <2>3
        <3>2. d \notin ends => pred[d] \in D /\ rank[pred[d]] < rank[d]
            OBVIOUS
        <3>3. rank[d] \in Nat /\ (d \notin ends => rank[pred[d]] \in Nat)
            BY <3>2
        <3>4. d \notin ends => h[pred[d]] = g[pred[d]]
            BY <2>4, <3>1, <3>2, <3>3
        <3>5. CASE rank[d] = n
            BY <2>3, <3>4, <3>5
        <3>6. CASE rank[d] < n
            <4>1. h[d] = g[d] /\ Eq(g, d)
                BY <2>1, <3>1, <3>6
            <4> QED BY <3>4, <4>1
        <3>7. rank[d] = n \/ rank[d] < n
            <4> n \in Nat
                OBVIOUS
            <4> QED BY ONLY <2>4, <3>3, n \in Nat
        <3> QED BY <3>5, <3>6, <3>7
    <2> HIDE DEF h
    <2>5. \E k \in [D -> X] : \A d \in D : rank[d] < n + 1 => Eq(k, d)
        BY <2>3, <2>4
    <2> QED BY <2>5
<1>3. N \in Q
    <2> HIDE DEF Q
    <2> QED BY <1>0, <1>1, <1>2, NumberInduction
<1> QED BY <1>0, <1>3

\* Induction over the subsets of a finite set, as a statement about a set of them.
LEMMA SubsetInduction ==
    ASSUME NEW S, IsFiniteSet(S), NEW Q,
           \A T \in SUBSET S : (\A x \in T : T \ {x} \in Q) => T \in Q
    PROVE  \A T \in SUBSET S : T \in Q
<1> DEFINE P == {n \in Nat : \A T \in SUBSET S : Cardinality(T) = n => T \in Q}
<1>1. \A T \in SUBSET S : IsFiniteSet(T) /\ Cardinality(T) \in Nat
    BY FS_Subset, FS_CardinalityType
<1>2. 0 \in P
    BY <1>1, FS_EmptySet
<1>3. ASSUME NEW n \in Nat, n \in P PROVE n + 1 \in P
    <2> SUFFICES ASSUME NEW T \in SUBSET S, Cardinality(T) = n + 1 PROVE T \in Q
        OBVIOUS
    <2>1. ASSUME NEW x \in T PROVE T \ {x} \in Q
        <3>1. Cardinality(T \ {x}) = Cardinality(T) - 1
            BY <1>1, FS_RemoveElement
        <3>2. Cardinality(T \ {x}) = n
            BY ONLY <3>1, Cardinality(T) = n + 1, n \in Nat
        <3> QED BY <1>3, <3>2
    <2> HIDE DEF P
    <2> QED BY <2>1
<1>4. Nat \subseteq P
    <2> HIDE DEF P
    <2> QED BY <1>2, <1>3, NumberInduction
<1> QED BY <1>1, <1>4

\* A finite, nonempty set of numbers has a greatest one.
LEMMA GreatestOfFinite ==
    ASSUME NEW S \in SUBSET Nat, IsFiniteSet(S), S # {}
    PROVE  \E n \in S : \A m \in S : m <= n
<1> DEFINE Above(n) == {m \in S : n < m}
           T == {Above(n) : n \in S}
           R == StrictSubsetOrdering(S)
<1>1. IsWellFoundedOn(R, SUBSET S)
    BY FS_FiniteSubsetsOfFinite, FS_StrictSubsetOrderingWellFounded
<1>2. T \subseteq SUBSET S /\ T # {}
    OBVIOUS
<1>3. PICK x \in T : \A y \in T : ~(<<y, x>> \in R)
    <2> HIDE DEF T, R
    <2> QED BY <1>1, <1>2, WFMin
<1>4. PICK n \in S : x = Above(n)
    BY <1>3
<1>5. ASSUME NEW m \in S, n < m
      PROVE  FALSE
    <2>0. \A k \in S : k \in Int
        OBVIOUS
    <2>a. ~(m < m) /\ \A k \in S : m < k => n < k
        BY <1>5, <2>0
    <2>1. Above(m) \subseteq Above(n) /\ m \in Above(n) /\ m \notin Above(m)
        BY ONLY <1>5, <2>a, m \in S
    <2>2. <<Above(m), Above(n)>> \in R
        BY <2>1 DEF StrictSubsetOrdering
    <2> QED BY <2>2, <1>3, <1>4
<1> QED BY <1>5

-----------------------------------------------------------------------------
(* Sums.                                                                    *)

\* The sum of u over S, and the recursion that MapThenSumSet chooses a function for.
SumOver(u, S) == MapThenSumSet(LAMBDA h : u[h], S)

Picked(s) == CHOOSE x \in s : TRUE
Counts(g, u, S) ==
    g = [s \in SUBSET S |-> IF s = {} THEN 0 ELSE u[Picked(s)] + g[s \ {Picked(s)}]]

\* The definition of MapThenSumSet, which chooses one function for each set.
LEMMA SumDefined ==
    ASSUME NEW u, NEW S
    PROVE  SumOver(u, S) = (CHOOSE g : Counts(g, u, S))[S]
BY DEF SumOver, MapThenSumSet, MapThenFoldSet, Counts, Picked

\* There is such a function.
LEMMA CountsExists ==
    ASSUME NEW u, NEW S, IsFiniteSet(S), \A h \in S : u[h] \in Nat
    PROVE  \E g \in [SUBSET S -> Nat] : Counts(g, u, S)
<1> DEFINE N == Cardinality(S)
           D == SUBSET S
           rank == [s \in D |-> Cardinality(s)]
           ends == {{}}
           base == [s \in D |-> 0]
           pred == [s \in D \ ends |-> s \ {Picked(s)}]
           step == [s \in D \ ends |-> [k \in Nat |-> u[Picked(s)] + k]]
<1>1. \A s \in D : IsFiniteSet(s) /\ Cardinality(s) \in 0..N
    BY FS_Subset, FS_CardinalityType
<1>2. \A s \in D \ ends : Picked(s) \in s /\ Picked(s) \in S
    BY DEF Picked
<1>3. rank \in [D -> Nat] /\ base \in [D -> Nat] /\ ends \in SUBSET D
    BY <1>1
<1>a. N + 1 \in Nat /\ \A s \in D : rank[s] < N + 1
    BY <1>1, FS_CardinalityType
<1>4. pred \in [D \ ends -> D] /\ step \in [D \ ends -> [Nat -> Nat]]
    BY <1>2
<1>5. \A s \in D \ ends : rank[pred[s]] < rank[s]
    <2> TAKE s \in D \ ends
    <2>1. Cardinality(s \ {Picked(s)}) = Cardinality(s) - 1 /\ Cardinality(s) \in Nat
        BY <1>1, <1>2, FS_RemoveElement
    <2>2. s \ {Picked(s)} \in D
        OBVIOUS
    <2> QED BY <2>1, <2>2
<1>b. Descends(D, Nat, rank, ends, base, pred, step)
    <2>1. 0 \in Nat
        OBVIOUS
    <2> HIDE DEF N, D, rank, ends, base, pred, step
    <2> QED BY ONLY <1>3, <1>4, <1>5, <1>a, <2>1 DEF Descends
<1>6. PICK g \in [D -> Nat] : Follows(g, D, ends, base, pred, step)
    <2> HIDE DEF D, rank, ends, base, pred, step
    <2> QED BY <1>b, Recursion
<1>7. \A s \in D : g[s] = IF s = {} THEN 0 ELSE u[Picked(s)] + g[s \ {Picked(s)}]
    <2> TAKE s \in D
    <2>1. s # {} => g[s \ {Picked(s)}] \in Nat /\ s \ {Picked(s)} \in D
        OBVIOUS
    <2> QED BY <1>6, <2>1 DEF Follows
<1>8. Counts(g, u, S)
    <2> HIDE DEF D
    <2>1. g = [s \in D |-> g[s]]
        BY <1>6
    <2>2. g = [s \in D |-> IF s = {} THEN 0 ELSE u[Picked(s)] + g[s \ {Picked(s)}]]
        BY <1>7, <2>1
    <2> QED BY <2>2 DEF Counts, D
<1> QED BY <1>8

\* The function says what the sum over each part of the set is.
LEMMA SumIs ==
    ASSUME NEW u, NEW S, IsFiniteSet(S), \A h \in S : u[h] \in Nat, NEW g, Counts(g, u, S)
    PROVE  \A T \in SUBSET S : SumOver(u, T) = g[T]
<1> TAKE T \in SUBSET S
<1>1. PICK k : k = CHOOSE f : Counts(f, u, T)
    OBVIOUS
<1>2. Counts(k, u, T)
    <2>1. IsFiniteSet(T) /\ \A h \in T : u[h] \in Nat
        BY FS_Subset
    <2>2. \E f : Counts(f, u, T)
        BY <2>1, CountsExists
    <2> QED BY <1>1, <2>2
<1> DEFINE Q == {s \in SUBSET T : k[s] = g[s]}
<1>3. ASSUME NEW s \in SUBSET T, \A x \in s : s \ {x} \in Q PROVE s \in Q
    <2>1. k[s] = IF s = {} THEN 0 ELSE u[Picked(s)] + k[s \ {Picked(s)}]
        BY <1>2 DEF Counts
    <2>2. g[s] = IF s = {} THEN 0 ELSE u[Picked(s)] + g[s \ {Picked(s)}]
        BY DEF Counts
    <2>3. s # {} => Picked(s) \in s
        BY DEF Picked
    <2> QED BY <1>3, <2>1, <2>2, <2>3
<1>4. \A s \in SUBSET T : s \in Q
    <2>1. IsFiniteSet(T)
        BY FS_Subset
    <2> HIDE DEF Q
    <2> QED BY <1>3, <2>1, SubsetInduction
<1>5. k[T] = g[T]
    BY <1>4
<1> QED BY <1>1, <1>5, SumDefined

\* Nothing adds up to 0, and sums are numbers.
LEMMA SumType ==
    ASSUME NEW u, NEW S, IsFiniteSet(S), \A h \in S : u[h] \in Nat
    PROVE  SumOver(u, S) \in Nat /\ (S = {} => SumOver(u, S) = 0)
<1>1. PICK g \in [SUBSET S -> Nat] : Counts(g, u, S)
    BY CountsExists
<1>2. SumOver(u, S) = g[S] /\ g[S] \in Nat
    BY <1>1, SumIs
<1>3. S = {} => g[S] = 0
    BY <1>1 DEF Counts
<1> QED BY <1>2, <1>3

\* One more element, whatever it is.
LEMMA SumAdd ==
    ASSUME NEW u, NEW S, IsFiniteSet(S), NEW x, x \notin S, \A h \in S \cup {x} : u[h] \in Nat
    PROVE  SumOver(u, S \cup {x}) = SumOver(u, S) + u[x]
<1> DEFINE U == S \cup {x}
<1>1. IsFiniteSet(U) /\ \A h \in U : u[h] \in Nat
    BY FS_AddElement
<1>2. PICK g \in [SUBSET U -> Nat] : Counts(g, u, U)
    <2> HIDE DEF U
    <2> QED BY <1>1, CountsExists
<1> DEFINE Q == {T \in SUBSET U : \A y \in U \ T : g[T \cup {y}] = g[T] + u[y]}
<1>3. ASSUME NEW T \in SUBSET U, \A y \in T : T \ {y} \in Q PROVE T \in Q
    <2> SUFFICES ASSUME NEW y \in U \ T PROVE g[T \cup {y}] = g[T] + u[y]
        OBVIOUS
    <2>1. PICK c : c = Picked(T \cup {y})
        OBVIOUS
    <2>2. c \in T \cup {y}
        BY <2>1 DEF Picked
    <2>3. T \cup {y} \in SUBSET U /\ T \cup {y} # {}
        OBVIOUS
    <2>4. g[T \cup {y}] = u[c] + g[(T \cup {y}) \ {c}]
        <3> HIDE DEF U
        <3> QED BY <1>2, <2>1, <2>3 DEF Counts
    <2>5. CASE c = y
        <3>1. (T \cup {y}) \ {c} = T
            BY <2>5
        <3>2. g[T] \in Nat /\ u[y] \in Nat
            BY <1>1, <1>2
        <3>3. g[T \cup {y}] = u[y] + g[T]
            <4> HIDE DEF U, Q
            <4> QED BY <2>4, <2>5, <3>1
        <3> HIDE DEF U, Q
        <3> QED BY ONLY <3>2, <3>3
    <2>6. CASE c # y
        <3> DEFINE R == T \ {c}
        <3>1. (T \cup {y}) \ {c} = R \cup {y} /\ R \cup {c} = T /\ c \in T
                 /\ c \in U \ R /\ y \in U \ R /\ R \in SUBSET U
            BY <2>2, <2>6
        <3>2. R \in Q
            BY <1>3, <3>1
        <3>3. g[R \cup {y}] = g[R] + u[y] /\ g[R \cup {c}] = g[R] + u[c]
            BY <3>1, <3>2
        <3>4. g[R] \in Nat /\ u[y] \in Nat /\ u[c] \in Nat
            BY <1>1, <1>2, <3>1
        <3>5. g[T \cup {y}] = u[c] + (g[R] + u[y]) /\ g[T] = g[R] + u[c]
            <4> HIDE DEF R, Q, U
            <4> QED BY <2>4, <3>1, <3>3
        <3> HIDE DEF R, Q, U
        <3> QED BY ONLY <3>4, <3>5
    <2> QED BY <2>5, <2>6
<1>4. \A T \in SUBSET U : T \in Q
    <2> HIDE DEF Q, U
    <2> QED BY <1>1, <1>3, SubsetInduction
<1>5. g[S \cup {x}] = g[S] + u[x]
    BY <1>4
<1>6. SumOver(u, S \cup {x}) = g[S \cup {x}] /\ SumOver(u, S) = g[S]
    <2>1. S \in SUBSET U /\ U \in SUBSET U
        OBVIOUS
    <2>2. \A T \in SUBSET U : SumOver(u, T) = g[T]
        <3> HIDE DEF U
        <3> QED BY <1>1, <1>2, SumIs
    <2> QED BY <2>1, <2>2
<1> QED BY <1>5, <1>6

\* One element less.
LEMMA SumSplit ==
    ASSUME NEW u, NEW S, IsFiniteSet(S), NEW x \in S, \A h \in S : u[h] \in Nat
    PROVE  SumOver(u, S) = SumOver(u, S \ {x}) + u[x]
<1>1. IsFiniteSet(S \ {x}) /\ x \notin S \ {x} /\ (S \ {x}) \cup {x} = S
    BY FS_RemoveElement
<1>2. \A h \in (S \ {x}) \cup {x} : u[h] \in Nat
    BY <1>1
<1>3. SumOver(u, (S \ {x}) \cup {x}) = SumOver(u, S \ {x}) + u[x]
    BY ONLY <1>1, <1>2, SumAdd
<1> QED BY <1>1, <1>3

\* Where each u[h] is at most v[h] in the ratio of c to d, so is the sum.
LEMMA SumScaled ==
    ASSUME NEW S, IsFiniteSet(S), NEW u, NEW v, \A h \in S : u[h] \in Nat /\ v[h] \in Nat,
           NEW c \in Nat, NEW d \in Nat, \A h \in S : c * u[h] <= d * v[h]
    PROVE  c * SumOver(u, S) <= d * SumOver(v, S)
<1> DEFINE Q == {T \in SUBSET S : c * SumOver(u, T) <= d * SumOver(v, T)}
<1>1. ASSUME NEW T \in SUBSET S, \A x \in T : T \ {x} \in Q PROVE T \in Q
    <2>1. IsFiniteSet(T) /\ \A h \in T : u[h] \in Nat /\ v[h] \in Nat
        BY FS_Subset
    <2>2. CASE T = {}
        <3>1. SumOver(u, T) = 0 /\ SumOver(v, T) = 0
            BY <2>1, <2>2, SumType
        <3> QED BY <3>1
    <2>3. CASE T # {}
        <3>1. PICK x : x \in T
            BY <2>3
        <3>2. c * SumOver(u, T \ {x}) <= d * SumOver(v, T \ {x})
            BY <1>1, <3>1
        <3>3. SumOver(u, T) = SumOver(u, T \ {x}) + u[x] /\ SumOver(v, T) = SumOver(v, T \ {x}) + v[x]
            <4> HIDE DEF Q
            <4> QED BY <2>1, <3>1, SumSplit
        <3>4. SumOver(u, T \ {x}) \in Nat /\ SumOver(v, T \ {x}) \in Nat
            <4>1. IsFiniteSet(T \ {x}) /\ \A h \in T \ {x} : u[h] \in Nat /\ v[h] \in Nat
                BY <2>1, FS_RemoveElement
            <4> HIDE DEF Q
            <4> QED BY <4>1, SumType
        <3>5. c * u[x] <= d * v[x] /\ u[x] \in Nat /\ v[x] \in Nat
            BY <2>1, <3>1
        <3>6. ASSUME NEW p \in Nat, NEW q \in Nat, NEW m \in Nat, NEW n \in Nat,
                     c * p <= d * q, c * m <= d * n
              PROVE  c * (p + m) <= d * (q + n)
            <4>1. c * (p + m) = c * p + c * m /\ d * (q + n) = d * q + d * n
                BY ONLY c \in Nat, d \in Nat, p \in Nat, q \in Nat, m \in Nat, n \in Nat
            <4>2. c * p \in Nat /\ c * m \in Nat /\ d * q \in Nat /\ d * n \in Nat
                BY ONLY c \in Nat, d \in Nat, p \in Nat, q \in Nat, m \in Nat, n \in Nat
            <4> QED BY ONLY <4>1, <4>2, <3>6
        <3>7. c * SumOver(u, T) <= d * SumOver(v, T)
            BY <3>2, <3>3, <3>4, <3>5, <3>6
        <3> QED BY <3>7
    <2> QED BY <2>2, <2>3
<1>2. \A T \in SUBSET S : T \in Q
    <2> HIDE DEF Q
    <2> QED BY <1>1, SubsetInduction
<1> QED BY <1>2

\* Smaller terms, smaller sums.
LEMMA SumMonotone ==
    ASSUME NEW S, IsFiniteSet(S), NEW u, NEW v, \A h \in S : u[h] \in Nat /\ v[h] \in Nat,
           \A h \in S : u[h] <= v[h]
    PROVE  SumOver(u, S) <= SumOver(v, S)
<1>1. \A h \in S : 1 * u[h] <= 1 * v[h]
    OBVIOUS
<1>2. 1 * SumOver(u, S) <= 1 * SumOver(v, S)
    BY <1>1, SumScaled
<1> QED BY <1>2, SumType

\* Equal terms, equal sums.
LEMMA SumEqual ==
    ASSUME NEW S, IsFiniteSet(S), NEW u, NEW v, \A h \in S : u[h] \in Nat /\ v[h] = u[h]
    PROVE  SumOver(u, S) = SumOver(v, S)
<1>1. SumOver(u, S) <= SumOver(v, S) /\ SumOver(v, S) <= SumOver(u, S)
    <2>1. \A h \in S : u[h] \in Nat /\ v[h] \in Nat /\ u[h] <= v[h] /\ v[h] <= u[h]
        OBVIOUS
    <2> QED BY <2>1, SumMonotone
<1>2. SumOver(u, S) \in Nat /\ SumOver(v, S) \in Nat
    BY SumType
<1> QED BY <1>1, <1>2

\* A term is at most the sum.
LEMMA TermAtMostSum ==
    ASSUME NEW u, NEW S, IsFiniteSet(S), NEW x \in S, \A h \in S : u[h] \in Nat
    PROVE  u[x] <= SumOver(u, S)
<1>1. SumOver(u, S) = SumOver(u, S \ {x}) + u[x]
    BY SumSplit
<1>2. SumOver(u, S \ {x}) \in Nat
    BY FS_RemoveElement, SumType
<1> QED BY <1>1, <1>2

-----------------------------------------------------------------------------
(* Folds and sorts.                                                         *)

\* The greatest number of a part of 1..n is in it, that of 1..n is n.
LEMMA MaxOfPart ==
    ASSUME NEW n \in Nat
    PROVE  /\ \A s \in SUBSET (1..n) : s # {} => Max(s) \in s
           /\ n # 0 => Max(1..n) = n
<1>1. ASSUME NEW s \in SUBSET (1..n), s # {} PROVE \E x \in s : \A y \in s : x >= y
    <2>0. IsFiniteSet(1..n)
        BY FS_Interval
    <2>a. IsFiniteSet(s)
        BY <2>0, FS_Subset
    <2>1. s \in SUBSET Nat /\ IsFiniteSet(s)
        BY <2>a
    <2>2. PICK x \in s : \A y \in s : y <= x
        BY <1>1, <2>1, GreatestOfFinite
    <2>3. \A y \in s : x >= y
        BY <2>1, <2>2
    <2> QED BY <2>3
<1>2. \A s \in SUBSET (1..n) : s # {} => Max(s) \in s /\ \A y \in s : Max(s) >= y
    BY <1>1 DEF Max
<1>3. ASSUME n # 0 PROVE Max(1..n) = n
    <2>1. 1..n \in SUBSET (1..n) /\ n \in 1..n
        BY <1>3
    <2>2. Max(1..n) \in 1..n /\ Max(1..n) >= n
        BY <1>2, <2>1
    <2> QED BY <2>2
<1> QED BY <1>2, <1>3

\* What FoldLeft goes through: step[i] is what the i-th element does.
FoldsTo(k, n, base, step) ==
    \A s \in SUBSET (1..n) :
        k[s] = IF s = {} THEN base ELSE step[Max(s)][k[s \ {Max(s)}]]

\* A fold over a sequence goes through such a function.
LEMMA FoldExists ==
    ASSUME NEW n \in Nat, NEW X, NEW base \in X, NEW step \in [1..n -> [X -> X]]
    PROVE  \E k \in [SUBSET (1..n) -> X] : FoldsTo(k, n, base, step)
<1> DEFINE D == SUBSET (1..n)
           rank == [s \in D |-> Cardinality(s)]
           ends == {{}}
           bases == [s \in D |-> base]
           pred == [s \in D \ ends |-> s \ {Max(s)}]
           steps == [s \in D \ ends |-> step[Max(s)]]
<1>1. \A s \in D : IsFiniteSet(s) /\ Cardinality(s) \in Nat /\ Cardinality(s) < n + 1
    <2>1. IsFiniteSet(1..n) /\ Cardinality(1..n) = n
        BY FS_Interval
    <2> TAKE s \in D
    <2>2. IsFiniteSet(s) /\ Cardinality(s) <= Cardinality(1..n)
        BY <2>1, FS_Subset
    <2>3. Cardinality(s) \in Nat
        BY <2>2, FS_CardinalityType
    <2> QED BY <2>1, <2>2, <2>3
<1>2. \A s \in D \ ends : Max(s) \in s /\ Max(s) \in 1..n
    BY MaxOfPart
<1>3. rank \in [D -> Nat] /\ bases \in [D -> X] /\ ends \in SUBSET D
    BY <1>1
<1>4. pred \in [D \ ends -> D] /\ steps \in [D \ ends -> [X -> X]]
    BY <1>2
<1>5. \A s \in D \ ends : rank[pred[s]] < rank[s]
    <2> TAKE s \in D \ ends
    <2>1. Cardinality(s \ {Max(s)}) = Cardinality(s) - 1 /\ Cardinality(s) \in Nat
        BY <1>1, <1>2, FS_RemoveElement
    <2>2. s \ {Max(s)} \in D
        OBVIOUS
    <2> QED BY <2>1, <2>2
<1>6. n + 1 \in Nat /\ \A s \in D : rank[s] < n + 1
    BY <1>1
<1>7. Descends(D, X, rank, ends, bases, pred, steps)
    <2> HIDE DEF D, rank, ends, bases, pred, steps
    <2> QED BY <1>3, <1>4, <1>5, <1>6 DEF Descends
<1>8. PICK k \in [D -> X] : Follows(k, D, ends, bases, pred, steps)
    <2> HIDE DEF D, rank, ends, bases, pred, steps
    <2> QED BY <1>7, Recursion
<1>9. FoldsTo(k, n, base, step)
    <2> SUFFICES ASSUME NEW s \in D
                 PROVE  k[s] = IF s = {} THEN base ELSE step[Max(s)][k[s \ {Max(s)}]]
        BY DEF FoldsTo
    <2> QED BY <1>8 DEF Follows
<1> QED BY <1>9

\* R orders S, nobody before itself.
StrictOrder(R, S) ==
    /\ \A x \in S : <<x, x>> \notin R
    /\ \A x, y, z \in S : <<x, y>> \in R /\ <<y, z>> \in R => <<x, z>> \in R
    /\ \A x, y \in S : x = y \/ <<x, y>> \in R \/ <<y, x>> \in R

\* A sequence of all of S in the order of R.
Sorts(order, S, R) ==
    /\ order \in [1..Cardinality(S) -> S]
    /\ \A i, j \in 1..Cardinality(S) : i < j => <<order[i], order[j]>> \in R

\* A finite set can be sorted: each element goes behind those that are before it.
LEMMA SortExists ==
    ASSUME NEW S, IsFiniteSet(S), NEW R, StrictOrder(R, S)
    PROVE  \E order : Sorts(order, S, R)
<1> DEFINE n == Cardinality(S)
           before(x) == {y \in S : <<y, x>> \in R}
           pos == [x \in S |-> Cardinality(before(x)) + 1]
<1>0. n \in Nat
    BY FS_CardinalityType
<1>1. \A x \in S : IsFiniteSet(before(x)) /\ Cardinality(before(x)) \in Nat
    <2> TAKE x \in S
    <2>1. before(x) \in SUBSET S
        OBVIOUS
    <2> HIDE DEF before
    <2> QED BY <2>1, FS_Subset, FS_CardinalityType
<1>2. ASSUME NEW x \in S, NEW y \in S, <<x, y>> \in R
      PROVE  Cardinality(before(x)) < Cardinality(before(y))
    <2>1. before(x) \in SUBSET before(y) /\ x \in before(y) /\ x \notin before(x)
        BY <1>2 DEF StrictOrder
    <2>2. before(x) # before(y)
        BY <2>1
    <2> HIDE DEF before
    <2>3. Cardinality(before(x)) <= Cardinality(before(y)) /\ Cardinality(before(x)) # Cardinality(before(y))
        BY <1>1, <2>1, <2>2, FS_Subset
    <2> QED BY <1>1, <2>3
<1>3. \A x \in S : pos[x] \in 1..n
    <2> TAKE x \in S
    <2>1. before(x) \in SUBSET S /\ x \notin before(x)
        BY DEF StrictOrder
    <2>2. before(x) # S
        BY <2>1
    <2>3. Cardinality(before(x)) <= n /\ Cardinality(before(x)) # n
        <3> HIDE DEF before
        <3> QED BY <2>1, <2>2, FS_Subset
    <2> HIDE DEF before, n
    <2> QED BY <1>0, <1>1, <2>3
<1>4. \A x, y \in S : pos[x] = pos[y] => x = y
    <2> TAKE x, y \in S
    <2>1. x = y \/ <<x, y>> \in R \/ <<y, x>> \in R
        BY DEF StrictOrder
    <2> HIDE DEF before
    <2> QED BY <1>1, <1>2, <2>1
<1>5. \A x, y \in S : pos[x] < pos[y] => <<x, y>> \in R
    <2> TAKE x, y \in S
    <2>1. x = y \/ <<x, y>> \in R \/ <<y, x>> \in R
        BY DEF StrictOrder
    <2> HIDE DEF before
    <2> QED BY <1>1, <1>2, <2>1
<1> HIDE DEF pos
<1>6. \A i \in 1..n : \E x \in S : pos[x] = i
    <2>1. pos \in [S -> 1..n]
        BY <1>3 DEF pos
    <2>2. pos \in Injection(S, 1..n)
        BY <1>4, <2>1 DEF Injection, IsInjective
    <2>3. IsFiniteSet(1..n) /\ Cardinality(1..n) = n
        BY <1>0, FS_Interval
    <2>4. pos \in Surjection(S, 1..n)
        <3> HIDE DEF n
        <3>1. Cardinality(S) = Cardinality(1..n)
            BY <2>3 DEF n
        <3> QED BY <2>2, <2>3, <3>1, FS_Injection
    <2> QED BY <2>4 DEF Surjection
<1> DEFINE order == [i \in 1..n |-> CHOOSE x \in S : pos[x] = i]
<1>7. \A i \in 1..n : order[i] \in S /\ pos[order[i]] = i
    BY <1>6
<1>8. order \in [1..n -> S]
    BY <1>6
<1> HIDE DEF order
<1>9. \A i, j \in 1..n : i < j => <<order[i], order[j]>> \in R
    BY <1>5, <1>7
<1>10. Sorts(order, S, R)
    BY <1>8, <1>9 DEF Sorts
<1> QED BY <1>10

\* Sorting leaves nobody out and names nobody twice.
LEMMA SortComplete ==
    ASSUME NEW S, IsFiniteSet(S), NEW R, StrictOrder(R, S), NEW order, Sorts(order, S, R)
    PROVE  /\ \A x \in S : \E i \in 1..Cardinality(S) : order[i] = x
           /\ \A i, j \in 1..Cardinality(S) : order[i] = order[j] => i = j
           /\ \A i, j \in 1..Cardinality(S) : <<order[i], order[j]>> \in R => i < j
<1> DEFINE n == Cardinality(S)
<1>0. n \in Nat
    BY FS_CardinalityType
<1>1. order \in [1..n -> S] /\ \A i, j \in 1..n : i < j => <<order[i], order[j]>> \in R
    BY DEF Sorts
<1> HIDE DEF n
<1>2. \A i, j \in 1..n : order[i] = order[j] => i = j
    <2> TAKE i, j \in 1..n
    <2>1. i < j \/ i = j \/ j < i
        BY <1>0
    <2>2. order[i] \in S /\ order[j] \in S
        BY <1>1
    <2> QED BY <1>1, <2>1, <2>2 DEF StrictOrder
<1>3. order \in Injection(1..n, S)
    BY <1>1, <1>2 DEF Injection, IsInjective
<1>4. Cardinality(1..n) = n /\ IsFiniteSet(1..n)
    BY <1>0, FS_Interval
<1>5. order \in Surjection(1..n, S)
    BY <1>3, <1>4, FS_Injection DEF n
<1>6. \A i, j \in 1..n : <<order[i], order[j]>> \in R => i < j
    <2> TAKE i, j \in 1..n
    <2>1. i < j \/ i = j \/ j < i
        BY <1>0
    <2>2. order[i] \in S /\ order[j] \in S
        BY <1>1
    <2> QED BY <1>1, <2>1, <2>2 DEF StrictOrder
<1> QED BY <1>2, <1>5, <1>6 DEF Surjection, n

-----------------------------------------------------------------------------
(* The report of a job: its posts.                                          *)

\* A row of job_attempts has its columns, and finitely many rows are there.
AttemptsTyped ==
    /\ DOMAIN attempts = AttemptNos
    /\ \A no \in AttemptNos : DOMAIN attempts[no] = {"exists", "sealed", "digest"}
    /\ IsFiniteSet({no \in AttemptNos : attempts[no].exists})

\* A request that is going to write has a post; what it found is not deleted.
PostsReal ==
    /\ DOMAIN client = Client
    /\ \A c \in Client :
          /\ client[c].pc # "idle" => /\ DOMAIN client[c] = {"pc", "post", "found"}
                                     /\ client[c].post.no \in AttemptNos
          /\ client[c].pc = "update" /\ client[c].found => report # NoReport

\* The inductive invariant of the posts and the collect.
BundleInv == AttemptsTyped /\ PostsReal /\ CollectedHasReport

\* What a step may do to the report: leave it, or write the first one under the
\* digest that its attempt has from then on.
FirstReport ==
    \/ report' = report
    \/ /\ report = NoReport
       /\ report'.digest # NoDigest
       /\ attempts'[report'.no].digest = report'.digest

\* get_latest_attempt names an attempt number.
LEMMA BundleLatest ==
    ASSUME AttemptsTyped
    PROVE  Latest \in AttemptNos
<1> DEFINE taken == {no \in AttemptNos : attempts[no].exists}
<1>1. AttemptNos \subseteq Nat /\ 1 \in AttemptNos
    BY JobReportAssumption
<1>2. ASSUME taken # {}
      PROVE  \E no \in AttemptNos : attempts[no].exists /\ \A k \in AttemptNos : attempts[k].exists => k <= no
    <2>1. taken \in SUBSET Nat /\ IsFiniteSet(taken)
        BY <1>1 DEF AttemptsTyped
    <2>2. \E no \in taken : \A k \in taken : k <= no
        <3> HIDE DEF taken
        <3> QED BY <1>2, <2>1, GreatestOfFinite
    <2> QED BY <2>2
<1> QED BY <1>1, <1>2 DEF Latest, Exists

\* A report row is told from none by its digest.
LEMMA ReportWritten ==
    ASSUME NEW fab, NEW digest, NEW no
    PROVE  LET row == ReportRow(fab, digest, no)
           IN  /\ row.digest = digest /\ row.no = no
               /\ digest # NoDigest => row # NoReport
BY DEF ReportRow, NoReport

\* A bundle always has a digest.
LEMMA BundleDigest ==
    ASSUME NEW map, NEW reports
    PROVE  build_sim_fabric_report(map, reports).digest # NoDigest
BY DEF build_sim_fabric_report, compute_bundle_digest, NoDigest

\* A post seals its attempt and writes the report only if there is none.
LEMMA SealStep ==
    ASSUME BundleInv, NEW c \in Client, client[c].pc # "idle",
           client[c].pc = "update" => client[c].found \/ client[c].post.digest = NoDigest
                                         \/ report = NoReport,
           Seal(c),
           report' = IF client[c].post.digest # NoDigest /\ report = NoReport
                     THEN PostedReport(client[c].post) ELSE report
    PROVE  BundleInv' /\ FirstReport
<1> DEFINE post == client[c].post
<1>1. /\ attempts' = [attempts EXCEPT ![post.no] =
                         [exists |-> TRUE, sealed |-> TRUE, digest |-> post.digest]]
      /\ st' = IF post.ends /\ st # "collected" THEN "ended" ELSE st
      /\ client' = [client EXCEPT ![c] = Idle]
      /\ post.no \in AttemptNos
    BY DEF Seal, Goto, BundleInv, PostsReal
<1>2. PostedReport(post).digest = post.digest /\ PostedReport(post).no = post.no
         /\ (post.digest # NoDigest => PostedReport(post) # NoReport)
    BY ReportWritten DEF PostedReport
<1> HIDE DEF post
<1>3. /\ \A no \in AttemptNos \ {post.no} : attempts'[no] = attempts[no]
      /\ attempts'[post.no].exists /\ attempts'[post.no].sealed
      /\ attempts'[post.no].digest = post.digest
      /\ DOMAIN attempts' = AttemptNos
      /\ DOMAIN attempts'[post.no] = {"exists", "sealed", "digest"}
    BY <1>1 DEF BundleInv, AttemptsTyped
<1>4. AttemptsTyped'
    <2>1. {no \in AttemptNos : attempts'[no].exists}
             = {no \in AttemptNos : attempts[no].exists} \cup {post.no}
        BY <1>1, <1>3
    <2>2. IsFiniteSet({no \in AttemptNos : attempts'[no].exists})
        <3>1. IsFiniteSet({no \in AttemptNos : attempts[no].exists})
            BY DEF BundleInv, AttemptsTyped
        <3>2. IsFiniteSet({no \in AttemptNos : attempts[no].exists} \cup {post.no})
            BY ONLY <3>1, FS_AddElement
        <3> QED BY ONLY <2>1, <3>2
    <2> QED BY <1>3, <2>2 DEF BundleInv, AttemptsTyped
<1>5. report # NoReport => report' # NoReport
    BY <1>2 DEF post
<1>6. PostsReal'
    BY <1>1, <1>5 DEF BundleInv, PostsReal, Idle
<1>7. FirstReport
    BY <1>2, <1>3 DEF FirstReport, post
<1>8. CollectedHasReport'
    <2> SUFFICES ASSUME st' = "collected", report' = NoReport
                 PROVE  \E no \in AttemptNos : attempts'[no].sealed /\ attempts'[no].digest = NoDigest
        BY DEF CollectedHasReport, NotReady
    <2>1. report = NoReport /\ post.digest = NoDigest
        BY <1>2, <1>5 DEF post
    <2> QED BY <1>1, <1>3, <2>1
<1> QED BY <1>4, <1>6, <1>7, <1>8 DEF BundleInv

\* What a collect does with the bundle of the placement.
LEMMA CollectStep ==
    ASSUME BundleInv, CollectReport
    PROVE  BundleInv' /\ FirstReport
<1> DEFINE fab == build_sim_fabric_report(rankmap, scans)
           no == Latest
<1>1. /\ CollectSealed(fab) \/ CollectBad(fab) \/ CollectGood(fab)
      /\ client' = client
    BY DEF CollectReport
<1>2. no \in AttemptNos /\ AttemptsTyped /\ PostsReal
    BY BundleLatest DEF BundleInv
<1>3. fab.digest # NoDigest
    BY BundleDigest
<1>4. PICK d : d = fab.digest
    OBVIOUS
<1>5. PICK n : n = no
    OBVIOUS
<1>6. ASSUME NEW e, e = d \/ e = attempts[n].digest
      PROVE  /\ ReportRow(fab, e, no).digest = e
             /\ ReportRow(fab, e, no).no = n
             /\ e # NoDigest => ReportRow(fab, e, no) # NoReport
    BY <1>5, ReportWritten
<1> HIDE DEF fab, no
<1>7. CASE CollectSealed(fab)
    <2>1. /\ attempts[n].sealed /\ attempts' = attempts
          /\ report' = IF report = NoReport /\ attempts[n].digest # NoDigest
                       THEN ReportRow(fab, attempts[n].digest, no) ELSE report
        BY <1>5, <1>7 DEF CollectSealed, no
    <2>2. FirstReport
        BY <1>6, <2>1 DEF FirstReport
    <2>3. AttemptsTyped'
        BY <1>2, <2>1 DEF AttemptsTyped
    <2>4. PostsReal'
        BY <1>1, <1>2, <1>6, <2>1 DEF PostsReal
    <2>5. CollectedHasReport'
        BY <1>2, <1>5, <1>6, <2>1 DEF CollectedHasReport, NotReady
    <2> QED BY <2>2, <2>3, <2>4, <2>5 DEF BundleInv
<1>8. ASSUME attempts' = [attempts EXCEPT ![n].digest = d]
             \/ attempts' = [attempts EXCEPT ![n].digest = d, ![n].sealed = TRUE]
      PROVE  AttemptsTyped' /\ attempts'[n].digest = d
    <2>1. /\ DOMAIN attempts' = AttemptNos
          /\ \A k \in AttemptNos : /\ DOMAIN attempts'[k] = {"exists", "sealed", "digest"}
                                   /\ attempts'[k].exists = attempts[k].exists
          /\ attempts'[n].digest = d
        BY <1>2, <1>5, <1>8 DEF AttemptsTyped
    <2>2. {k \in AttemptNos : attempts'[k].exists} = {k \in AttemptNos : attempts[k].exists}
        BY <2>1
    <2> QED BY <1>2, <2>1, <2>2 DEF AttemptsTyped
<1>9. CASE CollectBad(fab)
    <2>1. /\ attempts' = [attempts EXCEPT ![n].digest = d] /\ report' = report /\ st' = "ended"
        BY <1>4, <1>5, <1>9 DEF CollectBad, no
    <2>2. PostsReal'
        BY <1>1, <1>2, <2>1 DEF PostsReal
    <2> QED BY <1>8, <2>1, <2>2 DEF BundleInv, FirstReport, CollectedHasReport
<1>10. CASE CollectGood(fab)
    <2>1. /\ attempts' = [attempts EXCEPT ![n].digest = d, ![n].sealed = TRUE]
          /\ report' = IF report = NoReport THEN ReportRow(fab, d, no) ELSE report
        BY <1>4, <1>5, <1>10 DEF CollectGood, no
    <2>2. report' # NoReport
        BY <1>3, <1>4, <1>6, <2>1
    <2>3. PostsReal'
        BY <1>1, <1>2, <2>2 DEF PostsReal
    <2>4. FirstReport
        BY <1>3, <1>4, <1>6, <1>8, <2>1 DEF FirstReport
    <2> QED BY <1>8, <2>1, <2>2, <2>3, <2>4
            DEF BundleInv, CollectedHasReport, NotReady
<1> QED BY <1>1, <1>7, <1>9, <1>10

\* Nothing is collected or read at first.
LEMMA BundleInit == ReportInit => BundleInv
<1> SUFFICES ASSUME ReportInit PROVE BundleInv
    OBVIOUS
<1>1. AttemptsTyped
    <2>1. {no \in AttemptNos : attempts[no].exists} = {}
        BY DEF ReportInit, NoAttempt
    <2>2. IsFiniteSet({no \in AttemptNos : attempts[no].exists})
        BY <2>1, FS_EmptySet
    <2> QED BY <2>2 DEF AttemptsTyped, ReportInit, NoAttempt
<1>2. PostsReal /\ CollectedHasReport
    BY DEF ReportInit, PostsReal, Idle, CollectedHasReport
<1> QED BY <1>1, <1>2 DEF BundleInv

\* Every post, scan and step of the worker keeps the invariant.
LEMMA BundleStep ==
    ASSUME BundleInv, [ReportNext]_reportVars
    PROVE  BundleInv' /\ FirstReport
<1>1. ASSUME UNCHANGED <<attempts, report>>, st' # "collected" \/ st' = st, PostsReal'
      PROVE  BundleInv' /\ FirstReport
    <2>1. AttemptsTyped'
        BY <1>1 DEF BundleInv, AttemptsTyped
    <2> QED BY <1>1, <2>1 DEF BundleInv, FirstReport, CollectedHasReport, NotReady
<1>2. PostsReal
    BY DEF BundleInv
<1>3. ASSUME NEW c \in Client, NEW post \in Posts, PostRead(c, post)
      PROVE  BundleInv' /\ FirstReport
    <2>1. post.no \in AttemptNos
        BY DEF Posts
    <2>2. PostsReal'
        BY <1>2, <1>3, <2>1 DEF PostRead, Goto, PostsReal
    <2> QED BY <1>1, <1>3, <2>2 DEF PostRead
<1>4. ASSUME NEW c \in Client, PostLook(c)
      PROVE  BundleInv' /\ FirstReport
    <2>1. PostsReal'
        <3>1. /\ client[c].pc = "look" /\ report' = report /\ DOMAIN client = Client
              /\ client' = [client EXCEPT ![c] = [client[c] EXCEPT !.pc = "update",
                               !.found = report # NoReport]]
            BY <1>2, <1>4 DEF PostLook, At, Goto, PostsReal
        <3> DEFINE q == [client[c] EXCEPT !.pc = "update", !.found = report # NoReport]
        <3>2. DOMAIN q = {"pc", "post", "found"} /\ q.post = client[c].post /\ (q.found => report # NoReport)
            BY <1>2, <3>1 DEF PostsReal
        <3> HIDE DEF q
        <3>3. \A d \in Client : client'[d] = IF d = c THEN q ELSE client[d]
            BY <3>1 DEF q
        <3>4. client[c].post.no \in AttemptNos
            BY <1>2, <3>1 DEF PostsReal
        <3>5. DOMAIN client' = Client
            BY <3>1
        <3> QED BY <1>2, <3>1, <3>2, <3>3, <3>4, <3>5 DEF PostsReal
    <2> QED BY <1>1, <1>4, <2>1 DEF PostLook
<1>5. ASSUME NEW c \in Client, PostInsert(c)
      PROVE  BundleInv' /\ FirstReport
    BY <1>5, SealStep DEF PostInsert, At
<1>6. ASSUME NEW c \in Client, PostUpdate(c)
      PROVE  BundleInv' /\ FirstReport
    BY <1>2, <1>6, SealStep DEF PostUpdate, LostReport, At, PostsReal
<1>7. ASSUME NEW c \in Client, Abort(c)
      PROVE  BundleInv' /\ FirstReport
    <2>1. PostsReal'
        BY <1>2, <1>7 DEF Abort, Goto, Idle, PostsReal
    <2> QED BY <1>1, <1>7, <2>1 DEF Abort
<1>8. ASSUME UNCHANGED <<client, report>> PROVE PostsReal'
    BY <1>2, <1>8 DEF PostsReal
<1>9. CASE Run
    <2>1. AttemptsTyped'
        <3>1. CASE attempts' = attempts
            BY <3>1 DEF BundleInv, AttemptsTyped
        <3>2. CASE attempts' = [attempts EXCEPT ![1].exists = TRUE]
            <4>1. 1 \in AttemptNos /\ AttemptsTyped
                BY JobReportAssumption DEF BundleInv
            <4>2. {no \in AttemptNos : attempts'[no].exists}
                     = {no \in AttemptNos : attempts[no].exists} \cup {1}
                BY <3>2, <4>1 DEF AttemptsTyped
            <4>3. IsFiniteSet({no \in AttemptNos : attempts'[no].exists})
                <5>1. IsFiniteSet({no \in AttemptNos : attempts[no].exists})
                    BY <4>1 DEF AttemptsTyped
                <5>2. IsFiniteSet({no \in AttemptNos : attempts[no].exists} \cup {1})
                    BY ONLY <5>1, FS_AddElement
                <5> QED BY ONLY <4>2, <5>2
            <4> QED BY <3>2, <4>1, <4>3 DEF AttemptsTyped
        <3> QED BY <1>9, <3>1, <3>2 DEF Run
    <2> QED BY <1>8, <1>9, <2>1 DEF Run, BundleInv, FirstReport, CollectedHasReport
<1>10. CASE CollectReport
    BY <1>10, CollectStep
<1>11. ASSUME NEW n \in PodNodes, Scan(n) PROVE BundleInv' /\ FirstReport
    BY <1>1, <1>8, <1>11 DEF Scan
<1>12. ASSUME NEW map \in Rankmaps, PlaceJob(map) PROVE BundleInv' /\ FirstReport
    BY <1>1, <1>8, <1>12 DEF PlaceJob
<1>13. CASE UNCHANGED reportVars
    BY <1>1, <1>8, <1>13 DEF reportVars
<1> QED BY <1>3, <1>4, <1>5, <1>6, <1>7, <1>9, <1>10, <1>11, <1>12, <1>13 DEF ReportNext

\* The report of a job is written once, in the step that gives its attempt the
\* same digest or under the one it has, for any number of posts and scans
\* ("Keep first report stable", job_lifecycle.py:558).
THEOREM ReportIsStable == ReportSpec => WrittenOnce
<1>1. BundleInv /\ [ReportNext]_reportVars
         => BundleInv' /\ [report' # report =>
                              /\ report = NoReport
                              /\ report'.digest # NoDigest
                              /\ attempts'[report'.no].digest = report'.digest]_reportVars
    BY BundleStep DEF FirstReport
<1>2. ReportInit => BundleInv
    BY BundleInit
<1> QED BY <1>1, <1>2, PTL DEF ReportSpec, WrittenOnce

\* A job is collected without a report only if results without a digest were
\* sealed, by a post that the collect kept (public.py:1135).
THEOREM CollectedCorrect == ReportSpec => []CollectedHasReport
<1>1. BundleInv /\ [ReportNext]_reportVars => BundleInv'
    BY BundleStep
<1>2. BundleInv => CollectedHasReport
    BY DEF BundleInv
<1>3. ReportInit => BundleInv
    BY BundleInit
<1> QED BY <1>1, <1>2, <1>3, PTL DEF ReportSpec

-----------------------------------------------------------------------------
(* The report of a job: the nodes that a bundle names.                      *)

\* The nodes that were seen among the first ranks of a rankmap.
SeenStep(seen, n) == IF n \in ToSet(seen) THEN seen ELSE Append(seen, n)
Sees(g, map) ==
    g = [s \in SUBSET DOMAIN map |->
            IF s = {} THEN <<>> ELSE SeenStep(g[s \ {Max(s)}], map[Max(s)])]

\* unique_node_ids_from_rankmap goes through such a function.
LEMMA SeenDefined ==
    ASSUME NEW map
    PROVE  unique_node_ids_from_rankmap(map) = (CHOOSE g : Sees(g, map))[DOMAIN map]
BY DEF unique_node_ids_from_rankmap, FoldLeft, MapThenFoldSet, Sees, SeenStep

\* One more node is seen once.
LEMMA SeenOnce ==
    ASSUME NEW seen \in Seq(Int), NEW n \in Int,
           \A i, k \in 1..Len(seen) : seen[i] = seen[k] => i = k
    PROVE  LET now == SeenStep(seen, n)
           IN  /\ now \in Seq(Int)
               /\ \A i, k \in 1..Len(now) : now[i] = now[k] => i = k
               /\ ToSet(now) = ToSet(seen) \cup {n}
<1>1. CASE n \in ToSet(seen)
    BY <1>1 DEF SeenStep
<1>2. CASE n \notin ToSet(seen)
    <2> DEFINE now == Append(seen, n)
    <2>1. /\ now \in Seq(Int) /\ Len(now) = Len(seen) + 1
          /\ \A i \in 1..Len(now) : now[i] = IF i <= Len(seen) THEN seen[i] ELSE n
        OBVIOUS
    <2>2. \A i \in 1..Len(seen) : seen[i] # n
        BY <1>2 DEF ToSet
    <2>3. Len(seen) \in Nat /\ DOMAIN now = 1..Len(now) /\ DOMAIN seen = 1..Len(seen)
        BY <2>1
    <2> HIDE DEF now
    <2>4. \A i, k \in 1..Len(now) : now[i] = now[k] => i = k
        <3> TAKE i, k \in 1..Len(now)
        <3>1. i <= Len(seen) \/ i = Len(seen) + 1
            BY <2>1, <2>3
        <3>2. k <= Len(seen) \/ k = Len(seen) + 1
            BY <2>1, <2>3
        <3> QED BY <2>1, <2>2, <2>3, <3>1, <3>2
    <2>5. ToSet(now) = ToSet(seen) \cup {n}
        <3>1. ToSet(now) \subseteq ToSet(seen) \cup {n}
            BY <2>1, <2>3 DEF ToSet
        <3>2. n \in ToSet(now)
            <4>1. Len(now) \in 1..Len(now) /\ now[Len(now)] = n
                BY <2>1, <2>3
            <4> QED BY <2>3, <4>1 DEF ToSet
        <3>3. ToSet(seen) \subseteq ToSet(now)
            <4>1. \A i \in 1..Len(seen) : i \in 1..Len(now) /\ now[i] = seen[i]
                BY <2>1, <2>3
            <4> QED BY <2>3, <4>1 DEF ToSet
        <3> QED BY <3>1, <3>2, <3>3
    <2>6. SeenStep(seen, n) = now
        BY <1>2 DEF SeenStep, now
    <2> QED BY <2>1, <2>4, <2>5, <2>6
<1> QED BY <1>1, <1>2

\* unique_node_ids_from_rankmap names each node of the rankmap once, and no other.
LEMMA UniqueNodeIds ==
    ASSUME NEW map \in Seq(Int)
    PROVE  LET ids == unique_node_ids_from_rankmap(map)
           IN  /\ ids \in Seq(Int)
               /\ \A i, k \in 1..Len(ids) : ids[i] = ids[k] => i = k
               /\ ToSet(ids) = ToSet(map)
<1> DEFINE N == Len(map)
           step == [i \in 1..N |-> [seen \in Seq(Int) |-> SeenStep(seen, map[i])]]
<1>1. N \in Nat /\ DOMAIN map = 1..N /\ \A i \in 1..N : map[i] \in Int
    OBVIOUS
<1> HIDE DEF N
<1>2. \A seen \in Seq(Int), n \in Int : SeenStep(seen, n) \in Seq(Int)
    BY DEF SeenStep
<1>3. step \in [1..N -> [Seq(Int) -> Seq(Int)]]
    BY <1>1, <1>2
<1>4. PICK f \in [SUBSET (1..N) -> Seq(Int)] : FoldsTo(f, N, <<>>, step)
    <2>1. <<>> \in Seq(Int)
        OBVIOUS
    <2> HIDE DEF step
    <2> QED BY <1>1, <1>3, <2>1, FoldExists
<1>5. Sees(f, map)
    <2>1. ASSUME NEW s \in SUBSET (1..N)
          PROVE  f[s] = IF s = {} THEN <<>> ELSE SeenStep(f[s \ {Max(s)}], map[Max(s)])
        <3>1. f[s] = IF s = {} THEN <<>> ELSE step[Max(s)][f[s \ {Max(s)}]]
            BY <1>4 DEF FoldsTo
        <3>2. s # {} => Max(s) \in 1..N
            BY <1>1, MaxOfPart
        <3>3. s # {} => f[s \ {Max(s)}] \in Seq(Int)
            OBVIOUS
        <3> QED BY <3>1, <3>2, <3>3
    <2>2. f = [s \in SUBSET (1..N) |-> f[s]]
        OBVIOUS
    <2>3. f = [s \in SUBSET (1..N) |-> IF s = {} THEN <<>> ELSE SeenStep(f[s \ {Max(s)}], map[Max(s)])]
        BY <2>1, <2>2
    <2> QED BY <1>1, <2>3 DEF Sees
<1>6. PICK g : g = CHOOSE h : Sees(h, map)
    OBVIOUS
<1>7. Sees(g, map)
    BY <1>5, <1>6
<1>8. /\ g[{}] = <<>>
      /\ \A s \in SUBSET (1..N) : s # {} => g[s] = SeenStep(g[s \ {Max(s)}], map[Max(s)])
    BY <1>1, <1>7 DEF Sees
<1> DEFINE Good(j) == LET now == g[1..j]
                      IN  /\ now \in Seq(Int)
                          /\ \A i, k \in 1..Len(now) : now[i] = now[k] => i = k
                          /\ ToSet(now) = {map[i] : i \in 1..j}
           Q == {j \in Nat : j <= N => Good(j)}
<1>9. 0 \in Q
    <2>1. 1..0 = {}
        OBVIOUS
    <2>2. Len(<<>>) = 0 /\ ToSet(<<>>) = {} /\ <<>> \in Seq(Int)
        BY DEF ToSet
    <2> QED BY <1>8, <2>1, <2>2
<1>10. ASSUME NEW j \in Nat, j \in Q PROVE j + 1 \in Q
    <2> HIDE DEF Good
    <2> SUFFICES ASSUME j + 1 <= N PROVE Good(j + 1)
        OBVIOUS
    <2>0. j <= N
        BY ONLY <1>1, j \in Nat, j + 1 <= N
    <2>1. Good(j)
        BY <1>10, <2>0
    <2>2. /\ 1..(j + 1) \in SUBSET (1..N) /\ 1..(j + 1) # {} /\ (1..(j + 1)) \ {j + 1} = 1..j
          /\ j + 1 \in 1..N
        <3>1. \A i \in 1..(j + 1) : i \in 1..N
            BY ONLY <1>1, j \in Nat, j + 1 <= N
        <3>2. j + 1 \in 1..(j + 1) /\ j + 1 \in 1..N
            BY ONLY <1>1, j \in Nat, j + 1 <= N
        <3>3. (1..(j + 1)) \ {j + 1} = 1..j
            BY ONLY j \in Nat
        <3> QED BY ONLY <3>1, <3>2, <3>3
    <2>3. Max(1..(j + 1)) = j + 1
        BY MaxOfPart
    <2>4. g[1..(j + 1)] = SeenStep(g[1..j], map[j + 1])
        BY <1>8, <2>2, <2>3
    <2>5. map[j + 1] \in Int
        BY <1>1, <2>2
    <2>6. {map[i] : i \in 1..(j + 1)} = {map[i] : i \in 1..j} \cup {map[j + 1]}
        <3>1. 1..(j + 1) = (1..j) \cup {j + 1}
            OBVIOUS
        <3> QED BY <3>1
    <2> DEFINE now == g[1..j]
               next == g[1..(j + 1)]
    <2>7. /\ now \in Seq(Int)
          /\ \A i, k \in 1..Len(now) : now[i] = now[k] => i = k
          /\ ToSet(now) = {map[i] : i \in 1..j}
        BY <2>1 DEF Good
    <2> HIDE DEF now, next
    <2>8. next = SeenStep(now, map[j + 1])
        BY <2>4 DEF now, next
    <2>9. /\ next \in Seq(Int)
          /\ \A i, k \in 1..Len(next) : next[i] = next[k] => i = k
          /\ ToSet(next) = ToSet(now) \cup {map[j + 1]}
        BY ONLY <2>5, <2>7, <2>8, SeenOnce
    <2>10. ToSet(next) = {map[i] : i \in 1..(j + 1)}
        BY <2>6, <2>7, <2>9
    <2> QED BY <2>9, <2>10 DEF Good, next
<1>11. Good(N)
    <2>1. Nat \subseteq Q
        <3> HIDE DEF Q
        <3> QED BY <1>9, <1>10, NumberInduction
    <2>2. N \in Q
        BY <1>1, <2>1
    <2>3. N <= N
        BY <1>1
    <2> HIDE DEF Good
    <2> QED BY <2>2, <2>3
<1>12. unique_node_ids_from_rankmap(map) = g[1..N]
    BY <1>1, <1>6, SeenDefined
<1>13. ToSet(map) = {map[i] : i \in 1..N}
    BY <1>1 DEF ToSet
<1> QED BY <1>11, <1>12, <1>13

\* The nodes of a report are the given ones, once each; the digest of a node that
\* was scanned is its scan.
NamesEach(nodes, ids, scanned) ==
    LET names == {nodes[i].node_id : i \in DOMAIN nodes}
    IN  /\ Cardinality(names) = Len(nodes)
        /\ names = ids
        /\ \A i \in DOMAIN nodes :
              nodes[i].node_id \in scanned <=> nodes[i].report_digest.kind = "scan"

\* A report names the nodes of its rankmap.
LEMMA BundleNames ==
    ASSUME NEW map \in Seq(Int), map # <<>>, NEW reports
    PROVE  NamesEach(build_sim_fabric_report(map, reports).nodes, ToSet(map), DOMAIN reports)
<1> DEFINE ids == unique_node_ids_from_rankmap(map)
           nodes == node_digest_entries(ids, reports)
           names == {nodes[i].node_id : i \in DOMAIN nodes}
<1>1. build_sim_fabric_report(map, reports).nodes = nodes
    BY DEF build_sim_fabric_report
<1>2. /\ ids \in Seq(Int) /\ \A i, k \in 1..Len(ids) : ids[i] = ids[k] => i = k
      /\ ToSet(ids) = ToSet(map)
    BY UniqueNodeIds
<1> HIDE DEF ids
<1>3. /\ DOMAIN nodes = 1..Len(ids) /\ Len(nodes) = Len(ids)
      /\ \A i \in 1..Len(ids) : /\ nodes[i].node_id = ids[i]
                                /\ nodes[i].report_digest = NodeDigest(ids[i], reports)
    BY <1>2 DEF node_digest_entries
<1>4. \A n : NodeDigest(n, reports).kind = "scan" <=> n \in DOMAIN reports
    BY DEF NodeDigest
<1> HIDE DEF nodes
<1>5. names = ToSet(ids)
    <2>1. DOMAIN ids = 1..Len(ids)
        BY <1>2
    <2>2. DOMAIN nodes = DOMAIN ids /\ \A i \in DOMAIN ids : nodes[i].node_id = ids[i]
        BY <1>3, <2>1
    <2>3. names = {ids[i] : i \in DOMAIN ids}
        BY ONLY <2>2
    <2> QED BY ONLY <2>3 DEF ToSet
<1>6. Cardinality(ToSet(ids)) = Len(ids)
    <2>1. ids \in [1..Len(ids) -> ToSet(ids)]
        BY <1>2 DEF ToSet
    <2>2. ids \in Bijection(1..Len(ids), ToSet(ids))
        BY <1>2, <2>1 DEF ToSet, Bijection, Injection, Surjection, IsInjective
    <2> QED BY <1>2, <2>2, FS_CountingElements DEF ExistsBijection
<1>7. \A i \in DOMAIN nodes :
          nodes[i].node_id \in DOMAIN reports <=> nodes[i].report_digest.kind = "scan"
    BY <1>3, <1>4
<1>8. NamesEach(nodes, ToSet(map), DOMAIN reports)
    BY <1>2, <1>3, <1>5, <1>6, <1>7 DEF NamesEach
<1> QED BY <1>1, <1>8

\* What a report says of its nodes: the worker's names the ranks' nodes, once the
\* job is placed, and a post's the stand-ins.
NamesRow(row) ==
    LET names == {row.nodes[i].node_id : i \in DOMAIN row.nodes}
    IN  /\ Cardinality(names) = Len(row.nodes)
        /\ \A i \in DOMAIN row.nodes :
              row.nodes[i].node_id \in PodNodes <=> row.nodes[i].report_digest.kind = "scan"
        /\ row.digest.kind = "bundle" =>
              row.digest = compute_bundle_digest(row.nodes) /\ names = ToSet(rankmap) /\ st # "queued"
        /\ row.digest.kind = "posted" => names = ToSet(StandIns)

\* A job that is placed has a layout over nodes of its pod; clients send digests of
\* their own; and what is sealed under a digest has been reported, so that a
\* collect never inserts a report under a posted digest.
NamesInv ==
    /\ DOMAIN scans = PodNodes
    /\ st \in {"placed", "running"} => rankmap \in Seq(PodNodes) /\ rankmap # <<>>
    /\ \A c \in Client : client[c].pc # "idle" => client[c].post.digest.kind \in {"none", "posted"}
    /\ \A no \in AttemptNos :
          attempts[no].sealed /\ attempts[no].digest # NoDigest => report # NoReport
    /\ NamesRow(report)

\* A post's report names stand-ins, whatever is placed.
LEMMA PostNames ==
    ASSUME NEW post, post.digest.kind \in {"none", "posted"}
    PROVE  NamesRow(PostedReport(post))
<1>1. NNodes * NProc \in Nat /\ NNodes * NProc > 0
    BY JobReportAssumption
<1>2. \A r \in 1..(NNodes * NProc) : (r - 1) \div NProc \in Nat
    BY JobReportAssumption
<1>3. StandIns \in Seq(Int) /\ Len(StandIns) = NNodes * NProc
         /\ \A r \in 1..(NNodes * NProc) : StandIns[r] <= 0
    BY <1>1, <1>2 DEF StandIns
<1>4. StandIns # <<>>
    BY <1>1, <1>3
<1>5. build_sim_fabric_report(<<>>, NoScans) = build_sim_fabric_report(StandIns, NoScans)
    BY <1>4 DEF build_sim_fabric_report
<1>6. DOMAIN NoScans = {}
    BY DEF NoScans
<1>7. PICK nodes : nodes = build_sim_fabric_report(StandIns, NoScans).nodes
    OBVIOUS
<1>8. NamesEach(nodes, ToSet(StandIns), {})
    BY <1>3, <1>4, <1>6, <1>7, BundleNames
<1>9. ToSet(StandIns) \cap PodNodes = {}
    <2>1. \A n \in PodNodes : n \in Nat /\ n > 0
        BY JobReportAssumption
    <2>2. \A n \in ToSet(StandIns) : n <= 0
        BY <1>1, <1>3 DEF ToSet
    <2>3. \A n \in ToSet(StandIns) : n \notin PodNodes
        BY ONLY <2>1, <2>2
    <2> QED BY <2>3
<1>10. PostedReport(post).nodes = nodes /\ PostedReport(post).digest = post.digest
    BY <1>5, <1>7 DEF PostedReport, ReportRow
<1>11. PICK row : row = PostedReport(post)
    OBVIOUS
<1>12. NamesRow(row)
    BY <1>8, <1>9, <1>10, <1>11 DEF NamesEach, NamesRow
<1> QED BY <1>11, <1>12

\* The worker's report names the nodes that the job ran on.
LEMMA CollectNames ==
    ASSUME DOMAIN scans = PodNodes, rankmap \in Seq(PodNodes), rankmap # <<>>, st # "queued", NEW no
    PROVE  LET fab == build_sim_fabric_report(rankmap, scans)
           IN  NamesRow(ReportRow(fab, fab.digest, no))
<1> DEFINE fab == build_sim_fabric_report(rankmap, scans)
<1>1. rankmap \in Seq(Int)
    BY JobReportAssumption
<1>2. NamesEach(fab.nodes, ToSet(rankmap), PodNodes)
    BY <1>1, BundleNames
<1>3. fab.digest = compute_bundle_digest(fab.nodes)
    BY DEF build_sim_fabric_report
<1>4. fab.digest.kind = "bundle"
    BY <1>3 DEF compute_bundle_digest
<1>5. PICK row : row = ReportRow(fab, fab.digest, no)
    OBVIOUS
<1>6. row.nodes = fab.nodes /\ row.digest = fab.digest
    BY <1>5 DEF ReportRow
<1> HIDE DEF fab
<1>7. NamesRow(row)
    BY <1>2, <1>3, <1>4, <1>6 DEF NamesEach, NamesRow
<1> QED BY <1>5, <1>7 DEF fab

\* Nothing is named at first.
LEMMA NamesInit == ReportInit => NamesInv
<1> SUFFICES ASSUME ReportInit PROVE NamesInv
    OBVIOUS
<1>1. /\ DOMAIN scans = PodNodes /\ st = "queued"
      /\ \A c \in Client : client[c].pc = "idle"
      /\ \A no \in AttemptNos : ~attempts[no].sealed
    BY DEF ReportInit, Idle, NoAttempt
<1>2. report.nodes = <<>> /\ report.digest.kind = "none"
    BY DEF ReportInit, NoReport, NoDigest
<1>3. DOMAIN report.nodes = {} /\ Len(report.nodes) = 0
    BY <1>2
<1>4. NamesRow(report)
    <2>1. {report.nodes[i].node_id : i \in DOMAIN report.nodes} = {}
        BY <1>3
    <2> QED BY <1>2, <1>3, <2>1, FS_EmptySet DEF NamesRow
<1> QED BY <1>1, <1>4 DEF NamesInv

\* A row that names its nodes does so after a step that leaves the placement alone.
LEMMA RowNamed ==
    ASSUME NEW row, NamesRow(row), rankmap' = rankmap \/ st = "queued", st' # "queued" \/ st' = st
    PROVE  NamesRow(row)'
BY DEF NamesRow

\* A post that writes its row.
LEMMA PostNamed ==
    ASSUME BundleInv, NamesInv, NEW c \in Client, client[c].pc # "idle",
           client[c].pc = "update" => client[c].found \/ client[c].post.digest = NoDigest
                                         \/ report = NoReport,
           Seal(c),
           report' = IF client[c].post.digest # NoDigest /\ report = NoReport
                     THEN PostedReport(client[c].post) ELSE report
    PROVE  NamesInv'
<1> DEFINE post == client[c].post
<1>1. /\ attempts' = [attempts EXCEPT ![post.no] =
                         [exists |-> TRUE, sealed |-> TRUE, digest |-> post.digest]]
      /\ st' = st \/ st' = "ended"
      /\ client' = [client EXCEPT ![c] = Idle]
      /\ UNCHANGED <<rankmap, scans>>
      /\ post.no \in AttemptNos /\ post.digest.kind \in {"none", "posted"}
    BY DEF Seal, Goto, Untouched, BundleInv, PostsReal, NamesInv
<1>2. post.digest # NoDigest => PostedReport(post) # NoReport
    BY ReportWritten DEF PostedReport
<1>3. NamesRow(PostedReport(post))
    BY <1>1, PostNames
<1> HIDE DEF post
<1>4. report # NoReport \/ post.digest # NoDigest => report' # NoReport
    BY <1>2 DEF post
<1>5. NamesRow(report)'
    <2>1. PICK row : row = report'
        OBVIOUS
    <2>2. NamesRow(row)
        BY <1>3, <2>1 DEF NamesInv, post
    <2>3. NamesRow(row)'
        BY <1>1, <2>2, RowNamed
    <2> QED BY <2>1, <2>3 DEF NamesRow
<1>6. \A no \in AttemptNos :
          attempts'[no].sealed /\ attempts'[no].digest # NoDigest => report' # NoReport
    <2>1. \A no \in AttemptNos \ {post.no} : attempts'[no] = attempts[no]
        BY <1>1 DEF BundleInv, AttemptsTyped
    <2>2. attempts'[post.no].digest = post.digest
        BY <1>1 DEF BundleInv, AttemptsTyped
    <2> QED BY <1>4, <2>1, <2>2 DEF NamesInv
<1>7. \A d \in Client : client'[d].pc # "idle" => client'[d].post.digest.kind \in {"none", "posted"}
    BY <1>1 DEF Idle, BundleInv, PostsReal, NamesInv
<1> QED BY <1>1, <1>5, <1>6, <1>7 DEF NamesInv

\* A collect finds sealed results reported, and reports its own.
LEMMA CollectNamed ==
    ASSUME BundleInv, NamesInv, CollectReport
    PROVE  NamesInv'
<1> DEFINE fab == build_sim_fabric_report(rankmap, scans)
<1>1. /\ st = "running" /\ UNCHANGED <<rankmap, scans, client>> /\ st' \in {"ended", "collected"}
      /\ CollectSealed(fab) \/ CollectBad(fab) \/ CollectGood(fab)
    BY DEF CollectReport, CollectSealed, CollectBad, CollectGood
<1>2. PICK n \in AttemptNos : n = Latest
    BY BundleLatest DEF BundleInv
<1>3. PICK row : row = ReportRow(fab, fab.digest, Latest)
    OBVIOUS
<1>4. NamesRow(row) /\ row # NoReport
    <2>1. NamesRow(row)
        BY <1>1, <1>3, CollectNames DEF NamesInv
    <2> QED BY <1>3, <2>1, ReportWritten, BundleDigest
<1>5. PICK d : d = fab.digest
    OBVIOUS
<1> HIDE DEF fab
<1>6. /\ report' = report \/ report' = row
      /\ \A no \in AttemptNos : attempts'[no].sealed /\ attempts'[no].digest # NoDigest
                                   => report' # NoReport
    <2>1. CASE CollectSealed(fab)
        BY <1>2, <2>1 DEF CollectSealed, NamesInv
    <2>2. CASE CollectBad(fab)
        <3>1. /\ ~attempts[n].sealed /\ report' = report
              /\ attempts' = [attempts EXCEPT ![n].digest = d]
            BY <1>2, <1>5, <2>2 DEF CollectBad
        <3>2. \A no \in AttemptNos : /\ attempts'[no].sealed = attempts[no].sealed
                                     /\ no # n => attempts'[no] = attempts[no]
            BY <3>1 DEF BundleInv, AttemptsTyped
        <3> QED BY <3>1, <3>2 DEF NamesInv
    <2>3. CASE CollectGood(fab)
        <3>1. report' = IF report = NoReport THEN row ELSE report
            BY <1>3, <2>3 DEF CollectGood
        <3> QED BY <1>4, <3>1
    <2> QED BY <1>1, <2>1, <2>2, <2>3
<1>7. NamesRow(report)'
    <2>1. PICK new : new = report'
        OBVIOUS
    <2>2. NamesRow(new)
        BY <1>4, <1>6, <2>1 DEF NamesInv
    <2>3. NamesRow(new)'
        BY <1>1, <2>2, RowNamed
    <2> QED BY <2>1, <2>3 DEF NamesRow
<1> QED BY <1>1, <1>6, <1>7 DEF NamesInv

\* Posts and collects write reports, a placement is made before the worker does.
LEMMA NamesStep ==
    ASSUME BundleInv, NamesInv, [ReportNext]_reportVars
    PROVE  NamesInv'
<1>0. PostsReal /\ AttemptsTyped
    BY DEF BundleInv
<1>1. ASSUME report' = report, rankmap' = rankmap \/ st = "queued", st' # "queued" \/ st' = st
      PROVE  NamesRow(report)'
    <2>1. PICK row : row = report
        OBVIOUS
    <2>2. NamesRow(row)'
        BY <1>1, <2>1, RowNamed DEF NamesInv
    <2> QED BY <1>1, <2>1, <2>2 DEF NamesRow
<1>2. ASSUME UNCHANGED <<st, rankmap, scans, attempts, report>>,
             \A c \in Client : client'[c].pc # "idle"
                                  => client'[c].post.digest.kind \in {"none", "posted"}
      PROVE  NamesInv'
    BY <1>1, <1>2 DEF NamesInv
<1>3. ASSUME NEW c \in Client, NEW post \in Posts, PostRead(c, post) PROVE NamesInv'
    <2>1. post.digest.kind \in {"none", "posted"}
        BY DEF Posts, NoDigest, Posted
    <2> QED BY <1>0, <1>2, <1>3, <2>1 DEF PostRead, Goto, Untouched, PostsReal, NamesInv
<1>4. ASSUME NEW c \in Client, PostLook(c) PROVE NamesInv'
    <2> DEFINE q == [client[c] EXCEPT !.pc = "update", !.found = report # NoReport]
    <2>1. client' = [client EXCEPT ![c] = q] /\ client[c].pc = "look"
        BY <1>4 DEF PostLook, Goto, At
    <2>2. q.post = client[c].post
        BY <1>0, <2>1 DEF PostsReal
    <2> HIDE DEF q
    <2>3. \A d \in Client : client'[d].pc # "idle"
                               => client'[d].post.digest.kind \in {"none", "posted"}
        BY <1>0, <2>1, <2>2 DEF PostsReal, NamesInv
    <2> QED BY <1>2, <1>4, <2>3 DEF PostLook, Untouched
<1>5. ASSUME NEW c \in Client, PostInsert(c) PROVE NamesInv'
    BY <1>5, PostNamed DEF PostInsert, At
<1>6. ASSUME NEW c \in Client, PostUpdate(c) PROVE NamesInv'
    BY <1>0, <1>6, PostNamed DEF PostUpdate, LostReport, At, PostsReal
<1>7. ASSUME NEW c \in Client, Abort(c) PROVE NamesInv'
    BY <1>0, <1>2, <1>7 DEF Abort, Goto, Idle, Untouched, PostsReal, NamesInv
<1>8. ASSUME NEW n \in PodNodes, Scan(n) PROVE NamesInv'
    <2>1. UNCHANGED <<st, rankmap, attempts, report, client>> /\ DOMAIN scans' = PodNodes
        BY <1>8 DEF Scan, NamesInv
    <2> QED BY <1>1, <2>1 DEF NamesInv
<1>9. ASSUME NEW map \in Rankmaps, PlaceJob(map) PROVE NamesInv'
    <2>1. /\ st = "queued" /\ st' = "placed" /\ rankmap' = map
          /\ UNCHANGED <<scans, attempts, report, client>>
        BY <1>9 DEF PlaceJob
    <2>2. map \in Seq(PodNodes) /\ map # <<>>
        <3>1. map \in Seq(PodNodes) /\ Len(map) = NNodes * NProc /\ NNodes * NProc > 0
            BY JobReportAssumption
        <3> QED BY <3>1
    <2> QED BY <1>1, <2>1, <2>2 DEF NamesInv
<1>10. CASE Run
    <2>1. /\ st = "placed" /\ st' = "running" /\ UNCHANGED <<rankmap, scans, report, client>>
          /\ \A no \in AttemptNos : /\ attempts'[no].sealed = attempts[no].sealed
                                    /\ attempts'[no].digest = attempts[no].digest
        BY <1>0, <1>10 DEF Run, AttemptsTyped
    <2> QED BY <1>1, <2>1 DEF NamesInv
<1>11. CASE CollectReport
    BY <1>11, CollectNamed
<1>12. CASE UNCHANGED reportVars
    BY <1>2, <1>12 DEF reportVars, NamesInv
<1> QED BY <1>3, <1>4, <1>5, <1>6, <1>7, <1>8, <1>9, <1>10, <1>11, <1>12 DEF ReportNext

\* The worker's report is the bundle of the nodes that the job ran on, once each;
\* every report that a post inserts, before the placement or after it, names the
\* stand-ins and no node of the pod (build_sim_fabric_report, job_lifecycle.py:538).
THEOREM NamesCorrect == ReportSpec => []ReportNamesRanks
<1>1. ReportInit => BundleInv /\ NamesInv
    BY BundleInit, NamesInit
<1>2. BundleInv /\ NamesInv /\ [ReportNext]_reportVars => (BundleInv /\ NamesInv)'
    BY BundleStep, NamesStep
<1>3. NamesInv => ReportNamesRanks
    BY DEF NamesInv, NamesRow, ReportNamesRanks, PublicNodes
<1> QED BY <1>1, <1>2, <1>3, PTL DEF ReportSpec

-----------------------------------------------------------------------------
(* Incentives: what the pipeline makes of a map of mass.                    *)

\* A map of mass: finitely many hotkeys, each with a number.
IsMass(mass) ==
    /\ mass \in [DOMAIN mass -> Nat]
    /\ DOMAIN mass \subseteq Nat /\ IsFiniteSet(DOMAIN mass)

\* The hotkeys that top-k keeps, what they have together, and what the cap leaves
\* to one of them.
TopOf(mass) ==
    {h \in DOMAIN mass :
        /\ mass[h] > 0
        /\ \/ hyper.top_k = 0
           \/ Cardinality({g \in DOMAIN mass : mass[g] > 0 /\ Ahead(mass, g, h)}) < hyper.top_k}
Pot(mass) == SumOver(mass, TopOf(mass))
Paid(mass, h) ==
    IF Capped /\ Share * mass[h] > hyper.max_fraction * Pot(mass)
    THEN hyper.max_fraction * Pot(mass) ELSE Share * mass[h]
PaidOut(mass) == [h \in TopOf(mass) |-> Paid(mass, h)]

\* Top-k keeps some of the map, and leaves them what they have.
LEMMA TopKIs ==
    ASSUME NEW mass, IsMass(mass)
    PROVE  /\ TopK(clamp_mass_map(mass)) = [h \in TopOf(mass) |-> mass[h]]
           /\ IsFiniteSet(TopOf(mass)) /\ TopOf(mass) \subseteq DOMAIN mass
           /\ \A h \in TopOf(mass) : mass[h] \in Nat /\ mass[h] > 0
           /\ Pot(mass) \in Nat
<1> DEFINE P == {h \in DOMAIN mass : mass[h] > 0}
           clamped == clamp_mass_map(mass)
<1>1. clamped = [h \in P |-> mass[h]]
    <2>1. DOMAIN mass \cap P = P
        OBVIOUS
    <2> QED BY <2>1 DEF clamp_mass_map, Kept
<1>2. DOMAIN clamped = P /\ \A h \in P : clamped[h] = mass[h]
    BY <1>1
<1> HIDE DEF clamped
<1>3. \A h \in P : {g \in DOMAIN clamped : Ahead(clamped, g, h)}
                      = {g \in DOMAIN mass : mass[g] > 0 /\ Ahead(mass, g, h)}
    BY <1>2 DEF Ahead
<1>4. TopK(clamped) = [h \in TopOf(mass) |-> mass[h]]
    <2> DEFINE S == {h \in DOMAIN clamped :
                       \/ hyper.top_k = 0
                       \/ Cardinality({g \in DOMAIN clamped : Ahead(clamped, g, h)}) < hyper.top_k}
    <2>1. S = TopOf(mass)
        BY <1>2, <1>3 DEF TopOf
    <2>2. DOMAIN clamped \cap S = TopOf(mass) /\ TopOf(mass) \subseteq P
        BY <2>1 DEF TopOf
    <2>3. TopK(clamped) = [h \in DOMAIN clamped \cap S |-> clamped[h]]
        BY DEF TopK, Kept
    <2> QED BY <1>2, <2>2, <2>3
<1>5. TopOf(mass) \subseteq DOMAIN mass
    BY DEF TopOf
<1>6. IsFiniteSet(TopOf(mass))
    BY <1>5, FS_Subset DEF IsMass
<1>7. \A h \in TopOf(mass) : mass[h] \in Nat /\ mass[h] > 0
    BY DEF TopOf, IsMass
<1>8. Pot(mass) \in Nat
    BY <1>6, <1>7, SumType DEF Pot
<1> QED BY <1>4, <1>5, <1>6, <1>7, <1>8 DEF clamped

\* What finalize_incentives makes of a map: those that top-k keeps are paid.
LEMMA FinalizeIs ==
    ASSUME NEW mass, IsMass(mass), NEW unit, hyper \in Hyper
    PROVE  /\ \A h \in TopOf(mass) : Paid(mass, h) \in Nat /\ Paid(mass, h) > 0
           /\ DOMAIN Finalize(mass, unit).w = TopOf(mass)
           /\ \A h \in TopOf(mass) : Finalize(mass, unit).w[h] = Paid(mass, h)
           /\ Finalize(mass, unit).total =
                IF TopOf(mass) = {} THEN 0
                ELSE IF hyper.normalize THEN SumOver(PaidOut(mass), TopOf(mass)) ELSE Share * unit
           /\ Finalize(mass, unit).w = PaidOut(mass)
<1> DEFINE K == TopOf(mass)
           kept == [h \in K |-> mass[h]]
           f == hyper.max_fraction
<1>1. TopK(clamp_mass_map(mass)) = kept /\ IsFiniteSet(K)
         /\ \A h \in K : mass[h] \in Nat /\ mass[h] > 0
    BY TopKIs
<1>a. f \in 0..Share /\ f \in Nat
    BY DEF Hyper, Share
<1>2. SumOf(kept) = Pot(mass) /\ Pot(mass) \in Nat
    <2>1. SumOf(kept) = SumOver(kept, K)
        BY DEF SumOf, SumOver
    <2>2. \A h \in K : mass[h] \in Nat /\ kept[h] = mass[h]
        BY <1>1
    <2>3. SumOver(kept, K) = SumOver(mass, K)
        <3> HIDE DEF kept, K
        <3> QED BY <1>1, <2>2, SumEqual
    <2> QED BY <2>1, <2>3, TopKIs DEF Pot
<1>3. MaxFraction(kept) = PaidOut(mass)
    <2>1. DOMAIN kept = K /\ \A h \in K : kept[h] = mass[h]
        OBVIOUS
    <2> HIDE DEF kept
    <2>2. MaxFraction(kept) = [h \in K |-> IF Capped /\ Share * mass[h] > f * Pot(mass)
                                           THEN f * Pot(mass) ELSE Share * mass[h]]
        BY <1>2, <2>1 DEF MaxFraction
    <2> QED BY <2>2 DEF PaidOut, Paid
<1>4. ASSUME NEW h \in K PROVE Paid(mass, h) \in Nat /\ Paid(mass, h) > 0
    <2>1. mass[h] <= Pot(mass)
        BY <1>1, TermAtMostSum DEF Pot
    <2>2. mass[h] \in Nat /\ mass[h] > 0
        BY <1>1
    <2>3. Share * mass[h] \in Nat /\ Share * mass[h] > 0
        BY <2>2 DEF Share
    <2>4. Capped => f \in {1, 2, 3}
        BY DEF Capped, Share
    <2>5. Capped => f * Pot(mass) \in Nat /\ f * Pot(mass) > 0
        BY <1>2, <2>1, <2>2, <2>4
    <2> QED BY <2>3, <2>5 DEF Paid
<1>5. clamp_mass_map(PaidOut(mass)) = PaidOut(mass)
    <2>1. DOMAIN PaidOut(mass) = K /\ \A h \in K : PaidOut(mass)[h] = Paid(mass, h)
        BY DEF PaidOut
    <2>2. {h \in DOMAIN PaidOut(mass) : PaidOut(mass)[h] > 0} = K
        BY <1>4, <2>1
    <2>3. clamp_mass_map(PaidOut(mass)) = [h \in K \cap K |-> PaidOut(mass)[h]]
        BY <2>1, <2>2 DEF clamp_mass_map, Kept
    <2>4. clamp_mass_map(PaidOut(mass)) = [h \in K |-> Paid(mass, h)]
        BY <2>1, <2>3
    <2> QED BY <2>4 DEF PaidOut
<1> DEFINE stage == clamp_mass_map(MaxFraction(TopK(clamp_mass_map(mass))))
<1>6. stage = PaidOut(mass)
    BY <1>1, <1>3, <1>5
<1>7. DOMAIN stage = K /\ (\A h \in K : stage[h] = Paid(mass, h)) /\ SumOf(stage) = SumOver(PaidOut(mass), K)
    BY <1>6 DEF PaidOut, SumOf, SumOver
<1>8. Finalize(mass, unit) = IF DOMAIN stage = {} THEN Vacant
        ELSE [w |-> stage, total |-> IF hyper.normalize THEN SumOf(stage) ELSE Share * unit]
    BY DEF Finalize
<1> HIDE DEF stage
<1>9. CASE K = {}
    <2>1. Finalize(mass, unit) = Vacant
        BY <1>7, <1>8, <1>9
    <2>2. PaidOut(mass) = NoMass
        BY <1>9 DEF PaidOut, NoMass
    <2> QED BY <1>4, <1>9, <2>1, <2>2 DEF Vacant, NoMass
<1>10. CASE K # {}
    <2>1. Finalize(mass, unit) = [w |-> stage, total |-> IF hyper.normalize THEN SumOf(stage) ELSE Share * unit]
        BY <1>7, <1>8, <1>10
    <2> QED BY <1>4, <1>6, <1>7, <1>10, <2>1
<1> QED BY <1>9, <1>10

\* Who is ahead.
LEMMA AheadStrict ==
    ASSUME NEW mass, IsMass(mass)
    PROVE  /\ \A g \in DOMAIN mass : ~Ahead(mass, g, g)
           /\ \A g, h, k \in DOMAIN mass : Ahead(mass, g, h) /\ Ahead(mass, h, k) => Ahead(mass, g, k)
           /\ \A g, h \in DOMAIN mass : g = h \/ Ahead(mass, g, h) \/ Ahead(mass, h, g)
<1>1. \A g \in DOMAIN mass : mass[g] \in Nat /\ g \in Nat
    BY DEF IsMass
<1>2. \A g \in DOMAIN mass : ~Ahead(mass, g, g)
    BY <1>1 DEF Ahead
<1>3. ASSUME NEW g \in DOMAIN mass, NEW h \in DOMAIN mass, NEW k \in DOMAIN mass,
             Ahead(mass, g, h), Ahead(mass, h, k)
      PROVE  Ahead(mass, g, k)
    <2>1. PICK x, y, z \in Nat : x = mass[g] /\ y = mass[h] /\ z = mass[k]
        BY <1>1
    <2>2. g \in Nat /\ h \in Nat /\ k \in Nat
        BY <1>1
    <2>3. (x > y \/ (x = y /\ g < h)) /\ (y > z \/ (y = z /\ h < k))
        BY <1>3, <2>1 DEF Ahead
    <2>4. x > z \/ (x = z /\ g < k)
        BY ONLY <2>2, <2>3, x \in Nat, y \in Nat, z \in Nat
    <2> QED BY <2>1, <2>4 DEF Ahead
<1>4. ASSUME NEW g \in DOMAIN mass, NEW h \in DOMAIN mass
      PROVE  g = h \/ Ahead(mass, g, h) \/ Ahead(mass, h, g)
    <2>1. PICK x, y \in Nat : x = mass[g] /\ y = mass[h]
        BY <1>1
    <2>2. g \in Nat /\ h \in Nat
        BY <1>1
    <2>3. g = h \/ (x > y \/ (x = y /\ g < h)) \/ (y > x \/ (y = x /\ h < g))
        BY ONLY <2>2, x \in Nat, y \in Nat
    <2> QED BY <2>1, <2>3 DEF Ahead
<1> QED BY <1>2, <1>3, <1>4

\* Who has no more than another within top-k is paid no more.
LEMMA PaidMonotone ==
    ASSUME NEW mass, IsMass(mass), hyper \in Hyper, NEW g \in TopOf(mass), NEW h \in TopOf(mass),
           mass[h] <= mass[g]
    PROVE  Paid(mass, h) <= Paid(mass, g)
<1>1. PICK x, y \in Nat : x = mass[h] /\ y = mass[g]
    BY TopKIs
<1>2. PICK most : most = hyper.max_fraction * Pot(mass)
    OBVIOUS
<1>3. most \in Nat
    BY <1>2, TopKIs DEF Hyper, Share
<1>4. x <= y
    BY <1>1
<1>5. (IF Capped /\ 4 * x > most THEN most ELSE 4 * x) <= (IF Capped /\ 4 * y > most THEN most ELSE 4 * y)
    <2>1. CASE Capped
        BY ONLY <1>3, <1>4, <2>1, x \in Nat, y \in Nat
    <2>2. CASE ~Capped
        BY ONLY <1>3, <1>4, <2>2, x \in Nat, y \in Nat
    <2> QED BY <2>1, <2>2
<1> QED BY <1>1, <1>2, <1>5 DEF Paid, Share

\* Top-k passes over nobody who is ahead of one that it keeps.
LEMMA TopInOrder ==
    ASSUME NEW mass, IsMass(mass), hyper \in Hyper, NEW g \in DOMAIN mass, NEW h \in TopOf(mass),
           Ahead(mass, g, h)
    PROVE  g \in TopOf(mass)
<1> DEFINE before(x) == {y \in DOMAIN mass : mass[y] > 0 /\ Ahead(mass, y, x)}
<1>1. h \in DOMAIN mass /\ mass[h] > 0 /\ \A x \in DOMAIN mass : mass[x] \in Nat
    BY DEF TopOf, IsMass
<1>2. mass[g] > 0
    BY <1>1 DEF Ahead
<1>3. before(g) \subseteq before(h)
    BY <1>1, AheadStrict
<1>4. \A x : IsFiniteSet(before(x)) /\ Cardinality(before(x)) \in Nat
    <2> TAKE x
    <2>1. before(x) \subseteq DOMAIN mass /\ IsFiniteSet(DOMAIN mass)
        BY DEF IsMass
    <2> HIDE DEF before
    <2> QED BY <2>1, FS_Subset, FS_CardinalityType
<1>5. Cardinality(before(g)) <= Cardinality(before(h))
    <2> HIDE DEF before
    <2> QED BY <1>3, <1>4, FS_Subset
<1>6. hyper.top_k = 0 \/ Cardinality(before(h)) < hyper.top_k
    BY DEF TopOf
<1>7. hyper.top_k = 0 \/ Cardinality(before(g)) < hyper.top_k
    <2> HIDE DEF before
    <2>1. hyper.top_k \in Nat
        BY DEF Hyper
    <2> QED BY <1>4, <1>5, <1>6, <2>1
<1> QED BY <1>2, <1>7 DEF TopOf

\* The largest share, and nobody loses who is within the cap.
LEMMA CapMovesDown ==
    ASSUME NEW mass, IsMass(mass), hyper \in Hyper, NEW h \in TopOf(mass)
    PROVE  /\ \E top \in TopOf(mass) :
                 Paid(mass, h) * Pot(mass) <= mass[top] * SumOver(PaidOut(mass), TopOf(mass))
           /\ Share * mass[h] <= hyper.max_fraction * Pot(mass) =>
                 mass[h] * SumOver(PaidOut(mass), TopOf(mass)) <= Paid(mass, h) * Pot(mass)
<1> DEFINE K == TopOf(mass)
           B == Pot(mass)
           A == SumOver(PaidOut(mass), K)
           f == hyper.max_fraction
           most == f * B
<1>1. IsFiniteSet(K) /\ B \in Nat /\ f \in Nat /\ most \in Nat
         /\ \A g \in K : mass[g] \in Nat /\ mass[g] > 0
    BY TopKIs DEF Hyper, Share
<1>2. \A g \in K : PaidOut(mass)[g] = Paid(mass, g) /\ Paid(mass, g) \in Nat
    BY FinalizeIs DEF PaidOut
<1>3. A \in Nat
    BY <1>1, <1>2, SumType
<1>4. \A g \in K : Paid(mass, g) = IF Capped /\ 4 * mass[g] > most THEN most ELSE 4 * mass[g]
    BY DEF Paid, Share
<1>5. B = SumOver(mass, K)
    BY DEF Pot
<1> HIDE DEF K, B, A, f, most
<1>6. A <= 4 * B
    <2>1. \A g \in K : 1 * PaidOut(mass)[g] <= 4 * mass[g]
        <3> TAKE g \in K
        <3>1. mass[g] \in Nat
            BY <1>1
        <3>2. Paid(mass, g) <= 4 * mass[g]
            BY <1>1, <1>4, <3>1
        <3> QED BY <1>2, <3>2
    <2>2. 1 * SumOver(PaidOut(mass), K) <= 4 * SumOver(mass, K)
        BY <1>1, <1>2, <2>1, SumScaled
    <2> QED BY <1>3, <1>5, <2>2 DEF A
<1>7. PICK x \in Nat : x = mass[h]
    BY <1>1 DEF K
<1>8. h \in K
    BY DEF K
<1>9. ASSUME 4 * mass[h] <= most PROVE mass[h] * A <= Paid(mass, h) * B
    <2>1. Paid(mass, h) = 4 * x
        BY <1>1, <1>4, <1>7, <1>8, <1>9
    <2>2. x * A <= x * (4 * B)
        BY ONLY <1>1, <1>3, <1>6, x \in Nat
    <2>3. x * (4 * B) = (4 * x) * B
        BY ONLY <1>1, x \in Nat
    <2> QED BY <1>7, <2>1, <2>2, <2>3
<1>10. \E top \in K : Paid(mass, h) * B <= mass[top] * A
    <2>1. PICK top \in K : \A g \in K : mass[g] <= mass[top]
        <3> DEFINE S == {mass[g] : g \in K}
        <3>1. S \in SUBSET Nat /\ S # {}
            BY <1>1, <1>8
        <3>2. IsFiniteSet(S)
            <4>1. [g \in K |-> mass[g]] \in Surjection(K, S)
                BY DEF Surjection
            <4> QED BY <1>1, <4>1, FS_Surjection
        <3>3. PICK n \in S : \A m \in S : m <= n
            <4> HIDE DEF S
            <4> QED BY <3>1, <3>2, GreatestOfFinite
        <3> QED BY <3>3
    <2>2. PICK t \in Nat : t = mass[top]
        BY <1>1
    <2>3. PICK p \in Nat : p = Paid(mass, h)
        BY <1>2, <1>8
    <2>4. x <= t /\ p <= 4 * x
        <3>1. x <= t
            BY <1>7, <1>8, <2>1, <2>2
        <3>2. p <= 4 * x
            BY <1>1, <1>4, <1>7, <1>8, <2>3
        <3> QED BY <3>1, <3>2
    <2>5. CASE Capped /\ 4 * t > most
        <3>1. \A g \in K : most * mass[g] <= t * PaidOut(mass)[g]
            <4> TAKE g \in K
            <4>1. PICK y \in Nat : y = mass[g]
                BY <1>1
            <4>2. PaidOut(mass)[g] = IF 4 * y > most THEN most ELSE 4 * y
                BY <1>2, <1>4, <2>5, <4>1
            <4>3. y <= t
                BY <2>1, <2>2, <4>1
            <4>4. CASE 4 * y > most
                <5>1. most * y <= t * most
                    BY ONLY <1>1, <4>3, y \in Nat, t \in Nat
                <5> QED BY <4>1, <4>2, <4>4, <5>1
            <4>5. CASE ~(4 * y > most)
                <5>1. most <= 4 * t
                    BY ONLY <1>1, <2>5, t \in Nat
                <5>2. most * y <= (4 * t) * y
                    BY ONLY <1>1, <5>1, y \in Nat, t \in Nat
                <5>3. (4 * t) * y = t * (4 * y)
                    BY ONLY y \in Nat, t \in Nat
                <5> QED BY <4>1, <4>2, <4>5, <5>2, <5>3
            <4> QED BY <4>4, <4>5
        <3>2. most * B <= t * A
            BY <1>1, <1>2, <1>5, <3>1, SumScaled DEF A
        <3>3. p <= most
            BY <1>1, <1>4, <1>7, <1>8, <2>3, <2>5
        <3>4. p * B <= most * B
            BY ONLY <1>1, <3>3, p \in Nat
        <3>5. p * B \in Nat /\ most * B \in Nat /\ t * A \in Nat
            BY ONLY <1>1, <1>3, p \in Nat, t \in Nat
        <3>6. p * B <= t * A
            BY ONLY <3>2, <3>4, <3>5
        <3> QED BY <2>2, <2>3, <3>6
    <2>6. CASE ~(Capped /\ 4 * t > most)
        <3>1. \A g \in K : 4 * mass[g] <= 1 * PaidOut(mass)[g]
            <4> TAKE g \in K
            <4>1. PICK y \in Nat : y = mass[g]
                BY <1>1
            <4>2. y <= t
                BY <2>1, <2>2, <4>1
            <4>3. ~(Capped /\ 4 * y > most)
                BY <1>1, <2>6, <4>2
            <4>4. PaidOut(mass)[g] = 4 * y
                BY <1>2, <1>4, <4>1, <4>3
            <4> QED BY <4>1, <4>4
        <3>2. 4 * B <= 1 * A
            BY <1>1, <1>2, <1>5, <3>1, SumScaled DEF A
        <3>3. 4 * B <= A
            BY <1>1, <1>3, <3>2
        <3>4. p <= 4 * t
            BY <2>4
        <3>5. p * B <= (4 * t) * B /\ (4 * t) * B = t * (4 * B) /\ t * (4 * B) <= t * A
            BY ONLY <1>1, <1>3, <3>3, <3>4, p \in Nat, t \in Nat
        <3>6. p * B \in Nat /\ t * A \in Nat /\ t * (4 * B) \in Nat
            BY ONLY <1>1, <1>3, p \in Nat, t \in Nat
        <3>7. p * B <= t * A
            BY ONLY <3>5, <3>6
        <3> QED BY <2>2, <2>3, <3>7
    <2> QED BY <2>5, <2>6
<1> QED BY <1>9, <1>10 DEF K, B, A, f, most, Share

\* The same map, but for one hotkey that has more in it.
Raised(mass, more, h) ==
    /\ IsMass(mass) /\ IsMass(more) /\ DOMAIN more = DOMAIN mass
    /\ h \in DOMAIN mass /\ mass[h] <= more[h]
    /\ \A g \in DOMAIN mass : g # h => more[g] = mass[g]

\* One who is within top-k and gets more does not change who is within it.
LEMMA TopRaised ==
    ASSUME NEW mass, NEW more, NEW h, Raised(mass, more, h), hyper \in Hyper, h \in TopOf(mass)
    PROVE  TopOf(more) = TopOf(mass)
<1> DEFINE D == DOMAIN mass
           old(x) == {y \in D : mass[y] > 0 /\ Ahead(mass, y, x)}
           new(x) == {y \in D : more[y] > 0 /\ Ahead(more, y, x)}
           k == hyper.top_k
<1>1. /\ IsMass(mass) /\ IsMass(more) /\ DOMAIN more = D /\ h \in D /\ mass[h] <= more[h]
      /\ \A g \in D : g # h => more[g] = mass[g]
    BY DEF Raised
<1>2. \A g \in D : mass[g] \in Nat /\ more[g] \in Nat /\ g \in Nat
    BY <1>1 DEF IsMass
<1>3. k \in Nat
    BY DEF Hyper
<1>4. /\ TopOf(mass) = {x \in D : mass[x] > 0 /\ (k = 0 \/ Cardinality(old(x)) < k)}
      /\ TopOf(more) = {x \in D : more[x] > 0 /\ (k = 0 \/ Cardinality(new(x)) < k)}
    BY <1>1 DEF TopOf
<1>5. mass[h] > 0 /\ more[h] > 0
    BY <1>1, <1>2, <1>4
<1>6. \A x : /\ IsFiniteSet(old(x)) /\ Cardinality(old(x)) \in Nat
             /\ IsFiniteSet(new(x)) /\ Cardinality(new(x)) \in Nat
    <2> TAKE x
    <2>1. old(x) \subseteq D /\ new(x) \subseteq D /\ IsFiniteSet(D)
        BY <1>1 DEF IsMass
    <2> HIDE DEF old, new, D
    <2> QED BY <2>1, FS_Subset, FS_CardinalityType
<1>7. \A x \in D : mass[x] > 0 <=> more[x] > 0
    BY <1>1, <1>5
\* h is never behind where it was.
<1>8. ASSUME NEW x \in D, x # h
      PROVE  /\ \A y \in D : y # h => (y \in new(x) <=> y \in old(x))
             /\ h \in old(x) => h \in new(x)
             /\ x \in new(h) => x \in old(h)
    <2>1. PICK a, b, c \in Nat : a = mass[h] /\ b = more[h] /\ c = mass[x]
        BY <1>2, <1>1
    <2>2. more[x] = c /\ a <= b /\ h \in Nat /\ x \in Nat
        BY <1>1, <1>2, <1>8, <2>1
    <2>3. \A y \in D : y # h => (y \in new(x) <=> y \in old(x))
        BY <1>1, <1>8 DEF Ahead
    <2>4. h \in old(x) => h \in new(x)
        <3>1. (a > c \/ (a = c /\ h < x)) => (b > c \/ (b = c /\ h < x))
            BY ONLY <2>2, a \in Nat, b \in Nat, c \in Nat
        <3> QED BY <1>1, <1>5, <2>1, <2>2, <3>1 DEF Ahead
    <2>5. x \in new(h) => x \in old(h)
        <3>1. (c > b \/ (c = b /\ x < h)) => (c > a \/ (c = a /\ x < h))
            BY ONLY <2>2, a \in Nat, b \in Nat, c \in Nat
        <3> QED BY <1>1, <1>7, <2>1, <2>2, <3>1 DEF Ahead
    <2> QED BY <2>3, <2>4, <2>5
<1>9. \A x \in D : x # h => old(x) \subseteq new(x) /\ new(x) \subseteq old(x) \cup {h}
    <2> TAKE x \in D
    <2> HAVE x # h
    <2>1. old(x) \subseteq D /\ new(x) \subseteq D
        OBVIOUS
    <2> HIDE DEF old, new, D
    <2> QED BY <1>8, <2>1
<1>10. new(h) \subseteq old(h)
    <2>1. \A y \in new(h) : y \in D /\ y # h
        BY <1>1, AheadStrict
    <2> HIDE DEF old, new, D
    <2> QED BY <1>8, <2>1
<1>11. k = 0 \/ Cardinality(old(h)) < k
    BY <1>4
<1>12. k = 0 \/ Cardinality(new(h)) < k
    <2> HIDE DEF old, new, k
    <2>1. Cardinality(new(h)) <= Cardinality(old(h))
        BY <1>6, <1>10, FS_Subset
    <2> QED BY <1>3, <1>6, <1>11, <2>1
<1>13. ASSUME NEW x \in D, x # h, mass[x] > 0, k = 0 \/ Cardinality(old(x)) < k
       PROVE  k = 0 \/ Cardinality(new(x)) < k
    <2>1. CASE h \in old(x)
        <3>1. new(x) = old(x)
            <4> HIDE DEF old, new
            <4> QED BY <1>9, <1>13, <2>1
        <3> HIDE DEF old, new, k
        <3> QED BY <1>13, <3>1
    <2>2. CASE h \notin old(x)
        <3>1. Ahead(mass, x, h)
            BY <1>1, <1>5, <1>13, <2>2, AheadStrict
        <3>2. old(x) \cup {x} \subseteq old(h)
            BY <1>1, <1>13, <3>1, AheadStrict
        <3>3. x \notin old(x)
            BY <1>1, AheadStrict
        <3> HIDE DEF old, new, k
        <3>4. Cardinality(old(x) \cup {x}) = Cardinality(old(x)) + 1
            BY <1>6, <3>3, FS_AddElement
        <3>5. Cardinality(old(x)) + 1 <= Cardinality(old(h))
            BY <1>6, <3>2, <3>4, FS_Subset
        <3>6. Cardinality(old(x) \cup {h}) = Cardinality(old(x)) + 1 /\ IsFiniteSet(old(x) \cup {h})
            BY <1>6, <2>2, FS_AddElement
        <3>7. Cardinality(new(x)) <= Cardinality(old(x)) + 1
            BY <1>9, <1>13, <3>6, FS_Subset
        <3>8. Cardinality(new(x)) <= Cardinality(old(h))
            BY <1>6, <3>5, <3>7
        <3> QED BY <1>3, <1>6, <1>11, <3>8
    <2> QED BY <2>1, <2>2
<1>14. ASSUME NEW x \in D, x # h, k = 0 \/ Cardinality(new(x)) < k
       PROVE  k = 0 \/ Cardinality(old(x)) < k
    <2> HIDE DEF old, new, k
    <2>1. Cardinality(old(x)) <= Cardinality(new(x))
        BY <1>6, <1>9, <1>14, FS_Subset
    <2> QED BY <1>3, <1>6, <1>14, <2>1
<1>15. \A x \in D : x \in TopOf(more) <=> x \in TopOf(mass)
    <2> TAKE x \in D
    <2>1. CASE x = h
        <3> HIDE DEF old, new, k, D
        <3> QED BY <1>1, <1>4, <1>5, <1>12, <2>1
    <2>2. CASE x # h
        <3> HIDE DEF old, new, k, D
        <3> QED BY <1>4, <1>7, <1>13, <1>14, <2>2
    <2> QED BY <2>1, <2>2
<1>16. TopOf(more) \subseteq D /\ TopOf(mass) \subseteq D
    BY <1>4
<1> QED BY <1>15, <1>16

\* What a and b are to x and y: each is the smaller of four times a part and a share
\* of the whole, and the share of the whole grows less than the part does.
LEMMA CapRatio ==
    ASSUME NEW b \in Nat, NEW bb \in Nat, NEW c \in Nat, NEW m \in Nat, NEW mm \in Nat,
           b <= bb, m <= mm, b * mm <= bb * m
    PROVE  (IF 4 * b > m THEN m ELSE 4 * b) * (IF 4 * c > mm THEN mm ELSE 4 * c)
             <= (IF 4 * bb > mm THEN mm ELSE 4 * bb) * (IF 4 * c > m THEN m ELSE 4 * c)
<1> DEFINE p == IF 4 * b > m THEN m ELSE 4 * b
           q == IF 4 * c > mm THEN mm ELSE 4 * c
<1>1. p \in Nat /\ q \in Nat /\ p <= m /\ p <= 4 * b /\ q <= mm /\ q <= 4 * c
    OBVIOUS
<1> HIDE DEF p, q
<1>2. \A s, t \in Nat : p <= s /\ q <= t => p * q <= s * t
    <2> TAKE s, t \in Nat
    <2> HAVE p <= s /\ q <= t
    <2>1. p * q <= s * q /\ s * q <= s * t
        BY ONLY <1>1, p <= s, q <= t, s \in Nat, t \in Nat
    <2>2. p * q \in Nat /\ s * q \in Nat /\ s * t \in Nat
        BY ONLY <1>1, s \in Nat, t \in Nat
    <2> QED BY ONLY <2>1, <2>2
<1>3. p * q <= mm * m
    <2>1. p * q <= m * mm
        BY <1>1, <1>2
    <2> QED BY <2>1
<1>4. p * q <= mm * (4 * c)
    <2>1. p <= mm /\ 4 * c \in Nat
        BY <1>1
    <2> QED BY <1>1, <1>2, <2>1
<1>5. p * q <= (4 * bb) * (4 * c)
    <2>1. p <= 4 * bb /\ 4 * c \in Nat /\ 4 * bb \in Nat
        BY <1>1
    <2> QED BY <1>1, <1>2, <2>1
<1>6. p * q <= (4 * bb) * m
    <2>1. 4 * b \in Nat
        OBVIOUS
    <2>2. p * q <= (4 * b) * mm
        BY <1>1, <1>2, <2>1
    <2>3. (4 * b) * mm = 4 * (b * mm) /\ (4 * bb) * m = 4 * (bb * m) /\ b * mm \in Nat /\ bb * m \in Nat
        BY ONLY b \in Nat, bb \in Nat, m \in Nat, mm \in Nat
    <2>4. 4 * (b * mm) <= 4 * (bb * m)
        BY ONLY <2>3, b * mm <= bb * m
    <2>5. p * q \in Nat
        BY ONLY <1>1
    <2> QED BY ONLY <2>2, <2>3, <2>4, <2>5
<1> QED BY <1>3, <1>4, <1>5, <1>6 DEF p, q

\* One who is within top-k and gets more is paid more, and a larger part of what is paid.
LEMMA PaidRaised ==
    ASSUME NEW mass, NEW more, NEW h, Raised(mass, more, h), hyper \in Hyper, h \in TopOf(mass)
    PROVE  /\ Paid(mass, h) <= Paid(more, h)
           /\ Paid(mass, h) * SumOver(PaidOut(more), TopOf(mass))
                <= Paid(more, h) * SumOver(PaidOut(mass), TopOf(mass))
<1> DEFINE K == TopOf(mass)
           f == hyper.max_fraction
           S == SumOver(mass, K \ {h})
           m == f * Pot(mass)
           mm == f * Pot(more)
<1>1. TopOf(more) = K
    BY TopRaised
<1>2. IsMass(mass) /\ IsMass(more) /\ mass[h] <= more[h] /\ \A g \in K : g # h => more[g] = mass[g]
    BY TopKIs DEF Raised
<1>3. IsFiniteSet(K) /\ \A g \in K : mass[g] \in Nat /\ more[g] \in Nat
    BY <1>1, <1>2, TopKIs
<1>4. f \in Nat /\ h \in K
    BY DEF Hyper, Share
<1> HIDE DEF K, f
<1>5. S \in Nat /\ Pot(mass) = S + mass[h] /\ Pot(more) = S + more[h]
    <2>1. IsFiniteSet(K \ {h}) /\ \A g \in K \ {h} : mass[g] \in Nat /\ more[g] = mass[g]
        BY <1>2, <1>3, FS_RemoveElement
    <2>2. SumOver(more, K \ {h}) = S /\ S \in Nat
        BY <2>1, SumEqual, SumType
    <2>3. SumOver(mass, K) = S + mass[h] /\ SumOver(more, K) = SumOver(more, K \ {h}) + more[h]
        BY <1>3, <1>4, SumSplit
    <2> QED BY <1>1, <2>2, <2>3 DEF Pot, K
<1> HIDE DEF S
<1>6. PICK b, bb \in Nat : b = mass[h] /\ bb = more[h]
    BY <1>3, <1>4
<1>7. m \in Nat /\ mm \in Nat /\ m <= mm /\ b * mm <= bb * m /\ b <= bb
    <2>1. b <= bb /\ Pot(mass) = S + b /\ Pot(more) = S + bb
        BY <1>2, <1>5, <1>6
    <2>2. m = f * S + f * b /\ mm = f * S + f * bb
        BY <1>4, <1>5, <2>1
    <2>3. f * b <= f * bb /\ f * b \in Nat /\ f * bb \in Nat /\ f * S \in Nat
        BY ONLY <1>4, <1>5, <2>1, b \in Nat, bb \in Nat
    <2>4. m <= mm /\ m \in Nat /\ mm \in Nat
        BY ONLY <2>2, <2>3
    <2>5. b * (f * S + f * bb) = (f * S) * b + f * (b * bb) /\ bb * (f * S + f * b) = (f * S) * bb + f * (b * bb)
        BY ONLY <1>4, <1>5, b \in Nat, bb \in Nat
    <2>6. (f * S) * b <= (f * S) * bb
        BY ONLY <2>1, <2>3, b \in Nat, bb \in Nat
    <2>7. (f * S) * b \in Nat /\ (f * S) * bb \in Nat /\ f * (b * bb) \in Nat
        BY ONLY <1>4, <2>3, b \in Nat, bb \in Nat
    <2>8. b * (f * S + f * bb) <= bb * (f * S + f * b)
        BY ONLY <2>5, <2>6, <2>7
    <2> QED BY <2>1, <2>2, <2>4, <2>8
<1>8. \A g \in K : /\ Paid(mass, g) = IF Capped /\ 4 * mass[g] > m THEN m ELSE 4 * mass[g]
                   /\ Paid(more, g) = IF Capped /\ 4 * more[g] > mm THEN mm ELSE 4 * more[g]
    BY DEF Paid, Share, f
<1>9. \A g \in K : /\ PaidOut(mass)[g] = Paid(mass, g) /\ Paid(mass, g) \in Nat
                   /\ PaidOut(more)[g] = Paid(more, g) /\ Paid(more, g) \in Nat
    BY <1>1, <1>2, FinalizeIs DEF PaidOut, K
<1> HIDE DEF m, mm
<1>10. Paid(mass, h) <= Paid(more, h)
    <2>1. (IF Capped /\ 4 * b > m THEN m ELSE 4 * b) <= (IF Capped /\ 4 * bb > mm THEN mm ELSE 4 * bb)
        <3>1. CASE Capped
            BY ONLY <1>7, <3>1, b \in Nat, bb \in Nat
        <3>2. CASE ~Capped
            BY ONLY <1>7, <3>2, b \in Nat, bb \in Nat
        <3> QED BY <3>1, <3>2
    <2> QED BY <1>4, <1>6, <1>8, <2>1
<1>11. ASSUME NEW g \in K
       PROVE  Paid(mass, h) * PaidOut(more)[g] <= Paid(more, h) * PaidOut(mass)[g]
    <2>1. CASE g = h
        <3>1. Paid(mass, h) * Paid(more, h) = Paid(more, h) * Paid(mass, h)
            BY <1>4, <1>9
        <3>2. Paid(mass, h) * Paid(more, h) \in Nat
            BY <1>4, <1>9
        <3> QED BY <1>4, <1>9, <2>1, <3>1, <3>2
    <2>2. CASE g # h
        <3>1. PICK c \in Nat : c = mass[g] /\ c = more[g]
            BY <1>2, <1>3, <2>2
        <3>2. CASE Capped
            <4>1. (IF 4 * b > m THEN m ELSE 4 * b) * (IF 4 * c > mm THEN mm ELSE 4 * c)
                    <= (IF 4 * bb > mm THEN mm ELSE 4 * bb) * (IF 4 * c > m THEN m ELSE 4 * c)
                BY ONLY <1>7, CapRatio, b \in Nat, bb \in Nat, c \in Nat
            <4>2. /\ Paid(mass, h) = IF 4 * b > m THEN m ELSE 4 * b
                  /\ Paid(more, h) = IF 4 * bb > mm THEN mm ELSE 4 * bb
                  /\ PaidOut(mass)[g] = IF 4 * c > m THEN m ELSE 4 * c
                  /\ PaidOut(more)[g] = IF 4 * c > mm THEN mm ELSE 4 * c
                BY <1>4, <1>6, <1>8, <1>9, <3>1, <3>2
            <4> QED BY <4>1, <4>2
        <3>3. CASE ~Capped
            <4>1. Paid(mass, h) = 4 * b /\ Paid(more, h) = 4 * bb
                     /\ PaidOut(mass)[g] = 4 * c /\ PaidOut(more)[g] = 4 * c
                BY <1>4, <1>6, <1>8, <1>9, <3>1, <3>3
            <4>2. 4 * b <= 4 * bb /\ 4 * b \in Nat /\ 4 * bb \in Nat /\ 4 * c \in Nat
                BY ONLY <1>7, b \in Nat, bb \in Nat, c \in Nat
            <4>3. (4 * b) * (4 * c) <= (4 * bb) * (4 * c)
                BY ONLY <4>2
            <4> QED BY <4>1, <4>3
        <3> QED BY <3>2, <3>3
    <2> QED BY <2>1, <2>2
<1>12. Paid(mass, h) * SumOver(PaidOut(more), K) <= Paid(more, h) * SumOver(PaidOut(mass), K)
    BY <1>3, <1>4, <1>9, <1>11, SumScaled
<1> QED BY <1>10, <1>12 DEF K

\* The rows of the window: their masses, and which of them are of one hotkey.
MassOf(list) == [i \in DOMAIN InWindow(list) |-> Damped(InWindow(list)[i])]
RowsOf(list, h) == {i \in DOMAIN InWindow(list) : Owner[InWindow(list)[i].attempt] = h}
OwnersOf(list) == {Owner[InWindow(list)[i].attempt] : i \in DOMAIN InWindow(list)}
Depth(n) == Min({hyper.score_window, n})

\* The window is the end of the list.
LEMMA WindowIs ==
    ASSUME NEW list \in Seq(ScoreRow), hyper \in Hyper
    PROVE  /\ Depth(Len(list)) \in 0..Len(list)
           /\ DOMAIN InWindow(list) = 1..Depth(Len(list))
           /\ \A i \in DOMAIN InWindow(list) :
                 /\ (Len(list) - Depth(Len(list))) + i \in DOMAIN list
                 /\ InWindow(list)[i] = list[(Len(list) - Depth(Len(list))) + i]
                 /\ InWindow(list)[i] \in ScoreRow
<1> DEFINE n == Len(list)
           d == Depth(n)
<1>1. n \in Nat /\ DOMAIN list = 1..n /\ hyper.score_window \in Nat
    BY DEF Hyper
<1>2. d \in 0..n
    <2>1. PICK s \in Nat : s = hyper.score_window
        BY <1>1
    <2>2. \E x \in {s, n} : \A y \in {s, n} : x <= y
        <3>1. s <= n \/ n <= s
            BY <1>1
        <3> QED BY <1>1, <3>1
    <2>3. Min({s, n}) \in {s, n} /\ \A y \in {s, n} : Min({s, n}) <= y
        BY <2>2 DEF Min
    <2>4. Min({s, n}) \in Nat /\ Min({s, n}) <= n
        BY <1>1, <2>3
    <2> QED BY <1>1, <2>1, <2>4 DEF Depth
<1>3. InWindow(list) = SubSeq(list, (n - d) + 1, n)
    BY DEF InWindow, Depth
<1> HIDE DEF n, d
<1>4. InWindow(list) = [i \in 1..d |-> list[(n - d) + i]]
    <2>1. \A i \in 1..d : (i + ((n - d) + 1)) - 1 = (n - d) + i
        BY <1>1, <1>2
    <2>2. (n - ((n - d) + 1)) + 1 = d
        BY <1>1, <1>2
    <2>3. (n - d) + 1 \in 1..(n + 1)
        BY <1>1, <1>2
    <2>4. InWindow(list) \in Seq(ScoreRow) /\ Len(InWindow(list)) = d
             /\ \A i \in 1..d : InWindow(list)[i] = list[(n - d) + i]
        BY <1>1, <1>2, <1>3, <2>1, <2>2, <2>3
    <2>5. InWindow(list) = [i \in 1..d |-> InWindow(list)[i]]
        BY <2>4
    <2> QED BY <2>4, <2>5
<1>5. \A i \in 1..d : (n - d) + i \in 1..n
    BY <1>1, <1>2
<1>6. \A i \in 1..n : list[i] \in ScoreRow
    BY <1>1
<1> QED BY <1>1, <1>2, <1>4, <1>5, <1>6 DEF n, d

\* What a row counts, and what it counts when it is not flagged.
LEMMA DampedIs ==
    ASSUME NEW row \in ScoreRow, hyper \in Hyper
    PROVE  /\ Damped(row) \in Nat
           /\ [row EXCEPT !.self_deal = FALSE] \in ScoreRow
           /\ [row EXCEPT !.self_deal = FALSE].attempt = row.attempt
           /\ Damped(row) <= Damped([row EXCEPT !.self_deal = FALSE])
<1>1. PICK c \in Nat, k \in 0..2 : c = row.composite /\ k = hyper.damping
    BY DEF ScoreRow, Hyper, Whole
<1>2. row.self_deal \in BOOLEAN
    BY DEF ScoreRow
<1>3. [row EXCEPT !.self_deal = FALSE] \in ScoreRow
         /\ [row EXCEPT !.self_deal = FALSE].attempt = row.attempt
         /\ [row EXCEPT !.self_deal = FALSE].composite = c
         /\ [row EXCEPT !.self_deal = FALSE].self_deal = FALSE
    BY <1>1 DEF ScoreRow
<1>4. Damped([row EXCEPT !.self_deal = FALSE]) = c * 2
    BY <1>3 DEF Damped, Whole
<1>5. Damped(row) = c * (IF row.self_deal THEN 2 - k ELSE 2)
    BY <1>1 DEF Damped, Whole
<1>6. c * (2 - k) <= c * 2 /\ c * (2 - k) \in Nat /\ c * 2 \in Nat
    <2>1. k = 0 \/ k = 1 \/ k = 2
        BY <1>1
    <2> QED BY <2>1
<1> QED BY <1>2, <1>3, <1>4, <1>5, <1>6

\* The aggregates are sums over the rows of a hotkey.
LEMMA AggregatesIs ==
    ASSUME NEW list \in Seq(ScoreRow), hyper \in Hyper
    PROVE  /\ Aggregates(list) = [h \in OwnersOf(list) |-> SumOver(MassOf(list), RowsOf(list, h))]
           /\ \A i \in DOMAIN InWindow(list) : MassOf(list)[i] \in Nat
           /\ \A h : IsFiniteSet(RowsOf(list, h))
           /\ IsMass(Aggregates(list))
<1>1. Aggregates(list) = [h \in OwnersOf(list) |-> SumOver(MassOf(list), RowsOf(list, h))]
    BY DEF Aggregates, OwnersOf, MassOf, RowsOf, SumOver
<1>2. \A i \in DOMAIN InWindow(list) : MassOf(list)[i] \in Nat
    BY WindowIs, DampedIs DEF MassOf
<1>3. IsFiniteSet(DOMAIN InWindow(list))
    <2>1. Depth(Len(list)) \in Nat /\ DOMAIN InWindow(list) = 1..Depth(Len(list))
        BY WindowIs
    <2> QED BY <2>1, FS_Interval
<1>4. \A h : IsFiniteSet(RowsOf(list, h)) /\ RowsOf(list, h) \subseteq DOMAIN InWindow(list)
    <2> TAKE h
    <2>1. RowsOf(list, h) \subseteq DOMAIN InWindow(list)
        BY DEF RowsOf
    <2> QED BY <1>3, <2>1, FS_Subset
<1>5. \A h : SumOver(MassOf(list), RowsOf(list, h)) \in Nat
    <2> TAKE h
    <2>1. \A i \in RowsOf(list, h) : MassOf(list)[i] \in Nat
        BY <1>2, <1>4
    <2> QED BY <1>4, <2>1, SumType
<1>6. OwnersOf(list) \subseteq Nat
    BY WindowIs, IncentiveAssumption DEF OwnersOf, ScoreRow
<1>7. IsFiniteSet(OwnersOf(list))
    <2>1. [i \in DOMAIN InWindow(list) |-> Owner[InWindow(list)[i].attempt]]
             \in Surjection(DOMAIN InWindow(list), OwnersOf(list))
        BY DEF Surjection, OwnersOf
    <2> QED BY <1>3, <2>1, FS_Surjection
<1>8. IsMass(Aggregates(list))
    <2>1. DOMAIN Aggregates(list) = OwnersOf(list)
        BY <1>1
    <2>2. Aggregates(list) \in [OwnersOf(list) -> Nat]
        BY <1>1, <1>5
    <2> QED BY <1>6, <1>7, <2>1, <2>2 DEF IsMass
<1> QED BY <1>1, <1>2, <1>4, <1>8

\* The mass that is paid for is the aggregates' that is not 0.
LEMMA MassMapIs ==
    ASSUME NEW list \in Seq(ScoreRow), hyper \in Hyper
    PROVE  /\ IsMass(MassMap(list))
           /\ DOMAIN MassMap(list) = {h \in DOMAIN Aggregates(list) : Aggregates(list)[h] > 0}
           /\ \A h \in DOMAIN MassMap(list) : MassMap(list)[h] = Aggregates(list)[h]
<1>1. PICK mass : mass = Aggregates(list)
    OBVIOUS
<1>2. IsMass(mass)
    BY <1>1, AggregatesIs
<1> DEFINE P == {h \in DOMAIN mass : mass[h] > 0}
<1>3. MassMap(list) = [h \in P |-> mass[h]]
    <2>1. DOMAIN mass \cap P = P
        OBVIOUS
    <2> QED BY <1>1, <2>1 DEF MassMap, clamp_mass_map, Kept
<1>4. P \subseteq DOMAIN mass /\ IsFiniteSet(P)
    <2>1. P \subseteq DOMAIN mass /\ IsFiniteSet(DOMAIN mass)
        BY <1>2 DEF IsMass
    <2> HIDE DEF P
    <2> QED BY <2>1, FS_Subset
<1>5. IsMass(MassMap(list))
    <2>1. \A h \in P : mass[h] \in Nat /\ h \in Nat
        BY <1>2, <1>4 DEF IsMass
    <2>2. DOMAIN MassMap(list) = P /\ MassMap(list) \in [P -> Nat]
        <3> HIDE DEF P
        <3> QED BY <1>3, <2>1
    <2> HIDE DEF P
    <2> QED BY <1>4, <2>1, <2>2 DEF IsMass
<1> QED BY <1>1, <1>3, <1>5

\* What a map is finalized to is a map again.
LEMMA FinalizeIsMass ==
    ASSUME NEW mass, IsMass(mass), NEW unit, hyper \in Hyper
    PROVE  IsMass(Finalize(mass, unit).w)
<1>1. PICK w : w = Finalize(mass, unit).w
    OBVIOUS
<1>2. w = [h \in TopOf(mass) |-> Paid(mass, h)] /\ \A h \in TopOf(mass) : Paid(mass, h) \in Nat
    BY <1>1, FinalizeIs DEF PaidOut
<1>3. IsFiniteSet(TopOf(mass)) /\ TopOf(mass) \subseteq Nat
    BY TopKIs DEF IsMass
<1> QED BY <1>1, <1>2, <1>3 DEF IsMass
-----------------------------------------------------------------------------
(* The settings, the score rows and the snapshot.                           *)

\* The inductive invariant: typed settings and rows, and a served map of mass.
IncentiveInv ==
    /\ hyper \in Hyper
    /\ scores \in Seq(ScoreRow)
    /\ IsMass(snapshot.weights.w)

\* Initially.
LEMMA IncentiveInvInit == IncentiveInit => IncentiveInv
<1> SUFFICES ASSUME IncentiveInit PROVE IncentiveInv
    OBVIOUS
<1>1. hyper \in Hyper /\ scores = << >>
    BY IncentiveAssumption DEF IncentiveInit
<1>2. snapshot.weights.w = NoMass /\ DOMAIN NoMass = {} /\ NoMass \in [{} -> Nat]
    BY DEF IncentiveInit, NoSnapshot, Vacant, NoMass
<1>3. IsMass(NoMass)
    BY <1>2, FS_EmptySet DEF IsMass
<1> QED BY <1>1, <1>2, <1>3 DEF IncentiveInv

\* What is emitted of a map of mass is one.
LEMMA BuiltIsMass ==
    ASSUME NEW by, NEW raw, NEW weights, IsMass(weights.w), IsMass(snapshot.weights.w),
           Build(by, raw, weights)
    PROVE  IsMass(snapshot'.weights.w)
<1> DEFINE S == DOMAIN weights.w \cap Ss58
           emitted == filter_ss58_weights(weights.w)
<1>1. emitted = [h \in S |-> weights.w[h]]
    BY DEF filter_ss58_weights, Kept
<1>2. IsFiniteSet(S) /\ S \subseteq Nat
    <2>1. IsFiniteSet(DOMAIN weights.w) /\ DOMAIN weights.w \subseteq Nat
        BY DEF IsMass
    <2> QED BY <2>1, FS_Subset
<1>3. \A h \in S : weights.w[h] \in Nat
    BY DEF IsMass
<1> HIDE DEF S
<1>4. IsMass(emitted)
    BY <1>1, <1>2, <1>3 DEF IsMass
<1>5. snapshot' = snapshot \/ snapshot'.weights.w = emitted
    BY DEF Build
<1> HIDE DEF emitted
<1> QED BY <1>4, <1>5

\* A step.
LEMMA IncentiveInvStep == IncentiveInv /\ [IncentiveNext]_incentiveVars => IncentiveInv'
<1> SUFFICES ASSUME IncentiveInv, [IncentiveNext]_incentiveVars PROVE IncentiveInv'
    OBVIOUS
<1>1. hyper \in Hyper /\ scores \in Seq(ScoreRow) /\ IsMass(snapshot.weights.w)
    BY DEF IncentiveInv
<1>2. ASSUME NEW a \in Attempts, NEW composite \in Composites, SealScore(a, composite)
      PROVE  IncentiveInv'
    <2>1. PICK row : row = [attempt |-> a, composite |-> composite, self_deal |-> a \in SelfDeals]
        OBVIOUS
    <2>2. row \in ScoreRow
        BY <2>1, IncentiveAssumption DEF ScoreRow
    <2>3. scores' \in Seq(ScoreRow)
        <3>1. CASE {i \in DOMAIN scores : scores[i].attempt = a} # {}
            <4>1. scores' = [i \in DOMAIN scores |->
                     IF i \in {j \in DOMAIN scores : scores[j].attempt = a} THEN row ELSE scores[i]]
                BY <1>2, <2>1, <3>1 DEF SealScore
            <4>2. DOMAIN scores = 1..Len(scores) /\ Len(scores) \in Nat /\ \A i \in DOMAIN scores : scores[i] \in ScoreRow
                BY <1>1
            <4>3. scores' \in [1..Len(scores) -> ScoreRow]
                BY <2>2, <4>1, <4>2
            <4> QED BY <4>2, <4>3
        <3>2. CASE {i \in DOMAIN scores : scores[i].attempt = a} = {}
            <4>1. PICK n \in Nat : n = Len(scores)
                BY <1>1
            <4>2. PICK i \in 1..(n + 1) : scores' = InsertAt(scores, i, row)
                BY <1>2, <2>1, <3>2, <4>1 DEF SealScore
            <4>3. scores' = SubSeq(scores, 1, i - 1) \o <<row>> \o SubSeq(scores, i, Len(scores))
                BY <4>2 DEF InsertAt
            <4>4. SubSeq(scores, 1, i - 1) \in Seq(ScoreRow) /\ SubSeq(scores, i, Len(scores)) \in Seq(ScoreRow)
                BY <1>1, <4>1
            <4>5. <<row>> \in Seq(ScoreRow)
                BY <2>2
            <4> QED BY <4>3, <4>4, <4>5
        <3> QED BY <3>1, <3>2
    <2>4. UNCHANGED <<hyper, snapshot>>
        BY <1>2 DEF SealScore
    <2> QED BY <1>1, <2>3, <2>4 DEF IncentiveInv, IsMass
<1>3. CASE BuildSnapshot
    <2>1. UNCHANGED <<hyper, scores>>
        BY <1>3 DEF BuildSnapshot
    <2>2. Build("loop", loop.raw, Weights(scores))
        BY <1>3 DEF BuildSnapshot
    <2>3. IsMass(Weights(scores).w)
        BY <1>1, MassMapIs, FinalizeIsMass DEF Weights
    <2> QED BY <1>1, <2>1, <2>2, <2>3, BuiltIsMass DEF IncentiveInv
<1>4. CASE Republish
    <2>1. UNCHANGED <<hyper, scores>>
        BY <1>4 DEF Republish
    <2>2. IsMass(Served.w)
        <3>1. IsMass(Weights(scores).w)
            BY <1>1, MassMapIs, FinalizeIsMass DEF Weights
        <3> QED BY <1>1, <3>1 DEF Served
    <2>3. Build("command", Served.w, Finalize(Served.w, Served.total))
        BY <1>4 DEF Republish
    <2>4. IsMass(Finalize(Served.w, Served.total).w)
        BY <1>1, <2>2, FinalizeIsMass
    <2> QED BY <1>1, <2>1, <2>3, <2>4, BuiltIsMass DEF IncentiveInv
<1>5. CASE ReadMass \/ UNCHANGED incentiveVars
    <2>1. UNCHANGED <<hyper, scores, snapshot>>
        BY <1>5 DEF ReadMass, incentiveVars
    <2> QED BY <1>1, <2>1 DEF IncentiveInv, IsMass
<1> QED BY <1>2, <1>3, <1>4, <1>5 DEF IncentiveNext

\* The masses and the settings are what they should be.
LEMMA IncentiveInvAlways == IncentiveSpec => []IncentiveInv
BY IncentiveInvInit, IncentiveInvStep, PTL DEF IncentiveSpec

\* The leaderboard names who has a mass, each ahead of the next.
LEMMA LeaderboardIs ==
    ASSUME NEW list \in Seq(ScoreRow), hyper \in Hyper
    PROVE  /\ \A i \in DOMAIN Leaderboard(list) : Leaderboard(list)[i] \in DOMAIN Aggregates(list)
           /\ \A i, j \in DOMAIN Leaderboard(list) :
                 i < j => Ahead(Aggregates(list), Leaderboard(list)[i], Leaderboard(list)[j])
<1>1. PICK mass : mass = Aggregates(list)
    OBVIOUS
<1>2. IsMass(mass) /\ IsFiniteSet(DOMAIN mass)
    BY <1>1, AggregatesIs DEF IsMass
<1> DEFINE n == Cardinality(DOMAIN mass)
           R == {p \in (DOMAIN mass) \X (DOMAIN mass) : Ahead(mass, p[1], p[2])}
           Board(board) == \A i, j \in DOMAIN board : i < j => Ahead(mass, board[i], board[j])
<1>3. StrictOrder(R, DOMAIN mass)
    <2>1. \A g, h \in DOMAIN mass : <<g, h>> \in R <=> Ahead(mass, g, h)
        BY DEF Ahead
    <2> HIDE DEF R
    <2> QED BY <1>2, <2>1, AheadStrict DEF StrictOrder
<1>4. \E order : Sorts(order, DOMAIN mass, R)
    <2> HIDE DEF R
    <2> QED BY <1>2, <1>3, SortExists
<1>5. \E board \in [1..n -> DOMAIN mass] : Board(board)
    <2>1. PICK order : Sorts(order, DOMAIN mass, R)
        BY <1>4
    <2>2. order \in [1..n -> DOMAIN mass] /\ \A i, j \in 1..n : i < j => <<order[i], order[j]>> \in R
        BY <2>1 DEF Sorts
    <2>3. Board(order)
        BY <2>2
    <2> QED BY <2>2, <2>3
<1>6. PICK chosen : chosen = CHOOSE board \in [1..n -> DOMAIN mass] : Board(board)
    OBVIOUS
<1>7. Leaderboard(list) = chosen
    BY <1>1, <1>6 DEF Leaderboard
<1>8. chosen \in [1..n -> DOMAIN mass] /\ Board(chosen)
    <2> HIDE DEF Board, n
    <2> QED BY <1>5, <1>6
<1> QED BY <1>1, <1>7, <1>8

\* The weights of the scores.
LEMMA WeightsAre ==
    ASSUME NEW list \in Seq(ScoreRow), hyper \in Hyper, NEW mass, mass = MassMap(list)
    PROVE  /\ IsMass(mass)
           /\ DOMAIN Weights(list).w = TopOf(mass)
           /\ \A h \in TopOf(mass) : Weights(list).w[h] = Paid(mass, h) /\ Paid(mass, h) \in Nat
           /\ Weights(list).total =
                IF TopOf(mass) = {} THEN 0
                ELSE IF hyper.normalize THEN SumOver(PaidOut(mass), TopOf(mass)) ELSE 8
           /\ TopOf(mass) # {} => Weights(list).total \in Nat /\ Weights(list).total > 0
<1>1. IsMass(mass)
    BY MassMapIs
<1>2. Weights(list) = Finalize(mass, Whole) /\ Share * Whole = 8
    BY DEF Weights, Share, Whole
<1>3. /\ DOMAIN Weights(list).w = TopOf(mass)
      /\ \A h \in TopOf(mass) : /\ Weights(list).w[h] = Paid(mass, h)
                                /\ Paid(mass, h) \in Nat /\ Paid(mass, h) > 0
      /\ Weights(list).total =
           IF TopOf(mass) = {} THEN 0
           ELSE IF hyper.normalize THEN SumOver(PaidOut(mass), TopOf(mass)) ELSE 8
    BY <1>1, <1>2, FinalizeIs
<1>4. ASSUME NEW h \in TopOf(mass)
      PROVE  SumOver(PaidOut(mass), TopOf(mass)) \in Nat /\ SumOver(PaidOut(mass), TopOf(mass)) > 0
    <2>1. IsFiniteSet(TopOf(mass))
        BY <1>1, TopKIs
    <2>2. \A g \in TopOf(mass) : PaidOut(mass)[g] \in Nat /\ PaidOut(mass)[g] > 0
        BY <1>3 DEF PaidOut
    <2>3. PaidOut(mass)[h] <= SumOver(PaidOut(mass), TopOf(mass))
        BY <2>1, <2>2, TermAtMostSum
    <2>4. SumOver(PaidOut(mass), TopOf(mass)) \in Nat
        BY <2>1, <2>2, SumType
    <2> QED BY <2>2, <2>3, <2>4
<1> QED BY <1>1, <1>3, <1>4

\* Who is ahead on the leaderboard has at least the weight of who is behind.
LEMMA RanksAgreeIn == ASSUME IncentiveInv PROVE RanksAgree
<1>1. scores \in Seq(ScoreRow) /\ hyper \in Hyper
    BY DEF IncentiveInv
<1>2. PICK mass : mass = MassMap(scores)
    OBVIOUS
<1>3. PICK board : board = Leaderboard(scores)
    OBVIOUS
<1>4. PICK weights : weights = Weights(scores)
    OBVIOUS
<1>5. /\ IsMass(mass) /\ DOMAIN weights.w = TopOf(mass)
      /\ \A h \in TopOf(mass) : weights.w[h] = Paid(mass, h) /\ Paid(mass, h) \in Nat
      /\ TopOf(mass) # {} => weights.total \in Nat /\ weights.total > 0
    BY <1>1, <1>2, <1>4, WeightsAre
<1>6. SUFFICES ASSUME NEW i \in DOMAIN board, NEW j \in DOMAIN board, i < j, board[j] \in DOMAIN weights.w
      PROVE  board[i] \in DOMAIN weights.w /\ AtMost(weights, board[j], weights, board[i])
    BY <1>3, <1>4 DEF RanksAgree
<1>7. PICK g, h : g = board[i] /\ h = board[j]
    OBVIOUS
<1>8. Ahead(Aggregates(scores), g, h) /\ g \in DOMAIN Aggregates(scores)
    BY <1>1, <1>3, <1>6, <1>7, LeaderboardIs
<1>9. h \in TopOf(mass)
    BY <1>5, <1>6, <1>7
<1>10. h \in DOMAIN mass /\ mass[h] > 0
    BY <1>9 DEF TopOf
<1>11. g \in DOMAIN mass /\ Ahead(mass, g, h) /\ mass[h] <= mass[g]
    <2>1. /\ IsMass(Aggregates(scores))
          /\ DOMAIN mass = {x \in DOMAIN Aggregates(scores) : Aggregates(scores)[x] > 0}
          /\ \A x \in DOMAIN mass : mass[x] = Aggregates(scores)[x]
        BY <1>1, <1>2, MassMapIs, AggregatesIs
    <2>2. \A x \in DOMAIN Aggregates(scores) : Aggregates(scores)[x] \in Nat
        BY <2>1 DEF IsMass
    <2>3. PICK x, y \in Nat : x = Aggregates(scores)[g] /\ y = Aggregates(scores)[h]
        BY <1>8, <1>10, <2>1, <2>2
    <2>4. y > 0 /\ (x > y \/ (x = y /\ g < h))
        BY <1>8, <1>10, <2>1, <2>3 DEF Ahead
    <2>5. x > 0 /\ y <= x
        BY <2>4
    <2>6. g \in DOMAIN mass /\ mass[g] = x /\ mass[h] = y
        BY <1>8, <1>10, <2>1, <2>3, <2>5
    <2> QED BY <2>4, <2>5, <2>6 DEF Ahead
<1>12. g \in TopOf(mass)
    BY <1>1, <1>5, <1>9, <1>11, TopInOrder
<1>13. Paid(mass, h) <= Paid(mass, g)
    BY <1>1, <1>5, <1>9, <1>11, <1>12, PaidMonotone
<1>14. AtMost(weights, h, weights, g)
    <2>1. W(weights, h) = Paid(mass, h) /\ W(weights, g) = Paid(mass, g) /\ weights.total \in Nat /\ weights.total # 0
        BY <1>5, <1>9, <1>12 DEF W
    <2>2. Paid(mass, h) \in Nat /\ Paid(mass, g) \in Nat
        BY <1>5, <1>9, <1>12
    <2>3. Paid(mass, h) * weights.total <= Paid(mass, g) * weights.total
        BY ONLY <1>13, <2>1, <2>2
    <2> QED BY <2>1, <2>3 DEF AtMost
<1> QED BY <1>5, <1>7, <1>12, <1>14

\* The cap moves share from the largest to the smaller ones.
LEMMA CapIsFairIn == ASSUME IncentiveInv PROVE CapIsFair
<1>1. hyper \in Hyper /\ IsMass(MassMap(scores)) /\ IsMass(snapshot.weights.w)
    BY MassMapIs DEF IncentiveInv
<1>2. ASSUME hyper.normalize, NEW mass, IsMass(mass), NEW h \in DOMAIN Uncapped(mass).w
      PROVE  /\ \E top \in DOMAIN Uncapped(mass).w : AtMost(Finalize(mass, 1), h, Uncapped(mass), top)
             /\ Share * Uncapped(mass).w[h] <= hyper.max_fraction * Uncapped(mass).total =>
                   AtMost(Uncapped(mass), h, Finalize(mass, 1), h)
    <2> DEFINE K == TopOf(mass)
               A == SumOver(PaidOut(mass), K)
    <2>1. PICK before : before = Uncapped(mass)
        OBVIOUS
    <2>2. PICK after : after = Finalize(mass, 1)
        OBVIOUS
    <2>3. IsFiniteSet(K) /\ (\A g \in K : mass[g] \in Nat /\ mass[g] > 0) /\ Pot(mass) \in Nat
        BY <1>2, TopKIs
    <2>4. DOMAIN before.w = K /\ (\A g \in K : before.w[g] = mass[g]) /\ before.total = Pot(mass)
        <3>1. PICK kept : kept = TopK(clamp_mass_map(mass))
            OBVIOUS
        <3>2. kept = [g \in K |-> mass[g]]
            BY <1>2, <3>1, TopKIs
        <3>3. DOMAIN kept = K /\ \A g \in K : kept[g] = mass[g]
            BY <3>2
        <3>4. before.w = kept /\ before.total = SumOf(kept)
            BY <2>1, <3>1 DEF Uncapped
        <3>5. SumOf(kept) = SumOver(kept, K)
            BY <3>3 DEF SumOf, SumOver
        <3>6. SumOver(kept, K) = Pot(mass)
            <4>1. \A g \in K : mass[g] \in Nat /\ kept[g] = mass[g]
                BY <2>3, <3>3
            <4>2. SumOver(mass, K) = SumOver(kept, K)
                <5> HIDE DEF K
                <5> QED BY <2>3, <4>1, SumEqual
            <4> QED BY <4>2 DEF Pot
        <3> QED BY <3>3, <3>4, <3>5, <3>6
    <2>5. h \in K
        BY <1>2, <2>1, <2>4
    <2>6. /\ DOMAIN after.w = K /\ after.total = A
          /\ \A g \in K : after.w[g] = Paid(mass, g) /\ Paid(mass, g) \in Nat /\ Paid(mass, g) > 0
        BY <1>1, <1>2, <2>2, <2>5, FinalizeIs
    <2>7. Pot(mass) # 0 /\ A # 0 /\ A \in Nat
        <3>1. mass[h] <= Pot(mass)
            BY <2>3, <2>5, TermAtMostSum DEF Pot
        <3>2. \A g \in K : PaidOut(mass)[g] = Paid(mass, g) /\ PaidOut(mass)[g] \in Nat
            BY <2>6 DEF PaidOut
        <3>3. PaidOut(mass)[h] <= A /\ A \in Nat
            <4> HIDE DEF K
            <4> QED BY <2>3, <2>5, <3>2, TermAtMostSum, SumType
        <3>4. PaidOut(mass)[h] > 0 /\ PaidOut(mass)[h] \in Nat /\ mass[h] > 0 /\ mass[h] \in Nat
            BY <2>3, <2>5, <2>6, <3>2
        <3> HIDE DEF A, K
        <3> QED BY <2>3, <3>1, <3>3, <3>4
    <2>8. PICK top \in K : Paid(mass, h) * Pot(mass) <= mass[top] * A
        BY <1>1, <1>2, <2>5, CapMovesDown
    <2>9. Share * mass[h] <= hyper.max_fraction * Pot(mass) => mass[h] * A <= Paid(mass, h) * Pot(mass)
        BY <1>1, <1>2, <2>5, CapMovesDown
    <2>10. \A g \in K : W(before, g) = mass[g] /\ W(after, g) = Paid(mass, g)
        BY <2>4, <2>6 DEF W
    <2> HIDE DEF K, A
    <2>11. AtMost(after, h, before, top)
        BY <2>4, <2>5, <2>6, <2>7, <2>8, <2>10 DEF AtMost
    <2>12. Share * before.w[h] <= hyper.max_fraction * before.total => AtMost(before, h, after, h)
        BY <2>4, <2>5, <2>6, <2>7, <2>9, <2>10 DEF AtMost
    <2> QED BY <2>1, <2>2, <2>4, <2>11, <2>12
<1> QED BY <1>1, <1>2 DEF CapIsFair

\* What would be if a hotkey's attempts were not flagged: its mass is at least
\* what it is, and nobody else's changes.
LEMMA HonestRaises ==
    ASSUME IncentiveInv, NEW h \in DOMAIN MassMap(scores)
    PROVE  Honest(h) \in Seq(ScoreRow) /\ Raised(MassMap(scores), MassMap(Honest(h)), h)
<1>1. scores \in Seq(ScoreRow) /\ hyper \in Hyper
    BY DEF IncentiveInv
<1>2. PICK list : list = Honest(h)
    OBVIOUS
<1>3. PICK n \in Nat : n = Len(scores) /\ DOMAIN scores = 1..n
    BY <1>1
<1>4. DOMAIN list = 1..n /\ \A i \in 1..n :
          list[i] = IF Owner[scores[i].attempt] = h THEN [scores[i] EXCEPT !.self_deal = FALSE] ELSE scores[i]
    BY <1>2, <1>3 DEF Honest
<1>5. \A i \in 1..n : scores[i] \in ScoreRow
    BY <1>1, <1>3
<1>6. \A i \in 1..n : list[i] \in ScoreRow /\ list[i].attempt = scores[i].attempt
         /\ Damped(scores[i]) \in Nat /\ Damped(scores[i]) <= Damped(list[i])
         /\ (Owner[scores[i].attempt] # h => list[i] = scores[i])
    <2> TAKE i \in 1..n
    <2>1. /\ Damped(scores[i]) \in Nat
          /\ [scores[i] EXCEPT !.self_deal = FALSE] \in ScoreRow
          /\ [scores[i] EXCEPT !.self_deal = FALSE].attempt = scores[i].attempt
          /\ Damped(scores[i]) <= Damped([scores[i] EXCEPT !.self_deal = FALSE])
        BY <1>1, <1>5, DampedIs
    <2>2. CASE Owner[scores[i].attempt] = h
        <3>1. list[i] = [scores[i] EXCEPT !.self_deal = FALSE]
            BY <1>4, <2>2
        <3> QED BY <2>1, <2>2, <3>1
    <2>3. CASE Owner[scores[i].attempt] # h
        <3>1. list[i] = scores[i]
            BY <1>4, <2>3
        <3> QED BY <1>5, <2>1, <2>3, <3>1
    <2> QED BY <2>2, <2>3
<1>7. list \in Seq(ScoreRow) /\ Len(list) = n
    <2>1. list = [i \in 1..n |-> list[i]]
        BY <1>2, <1>3, <1>4 DEF Honest
    <2>2. list \in [1..n -> ScoreRow]
        BY <1>6, <2>1
    <2> QED BY <2>2
<1> DEFINE D == DOMAIN InWindow(scores)
           d == Depth(n)
<1>8. /\ DOMAIN InWindow(list) = D
      /\ \A i \in D : /\ (n - d) + i \in 1..n
                      /\ InWindow(scores)[i] = scores[(n - d) + i]
                      /\ InWindow(list)[i] = list[(n - d) + i]
    BY <1>1, <1>3, <1>7, WindowIs
<1>9. \A i \in D : /\ InWindow(list)[i].attempt = InWindow(scores)[i].attempt
                   /\ Damped(InWindow(scores)[i]) \in Nat
                   /\ Damped(InWindow(scores)[i]) <= Damped(InWindow(list)[i])
                   /\ Owner[InWindow(scores)[i].attempt] # h => InWindow(list)[i] = InWindow(scores)[i]
    <2> HIDE DEF D, d
    <2> QED BY <1>6, <1>8
<1> HIDE DEF d
<1>10. OwnersOf(list) = OwnersOf(scores) /\ \A g : RowsOf(list, g) = RowsOf(scores, g)
    BY <1>8, <1>9 DEF OwnersOf, RowsOf
<1>11. PICK old, new : old = Aggregates(scores) /\ new = Aggregates(list)
    OBVIOUS
<1>12. /\ old = [g \in OwnersOf(scores) |-> SumOver(MassOf(scores), RowsOf(scores, g))]
       /\ new = [g \in OwnersOf(scores) |-> SumOver(MassOf(list), RowsOf(scores, g))]
       /\ \A i \in D : MassOf(scores)[i] \in Nat /\ MassOf(list)[i] \in Nat
       /\ \A g : IsFiniteSet(RowsOf(scores, g)) /\ RowsOf(scores, g) \subseteq D
       /\ IsMass(old) /\ IsMass(new)
    <2>1. \A g : RowsOf(scores, g) \subseteq D
        BY DEF RowsOf
    <2> HIDE DEF D
    <2>2. new = [g \in OwnersOf(list) |-> SumOver(MassOf(list), RowsOf(list, g))]
        BY <1>1, <1>7, <1>11, AggregatesIs
    <2>3. new = [g \in OwnersOf(scores) |-> SumOver(MassOf(list), RowsOf(scores, g))]
        BY <1>10, <2>2
    <2>4. \A i \in D : MassOf(scores)[i] \in Nat /\ MassOf(list)[i] \in Nat
        BY <1>1, <1>7, <1>8, AggregatesIs DEF D
    <2> QED BY <1>1, <1>7, <1>11, <2>1, <2>3, <2>4, AggregatesIs
<1>13. \A i \in D : /\ MassOf(scores)[i] <= MassOf(list)[i]
                    /\ Owner[InWindow(scores)[i].attempt] # h => MassOf(list)[i] = MassOf(scores)[i]
    BY <1>8, <1>9 DEF MassOf
<1>14. DOMAIN new = DOMAIN old
    BY <1>12
<1>15. \A g \in DOMAIN old : g # h => new[g] = old[g]
    <2> TAKE g \in DOMAIN old
    <2> HAVE g # h
    <2>1. \A i \in RowsOf(scores, g) : MassOf(scores)[i] \in Nat /\ MassOf(list)[i] = MassOf(scores)[i]
        BY <1>12, <1>13 DEF RowsOf
    <2>2. SumOver(MassOf(scores), RowsOf(scores, g)) = SumOver(MassOf(list), RowsOf(scores, g))
        BY <1>12, <2>1, SumEqual
    <2> QED BY <1>12, <2>2
<1>16. MassMap(scores) = MassMap(scores) /\ h \in DOMAIN old /\ old[h] > 0
    BY <1>1, <1>11, MassMapIs
<1>17. old[h] <= new[h]
    <2>1. \A i \in RowsOf(scores, h) : MassOf(scores)[i] \in Nat /\ MassOf(list)[i] \in Nat
                                          /\ MassOf(scores)[i] <= MassOf(list)[i]
        BY <1>12, <1>13
    <2>2. SumOver(MassOf(scores), RowsOf(scores, h)) <= SumOver(MassOf(list), RowsOf(scores, h))
        BY <1>12, <2>1, SumMonotone
    <2> QED BY <1>12, <1>16, <2>2
<1>18. \A g \in DOMAIN old : old[g] \in Nat /\ new[g] \in Nat
    BY <1>12, <1>14 DEF IsMass
<1>19. /\ IsMass(MassMap(scores)) /\ DOMAIN MassMap(scores) = {g \in DOMAIN old : old[g] > 0}
       /\ \A g \in DOMAIN MassMap(scores) : MassMap(scores)[g] = old[g]
       /\ IsMass(MassMap(list)) /\ DOMAIN MassMap(list) = {g \in DOMAIN new : new[g] > 0}
       /\ \A g \in DOMAIN MassMap(list) : MassMap(list)[g] = new[g]
    BY <1>1, <1>7, <1>11, MassMapIs
<1>20. \A g \in DOMAIN old : old[g] > 0 <=> new[g] > 0
    BY <1>15, <1>16, <1>17, <1>18
<1>21. DOMAIN MassMap(list) = DOMAIN MassMap(scores)
    BY <1>14, <1>19, <1>20
<1>22. Raised(MassMap(scores), MassMap(list), h)
    BY <1>15, <1>17, <1>19, <1>21 DEF Raised
<1> QED BY <1>2, <1>7, <1>22

\* No hotkey has a larger share for having its attempts flagged.
LEMMA SelfDealNeverPaysIn == ASSUME IncentiveInv PROVE SelfDealNeverPays
<1>1. scores \in Seq(ScoreRow) /\ hyper \in Hyper
    BY DEF IncentiveInv
<1>2. SUFFICES ASSUME NEW h \in Hotkeys PROVE AtMost(Weights(scores), h, Weights(Honest(h)), h)
    BY DEF SelfDealNeverPays
<1>3. PICK mass, v, w : mass = MassMap(scores) /\ v = Weights(scores) /\ w = Weights(Honest(h))
    OBVIOUS
<1>4. /\ IsMass(mass) /\ DOMAIN v.w = TopOf(mass)
      /\ \A g \in TopOf(mass) : v.w[g] = Paid(mass, g) /\ Paid(mass, g) \in Nat
      /\ v.total = IF TopOf(mass) = {} THEN 0
                   ELSE IF hyper.normalize THEN SumOver(PaidOut(mass), TopOf(mass)) ELSE 8
      /\ TopOf(mass) # {} => v.total \in Nat /\ v.total > 0
    BY <1>1, <1>3, WeightsAre
<1>5. CASE h \in TopOf(mass)
    <2>1. h \in DOMAIN MassMap(scores)
        BY <1>3, <1>5 DEF TopOf
    <2>2. PICK more : more = MassMap(Honest(h))
        OBVIOUS
    <2>3. Honest(h) \in Seq(ScoreRow) /\ Raised(mass, more, h)
        BY <1>3, <2>1, <2>2, HonestRaises
    <2>4. /\ DOMAIN w.w = TopOf(more)
          /\ \A g \in TopOf(more) : w.w[g] = Paid(more, g) /\ Paid(more, g) \in Nat
          /\ w.total = IF TopOf(more) = {} THEN 0
                       ELSE IF hyper.normalize THEN SumOver(PaidOut(more), TopOf(more)) ELSE 8
          /\ TopOf(more) # {} => w.total \in Nat /\ w.total > 0
        BY <1>1, <1>3, <2>2, <2>3, WeightsAre
    <2>5. TopOf(more) = TopOf(mass)
        BY <1>1, <1>5, <2>3, TopRaised
    <2>6. /\ Paid(mass, h) <= Paid(more, h)
          /\ Paid(mass, h) * SumOver(PaidOut(more), TopOf(mass))
               <= Paid(more, h) * SumOver(PaidOut(mass), TopOf(mass))
        BY <1>1, <1>5, <2>3, PaidRaised
    <2>7. W(v, h) = Paid(mass, h) /\ W(w, h) = Paid(more, h) /\ Paid(mass, h) \in Nat /\ Paid(more, h) \in Nat
        BY <1>4, <1>5, <2>4, <2>5 DEF W
    <2>8. v.total # 0 /\ w.total # 0
        BY <1>4, <1>5, <2>4, <2>5
    <2>9. Paid(mass, h) * w.total <= Paid(more, h) * v.total
        <3>1. CASE hyper.normalize
            BY <1>4, <1>5, <2>4, <2>5, <2>6, <3>1
        <3>2. CASE ~hyper.normalize
            <4>1. v.total = 8 /\ w.total = 8
                BY <1>4, <1>5, <2>4, <2>5, <3>2
            <4>2. Paid(mass, h) * 8 <= Paid(more, h) * 8
                BY ONLY <2>6, <2>7
            <4> QED BY <4>1, <4>2
        <3> QED BY <3>1, <3>2
    <2> QED BY <1>3, <2>7, <2>8, <2>9 DEF AtMost
<1>6. CASE h \notin TopOf(mass)
    <2>1. W(v, h) = 0
        BY <1>4, <1>6 DEF W
    <2>2. Honest(h) \in Seq(ScoreRow)
        <3>1. \A i \in DOMAIN scores : scores[i] \in ScoreRow /\ [scores[i] EXCEPT !.self_deal = FALSE] \in ScoreRow
            <4>1. \A i \in DOMAIN scores : scores[i] \in ScoreRow
                BY <1>1
            <4> QED BY <1>1, <4>1, DampedIs
        <3>2. PICK n \in Nat : n = Len(scores) /\ DOMAIN scores = 1..n
            BY <1>1
        <3>3. Honest(h) \in [1..n -> ScoreRow]
            BY <3>1, <3>2 DEF Honest
        <3> QED BY <3>2, <3>3
    <2>3. PICK more : more = MassMap(Honest(h))
        OBVIOUS
    <2>4. /\ DOMAIN w.w = TopOf(more)
          /\ \A g \in TopOf(more) : w.w[g] = Paid(more, g) /\ Paid(more, g) \in Nat
        BY <1>1, <1>3, <2>2, <2>3, WeightsAre
    <2>5. W(w, h) \in Nat
        BY <2>4 DEF W
    <2>6. v.total = 0 \/ v.total \in Nat
        BY <1>4
    <2>7. w.total = 0 \/ w.total \in Nat
        BY <1>1, <1>3, <2>2, <2>3, WeightsAre
    <2>8. v.total = 0 \/ w.total = 0 \/ 0 * w.total <= W(w, h) * v.total
        <3>1. ASSUME NEW a \in Nat, NEW b \in Nat, NEW c \in Nat PROVE 0 * a <= b * c
            <4>1. b * c \in Nat /\ 0 * a = 0
                OBVIOUS
            <4> QED BY <4>1
        <3> QED BY <2>5, <2>6, <2>7, <3>1
    <2> QED BY <1>3, <2>1, <2>8 DEF AtMost
<1> QED BY <1>5, <1>6

\* Who is ahead on the leaderboard has at least the weight of who is behind, and
\* top-k never keeps the one behind without the one ahead, for any scores, window,
\* damping, k and cap (build_leaderboard, apply_top_k, apply_max_fraction).
THEOREM RankingCorrect == IncentiveSpec => []RanksAgree
BY IncentiveInvAlways, RanksAgreeIn, PTL

\* The cap moves share from the largest to the smaller ones only, for every map
\* that goes through the pipeline, the served weights of a snapshot included
\* (apply_max_fraction, normalize_sum_to_unit).
THEOREM CapCorrect == IncentiveSpec => []CapIsFair
BY IncentiveInvAlways, CapIsFairIn, PTL

\* A hotkey never has a larger share for its flags, whatever the damping, top-k,
\* cap and normalisation do to the others (apply_self_deal_damping).
THEOREM SelfDealCorrect == IncentiveSpec => []SelfDealNeverPays
BY IncentiveInvAlways, SelfDealNeverPaysIn, PTL

-----------------------------------------------------------------------------
(* The planner.                                                             *)

\* A selection of the planner: nodes, each once, and how many ranks each takes.
Picks == [node : Nat, ranks : Nat]
Selection(sel) ==
    /\ sel \in Seq(Picks)
    /\ \A i, k \in 1..Len(sel) : sel[i].node = sel[k].node => i = k

\* A rank's node, and its GPU there.
Entry == [node : Nat, local : Nat]

\* The ranks that the first j nodes of a selection take.
RanksOf(sel) == [i \in DOMAIN sel |-> sel[i].ranks]
Before(sel, j) == SumOver(RanksOf(sel), 1..j)

\* A map of the ranks of the first j nodes: rank by rank, one node after the other.
Binds(map, sel, j) ==
    /\ map \in Seq(Entry)
    /\ Len(map) = Before(sel, j)
    /\ \A i \in 1..j : \A k \in 1..sel[i].ranks :
          LET p == Before(sel, i - 1) + k
          IN  p \in 1..Len(map) /\ map[p].node = sel[i].node /\ map[p].local = k - 1
    /\ \A p \in 1..Len(map) : \E i \in 1..j : \E k \in 1..sel[i].ranks :
          p = Before(sel, i - 1) + k

\* The total of a selection is the sum of its ranks.
LEMMA TotalIs ==
    ASSUME NEW sel
    PROVE  Total(sel) = SumOver(RanksOf(sel), DOMAIN sel)
BY DEF Total, SumOver, RanksOf

\* One more node takes its ranks more.
LEMMA BeforeGrows ==
    ASSUME NEW sel \in Seq(Picks), NEW j \in Nat, j + 1 <= Len(sel)
    PROVE  /\ Before(sel, 0) = 0 /\ Before(sel, j) \in Nat
           /\ Before(sel, j + 1) = Before(sel, j) + sel[j + 1].ranks
           /\ sel[j + 1].ranks \in Nat
<1> DEFINE u == RanksOf(sel)
<1>1. Len(sel) \in Nat /\ DOMAIN sel = 1..Len(sel)
    OBVIOUS
<1>2. \A i \in 1..Len(sel) : u[i] \in Nat /\ u[i] = sel[i].ranks
    <2>1. \A i \in 1..Len(sel) : sel[i] \in Picks
        OBVIOUS
    <2> QED BY <1>1, <2>1 DEF RanksOf, Picks
<1>3. /\ \A i \in 1..j : i \in 1..Len(sel)
      /\ j + 1 \in 1..Len(sel) /\ j + 1 \notin 1..j
      /\ 1..(j + 1) = (1..j) \cup {j + 1}
    BY ONLY <1>1, j \in Nat, j + 1 <= Len(sel)
<1>4. IsFiniteSet(1..j) /\ 1..0 = {}
    BY FS_Interval
<1> HIDE DEF u
<1>5. SumOver(u, 1..j) \in Nat
    BY <1>2, <1>3, <1>4, SumType
<1>6. SumOver(u, 1..(j + 1)) = SumOver(u, 1..j) + u[j + 1]
    <2>1. \A h \in (1..j) \cup {j + 1} : u[h] \in Nat
        BY <1>2, <1>3
    <2>2. SumOver(u, (1..j) \cup {j + 1}) = SumOver(u, 1..j) + u[j + 1]
        BY ONLY <1>3, <1>4, <2>1, SumAdd
    <2> QED BY <1>3, <2>2
<1>7. SumOver(u, 1..0) = 0
    BY <1>4, FS_EmptySet, SumType
<1> QED BY <1>2, <1>3, <1>5, <1>6, <1>7 DEF Before, u

\* Two sequences, one behind the other.
Joins(all, s, t) ==
    /\ Len(all) = Len(s) + Len(t)
    /\ \A p \in 1..Len(s) : all[p] = s[p]
    /\ \A k \in 1..Len(t) : all[Len(s) + k] = t[k]

\* What \o gives.
LEMMA Joined ==
    ASSUME NEW X, NEW s \in Seq(X), NEW t \in Seq(X)
    PROVE  s \o t \in Seq(X) /\ Joins(s \o t, s, t)
BY DEF Joins

\* The ranks of one more node follow those of the others.
LEMMA BindsOn ==
    ASSUME NEW sel \in Seq(Picks), NEW j \in Nat, j + 1 <= Len(sel), NEW map, Binds(map, sel, j)
    PROVE  Binds(map \o [k \in 1..sel[j + 1].ranks |-> [node |-> sel[j + 1].node, local |-> k - 1]],
                 sel, j + 1)
<1> DEFINE s == sel[j + 1]
           more == [k \in 1..s.ranks |-> [node |-> s.node, local |-> k - 1]]
           all == map \o more
           B(i) == Before(sel, i)
<1>1. /\ B(j) \in Nat /\ B(j + 1) = B(j) + s.ranks /\ s.ranks \in Nat
    BY BeforeGrows
<1>2. s.node \in Nat
    <2>1. s \in Picks
        <3>1. j + 1 \in 1..Len(sel)
            BY ONLY Len(sel) \in Nat, j \in Nat, j + 1 <= Len(sel)
        <3> QED BY <3>1
    <2> QED BY <2>1 DEF Picks
<1> HIDE DEF s, B
<1>3. /\ more \in Seq(Entry) /\ Len(more) = s.ranks
      /\ \A k \in 1..s.ranks : more[k].node = s.node /\ more[k].local = k - 1
    <2>1. \A k \in 1..s.ranks : [node |-> s.node, local |-> k - 1] \in Entry
        <3> TAKE k \in 1..s.ranks
        <3>1. k - 1 \in Nat
            BY <1>1
        <3> QED BY <1>2, <3>1 DEF Entry
    <2> QED BY <1>1, <2>1
<1> HIDE DEF more
<1>4. /\ map \in Seq(Entry) /\ Len(map) = B(j)
      /\ all \in Seq(Entry) /\ Len(all) = B(j) + s.ranks
      /\ \A p \in 1..B(j) : all[p] = map[p]
      /\ \A k \in 1..s.ranks : all[B(j) + k] = more[k]
    <2>1. map \in Seq(Entry) /\ Len(map) = B(j)
        BY DEF Binds, B
    <2>2. all \in Seq(Entry) /\ Joins(all, map, more)
        <3>1. more \in Seq(Entry)
            BY <1>3
        <3> QED BY ONLY <2>1, <3>1, Joined
    <2> HIDE DEF all
    <2> QED BY <1>3, <2>1, <2>2 DEF Joins
<1> HIDE DEF all
<1>5. ASSUME NEW i \in 1..(j + 1), NEW k \in 1..sel[i].ranks
      PROVE  LET p == B(i - 1) + k
             IN  p \in 1..Len(all) /\ all[p].node = sel[i].node /\ all[p].local = k - 1
    <2>1. CASE i \in 1..j
        <3> DEFINE p == B(i - 1) + k
        <3>1. p \in 1..Len(map) /\ map[p].node = sel[i].node /\ map[p].local = k - 1
            BY <2>1 DEF Binds, B
        <3> HIDE DEF p
        <3>2. p \in 1..B(j) /\ p \in 1..Len(all)
            BY <1>1, <1>4, <3>1
        <3> QED BY <1>4, <3>1, <3>2 DEF p
    <2>2. CASE i = j + 1
        <3>1. i - 1 = j /\ sel[i] = s
            BY <2>2 DEF s
        <3>2. B(j) + k \in 1..Len(all) /\ k \in 1..s.ranks
            BY <1>1, <1>4, <3>1
        <3> QED BY <1>3, <1>4, <3>1, <3>2
    <2> QED BY <2>1, <2>2
<1>6. ASSUME NEW p \in 1..Len(all)
      PROVE  \E i \in 1..(j + 1) : \E k \in 1..sel[i].ranks : p = B(i - 1) + k
    <2>1. CASE p <= B(j)
        <3>1. p \in 1..Len(map)
            BY <1>1, <1>4, <2>1
        <3>a. \A q \in 1..Len(map) : \E i \in 1..j : \E k \in 1..sel[i].ranks : q = B(i - 1) + k
            BY DEF Binds, B
        <3>2. PICK i \in 1..j : \E k \in 1..sel[i].ranks : p = B(i - 1) + k
            BY ONLY <3>a, <3>1
        <3>3. i \in 1..(j + 1)
            OBVIOUS
        <3> QED BY <3>2, <3>3
    <2>2. CASE p > B(j)
        <3> DEFINE k == p - B(j)
        <3>1. k \in 1..s.ranks /\ p = B(j) + k
            BY <1>1, <1>4, <2>2
        <3>2. j + 1 \in 1..(j + 1) /\ (j + 1) - 1 = j
            OBVIOUS
        <3> HIDE DEF k
        <3> QED BY <3>1, <3>2 DEF s
    <2> QED BY <1>1, <1>4, <2>1, <2>2
<1>7. Binds(all, sel, j + 1)
    BY <1>1, <1>4, <1>5, <1>6 DEF Binds, B
<1> QED BY <1>7 DEF all, more, s

\* FlattenSeq goes through the pieces.
Flattens(f, q) ==
    f = [i \in 1..Len(q) |-> IF i = 1 THEN q[i] ELSE f[i - 1] \o q[i]]

\* FlattenSeq goes through such a function.
LEMMA FlattenIs ==
    ASSUME NEW q, Len(q) # 0
    PROVE  FlattenSeq(q) = (CHOOSE f : Flattens(f, q))[Len(q)]
BY DEF FlattenSeq, Flattens

\* _bind_ranks_on_nodes binds every rank of a selection.
LEMMA BindSelection ==
    ASSUME NEW sel \in Seq(Picks), sel # <<>>
    PROVE  Binds(BindRanks(sel), sel, Len(sel))
<1> DEFINE N == Len(sel)
           q == [i \in DOMAIN sel |-> [k \in 1..sel[i].ranks |->
                    [node |-> sel[i].node, local |-> k - 1]]]
<1>1. N \in Nat /\ N # 0 /\ DOMAIN sel = 1..N /\ \A i \in 1..N : sel[i] \in Picks
    OBVIOUS
<1>2. \A i \in 1..N : sel[i].node \in Nat /\ sel[i].ranks \in Nat
    BY <1>1 DEF Picks
<1> HIDE DEF N
<1>3. \A i \in 1..N : q[i] \in Seq(Entry)
    <2> TAKE i \in 1..N
    <2>1. \A k \in 1..sel[i].ranks : [node |-> sel[i].node, local |-> k - 1] \in Entry
        <3> TAKE k \in 1..sel[i].ranks
        <3>1. k - 1 \in Nat
            BY <1>2
        <3> QED BY <1>2, <3>1 DEF Entry
    <2>2. sel[i].ranks \in Nat
        BY <1>2
    <2>3. [k \in 1..sel[i].ranks |-> [node |-> sel[i].node, local |-> k - 1]] \in Seq(Entry)
        BY <2>1, <2>2
    <2> QED BY <1>1, <2>3
<1>4. q \in Seq(Seq(Entry)) /\ Len(q) = N
    BY <1>1, <1>3
<1>5. BindRanks(sel) = FlattenSeq(q)
    BY DEF BindRanks
<1>6. \A i \in 1..N : q[i] = [k \in 1..sel[i].ranks |-> [node |-> sel[i].node, local |-> k - 1]]
    BY <1>1
<1> HIDE DEF q
<1>7. \E g \in [1..N -> Seq(Entry)] : Flattens(g, q)
    <2> DEFINE D == 1..N
               X == Seq(Entry)
               rank == [i \in D |-> i]
               ends == {1}
               base == [i \in D |-> q[i]]
               pred == [i \in D \ ends |-> i - 1]
               step == [i \in D \ ends |-> [s \in X |-> s \o q[i]]]
    <2>1. (\E x \in X : TRUE) /\ rank \in [D -> Nat] /\ ends \in SUBSET D /\ base \in [D -> X]
        BY <1>1, <1>3
    <2>2. pred \in [D \ ends -> D] /\ (\A i \in D \ ends : rank[pred[i]] < rank[i])
        BY <1>1
    <2>3. \A i \in D, s \in X : s \o q[i] \in X
        BY <1>3
    <2>4. step \in [D \ ends -> [X -> X]]
        BY <2>3
    <2>5. N + 1 \in Nat /\ \A i \in D : rank[i] < N + 1
        BY <1>1
    <2>6. Descends(D, X, rank, ends, base, pred, step)
        <3> HIDE DEF D, X, rank, ends, base, pred, step
        <3> QED BY ONLY <2>1, <2>2, <2>4, <2>5 DEF Descends
    <2>7. PICK g \in [D -> X] : Follows(g, D, ends, base, pred, step)
        <3> HIDE DEF D, X, rank, ends, base, pred, step
        <3> QED BY <2>6, Recursion
    <2>8. \A i \in D : g[i] = IF i = 1 THEN q[i] ELSE g[i - 1] \o q[i]
        <3> TAKE i \in D
        <3>1. i # 1 => i - 1 \in D
            BY <1>1
        <3> QED BY <2>7, <3>1 DEF Follows
    <2>9. g = [i \in D |-> g[i]]
        OBVIOUS
    <2>10. g = [i \in D |-> IF i = 1 THEN q[i] ELSE g[i - 1] \o q[i]]
        BY <2>8, <2>9
    <2> QED BY <1>4, <2>10 DEF Flattens
<1>8. PICK f : f = CHOOSE g : Flattens(g, q)
    OBVIOUS
<1>9. \A i \in 1..N : f[i] = IF i = 1 THEN q[i] ELSE f[i - 1] \o q[i]
    <2>1. Flattens(f, q)
        BY <1>7, <1>8
    <2> QED BY <1>4, <2>1 DEF Flattens
<1> DEFINE Q == {j \in Nat : j >= 1 /\ j <= N => Binds(f[j], sel, j)}
<1>10. 0 \in Q
    OBVIOUS
<1>11. ASSUME NEW j \in Nat, j \in Q PROVE j + 1 \in Q
    <2> SUFFICES ASSUME j + 1 <= N PROVE Binds(f[j + 1], sel, j + 1)
        OBVIOUS
    <2>1. j + 1 \in 1..N
        BY ONLY <1>1, j \in Nat, j + 1 <= N
    <2>2. CASE j = 0
        <3>1. f[j + 1] = q[j + 1]
            BY <1>9, <2>1, <2>2
        <3>2. Binds(<<>>, sel, 0)
            <4>1. Before(sel, 0) = 0
                BY <1>1, <2>2, BeforeGrows DEF N
            <4>2. <<>> \in Seq(Entry) /\ Len(<<>>) = 0 /\ 1..0 = {}
                OBVIOUS
            <4> QED BY <4>1, <4>2 DEF Binds
        <3>3. Binds(<<>> \o q[j + 1], sel, j + 1)
            BY <1>6, <2>1, <2>2, <3>2, BindsOn DEF N
        <3>4. <<>> \o q[j + 1] = q[j + 1]
            BY <1>3, <2>1
        <3> QED BY <3>1, <3>3, <3>4
    <2>3. CASE j # 0
        <3>1. f[j + 1] = f[j] \o q[j + 1]
            <4>1. j + 1 # 1 /\ (j + 1) - 1 = j
                BY <2>3
            <4> QED BY <1>9, <2>1, <4>1
        <3>2. Binds(f[j], sel, j)
            <4>1. j >= 1 /\ j <= N
                BY ONLY <1>1, <2>3, j \in Nat, j + 1 <= N
            <4> QED BY <1>11, <4>1
        <3>3. Binds(f[j] \o q[j + 1], sel, j + 1)
            <4>1. PICK map : map = f[j]
                OBVIOUS
            <4>2. j + 1 <= Len(sel) /\ Binds(map, sel, j)
                BY <3>2, <4>1 DEF N
            <4>3. Binds(map \o [k \in 1..sel[j + 1].ranks |-> [node |-> sel[j + 1].node, local |-> k - 1]],
                        sel, j + 1)
                BY ONLY sel \in Seq(Picks), j \in Nat, <4>2, BindsOn
            <4> QED BY <1>6, <2>1, <4>1, <4>3
        <3> QED BY <3>1, <3>3
    <2> QED BY <2>2, <2>3
<1>12. Binds(f[N], sel, N)
    <2>1. Nat \subseteq Q
        <3> HIDE DEF Q
        <3> QED BY <1>10, <1>11, NumberInduction
    <2>2. N >= 1 /\ N <= N
        BY <1>1
    <2>3. N \in Q
        BY <1>1, <2>1
    <2> QED BY <2>2, <2>3
<1> QED BY <1>1, <1>4, <1>5, <1>8, <1>12, FlattenIs DEF N

\* What a map of ranks uses.
NodesOf(map) == {map[p].node : p \in DOMAIN map}
RanksOn(map, n) == {p \in DOMAIN map : map[p].node = n}

\* A node of the map is one of the selection; its ranks count its GPUs from 0.
LaidOut(map, sel) ==
    /\ DOMAIN map = 1..Before(sel, Len(sel)) /\ Len(map) = Before(sel, Len(sel))
    /\ \A n \in NodesOf(map) : \E i \in 1..Len(sel) :
          /\ n = sel[i].node
          /\ Cardinality(RanksOn(map, n)) = sel[i].ranks
          /\ {map[p].local : p \in RanksOn(map, n)} = 0..(Cardinality(RanksOn(map, n)) - 1)
    /\ Cardinality(NodesOf(map)) <= Len(sel)

\* What _bind_ranks_on_nodes makes of a selection is laid out on its nodes.
LEMMA SelectionBound ==
    ASSUME NEW sel, Selection(sel), NEW map, Binds(map, sel, Len(sel))
    PROVE  LaidOut(map, sel)
<1> DEFINE N == Len(sel)
           B(i) == Before(sel, i)
<1>1. /\ sel \in Seq(Picks) /\ N \in Nat /\ DOMAIN sel = 1..N
      /\ \A i, k \in 1..N : sel[i].node = sel[k].node => i = k
    BY DEF Selection
<1> HIDE DEF N
<1>2. \A i \in 1..N : B(i - 1) \in Nat /\ sel[i].ranks \in Nat
    <2> TAKE i \in 1..N
    <2>1. i - 1 \in Nat /\ (i - 1) + 1 = i /\ i <= Len(sel)
        BY <1>1 DEF N
    <2>2. Before(sel, i - 1) \in Nat /\ sel[(i - 1) + 1].ranks \in Nat
        <3>1. (i - 1) + 1 <= Len(sel)
            BY <2>1
        <3> QED BY ONLY <1>1, <2>1, <3>1, BeforeGrows
    <2> QED BY <2>1, <2>2
<1> HIDE DEF B
<1>3. /\ map \in Seq(Entry) /\ DOMAIN map = 1..Len(map) /\ Len(map) = B(N)
      /\ \A i \in 1..N : \A k \in 1..sel[i].ranks :
            B(i - 1) + k \in 1..Len(map) /\ map[B(i - 1) + k].node = sel[i].node
               /\ map[B(i - 1) + k].local = k - 1
      /\ \A p \in 1..Len(map) : \E i \in 1..N : \E k \in 1..sel[i].ranks : p = B(i - 1) + k
    BY DEF Binds, N, B
<1>4. ASSUME NEW i \in 1..N
      PROVE  /\ Cardinality(RanksOn(map, sel[i].node)) = sel[i].ranks
             /\ {map[p].local : p \in RanksOn(map, sel[i].node)} = 0..(sel[i].ranks - 1)
    <2> DEFINE b == B(i - 1)
               r == sel[i].ranks
               on == RanksOn(map, sel[i].node)
    <2>1. b \in Nat /\ r \in Nat
        BY <1>2
    <2>2. \A k \in 1..r : b + k \in on
        BY <1>3 DEF RanksOn
    <2>3. \A p \in on : \E k \in 1..r : p = b + k
        <3> TAKE p \in on
        <3>1. p \in 1..Len(map) /\ map[p].node = sel[i].node
            BY <1>3 DEF RanksOn
        <3>a. \A q \in 1..Len(map) : \E h \in 1..N : \E k \in 1..sel[h].ranks : q = B(h - 1) + k
            BY <1>3
        <3>2. PICK h \in 1..N : \E k \in 1..sel[h].ranks : p = B(h - 1) + k
            BY ONLY <3>a, <3>1
        <3>3. map[p].node = sel[h].node
            BY <1>3, <3>2
        <3>4. h = i
            BY <1>1, <3>1, <3>3
        <3> QED BY <3>2, <3>4
    <2> HIDE DEF b, r, on
    <2>4. on = (b + 1)..(b + r)
        <3>1. \A p \in on : p \in (b + 1)..(b + r)
            BY <2>1, <2>3
        <3>2. \A p \in (b + 1)..(b + r) : p - b \in 1..r /\ b + (p - b) = p
            BY <2>1
        <3>3. \A p \in (b + 1)..(b + r) : p \in on
            <4> TAKE p \in (b + 1)..(b + r)
            <4>1. PICK k \in 1..r : b + k = p
                BY <3>2
            <4> QED BY <2>2, <4>1
        <3> QED BY <3>1, <3>3
    <2>5. Cardinality(on) = r
        <3>1. Cardinality((b + 1)..(b + r)) = IF b + 1 > b + r THEN 0 ELSE (b + r) - (b + 1) + 1
            BY <2>1, FS_Interval
        <3> QED BY <2>1, <2>4, <3>1
    <2>6. {map[p].local : p \in on} = 0..(r - 1)
        <3>1. \A p \in on : map[p].local \in 0..(r - 1)
            <4> TAKE p \in on
            <4>1. PICK k \in 1..r : p = b + k
                BY <2>3
            <4>2. map[p].local = k - 1
                BY <1>3, <4>1 DEF b, r
            <4>3. k - 1 \in 0..(r - 1)
                BY <2>1
            <4> QED BY <4>2, <4>3
        <3>2. \A l \in 0..(r - 1) : l + 1 \in 1..r /\ (l + 1) - 1 = l
            BY <2>1
        <3>3. \A l \in 0..(r - 1) : \E p \in on : map[p].local = l
            <4> TAKE l \in 0..(r - 1)
            <4>1. PICK k \in 1..r : k - 1 = l
                BY <3>2
            <4>2. b + k \in on /\ map[b + k].local = k - 1
                BY <1>3, <2>2, <4>1 DEF b, r
            <4> QED BY <4>1, <4>2
        <3> QED BY <3>1, <3>3
    <2> QED BY <2>5, <2>6 DEF on, r
<1>5. \A n \in NodesOf(map) : \E i \in 1..N : n = sel[i].node
    <2> TAKE n \in NodesOf(map)
    <2>1. PICK p \in 1..Len(map) : n = map[p].node
        BY <1>3 DEF NodesOf
    <2>2. PICK i \in 1..N : \E k \in 1..sel[i].ranks : p = B(i - 1) + k
        BY <1>3
    <2> QED BY <1>3, <2>1, <2>2
<1>6. Cardinality(NodesOf(map)) <= N
    <2> DEFINE T == {sel[i].node : i \in 1..N}
               f == [i \in 1..N |-> sel[i].node]
    <2>1. f \in Surjection(1..N, T)
        BY DEF Surjection
    <2>2. IsFiniteSet(1..N) /\ Cardinality(1..N) = N
        BY <1>1, FS_Interval
    <2> HIDE DEF T, f
    <2>3. IsFiniteSet(T) /\ Cardinality(T) <= N
        BY <2>1, <2>2, FS_Surjection
    <2>4. NodesOf(map) \subseteq T
        BY <1>5 DEF T
    <2>5. Cardinality(NodesOf(map)) <= Cardinality(T)
        BY <2>3, <2>4, FS_Subset
    <2>6. Cardinality(NodesOf(map)) \in Nat /\ Cardinality(T) \in Nat
        BY <2>3, <2>4, FS_Subset, FS_CardinalityType
    <2> QED BY <1>1, <2>3, <2>5, <2>6
<1>7. ASSUME NEW n \in NodesOf(map)
      PROVE  \E i \in 1..N : /\ n = sel[i].node
                             /\ Cardinality(RanksOn(map, n)) = sel[i].ranks
                             /\ {map[p].local : p \in RanksOn(map, n)} = 0..(Cardinality(RanksOn(map, n)) - 1)
    <2>1. PICK i \in 1..N : n = sel[i].node
        BY <1>5
    <2> QED BY <1>4, <2>1
<1> QED BY <1>3, <1>6, <1>7 DEF LaidOut, N, B

\* What the reports of some nodes say.
Reported(R) ==
    /\ DOMAIN R \in SUBSET Nat /\ IsFiniteSet(DOMAIN R)
    /\ \A n \in DOMAIN R : R[n].gpus \in Nat

\* _node_prefer_key as one comparison after the other.
LEMMA PreferredIs ==
    ASSUME NEW R, Reported(R), NEW m \in DOMAIN R, NEW n \in DOMAIN R
    PROVE  LET dense(x) == IF R[x].dense THEN 0 ELSE 1
               live(x) == IF has_active_ib_devices(R[x]) THEN 0 ELSE 1
           IN  Preferred(R, m, n) <=>
                  \/ R[n].gpus < R[m].gpus
                  \/ /\ R[n].gpus = R[m].gpus
                     /\ \/ dense(m) < dense(n)
                        \/ /\ dense(m) = dense(n)
                           /\ \/ live(m) < live(n)
                              \/ live(m) = live(n) /\ m < n
<1> DEFINE dense(x) == IF R[x].dense THEN 0 ELSE 1
           live(x) == IF has_active_ib_devices(R[x]) THEN 0 ELSE 1
           key(x) == <<0 - R[x].gpus, dense(x), live(x), x>>
           Below(i) == key(m)[i] < key(n)[i] /\ \A k \in 1..(i - 1) : key(m)[k] = key(n)[k]
<1>1. Preferred(R, m, n) <=> \E i \in 1..4 : Below(i)
    BY DEF Preferred
<1>2. R[m].gpus \in Nat /\ R[n].gpus \in Nat /\ m \in Nat /\ n \in Nat
    BY DEF Reported
<1>3. \A x : key(x)[1] = 0 - R[x].gpus /\ key(x)[2] = dense(x) /\ key(x)[3] = live(x) /\ key(x)[4] = x
    OBVIOUS
<1>4. 1..4 = {1, 2, 3, 4} /\ 1..0 = {} /\ 1..1 = {1} /\ 1..2 = {1, 2} /\ 1..3 = {1, 2, 3}
      /\ 1 - 1 = 0 /\ 2 - 1 = 1 /\ 3 - 1 = 2 /\ 4 - 1 = 3
    OBVIOUS
<1> HIDE DEF dense, live, key
<1>5. (\E i \in 1..4 : Below(i)) <=> Below(1) \/ Below(2) \/ Below(3) \/ Below(4)
    BY <1>4
<1>6. /\ Below(1) <=> 0 - R[m].gpus < 0 - R[n].gpus
      /\ Below(2) <=> dense(m) < dense(n) /\ 0 - R[m].gpus = 0 - R[n].gpus
      /\ Below(3) <=> live(m) < live(n) /\ 0 - R[m].gpus = 0 - R[n].gpus /\ dense(m) = dense(n)
      /\ Below(4) <=> m < n /\ 0 - R[m].gpus = 0 - R[n].gpus /\ dense(m) = dense(n)
                         /\ live(m) = live(n)
    BY <1>3, <1>4
<1>7. /\ 0 - R[m].gpus < 0 - R[n].gpus <=> R[n].gpus < R[m].gpus
      /\ 0 - R[m].gpus = 0 - R[n].gpus <=> R[n].gpus = R[m].gpus
    BY <1>2
<1> HIDE DEF Below
<1> QED BY <1>1, <1>5, <1>6, <1>7 DEF dense, live

\* The order of _plan_pack as a set of pairs.
Preference(R) == {w \in (DOMAIN R) \X (DOMAIN R) : Preferred(R, w[1], w[2])}

\* _plan_pack prefers one of any two nodes.
LEMMA PreferenceStrict ==
    ASSUME NEW R, Reported(R)
    PROVE  /\ StrictOrder(Preference(R), DOMAIN R)
           /\ \A m, n \in DOMAIN R : <<m, n>> \in Preference(R) <=> Preferred(R, m, n)
<1> DEFINE dense(x) == IF R[x].dense THEN 0 ELSE 1
           live(x) == IF has_active_ib_devices(R[x]) THEN 0 ELSE 1
<1>1. \A m, n \in DOMAIN R : <<m, n>> \in Preference(R) <=> Preferred(R, m, n)
    BY DEF Preference
<1>2. \A m, n \in DOMAIN R :
         <<m, n>> \in Preference(R) <=>
                  \/ R[n].gpus < R[m].gpus
                  \/ /\ R[n].gpus = R[m].gpus
                     /\ \/ dense(m) < dense(n)
                        \/ /\ dense(m) = dense(n)
                           /\ \/ live(m) < live(n)
                              \/ live(m) = live(n) /\ m < n
    BY <1>1, PreferredIs
<1>3. \A x \in DOMAIN R : R[x].gpus \in Nat /\ dense(x) \in Nat /\ live(x) \in Nat /\ x \in Nat
    BY DEF Reported
<1> HIDE DEF dense, live
<1>4. \A x \in DOMAIN R : <<x, x>> \notin Preference(R)
    BY <1>2, <1>3
<1>5. \A x, y, z \in DOMAIN R :
          <<x, y>> \in Preference(R) /\ <<y, z>> \in Preference(R) => <<x, z>> \in Preference(R)
    <2> TAKE x, y, z \in DOMAIN R
    <2> HAVE <<x, y>> \in Preference(R) /\ <<y, z>> \in Preference(R)
    <2>1. PICK gx \in Nat, gy \in Nat, gz \in Nat, dx \in Nat, dy \in Nat, dz \in Nat,
               ax \in Nat, ay \in Nat, az \in Nat :
              /\ gx = R[x].gpus /\ gy = R[y].gpus /\ gz = R[z].gpus
              /\ dx = dense(x) /\ dy = dense(y) /\ dz = dense(z)
              /\ ax = live(x) /\ ay = live(y) /\ az = live(z)
        BY <1>3
    <2>2. x \in Nat /\ y \in Nat /\ z \in Nat
        BY <1>3
    <2>3. gy < gx \/ (gy = gx /\ (dx < dy \/ (dx = dy /\ (ax < ay \/ (ax = ay /\ x < y)))))
        BY <1>2, <2>1
    <2>4. gz < gy \/ (gz = gy /\ (dy < dz \/ (dy = dz /\ (ay < az \/ (ay = az /\ y < z)))))
        BY <1>2, <2>1
    <2>5. gz < gx \/ (gz = gx /\ (dx < dz \/ (dx = dz /\ (ax < az \/ (ax = az /\ x < z)))))
        BY ONLY <2>2, <2>3, <2>4, gx \in Nat, gy \in Nat, gz \in Nat, dx \in Nat, dy \in Nat,
                dz \in Nat, ax \in Nat, ay \in Nat, az \in Nat
    <2> QED BY <1>2, <2>1, <2>5
<1>6. \A x, y \in DOMAIN R : x = y \/ <<x, y>> \in Preference(R) \/ <<y, x>> \in Preference(R)
    <2> TAKE x, y \in DOMAIN R
    <2>1. PICK gx \in Nat, gy \in Nat, dx \in Nat, dy \in Nat, ax \in Nat, ay \in Nat :
              /\ gx = R[x].gpus /\ gy = R[y].gpus
              /\ dx = dense(x) /\ dy = dense(y)
              /\ ax = live(x) /\ ay = live(y)
        BY <1>3
    <2>2. x \in Nat /\ y \in Nat
        BY <1>3
    <2>3. \/ x = y
          \/ gy < gx \/ (gy = gx /\ (dx < dy \/ (dx = dy /\ (ax < ay \/ (ax = ay /\ x < y)))))
          \/ gx < gy \/ (gx = gy /\ (dy < dx \/ (dy = dx /\ (ay < ax \/ (ay = ax /\ y < x)))))
        BY ONLY <2>2, gx \in Nat, gy \in Nat, dx \in Nat, dy \in Nat, ax \in Nat, ay \in Nat
    <2> QED BY <1>2, <2>1, <2>3
<1> QED BY <1>1, <1>4, <1>5, <1>6 DEF StrictOrder

\* _plan_pack goes through all nodes, those with more GPUs first.
LEMMA PackOrderIs ==
    ASSUME NEW R, Reported(R)
    PROVE  LET o == PackOrder(R)
               N == Cardinality(DOMAIN R)
           IN  /\ N \in Nat /\ o \in [1..N -> DOMAIN R]
               /\ \A n \in DOMAIN R : \E i \in 1..N : o[i] = n
               /\ \A i, j \in 1..N : o[i] = o[j] => i = j
               /\ \A i, j \in 1..N : i < j => R[o[i]].gpus >= R[o[j]].gpus
<1> DEFINE N == Cardinality(DOMAIN R)
           Packed(o) == /\ o \in [1..N -> DOMAIN R]
                        /\ \A i, j \in DOMAIN o : i < j => Preferred(R, o[i], o[j])
<1>1. IsFiniteSet(DOMAIN R) /\ N \in Nat
    BY FS_CardinalityType DEF Reported
<1>2. ASSUME NEW o PROVE Packed(o) <=> Sorts(o, DOMAIN R, Preference(R))
    BY PreferenceStrict DEF Sorts
<1>3. \E o : Packed(o)
    BY <1>1, <1>2, SortExists, PreferenceStrict
<1>4. PackOrder(R) = CHOOSE o \in [1..N -> DOMAIN R] :
          \A i, j \in DOMAIN o : i < j => Preferred(R, o[i], o[j])
    BY DEF PackOrder
<1>5. PICK o : o = PackOrder(R)
    OBVIOUS
<1>6. Packed(o)
    BY <1>3, <1>4, <1>5
<1>7. Sorts(o, DOMAIN R, Preference(R))
    BY <1>2, <1>6
<1>8. /\ \A n \in DOMAIN R : \E i \in 1..N : o[i] = n
      /\ \A i, j \in 1..N : o[i] = o[j] => i = j
    BY <1>1, <1>7, SortComplete, PreferenceStrict
<1>9. \A i, j \in 1..N : i < j => R[o[i]].gpus >= R[o[j]].gpus
    <2> TAKE i, j \in 1..N
    <2> HAVE i < j
    <2>1. o[i] \in DOMAIN R /\ o[j] \in DOMAIN R /\ Preferred(R, o[i], o[j])
        BY <1>6
    <2>2. R[o[i]].gpus \in Nat /\ R[o[j]].gpus \in Nat
        BY <2>1 DEF Reported
    <2>3. R[o[j]].gpus < R[o[i]].gpus \/ R[o[j]].gpus = R[o[i]].gpus
        BY <2>1, PreferredIs
    <2> QED BY <2>2, <2>3
<1> QED BY <1>1, <1>5, <1>6, <1>8, <1>9

\* _plan_spread goes through all nodes too.
LEMMA ByIdIs ==
    ASSUME NEW R, Reported(R)
    PROVE  LET o == ById(R)
               N == Cardinality(DOMAIN R)
           IN  /\ N \in Nat /\ o \in [1..N -> DOMAIN R]
               /\ \A i, j \in 1..N : o[i] = o[j] => i = j
<1> DEFINE N == Cardinality(DOMAIN R)
           less == {w \in (DOMAIN R) \X (DOMAIN R) : w[1] < w[2]}
           Rises(o) == /\ o \in [1..N -> DOMAIN R]
                       /\ \A i, j \in DOMAIN o : i < j => o[i] < o[j]
<1>1. IsFiniteSet(DOMAIN R) /\ N \in Nat /\ \A n \in DOMAIN R : n \in Nat
    BY FS_CardinalityType DEF Reported
<1>2. \A m, n \in DOMAIN R : <<m, n>> \in less <=> m < n
    OBVIOUS
<1> HIDE DEF less
<1>3. StrictOrder(less, DOMAIN R)
    BY <1>1, <1>2 DEF StrictOrder
<1>4. ASSUME NEW o PROVE Rises(o) <=> Sorts(o, DOMAIN R, less)
    BY <1>2 DEF Sorts
<1>5. \E o : Rises(o)
    BY <1>1, <1>3, <1>4, SortExists
<1>6. ById(R) = CHOOSE o \in [1..N -> DOMAIN R] :
          \A i, j \in DOMAIN o : i < j => o[i] < o[j]
    BY DEF ById
<1>7. PICK o : o = ById(R)
    OBVIOUS
<1>8. Rises(o)
    BY <1>5, <1>6, <1>7
<1>9. \A i, j \in 1..N : o[i] = o[j] => i = j
    BY <1>1, <1>3, <1>4, <1>8, SortComplete
<1> QED BY <1>1, <1>7, <1>8, <1>9

\* A selection's total, and that of one node more.
LEMMA TotalType ==
    ASSUME NEW s \in Seq(Picks)
    PROVE  /\ Total(s) \in Nat /\ (s = <<>> => Total(s) = 0)
           /\ Total(s) = SumOver(RanksOf(s), 1..Len(s)) /\ IsFiniteSet(1..Len(s))
           /\ \A i \in 1..Len(s) : RanksOf(s)[i] = s[i].ranks /\ s[i].ranks \in Nat
<1>1. Len(s) \in Nat /\ DOMAIN s = 1..Len(s) /\ \A i \in 1..Len(s) : s[i] \in Picks
    OBVIOUS
<1>2. \A i \in 1..Len(s) : RanksOf(s)[i] = s[i].ranks /\ s[i].ranks \in Nat
    BY <1>1 DEF RanksOf, Picks
<1>3. IsFiniteSet(1..Len(s)) /\ (s = <<>> => 1..Len(s) = {})
    BY <1>1, FS_Interval
<1> QED BY <1>1, <1>2, <1>3, TotalIs, SumType

\* One more node in a selection.
LEMMA TotalAppend ==
    ASSUME NEW s \in Seq(Picks), NEW e \in Picks
    PROVE  Total(Append(s, e)) = Total(s) + e.ranks
<1> DEFINE t == Append(s, e)
           L == Len(s)
<1>1. /\ t \in Seq(Picks) /\ L \in Nat /\ Len(t) = L + 1 /\ t[L + 1] = e
      /\ \A i \in 1..L : t[i] = s[i]
    OBVIOUS
<1> HIDE DEF t
<1>2. 1..Len(t) = (1..L) \cup {L + 1} /\ L + 1 \notin 1..L
    BY <1>1
<1>3. /\ Total(s) = SumOver(RanksOf(s), 1..L) /\ IsFiniteSet(1..L)
      /\ \A i \in 1..L : RanksOf(s)[i] = s[i].ranks /\ s[i].ranks \in Nat
    BY TotalType
<1>4. /\ Total(t) = SumOver(RanksOf(t), 1..Len(t))
      /\ \A i \in 1..Len(t) : RanksOf(t)[i] = t[i].ranks /\ t[i].ranks \in Nat
    BY <1>1, TotalType
<1> DEFINE u == RanksOf(s)
           v == RanksOf(t)
<1>5. /\ \A i \in 1..L : u[i] \in Nat /\ v[i] = u[i]
      /\ \A i \in (1..L) \cup {L + 1} : v[i] \in Nat
      /\ v[L + 1] = e.ranks
    BY <1>1, <1>2, <1>3, <1>4
<1> HIDE DEF u, v
<1>6. SumOver(v, 1..L) = SumOver(u, 1..L)
    BY ONLY <1>3, <1>5, SumEqual
<1>7. SumOver(v, (1..L) \cup {L + 1}) = SumOver(v, 1..L) + v[L + 1]
    <2>1. IsFiniteSet(1..L) /\ L + 1 \notin 1..L /\ \A i \in (1..L) \cup {L + 1} : v[i] \in Nat
        BY <1>2, <1>3, <1>5
    <2>2. PICK S, x : S = 1..L /\ x = L + 1
        OBVIOUS
    <2>3. IsFiniteSet(S) /\ x \notin S /\ \A i \in S \cup {x} : v[i] \in Nat
        BY <2>1, <2>2
    <2>4. SumOver(v, S \cup {x}) = SumOver(v, S) + v[x]
        BY ONLY <2>3, SumAdd
    <2> QED BY <2>2, <2>4
<1> QED BY <1>1, <1>2, <1>3, <1>4, <1>5, <1>6, <1>7 DEF t, u, v

\* What _plan_pack does with a node.
PackStep(R, world, nproc, max, selected, n) ==
    LET left == world - Total(selected)
        cap == Capacity(R, n, nproc)
    IN  IF Len(selected) >= max \/ left = 0 THEN selected
        ELSE Append(selected, [node |-> n, ranks |-> IF cap < left THEN cap ELSE left])

\* The loop of _plan_pack over the nodes in their order.
PackSteps(g, order, R, world, nproc, max) ==
    g = [s \in SUBSET DOMAIN order |->
            IF s = {} THEN <<>>
            ELSE PackStep(R, world, nproc, max, g[s \ {Max(s)}], order[Max(s)])]

\* _plan_pack goes through such a function.
LEMMA PlanPackIs ==
    ASSUME NEW R, NEW world, NEW nproc, NEW max
    PROVE  LET order == PackOrder(R)
               sel == (CHOOSE g : PackSteps(g, order, R, world, nproc, max))[DOMAIN order]
           IN  PlanPack(R, world, nproc, max) = IF Total(sel) < world THEN <<>> ELSE sel
BY DEF PlanPack, FoldLeft, MapThenFoldSet, PackSteps, PackStep

\* What is selected after j nodes: the first nodes of the order, all of them full
\* unless every rank has its place, and no node is there without need.
Filled(s, j, o, caps, world, max) ==
    /\ s \in Seq(Picks) /\ Len(s) <= j /\ Len(s) <= max
    /\ \A i \in 1..Len(s) : s[i].node = o[i] /\ s[i].ranks <= caps[i]
    /\ Total(s) <= world
    /\ Total(s) < world => \A i \in 1..Len(s) : s[i].ranks = caps[i]
    /\ Len(s) = j \/ Len(s) = max \/ Total(s) = world
    /\ Len(s) >= 1 => SumOver(caps, 1..(Len(s) - 1)) < world

\* Where every node is full, the total is the sum of the capacities.
LEMMA FullTotal ==
    ASSUME NEW s \in Seq(Picks), NEW caps, \A i \in 1..Len(s) : s[i].ranks = caps[i]
    PROVE  Total(s) = SumOver(caps, 1..Len(s))
<1> DEFINE u == RanksOf(s)
<1>1. /\ Total(s) = SumOver(u, 1..Len(s)) /\ IsFiniteSet(1..Len(s))
      /\ \A i \in 1..Len(s) : u[i] = s[i].ranks /\ s[i].ranks \in Nat
    BY TotalType
<1> HIDE DEF u
<1>2. \A i \in 1..Len(s) : u[i] \in Nat /\ caps[i] = u[i]
    BY <1>1
<1>3. SumOver(u, 1..Len(s)) = SumOver(caps, 1..Len(s))
    BY ONLY <1>1, <1>2, SumEqual
<1> QED BY <1>1, <1>3

\* The loop fills the next node, unless it is done.
LEMMA FillStep ==
    ASSUME NEW R, NEW world \in Nat, NEW nproc, NEW max \in Nat, NEW j \in Nat, NEW o, NEW caps,
           caps[j + 1] = Capacity(R, o[j + 1], nproc), caps[j + 1] \in Nat, o[j + 1] \in Nat,
           NEW s, Filled(s, j, o, caps, world, max)
    PROVE  Filled(PackStep(R, world, nproc, max, s, o[j + 1]), j + 1, o, caps, world, max)
<1> DEFINE L == Len(s)
           left == world - Total(s)
           cap == caps[j + 1]
           r == IF cap < left THEN cap ELSE left
           e == [node |-> o[j + 1], ranks |-> r]
           t == Append(s, e)
<1>1. s \in Seq(Picks) /\ L \in Nat /\ L <= j /\ L <= max /\ Total(s) \in Nat /\ Total(s) <= world
    BY TotalType DEF Filled
<1>2. /\ \A i \in 1..L : s[i].node = o[i] /\ s[i].ranks <= caps[i]
      /\ Total(s) < world => \A i \in 1..L : s[i].ranks = caps[i]
      /\ L = j \/ L = max \/ Total(s) = world
      /\ L >= 1 => SumOver(caps, 1..(L - 1)) < world
    BY DEF Filled
<1>3. PackStep(R, world, nproc, max, s, o[j + 1]) = IF L >= max \/ left = 0 THEN s ELSE t
    BY DEF PackStep
<1>4. left \in Nat /\ (left = 0 <=> Total(s) = world) /\ (left # 0 <=> Total(s) < world)
    BY <1>1
<1>5. CASE L >= max \/ left = 0
    <2>1. L <= j + 1 /\ (L = j + 1 \/ L = max \/ Total(s) = world)
        BY ONLY <1>1, <1>4, <1>5, j \in Nat, max \in Nat
    <2>2. Filled(s, j + 1, o, caps, world, max)
        BY <1>1, <1>2, <2>1 DEF Filled
    <2> QED BY <1>3, <1>5, <2>2
<1>6. CASE ~(L >= max \/ left = 0)
    <2>1. L < max /\ left # 0 /\ Total(s) < world /\ L = j
        BY ONLY <1>1, <1>2, <1>4, <1>6, max \in Nat, j \in Nat
    <2>2. r \in Nat /\ r <= cap /\ r <= left /\ (r < left => r = cap)
        BY <1>4
    <2> HIDE DEF r, left, cap
    <2>3. e \in Picks /\ e.ranks = r /\ e.node = o[j + 1]
        BY <2>2 DEF Picks
    <2> HIDE DEF e
    <2>4. /\ t \in Seq(Picks) /\ Len(t) = L + 1 /\ t[L + 1] = e
          /\ \A i \in 1..L : t[i] = s[i]
        BY <1>1, <2>3
    <2>5. Total(t) = Total(s) + r
        BY <1>1, <2>3, TotalAppend
    <2> HIDE DEF t
    <2>6. Total(t) <= world /\ (Total(t) < world => r = cap)
        BY ONLY <1>1, <2>2, <2>5, world \in Nat DEF left
    <2>7. \A i \in 1..(L + 1) : i \in 1..L \/ i = L + 1
        BY <1>1
    <2>8. \A i \in 1..Len(t) : t[i].node = o[i] /\ t[i].ranks <= caps[i]
        BY <1>2, <2>1, <2>2, <2>3, <2>4, <2>7 DEF cap
    <2>9. Total(t) < world => \A i \in 1..Len(t) : t[i].ranks = caps[i]
        BY <1>2, <2>1, <2>3, <2>4, <2>6, <2>7 DEF cap
    <2>10. SumOver(caps, 1..(Len(t) - 1)) < world
        <3>1. Total(s) = SumOver(caps, 1..L)
            BY <1>1, <1>2, <2>1, FullTotal
        <3>2. Len(t) - 1 = L
            BY <1>1, <2>4
        <3> QED BY <2>1, <3>1, <3>2
    <2>11. Len(t) <= j + 1 /\ Len(t) <= max /\ Len(t) = j + 1
        BY <1>1, <2>1, <2>4
    <2>12. Filled(t, j + 1, o, caps, world, max)
        BY <2>4, <2>6, <2>8, <2>9, <2>10, <2>11 DEF Filled
    <2> QED BY <1>3, <1>6, <2>12 DEF left
<1> QED BY <1>5, <1>6

\* The capacities of the nodes in the order of _plan_pack.
CapsInOrder(R, nproc) ==
    [i \in 1..Cardinality(DOMAIN R) |-> Capacity(R, PackOrder(R)[i], nproc)]

\* Nodes with more GPUs come first, so the capacities fall along the order.
LEMMA CapsTyped ==
    ASSUME NEW R, Reported(R), NEW nproc \in Nat
    PROVE  /\ \A n \in DOMAIN R : Capacity(R, n, nproc) \in Nat /\ Capacity(R, n, nproc) <= nproc
           /\ \A i \in 1..Cardinality(DOMAIN R) :
                 /\ CapsInOrder(R, nproc)[i] = Capacity(R, PackOrder(R)[i], nproc)
                 /\ CapsInOrder(R, nproc)[i] \in Nat
                 /\ PackOrder(R)[i] \in DOMAIN R /\ PackOrder(R)[i] \in Nat
           /\ \A i, k \in 1..Cardinality(DOMAIN R) :
                 i <= k => CapsInOrder(R, nproc)[k] <= CapsInOrder(R, nproc)[i]
<1> DEFINE N == Cardinality(DOMAIN R)
           o == PackOrder(R)
           caps == CapsInOrder(R, nproc)
<1>1. /\ N \in Nat /\ o \in [1..N -> DOMAIN R]
      /\ \A i, k \in 1..N : i < k => R[o[i]].gpus >= R[o[k]].gpus
    BY PackOrderIs
<1>2. \A n \in DOMAIN R : n \in Nat /\ R[n].gpus \in Nat
    BY DEF Reported
<1>3. \A n \in DOMAIN R : Capacity(R, n, nproc) \in Nat /\ Capacity(R, n, nproc) <= nproc
    BY <1>2 DEF Capacity
<1>4. \A i \in 1..N : caps[i] = Capacity(R, o[i], nproc) /\ o[i] \in DOMAIN R
    BY <1>1 DEF CapsInOrder
<1> HIDE DEF N, o, caps
<1>5. \A i, k \in 1..N : i <= k => caps[k] <= caps[i]
    <2> TAKE i, k \in 1..N
    <2> HAVE i <= k
    <2>1. R[o[i]].gpus \in Nat /\ R[o[k]].gpus \in Nat
        BY <1>2, <1>4
    <2>2. i = k \/ i < k
        BY <1>1
    <2>3. R[o[k]].gpus <= R[o[i]].gpus
        BY <1>1, <2>1, <2>2
    <2> QED BY <1>4, <2>1, <2>3 DEF Capacity
<1> QED BY <1>2, <1>3, <1>4, <1>5 DEF N, o, caps

\* _plan_pack gives every rank a place and no node without need, or it went
\* through as many nodes as it may and they are full.
PackResult(sel, R, world, nproc, max) ==
    LET caps == CapsInOrder(R, nproc)
        N == Cardinality(DOMAIN R)
    IN  \/ /\ sel = <<>>
           /\ \E m \in 0..N : (m = N \/ m = max) /\ SumOver(caps, 1..m) < world
        \/ /\ sel # <<>>
           /\ Filled(sel, N, PackOrder(R), caps, world, max) /\ Total(sel) = world

\* _plan_pack fills the first nodes of its order, or they are too small.
LEMMA PlanPackResult ==
    ASSUME NEW R, Reported(R), NEW world \in Nat \ {0}, NEW nproc \in Nat, NEW max \in Nat
    PROVE  PackResult(PlanPack(R, world, nproc, max), R, world, nproc, max)
<1> DEFINE N == Cardinality(DOMAIN R)
           o == PackOrder(R)
           caps == CapsInOrder(R, nproc)
           X == {s \in Seq(Picks) : Total(s) <= world}
           step == [i \in 1..N |-> [s \in X |-> PackStep(R, world, nproc, max, s, o[i])]]
<1>1. N \in Nat /\ o \in [1..N -> DOMAIN R] /\ DOMAIN o = 1..N
    BY PackOrderIs
<1>2. \A i \in 1..N : caps[i] = Capacity(R, o[i], nproc) /\ caps[i] \in Nat /\ o[i] \in Nat
    BY CapsTyped
<1> HIDE DEF N, o, caps
<1>3. ASSUME NEW i \in 1..N, NEW s \in X
      PROVE  PackStep(R, world, nproc, max, s, o[i]) \in X
    <2> DEFINE left == world - Total(s)
               r == IF caps[i] < left THEN caps[i] ELSE left
               e == [node |-> o[i], ranks |-> r]
    <2>1. s \in Seq(Picks) /\ Total(s) \in Nat /\ Total(s) <= world
        BY TotalType
    <2>2. r \in Nat /\ Total(s) + r <= world
        <3>1. left \in Nat /\ Total(s) + left = world
            BY <2>1
        <3>2. caps[i] \in Nat
            BY <1>2
        <3> HIDE DEF left
        <3> QED BY ONLY <2>1, <3>1, <3>2, world \in Nat \ {0}
    <2> HIDE DEF r
    <2>3. e \in Picks /\ e.ranks = r
        BY <1>2, <2>2 DEF Picks
    <2>4. PackStep(R, world, nproc, max, s, o[i]) = IF Len(s) >= max \/ left = 0 THEN s ELSE Append(s, e)
        BY <1>2 DEF PackStep, r
    <2> HIDE DEF e, left
    <2>5. Append(s, e) \in Seq(Picks)
        BY <2>1, <2>3
    <2>6. Total(Append(s, e)) <= world
        BY <2>1, <2>2, <2>3, TotalAppend
    <2> QED BY <2>4, <2>5, <2>6
<1>4. <<>> \in X
    <2>1. <<>> \in Seq(Picks)
        OBVIOUS
    <2>2. Total(<<>>) = 0
        BY <2>1, TotalType
    <2>3. 0 <= world
        OBVIOUS
    <2> QED BY <2>1, <2>2, <2>3
<1> HIDE DEF X
<1>5. step \in [1..N -> [X -> X]]
    BY <1>3
<1>6. PICK f \in [SUBSET (1..N) -> X] : FoldsTo(f, N, <<>>, step)
    <2> HIDE DEF step
    <2> QED BY <1>1, <1>4, <1>5, FoldExists
<1>7. PackSteps(f, o, R, world, nproc, max)
    <2>1. ASSUME NEW s \in SUBSET (1..N)
          PROVE  f[s] = IF s = {} THEN <<>>
                        ELSE PackStep(R, world, nproc, max, f[s \ {Max(s)}], o[Max(s)])
        <3>1. f[s] = IF s = {} THEN <<>> ELSE step[Max(s)][f[s \ {Max(s)}]]
            BY <1>6 DEF FoldsTo
        <3>2. s # {} => Max(s) \in 1..N
            BY <1>1, MaxOfPart
        <3>3. s # {} => f[s \ {Max(s)}] \in X
            OBVIOUS
        <3> QED BY <3>1, <3>2, <3>3
    <2>2. f = [s \in SUBSET (1..N) |-> f[s]]
        OBVIOUS
    <2>3. f = [s \in SUBSET (1..N) |->
                  IF s = {} THEN <<>>
                  ELSE PackStep(R, world, nproc, max, f[s \ {Max(s)}], o[Max(s)])]
        BY <2>1, <2>2
    <2> QED BY <1>1, <2>3 DEF PackSteps
<1>8. PICK g : g = CHOOSE h : PackSteps(h, o, R, world, nproc, max)
    OBVIOUS
<1>9. PackSteps(g, o, R, world, nproc, max)
    BY <1>7, <1>8
<1>10. /\ g[{}] = <<>>
       /\ \A s \in SUBSET (1..N) :
             s # {} => g[s] = PackStep(R, world, nproc, max, g[s \ {Max(s)}], o[Max(s)])
    BY <1>1, <1>9 DEF PackSteps
<1> DEFINE Good(j) == Filled(g[1..j], j, o, caps, world, max)
           Q == {j \in Nat : j <= N => Good(j)}
<1>11. 0 \in Q
    <2>1. 1..0 = {} /\ <<>> \in Seq(Picks) /\ Len(<<>>) = 0
        OBVIOUS
    <2>2. Total(<<>>) = 0
        BY <2>1, TotalType
    <2>3. Filled(<<>>, 0, o, caps, world, max)
        BY <2>1, <2>2 DEF Filled
    <2> QED BY <1>10, <2>1, <2>3
<1>12. ASSUME NEW j \in Nat, j \in Q PROVE j + 1 \in Q
    <2> HIDE DEF Good
    <2> SUFFICES ASSUME j + 1 <= N PROVE Good(j + 1)
        OBVIOUS
    <2>0. j <= N
        BY ONLY <1>1, j \in Nat, j + 1 <= N
    <2>1. Good(j)
        BY <1>12, <2>0
    <2>2. /\ 1..(j + 1) \in SUBSET (1..N) /\ 1..(j + 1) # {} /\ (1..(j + 1)) \ {j + 1} = 1..j
          /\ j + 1 \in 1..N
        <3>1. \A i \in 1..(j + 1) : i \in 1..N
            BY ONLY <1>1, j \in Nat, j + 1 <= N
        <3>2. j + 1 \in 1..(j + 1) /\ j + 1 \in 1..N
            BY ONLY <1>1, j \in Nat, j + 1 <= N
        <3>3. (1..(j + 1)) \ {j + 1} = 1..j
            BY ONLY j \in Nat
        <3> QED BY ONLY <3>1, <3>2, <3>3
    <2>3. Max(1..(j + 1)) = j + 1
        BY MaxOfPart
    <2>4. g[1..(j + 1)] = PackStep(R, world, nproc, max, g[1..j], o[j + 1])
        BY <1>10, <2>2, <2>3
    <2>5. caps[j + 1] = Capacity(R, o[j + 1], nproc) /\ caps[j + 1] \in Nat /\ o[j + 1] \in Nat
        BY <1>2, <2>2
    <2>6. PICK now : now = g[1..j]
        OBVIOUS
    <2>7. Filled(now, j, o, caps, world, max)
        BY <2>1, <2>6 DEF Good
    <2>8. Filled(PackStep(R, world, nproc, max, now, o[j + 1]), j + 1, o, caps, world, max)
        <3>1. world \in Nat
            OBVIOUS
        <3> QED BY ONLY <2>5, <2>7, <3>1, max \in Nat, j \in Nat, FillStep
    <2> QED BY <2>4, <2>6, <2>8 DEF Good
<1>13. PICK sel : sel = g[1..N]
    OBVIOUS
<1>14. Filled(sel, N, o, caps, world, max)
    <2>1. Nat \subseteq Q
        <3> HIDE DEF Q
        <3> QED BY <1>11, <1>12, NumberInduction
    <2>2. N \in Q /\ N <= N
        BY <1>1, <2>1
    <2> QED BY <1>13, <2>2
<1>15. PlanPack(R, world, nproc, max) = IF Total(sel) < world THEN <<>> ELSE sel
    <2> DEFINE order == PackOrder(R)
               picked == (CHOOSE h : PackSteps(h, order, R, world, nproc, max))[DOMAIN order]
    <2>1. PlanPack(R, world, nproc, max) = IF Total(picked) < world THEN <<>> ELSE picked
        BY PlanPackIs
    <2>2. picked = sel
        BY <1>1, <1>8, <1>13 DEF o
    <2> HIDE DEF picked
    <2> QED BY <2>1, <2>2
<1>16. sel \in Seq(Picks) /\ Total(sel) \in Nat /\ Total(sel) <= world /\ Len(sel) \in Nat
    BY <1>14, TotalType DEF Filled
<1>17. CASE Total(sel) < world
    <2>1. /\ Len(sel) = N \/ Len(sel) = max
          /\ Len(sel) \in 0..N
          /\ \A i \in 1..Len(sel) : sel[i].ranks = caps[i]
        BY <1>1, <1>14, <1>16, <1>17 DEF Filled
    <2>2. Total(sel) = SumOver(caps, 1..Len(sel))
        BY <1>16, <2>1, FullTotal
    <2> QED BY <1>15, <1>17, <2>1, <2>2 DEF PackResult, N, caps
<1>18. CASE ~(Total(sel) < world)
    <2>1. Total(sel) = world
        BY <1>16, <1>18
    <2>2. sel # <<>>
        <3>1. <<>> \in Seq(Picks) /\ Total(<<>>) = 0
            BY <1>4, TotalType DEF X
        <3> QED BY <2>1, <3>1
    <2> QED BY <1>14, <1>15, <1>18, <2>1, <2>2 DEF PackResult, N, caps, o
<1> QED BY <1>17, <1>18

\* A choice of at most m nodes takes no more ranks than the first m of the order.
LEMMA GreedyIsBest ==
    ASSUME NEW R, Reported(R), NEW nproc \in Nat, NEW u,
           \A n \in DOMAIN R : u[n] = Capacity(R, n, nproc),
           NEW S \in SUBSET DOMAIN R
    PROVE  /\ Cardinality(S) \in 0..Cardinality(DOMAIN R)
           /\ SumOver(u, S) <= SumOver(CapsInOrder(R, nproc), 1..Cardinality(S))
<1> DEFINE N == Cardinality(DOMAIN R)
           o == PackOrder(R)
           caps == CapsInOrder(R, nproc)
           C(m) == SumOver(caps, 1..m)
           First(j) == {o[i] : i \in 1..j}
           Best(T, j) == T \subseteq First(j) => Cardinality(T) <= j /\ SumOver(u, T) <= C(Cardinality(T))
           Q == {j \in Nat : j <= N => \A T \in SUBSET DOMAIN R : Best(T, j)}
<1>1. /\ N \in Nat /\ o \in [1..N -> DOMAIN R] /\ IsFiniteSet(DOMAIN R)
      /\ \A n \in DOMAIN R : \E i \in 1..N : o[i] = n
      /\ \A i, k \in 1..N : o[i] = o[k] => i = k
    BY PackOrderIs DEF Reported
<1>2. /\ \A i \in 1..N : caps[i] = u[o[i]] /\ caps[i] \in Nat /\ o[i] \in DOMAIN R
      /\ \A i, k \in 1..N : i <= k => caps[k] <= caps[i]
      /\ \A n \in DOMAIN R : u[n] \in Nat
    BY CapsTyped
<1> HIDE DEF N, o, caps
<1>3. \A T \in SUBSET DOMAIN R : /\ IsFiniteSet(T) /\ Cardinality(T) \in Nat
                                 /\ (Cardinality(T) = 0 <=> T = {})
    BY <1>1, FS_Subset, FS_CardinalityType, FS_EmptySet
<1>4. C(0) = 0
    <2>1. 1..0 = {} /\ IsFiniteSet({})
        BY FS_EmptySet
    <2> QED BY <2>1, SumType
<1>5. ASSUME NEW m \in Nat, m + 1 <= N PROVE C(m + 1) = C(m) + caps[m + 1] /\ C(m) \in Nat
    <2>1. /\ \A h \in (1..m) \cup {m + 1} : h \in 1..N
          /\ m + 1 \notin 1..m /\ 1..(m + 1) = (1..m) \cup {m + 1}
        BY ONLY <1>1, <1>5, m \in Nat
    <2>2. IsFiniteSet(1..m) /\ \A h \in (1..m) \cup {m + 1} : caps[h] \in Nat
        BY <1>2, <2>1, FS_Interval
    <2>3. SumOver(caps, (1..m) \cup {m + 1}) = SumOver(caps, 1..m) + caps[m + 1]
        BY ONLY <2>1, <2>2, SumAdd
    <2>4. SumOver(caps, 1..m) \in Nat
        BY ONLY <2>2, SumType
    <2> QED BY <2>1, <2>3, <2>4
<1> HIDE DEF C
<1>6. 0 \in Q
    <2> SUFFICES ASSUME NEW T \in SUBSET DOMAIN R, T \subseteq First(0)
                 PROVE  Cardinality(T) <= 0 /\ SumOver(u, T) <= C(Cardinality(T))
        BY <1>1
    <2>1. T = {}
        OBVIOUS
    <2>2. Cardinality(T) = 0 /\ SumOver(u, T) = 0
        BY <1>3, <2>1, SumType
    <2> QED BY <1>4, <2>2
<1>7. ASSUME NEW j \in Nat, j \in Q PROVE j + 1 \in Q
    <2> SUFFICES ASSUME j + 1 <= N, NEW T \in SUBSET DOMAIN R, T \subseteq First(j + 1)
                 PROVE  Cardinality(T) <= j + 1 /\ SumOver(u, T) <= C(Cardinality(T))
        OBVIOUS
    <2>1. j <= N /\ j + 1 \in 1..N
        BY ONLY <1>1, j \in Nat, j + 1 <= N
    <2>2. \A V \in SUBSET DOMAIN R : V \subseteq First(j) =>
              Cardinality(V) <= j /\ SumOver(u, V) <= C(Cardinality(V))
        BY <1>7, <2>1
    <2>3. First(j + 1) \subseteq First(j) \cup {o[j + 1]}
        <3>1. \A i \in 1..(j + 1) : i \in 1..j \/ i = j + 1
            OBVIOUS
        <3> QED BY <3>1
    <2> DEFINE x == o[j + 1]
               V == T \ {x}
    <2>4. V \in SUBSET DOMAIN R /\ V \subseteq First(j)
        BY <2>3
    <2> HIDE DEF Q, First
    <2>5. Cardinality(V) <= j /\ SumOver(u, V) <= C(Cardinality(V)) /\ Cardinality(V) \in Nat
        BY <1>3, <2>2, <2>4
    <2>6. CASE x \notin T
        <3>1. T = V
            BY <2>6
        <3> QED BY <2>5, <3>1
    <2>7. CASE x \in T
        <3> DEFINE m == Cardinality(V)
        <3>1. Cardinality(T) = m + 1
            <4>1. Cardinality(V) = Cardinality(T) - 1 /\ Cardinality(T) \in Nat
                BY <1>3, <2>7, FS_RemoveElement
            <4> QED BY <4>1
        <3>2. SumOver(u, T) = SumOver(u, V) + u[x] /\ SumOver(u, V) \in Nat
            <4>1. IsFiniteSet(T) /\ IsFiniteSet(V) /\ (\A h \in T : u[h] \in Nat) /\ (\A h \in V : u[h] \in Nat)
                BY <1>2, <1>3, <2>4
            <4>2. SumOver(u, V) \in Nat
                BY ONLY <4>1, SumType
            <4> HIDE DEF x
            <4>3. SumOver(u, T) = SumOver(u, T \ {x}) + u[x]
                BY ONLY <2>7, <4>1, SumSplit
            <4> QED BY <4>2, <4>3
        <3> HIDE DEF m, V, x
        <3>3. m \in Nat /\ m <= j /\ m + 1 <= N /\ m + 1 \in 1..N /\ m + 1 <= j + 1
            BY ONLY <1>1, <2>1, <2>5, j \in Nat DEF m
        <3>4. u[x] = caps[j + 1] /\ caps[j + 1] <= caps[m + 1] /\ caps[j + 1] \in Nat /\ caps[m + 1] \in Nat
            BY <1>2, <2>1, <3>3 DEF x
        <3>5. C(m + 1) = C(m) + caps[m + 1] /\ C(m) \in Nat
            BY <1>5, <3>3
        <3>6. SumOver(u, V) <= C(m)
            BY <2>5 DEF m
        <3>7. SumOver(u, V) + u[x] <= C(m) + caps[m + 1]
            BY ONLY <3>2, <3>4, <3>5, <3>6
        <3> QED BY <3>1, <3>2, <3>3, <3>5, <3>7
    <2> QED BY <2>6, <2>7
<1>8. Best(S, N)
    <2>1. Nat \subseteq Q
        <3> HIDE DEF Q
        <3> QED BY <1>6, <1>7, NumberInduction
    <2>2. N \in Q /\ N <= N
        BY <1>1, <2>1
    <2> HIDE DEF Best
    <2> QED BY <2>2
<1>9. S \subseteq First(N)
    BY <1>1
<1> QED BY <1>1, <1>3, <1>8, <1>9 DEF N, caps, C

\* The first nodes of the order take no more than more of them.
LEMMA MoreTakeMore ==
    ASSUME NEW R, Reported(R), NEW nproc \in Nat, NEW k \in 0..Cardinality(DOMAIN R), NEW m \in 0..k
    PROVE  /\ SumOver(CapsInOrder(R, nproc), 1..m) <= SumOver(CapsInOrder(R, nproc), 1..k)
           /\ SumOver(CapsInOrder(R, nproc), 1..k) \in Nat
           /\ SumOver(CapsInOrder(R, nproc), 1..m) \in Nat
<1> DEFINE N == Cardinality(DOMAIN R)
           caps == CapsInOrder(R, nproc)
<1>0. N \in Nat /\ k \in Nat /\ m \in Nat /\ k <= N /\ m <= k
    BY FS_CardinalityType DEF Reported
<1>1. \A i \in 1..k : i \in 1..N
    BY <1>0
<1>2. \A i \in 1..N : caps[i] \in Nat
    BY CapsTyped
<1> HIDE DEF N, caps
<1>3. /\ \A i \in 1..k : caps[i] \in Nat
      /\ \A i \in 1..m : i \in 1..k /\ caps[i] \in Nat
      /\ IsFiniteSet(1..k) /\ IsFiniteSet(1..m)
    <2>1. \A i \in 1..m : i \in 1..k
        BY <1>0
    <2>2. IsFiniteSet(1..k) /\ IsFiniteSet(1..m)
        BY <1>0, FS_Interval
    <2> QED BY <1>1, <1>2, <2>1, <2>2
<1>4. SumOver(caps, 1..k) \in Nat /\ SumOver(caps, 1..m) \in Nat
    BY <1>3, SumType
<1> DEFINE Q == {j \in Nat : m + j <= k => SumOver(caps, 1..m) <= SumOver(caps, 1..(m + j))}
<1>5. 0 \in Q
    BY <1>0, <1>4
<1>6. ASSUME NEW j \in Nat, j \in Q PROVE j + 1 \in Q
    <2> SUFFICES ASSUME m + (j + 1) <= k
                 PROVE  SumOver(caps, 1..m) <= SumOver(caps, 1..(m + (j + 1)))
        OBVIOUS
    <2> DEFINE i == m + j
    <2>1. i \in Nat /\ i <= k /\ i + 1 <= k /\ m + (j + 1) = i + 1
        BY ONLY <1>0, j \in Nat, m + (j + 1) <= k
    <2> HIDE DEF i
    <2>2. /\ \A h \in (1..i) \cup {i + 1} : h \in 1..k
          /\ i + 1 \notin 1..i /\ 1..(i + 1) = (1..i) \cup {i + 1}
        BY ONLY <1>0, <2>1
    <2>3. IsFiniteSet(1..i) /\ \A h \in (1..i) \cup {i + 1} : caps[h] \in Nat
        BY <1>3, <2>1, <2>2, FS_Interval
    <2>4. SumOver(caps, (1..i) \cup {i + 1}) = SumOver(caps, 1..i) + caps[i + 1]
        BY ONLY <2>2, <2>3, SumAdd
    <2>5. SumOver(caps, 1..i) \in Nat /\ caps[i + 1] \in Nat
        <3>1. \A h \in 1..i : caps[h] \in Nat
            BY <2>3
        <3>2. SumOver(caps, 1..i) \in Nat
            BY ONLY <2>3, <3>1, SumType
        <3> QED BY <2>3, <3>2
    <2>6. SumOver(caps, 1..m) <= SumOver(caps, 1..i)
        BY <1>6, <2>1 DEF i
    <2>7. SumOver(caps, 1..(i + 1)) = SumOver(caps, 1..i) + caps[i + 1]
        BY <2>2, <2>4
    <2>8. SumOver(caps, 1..m) <= SumOver(caps, 1..(i + 1))
        BY ONLY <1>4, <2>5, <2>6, <2>7
    <2> QED BY <2>1, <2>8
<1>7. SumOver(caps, 1..m) <= SumOver(caps, 1..k)
    <2>1. Nat \subseteq Q
        <3> HIDE DEF Q
        <3> QED BY <1>5, <1>6, NumberInduction
    <2>2. k - m \in Nat /\ m + (k - m) = k /\ k <= k
        BY <1>0
    <2>3. k - m \in Q
        BY <2>1, <2>2
    <2> QED BY <2>2, <2>3
<1> QED BY <1>4, <1>7 DEF caps

\* If the first m nodes of the order cannot take all ranks, no m nodes can.
LEMMA NothingFits ==
    ASSUME NEW R, Reported(R), NEW spec \in JobSpec, NEW m \in 0..Cardinality(DOMAIN R), NEW k \in Int,
           SumOver(CapsInOrder(R, spec.nproc), 1..m) < spec.nnodes * spec.nproc,
           m = Cardinality(DOMAIN R) \/ k <= m
    PROVE  ~Fits(R, spec, k)
<1> DEFINE caps == [n \in DOMAIN R |-> Capacity(R, n, spec.nproc)]
           world == spec.nnodes * spec.nproc
           N == Cardinality(DOMAIN R)
<1>1. Fits(R, spec, k) => \E S \in SUBSET DOMAIN R : Cardinality(S) <= k /\ world <= SumOver(caps, S)
    BY DEF Fits, SumOver
<1> SUFFICES ASSUME NEW S \in SUBSET DOMAIN R, Cardinality(S) <= k, world <= SumOver(caps, S)
             PROVE  FALSE
    BY <1>1
<1>2. spec.nproc \in Nat /\ spec.nnodes \in Nat
    BY DEF JobSpec
<1>3. world \in Nat
    BY <1>2
<1>4. \A n \in DOMAIN R : caps[n] = Capacity(R, n, spec.nproc) /\ caps[n] \in Nat
    BY <1>2, CapsTyped
<1>5. /\ Cardinality(S) \in 0..N
      /\ SumOver(caps, S) <= SumOver(CapsInOrder(R, spec.nproc), 1..Cardinality(S))
    <2> HIDE DEF caps
    <2> QED BY <1>2, <1>4, GreedyIsBest
<1>6. SumOver(caps, S) \in Nat
    <2>1. IsFiniteSet(S) /\ \A n \in S : caps[n] \in Nat
        BY <1>4, FS_Subset DEF Reported
    <2> HIDE DEF caps
    <2> QED BY ONLY <2>1, SumType
<1>7. Cardinality(S) \in 0..m
    <2>1. N \in Nat
        BY FS_CardinalityType DEF Reported
    <2> HIDE DEF N
    <2> QED BY <1>5, <2>1 DEF N
<1>8. /\ SumOver(CapsInOrder(R, spec.nproc), 1..Cardinality(S)) <= SumOver(CapsInOrder(R, spec.nproc), 1..m)
      /\ SumOver(CapsInOrder(R, spec.nproc), 1..Cardinality(S)) \in Nat
      /\ SumOver(CapsInOrder(R, spec.nproc), 1..m) \in Nat
    BY <1>2, <1>7, MoreTakeMore
<1> HIDE DEF caps, world
<1>9. SumOver(CapsInOrder(R, spec.nproc), 1..m) < world
    BY DEF world
<1> QED BY ONLY <1>3, <1>5, <1>6, <1>8, <1>9, world <= SumOver(caps, S)

\* A plan that takes every rank: few enough nodes of the inventory, none beyond
\* its capacity.
Layout(sel, R, spec) ==
    /\ sel # <<>> /\ Selection(sel) /\ Len(sel) <= spec.nnodes
    /\ \A i \in 1..Len(sel) : /\ sel[i].node \in DOMAIN R
                              /\ sel[i].ranks <= Capacity(R, sel[i].node, spec.nproc)
    /\ Total(sel) = spec.nnodes * spec.nproc

\* What _plan_pack fills is a layout, and fewer nodes would not do.
LEMMA FilledLayout ==
    ASSUME NEW R, Reported(R), NEW spec \in JobSpec, NEW max \in Nat, NEW sel,
           sel # <<>>, Len(sel) <= spec.nnodes, Total(sel) = spec.nnodes * spec.nproc,
           Filled(sel, Cardinality(DOMAIN R), PackOrder(R), CapsInOrder(R, spec.nproc),
                  spec.nnodes * spec.nproc, max)
    PROVE  /\ Layout(sel, R, spec)
           /\ \A k \in Int : k <= Len(sel) - 1 => ~Fits(R, spec, k)
<1> DEFINE N == Cardinality(DOMAIN R)
           o == PackOrder(R)
           caps == CapsInOrder(R, spec.nproc)
           L == Len(sel)
<1>1. /\ N \in Nat /\ o \in [1..N -> DOMAIN R]
      /\ \A i, j \in 1..N : o[i] = o[j] => i = j
    BY PackOrderIs
<1>2. spec.nproc \in Nat
    BY DEF JobSpec
<1>3. \A i \in 1..N : caps[i] = Capacity(R, o[i], spec.nproc)
    BY <1>2, CapsTyped
<1>4. /\ sel \in Seq(Picks) /\ L <= N /\ L \in Nat
      /\ \A i \in 1..L : sel[i].node = o[i] /\ sel[i].ranks <= caps[i]
      /\ L >= 1 => SumOver(caps, 1..(L - 1)) < spec.nnodes * spec.nproc
    BY DEF Filled
<1> HIDE DEF N, o, caps
<1>5. \A i \in 1..L : i \in 1..N
    BY <1>1, <1>4
<1>6. Selection(sel)
    BY <1>1, <1>4, <1>5 DEF Selection
<1>7. \A i \in 1..L : sel[i].node \in DOMAIN R /\ sel[i].ranks <= Capacity(R, sel[i].node, spec.nproc)
    BY <1>1, <1>3, <1>4, <1>5
<1>8. Layout(sel, R, spec)
    BY <1>6, <1>7 DEF Layout
<1>9. L >= 1 /\ L - 1 \in 0..N
    <2>1. L # 0
        BY <1>4
    <2> QED BY <1>1, <1>4, <2>1
<1>10. ASSUME NEW k \in Int, k <= L - 1 PROVE ~Fits(R, spec, k)
    <2> HIDE DEF L
    <2> QED BY <1>4, <1>9, <1>10, NothingFits DEF N, caps
<1> QED BY <1>8, <1>10

\* Packing gives a layout over as few nodes as there can be, or none will fit.
LEMMA PackWithinResult ==
    ASSUME NEW R, Reported(R), NEW spec \in JobSpec
    PROVE  LET sel == PackWithin(R, spec.nnodes * spec.nproc, spec)
           IN  /\ sel = <<>> => ~Fits(R, spec, spec.nnodes)
               /\ sel # <<>> => /\ Layout(sel, R, spec)
                                /\ \A k \in Int : k <= Len(sel) - 1 => ~Fits(R, spec, k)
<1> DEFINE world == spec.nnodes * spec.nproc
           N == Cardinality(DOMAIN R)
           wide == PlanPack(R, world, spec.nproc, N)
           narrow == PlanPack(R, world, spec.nproc, spec.nnodes)
           sel == PackWithin(R, world, spec)
<1>1. /\ spec.nproc \in Nat \ {0} /\ spec.nnodes \in Nat \ {0} /\ N \in Nat
    BY FS_CardinalityType DEF JobSpec, Reported
<1>2. world \in Nat \ {0}
    BY <1>1
<1>3. sel = IF wide = <<>> \/ Len(wide) > spec.nnodes THEN narrow ELSE wide
    BY DEF PackWithin
<1> HIDE DEF world, sel
<1>4. PackResult(wide, R, world, spec.nproc, N) /\ PackResult(narrow, R, world, spec.nproc, spec.nnodes)
    BY <1>1, <1>2, PlanPackResult
<1> HIDE DEF wide, narrow, N
<1>5. CASE wide # <<>> /\ ~(Len(wide) > spec.nnodes)
    <2>1. sel = wide
        BY <1>3, <1>5
    <2>2. Filled(wide, N, PackOrder(R), CapsInOrder(R, spec.nproc), world, N) /\ Total(wide) = world
        BY <1>4, <1>5 DEF PackResult, N
    <2>3. Len(wide) <= spec.nnodes
        <3>1. Len(wide) \in Nat
            BY <2>2 DEF Filled
        <3> QED BY <1>1, <1>5, <3>1
    <2> QED BY <1>1, <1>5, <2>1, <2>2, <2>3, FilledLayout DEF N, world, sel
<1>6. CASE wide = <<>> \/ Len(wide) > spec.nnodes
    <2>1. sel = narrow
        BY <1>3, <1>6
    <2>2. CASE narrow = <<>>
        <3>1. PICK m \in 0..N : (m = N \/ m = spec.nnodes)
                                   /\ SumOver(CapsInOrder(R, spec.nproc), 1..m) < world
            BY <1>1, <1>2, <1>4, <2>2 DEF PackResult, N
        <3>2. spec.nnodes \in Int /\ (m = N \/ spec.nnodes <= m)
            BY <1>1, <3>1
        <3>3. ~Fits(R, spec, spec.nnodes)
            BY <3>1, <3>2, NothingFits DEF N, world
        <3> QED BY <2>1, <2>2, <3>3 DEF sel, world
    <2>3. CASE narrow # <<>>
        <3>1. /\ Filled(narrow, N, PackOrder(R), CapsInOrder(R, spec.nproc), world, spec.nnodes)
              /\ Total(narrow) = world
            BY <1>4, <2>3 DEF PackResult, N
        <3>2. Len(narrow) <= spec.nnodes
            BY <3>1 DEF Filled
        <3> QED BY <1>1, <2>1, <2>3, <3>1, <3>2, FilledLayout DEF N, world, sel
    <2> QED BY <2>2, <2>3
<1> QED BY <1>5, <1>6 DEF sel, world

-----------------------------------------------------------------------------
(* The planner's policy spread.                                             *)

\* A nonempty set of numbers has a least one.
LEMMA LeastIs ==
    ASSUME NEW S \in SUBSET Nat, S # {}
    PROVE  Least(S) \in S
<1> DEFINE T == OpToRel(<, Nat)
<1>1. IsWellFoundedOn(T, Nat)
    BY NatLessThanWellFounded
<1>2. PICK x \in S : \A y \in S : ~(<<y, x>> \in T)
    <2> HIDE DEF T
    <2> QED BY <1>1, WFMin
<1>3. \A y \in S : x <= y
    <2> TAKE y \in S
    <2>1. x \in Nat /\ y \in Nat /\ ~(y < x)
        BY <1>2 DEF OpToRel
    <2> QED BY <2>1
<1> QED BY <1>3 DEF Least

\* What a turn of _plan_spread does.
GiveStep(R, nproc, pool, now) ==
    LET open == {i \in DOMAIN pool : /\ now[i] < Capacity(R, pool[i], nproc)
                                     /\ \A h \in DOMAIN pool : now[i] <= now[h]}
    IN  IF open = {} THEN now ELSE [now EXCEPT ![Least(open)] = @ + 1]

\* The turns of _plan_spread.
Gives(g, R, nproc, pool, world) ==
    g = [k \in 0..world |-> IF k = 0 THEN [i \in DOMAIN pool |-> 0]
                            ELSE GiveStep(R, nproc, pool, g[k - 1])]

\* The nodes that take turns.
PoolOf(R, spec) ==
    LET ids == ById(R)
    IN  SubSeq(ids, 1, IF spec.nnodes < Len(ids) THEN spec.nnodes ELSE Len(ids))

\* _plan_spread goes through such a function.
LEMMA PlanSpreadIs ==
    ASSUME NEW R, NEW world, NEW spec
    PROVE  LET pool == PoolOf(R, spec)
               given == (CHOOSE g : Gives(g, R, spec.nproc, pool, world))[world]
               selected == [i \in DOMAIN pool |-> [node |-> pool[i], ranks |-> given[i]]]
           IN  PlanSpread(R, world, spec) = IF Total(selected) < world THEN <<>> ELSE selected
BY DEF PlanSpread, PoolOf, Gives, GiveStep

\* The pool has nodes of the inventory, each once, and no more than nnodes.
LEMMA PoolIs ==
    ASSUME NEW R, Reported(R), NEW spec \in JobSpec
    PROVE  LET pool == PoolOf(R, spec)
           IN  /\ pool \in Seq(DOMAIN R) /\ Len(pool) <= spec.nnodes
               /\ \A i, k \in 1..Len(pool) : pool[i] = pool[k] => i = k
<1> DEFINE N == Cardinality(DOMAIN R)
           ids == ById(R)
           m == IF spec.nnodes < Len(ids) THEN spec.nnodes ELSE Len(ids)
           pool == SubSeq(ids, 1, m)
<1>1. N \in Nat /\ ids \in [1..N -> DOMAIN R] /\ \A i, j \in 1..N : ids[i] = ids[j] => i = j
    BY ByIdIs
<1>2. spec.nnodes \in Nat
    BY DEF JobSpec
<1>3. PoolOf(R, spec) = pool
    BY DEF PoolOf
<1> HIDE DEF ids, N
<1>4. ids \in Seq(DOMAIN R) /\ Len(ids) = N
    BY <1>1
<1>5. m \in 0..N /\ m <= spec.nnodes
    BY <1>1, <1>2, <1>4
<1> HIDE DEF m
<1>6. /\ pool \in Seq(DOMAIN R) /\ Len(pool) = m
      /\ \A i \in 1..m : pool[i] = ids[i]
    BY <1>1, <1>4, <1>5
<1> HIDE DEF pool
<1>7. \A i \in 1..m : i \in 1..N
    BY <1>1, <1>5
<1> QED BY <1>1, <1>3, <1>5, <1>6, <1>7

\* After k turns: nobody beyond its capacity, and no more than k ranks.
Shared(now, R, nproc, pool, k) ==
    /\ now \in [DOMAIN pool -> Nat]
    /\ \A i \in DOMAIN pool : now[i] <= Capacity(R, pool[i], nproc)
    /\ SumOver(now, DOMAIN pool) <= k

\* A turn keeps the shares so.
LEMMA GiveShares ==
    ASSUME NEW R, Reported(R), NEW nproc \in Nat, NEW pool \in Seq(DOMAIN R), NEW k \in Nat,
           NEW now, Shared(now, R, nproc, pool, k)
    PROVE  Shared(GiveStep(R, nproc, pool, now), R, nproc, pool, k + 1)
<1> DEFINE D == DOMAIN pool
           open == {i \in D : now[i] < Capacity(R, pool[i], nproc) /\ \A h \in D : now[i] <= now[h]}
           x == Least(open)
           next == [now EXCEPT ![x] = @ + 1]
<1>1. /\ now \in [D -> Nat] /\ (\A i \in D : now[i] <= Capacity(R, pool[i], nproc))
      /\ SumOver(now, D) <= k
    BY DEF Shared
<1>2. IsFiniteSet(D) /\ D \in SUBSET Nat
    <2>1. D = 1..Len(pool) /\ Len(pool) \in Nat
        OBVIOUS
    <2> HIDE DEF D
    <2>2. IsFiniteSet(D)
        BY <2>1, FS_Interval
    <2> QED BY <2>1, <2>2
<1>3. GiveStep(R, nproc, pool, now) = IF open = {} THEN now ELSE next
    BY DEF GiveStep
<1>4. \A i \in D : Capacity(R, pool[i], nproc) \in Nat
    <2>1. \A i \in D : pool[i] \in DOMAIN R
        OBVIOUS
    <2> QED BY <2>1, CapsTyped
<1>5. SumOver(now, D) \in Nat
    <2>1. \A i \in D : now[i] \in Nat
        BY <1>1
    <2> HIDE DEF D
    <2> QED BY ONLY <1>2, <2>1, SumType
<1>6. CASE open = {}
    <2>1. SumOver(now, D) <= k + 1
        BY <1>1, <1>5
    <2> QED BY <1>1, <1>3, <1>6, <2>1 DEF Shared
<1>7. CASE open # {}
    <2>1. x \in open
        <3>1. open \in SUBSET Nat
            BY <1>2
        <3> HIDE DEF open
        <3> QED BY <1>7, <3>1, LeastIs
    <2>2. x \in D /\ now[x] < Capacity(R, pool[x], nproc)
        BY <2>1
    <2> HIDE DEF x, open, D
    <2>3. /\ next \in [D -> Nat] /\ next[x] = now[x] + 1
          /\ \A i \in D \ {x} : next[i] = now[i]
        BY <1>1, <2>2
    <2> HIDE DEF next
    <2>4. \A i \in D : next[i] <= Capacity(R, pool[i], nproc)
        <3>1. next[x] <= Capacity(R, pool[x], nproc)
            BY <1>1, <1>4, <2>2, <2>3
        <3> QED BY <1>1, <2>3, <3>1
    <2>5. SumOver(next, D) = SumOver(now, D) + 1
        <3> DEFINE E == D \ {x}
        <3>1. /\ \A i \in E : now[i] \in Nat /\ next[i] = now[i]
              /\ \A i \in D : now[i] \in Nat /\ next[i] \in Nat
              /\ IsFiniteSet(E)
            BY <1>1, <1>2, <2>3, FS_RemoveElement
        <3>2. SumOver(now, D) = SumOver(now, D \ {x}) + now[x]
            BY ONLY <1>2, <2>2, <3>1, SumSplit
        <3>3. SumOver(next, D) = SumOver(next, D \ {x}) + next[x]
            BY ONLY <1>2, <2>2, <3>1, SumSplit
        <3>4. SumOver(next, E) = SumOver(now, E)
            <4> HIDE DEF E
            <4> QED BY ONLY <3>1, SumEqual
        <3>5. SumOver(now, E) \in Nat
            <4>1. \A i \in E : now[i] \in Nat
                BY <3>1
            <4> HIDE DEF E
            <4> QED BY ONLY <3>1, <4>1, SumType
        <3>6. now[x] \in Nat
            BY <2>2, <3>1
        <3>7. PICK e \in Nat : e = SumOver(now, E)
            BY <3>5
        <3> QED BY <2>3, <3>2, <3>3, <3>4, <3>6, <3>7
    <2>6. SumOver(next, D) <= k + 1
        BY <1>1, <1>5, <2>5
    <2>7. Shared(next, R, nproc, pool, k + 1)
        BY <2>3, <2>4, <2>6 DEF Shared, D
    <2> QED BY <1>3, <1>7, <2>7
<1> QED BY <1>6, <1>7

\* Spreading gives a layout, or nothing.
LEMMA PlanSpreadResult ==
    ASSUME NEW R, Reported(R), NEW spec \in JobSpec
    PROVE  LET sel == PlanSpread(R, spec.nnodes * spec.nproc, spec)
           IN  sel # <<>> => Layout(sel, R, spec)
<1> DEFINE world == spec.nnodes * spec.nproc
           nproc == spec.nproc
           pool == PoolOf(R, spec)
           D == DOMAIN pool
           X == [D -> Nat]
           K == 0..world
<1>1. nproc \in Nat \ {0} /\ spec.nnodes \in Nat \ {0}
    BY DEF JobSpec
<1>2. world \in Nat \ {0}
    BY <1>1
<1>3. /\ pool \in Seq(DOMAIN R) /\ Len(pool) <= spec.nnodes
      /\ \A i, k \in 1..Len(pool) : pool[i] = pool[k] => i = k
    BY PoolIs
<1> HIDE DEF world, nproc, pool
<1>4. D = 1..Len(pool) /\ Len(pool) \in Nat /\ IsFiniteSet(D) /\ \A i \in D : pool[i] \in DOMAIN R
    <2>1. D = 1..Len(pool) /\ Len(pool) \in Nat /\ \A i \in D : pool[i] \in DOMAIN R
        BY <1>3
    <2> HIDE DEF D
    <2>2. IsFiniteSet(D)
        BY <2>1, FS_Interval
    <2> QED BY <2>1, <2>2
<1>5. ASSUME NEW now \in X PROVE GiveStep(R, nproc, pool, now) \in X
    <2> DEFINE open == {i \in D : now[i] < Capacity(R, pool[i], nproc) /\ \A h \in D : now[i] <= now[h]}
               x == Least(open)
               next == [now EXCEPT ![x] = @ + 1]
    <2>1. GiveStep(R, nproc, pool, now) = IF open = {} THEN now ELSE next
        BY DEF GiveStep
    <2> HIDE DEF open, x, D
    <2>2. \A i \in D : (IF i = x THEN now[x] + 1 ELSE now[i]) \in Nat
        OBVIOUS
    <2>3. next = [i \in D |-> IF i = x THEN now[x] + 1 ELSE now[i]]
        OBVIOUS
    <2> HIDE DEF next
    <2> QED BY <2>1, <2>2, <2>3
<1> DEFINE zero == [i \in D |-> 0]
           Eq(g) == \A k \in K : g[k] = IF k = 0 THEN zero ELSE GiveStep(R, nproc, pool, g[k - 1])
<1>6. \E g \in [K -> X] : Gives(g, R, nproc, pool, world)
    <2> DEFINE rank == [k \in K |-> k]
               ends == {0}
               base == [k \in K |-> zero]
               pred == [k \in K \ ends |-> k - 1]
               step == [k \in K \ ends |-> [now \in X |-> GiveStep(R, nproc, pool, now)]]
    <2>0. zero \in X
        OBVIOUS
    <2> HIDE DEF zero, X
    <2>1. (\E x \in X : TRUE) /\ rank \in [K -> Nat] /\ ends \in SUBSET K /\ base \in [K -> X]
        BY <1>2, <2>0
    <2>2. pred \in [K \ ends -> K] /\ (\A k \in K \ ends : rank[pred[k]] < rank[k])
        BY <1>2
    <2>3. step \in [K \ ends -> [X -> X]]
        BY <1>5
    <2>4. world + 1 \in Nat /\ \A k \in K : rank[k] < world + 1
        BY <1>2
    <2>5. Descends(K, X, rank, ends, base, pred, step)
        <3> HIDE DEF K, rank, ends, base, pred, step
        <3> QED BY ONLY <2>1, <2>2, <2>3, <2>4 DEF Descends
    <2>6. PICK g \in [K -> X] : Follows(g, K, ends, base, pred, step)
        <3> HIDE DEF K, rank, ends, base, pred, step
        <3> QED BY <2>5, Recursion
    <2>7. Eq(g)
        <3> TAKE k \in K
        <3>1. k # 0 => k - 1 \in K
            BY <1>2
        <3> QED BY <2>6, <3>1 DEF Follows
    <2>8. g = [k \in K |-> g[k]]
        BY <2>6
    <2>9. g = [k \in K |-> IF k = 0 THEN zero ELSE GiveStep(R, nproc, pool, g[k - 1])]
        BY <2>7, <2>8
    <2>10. Gives(g, R, nproc, pool, world)
        BY <2>9 DEF Gives, zero
    <2> QED BY <2>10
<1>7. PICK f : f = CHOOSE g : Gives(g, R, nproc, pool, world)
    OBVIOUS
<1>8. Eq(f)
    <2>1. Gives(f, R, nproc, pool, world)
        BY <1>6, <1>7
    <2> QED BY <2>1 DEF Gives
<1> DEFINE Good(k) == Shared(f[k], R, nproc, pool, k)
           Q == {k \in Nat : k <= world => Good(k)}
<1>9. 0 \in Q
    <2>1. 0 \in K /\ f[0] = zero
        BY <1>2, <1>8
    <2>2. \A i \in D : zero[i] = 0 /\ Capacity(R, pool[i], nproc) \in Nat
        BY <1>1, <1>4, CapsTyped
    <2>3. SumOver(zero, D) = 0
        <3>1. \A i \in D : zero[i] \in Nat
            BY <2>2
        <3> HIDE DEF zero, D
        <3>2. 1 * SumOver(zero, D) <= 0 * SumOver(zero, D)
            <4>1. 1 \in Nat /\ 0 \in Nat /\ \A i \in D : 1 * zero[i] <= 0 * zero[i]
                BY <2>2
            <4> QED BY ONLY <1>4, <3>1, <4>1, SumScaled
        <3>3. SumOver(zero, D) \in Nat
            BY ONLY <1>4, <3>1, SumType
        <3> QED BY ONLY <3>2, <3>3
    <2>4. Shared(zero, R, nproc, pool, 0)
        BY <2>2, <2>3 DEF Shared
    <2> QED BY <2>1, <2>4
<1>10. ASSUME NEW k \in Nat, k \in Q PROVE k + 1 \in Q
    <2> HIDE DEF Good
    <2> SUFFICES ASSUME k + 1 <= world PROVE Good(k + 1)
        OBVIOUS
    <2>1. k <= world /\ k + 1 \in K /\ k + 1 # 0 /\ (k + 1) - 1 = k
        BY ONLY <1>2, k \in Nat, k + 1 <= world
    <2>2. Good(k)
        BY <1>10, <2>1
    <2>3. PICK now : now = f[k]
        OBVIOUS
    <2>4. Shared(now, R, nproc, pool, k)
        BY <2>2, <2>3 DEF Good
    <2>5. Shared(GiveStep(R, nproc, pool, now), R, nproc, pool, k + 1)
        BY <1>1, <1>3, <2>4, GiveShares
    <2>6. f[k + 1] = GiveStep(R, nproc, pool, now)
        BY <1>8, <2>1, <2>3
    <2> QED BY <2>5, <2>6 DEF Good
<1>11. Good(world)
    <2>1. Nat \subseteq Q
        <3> HIDE DEF Q
        <3> QED BY <1>9, <1>10, NumberInduction
    <2>2. world \in Q /\ world <= world
        BY <1>2, <2>1
    <2> HIDE DEF Good
    <2> QED BY <2>2
<1> DEFINE sel == [i \in D |-> [node |-> pool[i], ranks |-> f[world][i]]]
<1>12. PlanSpread(R, world, spec) = IF Total(sel) < world THEN <<>> ELSE sel
    <2> DEFINE given == (CHOOSE g : Gives(g, R, nproc, pool, world))[world]
               selected == [i \in D |-> [node |-> pool[i], ranks |-> given[i]]]
    <2>1. PlanSpread(R, world, spec) = IF Total(selected) < world THEN <<>> ELSE selected
        BY PlanSpreadIs DEF pool, nproc
    <2>2. given = f[world]
        BY <1>7
    <2> QED BY <2>1, <2>2
<1>13. PICK ranks : ranks = f[world]
    OBVIOUS
<1>14. /\ \A i \in D : ranks[i] \in Nat /\ ranks[i] <= Capacity(R, pool[i], nproc)
       /\ SumOver(ranks, D) <= world
    BY <1>11, <1>13 DEF Shared
<1>15. \A i \in D : sel[i].node = pool[i] /\ sel[i].ranks = ranks[i]
    BY <1>13
<1>16. sel \in Seq(Picks) /\ Len(sel) = Len(pool)
    <2>1. \A i \in D : pool[i] \in Nat
        BY <1>4 DEF Reported
    <2>2. \A i \in D : [node |-> pool[i], ranks |-> f[world][i]] \in Picks
        BY <1>13, <1>14, <2>1 DEF Picks
    <2> QED BY <1>4, <2>2
<1> HIDE DEF sel
<1>17. Total(sel) = SumOver(ranks, D) /\ Total(sel) \in Nat
    <2> DEFINE u == RanksOf(sel)
    <2>1. /\ Total(sel) \in Nat /\ Total(sel) = SumOver(u, 1..Len(sel))
          /\ \A i \in 1..Len(sel) : u[i] = sel[i].ranks /\ sel[i].ranks \in Nat
        BY <1>16, TotalType
    <2> HIDE DEF u
    <2>2. \A i \in D : u[i] \in Nat /\ ranks[i] = u[i]
        BY <1>4, <1>15, <1>16, <2>1
    <2>3. SumOver(u, D) = SumOver(ranks, D)
        <3> HIDE DEF D
        <3> QED BY ONLY <1>4, <2>2, SumEqual
    <2> QED BY <1>4, <1>16, <2>1, <2>3
<1>18. ASSUME ~(Total(sel) < world), sel # <<>> PROVE Layout(sel, R, spec)
    <2>1. Total(sel) = world
        BY <1>2, <1>14, <1>17, <1>18
    <2>2. Selection(sel)
        BY <1>3, <1>4, <1>15, <1>16 DEF Selection
    <2>3. \A i \in 1..Len(sel) : sel[i].node \in DOMAIN R /\ sel[i].ranks <= Capacity(R, sel[i].node, nproc)
        BY <1>4, <1>14, <1>15, <1>16
    <2> QED BY <1>3, <1>16, <1>18, <2>1, <2>2, <2>3 DEF Layout, world, nproc
<1>19. PlanSpread(R, world, spec) # <<>> => Layout(PlanSpread(R, world, spec), R, spec)
    BY <1>12, <1>18
<1> QED BY <1>19 DEF world

\* What is said of the ranks of a placement.
RanksPlaced(map, R, spec) ==
    /\ DOMAIN map # {} /\ Len(map) = spec.nnodes * spec.nproc
    /\ NodesOf(map) \subseteq DOMAIN R /\ NodesOf(map) # {}
    /\ Cardinality(NodesOf(map)) \in Nat /\ Cardinality(NodesOf(map)) <= spec.nnodes
    /\ \A n \in NodesOf(map) :
          /\ {map[p].local : p \in RanksOn(map, n)} = 0..(Cardinality(RanksOn(map, n)) - 1)
          /\ Cardinality(RanksOn(map, n)) <= Capacity(R, n, spec.nproc)

\* A layout is bound rank by rank, to no more nodes than it has.
LEMMA LayoutBound ==
    ASSUME NEW R, Reported(R), NEW spec \in JobSpec, NEW sel, Layout(sel, R, spec)
    PROVE  RanksPlaced(BindRanks(sel), R, spec) /\ Cardinality(NodesOf(BindRanks(sel))) <= Len(sel)
<1> DEFINE N == Len(sel)
           world == spec.nnodes * spec.nproc
<1>1. /\ sel # <<>> /\ Selection(sel) /\ N <= spec.nnodes /\ Total(sel) = world
      /\ sel \in Seq(Picks) /\ N \in Nat
      /\ \A i \in 1..N : sel[i].node \in DOMAIN R /\ sel[i].ranks <= Capacity(R, sel[i].node, spec.nproc)
    BY DEF Layout, Selection
<1>2. world \in Nat \ {0} /\ spec.nnodes \in Nat
    BY DEF JobSpec
<1> HIDE DEF N, world
<1>3. PICK map : map = BindRanks(sel)
    OBVIOUS
<1>4. LaidOut(map, sel)
    BY <1>1, <1>3, BindSelection, SelectionBound
<1>5. Before(sel, N) = world
    BY <1>1, TotalType DEF Before, N
<1>6. DOMAIN map = 1..world /\ Len(map) = world /\ Cardinality(NodesOf(map)) <= N
    BY <1>4, <1>5 DEF LaidOut, N
<1>7. \A n \in NodesOf(map) :
         /\ n \in DOMAIN R
         /\ {map[p].local : p \in RanksOn(map, n)} = 0..(Cardinality(RanksOn(map, n)) - 1)
         /\ Cardinality(RanksOn(map, n)) <= Capacity(R, n, spec.nproc)
    <2> TAKE n \in NodesOf(map)
    <2>1. PICK i \in 1..N :
             /\ n = sel[i].node
             /\ Cardinality(RanksOn(map, n)) = sel[i].ranks
             /\ {map[p].local : p \in RanksOn(map, n)} = 0..(Cardinality(RanksOn(map, n)) - 1)
        BY <1>4 DEF LaidOut, N
    <2> QED BY <1>1, <2>1
<1>8. 1 \in DOMAIN map
    BY <1>2, <1>6
<1>9. map[1].node \in NodesOf(map)
    BY <1>8 DEF NodesOf
<1>10. NodesOf(map) \subseteq DOMAIN R
    BY <1>7
<1>11. Cardinality(NodesOf(map)) \in Nat
    BY <1>10, FS_Subset, FS_CardinalityType DEF Reported
<1>12. Cardinality(NodesOf(map)) <= spec.nnodes
    BY <1>1, <1>2, <1>6, <1>11
<1>13. RanksPlaced(map, R, spec)
    BY <1>6, <1>7, <1>8, <1>9, <1>10, <1>11, <1>12 DEF RanksPlaced, world
<1> QED BY <1>3, <1>6, <1>13 DEF N

\* What place_ranks promises: a code or a placement, and pack refuses for its size
\* only what does not fit and takes no node too many.
Promised(p, R, spec) ==
    /\ p.code = "none" => RanksPlaced(p.map, R, spec)
    /\ p.code # "none" => p.map = <<>>
    /\ spec.policy = "pack" =>
          /\ p.code = "capacity_insufficient" => ~Fits(R, spec, spec.nnodes)
          /\ p.code = "none" => ~Fits(R, spec, Cardinality(NodesOf(p.map)) - 1)

\* place_ranks keeps its promise for every inventory and job.
LEMMA PlaceRanksPromise ==
    ASSUME NEW R, Reported(R), NEW spec \in JobSpec
    PROVE  Promised(place_ranks(R, spec.nnodes * spec.nproc, spec), R, spec)
<1> DEFINE world == spec.nnodes * spec.nproc
           planned == IF spec.policy = "pack" THEN PackWithin(R, world, spec)
                      ELSE PlanSpread(R, world, spec)
           map == BindRanks(planned)
           used == {map[i].node : i \in DOMAIN map}
           net == NcclNet(spec.mode, [n \in used |-> R[n]])
           p == place_ranks(R, world, spec)
<1>1. p = IF ~evaluate_fabric_mode(spec.mode, R).ok
          THEN [code |-> "missing_ib", map |-> <<>>, net |-> "Socket"]
          ELSE IF planned = <<>>
          THEN [code |-> "capacity_insufficient", map |-> <<>>, net |-> "Socket"]
          ELSE [code |-> "none", map |-> map, net |-> net]
    BY DEF place_ranks
<1>2. /\ spec.policy = "pack" /\ planned = <<>> => ~Fits(R, spec, spec.nnodes)
      /\ planned # <<>> => Layout(planned, R, spec)
      /\ spec.policy = "pack" /\ planned # <<>> =>
            \A k \in Int : k <= Len(planned) - 1 => ~Fits(R, spec, k)
    BY PackWithinResult, PlanSpreadResult
<1> HIDE DEF net, planned, p
<1>3. CASE ~evaluate_fabric_mode(spec.mode, R).ok
    <2>1. p.code = "missing_ib" /\ p.map = <<>>
        BY <1>1, <1>3
    <2> QED BY <2>1 DEF Promised, p
<1>4. CASE evaluate_fabric_mode(spec.mode, R).ok /\ planned = <<>>
    <2>1. p.code = "capacity_insufficient" /\ p.map = <<>>
        BY <1>1, <1>4
    <2> QED BY <1>2, <1>4, <2>1 DEF Promised, p
<1>5. CASE evaluate_fabric_mode(spec.mode, R).ok /\ planned # <<>>
    <2>1. p.code = "none" /\ p.map = map
        BY <1>1, <1>5
    <2>2. RanksPlaced(map, R, spec) /\ Cardinality(NodesOf(map)) <= Len(planned)
        BY <1>2, <1>5, LayoutBound
    <2> HIDE DEF map
    <2>3. spec.policy = "pack" => ~Fits(R, spec, Cardinality(NodesOf(map)) - 1)
        <3>1. Cardinality(NodesOf(map)) \in Nat
            BY <2>2 DEF RanksPlaced
        <3>2. Len(planned) \in Nat
            BY <1>2, <1>5 DEF Layout, Selection
        <3>3. Cardinality(NodesOf(map)) - 1 \in Int /\ Cardinality(NodesOf(map)) - 1 <= Len(planned) - 1
            BY ONLY <2>2, <3>1, <3>2
        <3> QED BY <1>2, <1>5, <3>3
    <2> QED BY <2>1, <2>2, <2>3 DEF Promised, p
<1> QED BY <1>3, <1>4, <1>5 DEF p

-----------------------------------------------------------------------------
(* Fabric reports, pods and placements.                                     *)

USE FabricAssumption, SimDatesAssumption

\* The greatest date that a seed gives.
LastSimDate == CHOOSE d \in SimDates : \A e \in SimDates : e <= d

\* A scan that is dated now is later than any seed.
LEMMA SimDatesEnd ==
    /\ LastSimDate \in Nat
    /\ \A d \in SimDates : d \in Nat /\ d <= LastSimDate
    /\ Now = 1 + changes + LastSimDate
BY DEF LastSimDate, Now

-----------------------------------------------------------------------------
(* Dates.  A scan that finds no device is dated now, later than everything  *)
(* before it; a simulated one finds a device.                               *)

\* A row that found nothing is the newest by date until another one follows.
Ordered(r) ==
    \A i \in 1..Len(r) :
        r[i].ib = "none" => \A k \in 1..(i - 1) : r[k].at < r[i].at

\* No row is dated after now.
Past(r, now) == \A i \in 1..Len(r) : r[i].at <= now

\* What the dates of the rows and of the scan under way are to each other.
Dated ==
    /\ changes \in Nat
    /\ rows \in [Nodes -> Seq(Report)]
    /\ \A n \in Nodes : Ordered(rows[n]) /\ Past(rows[n], LastSimDate + changes)
    /\ \/ scan = NoScan
       \/ /\ scan.node \in Nodes /\ scan.found \in Report
          /\ scan.found.at <= LastSimDate + changes
          /\ scan.found.ib = "none" =>
                \A i \in 1..Len(rows[scan.node]) : rows[scan.node][i].at < scan.found.at

\* What the tables say of GPUs.
Registered == \A n \in Nodes : node[n].gpus \in Nat

\* What a rent under require_ib has seen.
RentInv == Dated /\ Registered /\ RentedOnIb

\* If the newest scan found nothing, it is also the latest by date.
LEMMA NewestIsLatest ==
    ASSUME Dated, NEW n \in Nodes, rows[n] # <<>>, Last(rows[n]).ib = "none"
    PROVE  LatestRow(n).ib = "none"
<1> DEFINE r == rows[n]
           l == Len(r)
           Wins(i) == \A k \in DOMAIN r : r[k].at < r[i].at \/ (r[k].at = r[i].at /\ i <= k)
<1>1. r \in Seq(Report) /\ r # <<>> /\ Ordered(r) /\ r[l].ib = "none"
    BY DEF Dated, Last
<1> HIDE DEF r
<1>2. l \in Nat \ {0} /\ DOMAIN r = 1..l /\ \A k \in 1..l : r[k].at \in Nat
    <2>1. l \in Nat /\ DOMAIN r = 1..l /\ (l = 0 => r = <<>>)
        BY <1>1
    <2>2. \A k \in 1..l : r[k] \in Report
        BY <1>1
    <2> HIDE DEF l
    <2> QED BY <1>1, <2>1, <2>2 DEF Report
<1>3. \A k \in 1..(l - 1) : r[k].at < r[l].at
    BY <1>1, <1>2 DEF Ordered
<1>4. Wins(l)
    BY <1>2, <1>3
<1>5. \A i \in DOMAIN r : Wins(i) => i = l
    BY <1>2, <1>3
<1>6. (CHOOSE i \in DOMAIN r : Wins(i)) = l
    BY <1>2, <1>4, <1>5
<1> QED BY <1>1, <1>6 DEF LatestRow, r

\* require_ib lets no pod through with a node whose newest scan found nothing.
LEMMA RentSeesNewest ==
    ASSUME Dated, NEW S \in SUBSET Nodes, MayRent(S), NEW n \in S
    PROVE  Newest(n) # "none"
<1>1. LatestReport(n).ib = "active"
    BY DEF MayRent, AllActive, LatestReports, has_active_ib_devices
<1>2. CASE rows[n] = <<>>
    BY <1>1, <1>2 DEF LatestReport, Newest
<1>3. CASE rows[n] # <<>>
    <2>1. LatestRow(n).ib = "active"
        BY <1>1, <1>3 DEF LatestReport
    <2> QED BY <1>3, <2>1, NewestIsLatest DEF Newest
<1> QED BY <1>2, <1>3

\* A scan that has been read is dated now or by its seed.
LEMMA BeginDated ==
    ASSUME Dated, NEW n \in Nodes, NEW date \in ScanDates, BeginScan(n, date), Registered
    PROVE  Dated'
<1>1. /\ changes' = changes + 1 /\ rows' = rows
      /\ scan' = [node |-> n, has_ib |-> node[n].has_ib, latest |-> LatestRow(n),
                  found |-> Found(n, date)]
    BY DEF BeginScan
<1>2. /\ date \in Nat /\ date <= LastSimDate + changes'
      /\ date \notin SimDates => date = Now /\ date > LastSimDate + changes
    BY <1>1, SimDatesEnd DEF ScanDates, Dated
<1>3. Found(n, date) \in Report
    BY <1>2 DEF Found, Report, Ib, Registered
<1>4. ASSUME NEW m \in Nodes, NEW i \in 1..Len(rows[m])
      PROVE  rows[m][i].at \in Nat /\ rows[m][i].at <= LastSimDate + changes
    <2>1. rows[m] \in Seq(Report)
        BY DEF Dated
    <2>2. rows[m][i] \in Report
        BY <2>1
    <2> QED BY <2>2 DEF Dated, Past, Report
<1>6. \A m \in Nodes : Past(rows'[m], LastSimDate + changes')
    <2> SUFFICES ASSUME NEW m \in Nodes, NEW i \in 1..Len(rows[m])
                 PROVE  rows[m][i].at <= LastSimDate + changes'
        BY <1>1 DEF Past
    <2>1. rows[m][i].at \in Nat /\ rows[m][i].at <= LastSimDate + changes
        BY <1>4
    <2>2. changes \in Nat /\ changes' = changes + 1 /\ LastSimDate \in Nat
        BY <1>1, SimDatesEnd DEF Dated
    <2> QED BY ONLY <2>1, <2>2
<1>5. Found(n, date).ib = "none" => \A i \in 1..Len(rows[n]) : rows[n][i].at < date
    <2>1. Found(n, date).ib = "none" => date > LastSimDate + changes
        BY <1>2 DEF Found
    <2>2. \A i \in 1..Len(rows[n]) :
              rows[n][i].at \in Nat /\ rows[n][i].at <= LastSimDate + changes
        BY <1>4
    <2>3. changes \in Nat /\ LastSimDate \in Nat /\ date \in Nat
        BY <1>2, SimDatesEnd DEF Dated
    <2> QED BY ONLY <2>1, <2>2, <2>3
<1>7. scan'.node = n /\ scan'.found = Found(n, date) /\ Found(n, date).at = date
    BY <1>1 DEF Found
<1>8. changes' \in Nat /\ rows' \in [Nodes -> Seq(Report)] /\ \A m \in Nodes : Ordered(rows'[m])
    BY <1>1 DEF Dated
<1> QED BY <1>1, <1>2, <1>3, <1>5, <1>6, <1>7, <1>8 DEF Dated

\* The row of a scan is appended behind rows that were there when it was read.
LEMMA CommitDated ==
    ASSUME Dated, CommitScan
    PROVE  Dated'
<1> DEFINE n == scan.node
<1>1. /\ n \in Nodes /\ scan.found \in Report /\ scan.found.at <= LastSimDate + changes
      /\ scan.found.ib = "none" => \A i \in 1..Len(rows[n]) : rows[n][i].at < scan.found.at
      /\ changes' = changes /\ scan' = NoScan
    BY DEF Dated, CommitScan
<1>2. \/ rows' = rows
      \/ rows' = [rows EXCEPT ![n] = Append(rows[n], scan.found)]
    BY DEF CommitScan, Dated
<1>3. ASSUME NEW r \in Seq(Report), NEW f \in Report, Ordered(r),
             f.ib = "none" => \A i \in 1..Len(r) : r[i].at < f.at
      PROVE  Append(r, f) \in Seq(Report) /\ Ordered(Append(r, f))
    <2>1. PICK l \in Nat : l = Len(r)
        OBVIOUS
    <2>2. /\ Append(r, f) \in Seq(Report) /\ Len(Append(r, f)) = l + 1
          /\ Append(r, f)[l + 1] = f /\ \A i \in 1..l : Append(r, f)[i] = r[i]
        BY ONLY <2>1, r \in Seq(Report), f \in Report
    <2>3. PICK q : q = Append(r, f)
        OBVIOUS
    <2>4. ASSUME NEW i \in 1..(l + 1), q[i].ib = "none", NEW k \in 1..(i - 1) PROVE q[k].at < q[i].at
        <3>1. k \in 1..l /\ q[k] = r[k]
            BY ONLY <2>2, <2>3, l \in Nat, i \in 1..(l + 1), k \in 1..(i - 1)
        <3>2. CASE i = l + 1
            BY <1>3, <2>1, <2>2, <2>3, <2>4, <3>1, <3>2
        <3>3. CASE i # l + 1
            <4>1. i \in 1..l
                BY <3>3
            <4>2. q[i] = r[i]
                BY <2>2, <2>3, <4>1
            <4> QED BY <1>3, <2>1, <2>4, <3>1, <4>1, <4>2 DEF Ordered
        <3> QED BY <3>2, <3>3
    <2>5. Ordered(q)
        BY <2>2, <2>3, <2>4 DEF Ordered
    <2> QED BY <2>2, <2>3, <2>5
<1>4. ASSUME NEW r \in Seq(Report), NEW f \in Report, NEW t, Past(r, t), f.at <= t
      PROVE  Past(Append(r, f), t)
    BY <1>4 DEF Past
<1>5. rows[n] \in Seq(Report) /\ Ordered(rows[n])
      /\ Past(rows[n], LastSimDate + changes)
    BY <1>1 DEF Dated
<1>6. /\ Append(rows[n], scan.found) \in Seq(Report) /\ Ordered(Append(rows[n], scan.found))
      /\ Past(Append(rows[n], scan.found), LastSimDate + changes)
    BY <1>1, <1>3, <1>4, <1>5
<1>7. /\ rows' \in [Nodes -> Seq(Report)]
      /\ \A m \in Nodes : Ordered(rows'[m]) /\ Past(rows'[m], LastSimDate + changes)
    <2>1. CASE rows' = rows
        BY <2>1 DEF Dated
    <2>2. CASE rows' = [rows EXCEPT ![n] = Append(rows[n], scan.found)]
        <3> DEFINE new == Append(rows[n], scan.found)
        <3>1. rows \in [Nodes -> Seq(Report)] /\ n \in Nodes /\ new \in Seq(Report)
            BY <1>1, <1>6 DEF Dated
        <3>2. \A m \in Nodes : rows'[m] = IF m = n THEN new ELSE rows[m]
            <4> HIDE DEF new, n
            <4> QED BY <2>2, <3>1 DEF new
        <3>3. rows' \in [Nodes -> Seq(Report)]
            <4> HIDE DEF n
            <4> QED BY <2>2, <3>1
        <3>4. Ordered(new) /\ Past(new, LastSimDate + changes)
            BY <1>6
        <3> HIDE DEF new
        <3> QED BY <3>2, <3>3, <3>4 DEF Dated
    <2> QED BY <1>2, <2>1, <2>2
<1> QED BY <1>1, <1>7 DEF Dated

\* No row and no lease at first.
LEMMA RentInvInit == Init => RentInv
<1> SUFFICES ASSUME Init PROVE RentInv
    OBVIOUS
<1>1. lease.require_ib = FALSE /\ changes = 0 /\ scan = NoScan
    BY DEF Init, NoLease
<1>2. rows \in [Nodes -> Seq(Report)] /\ \A n \in Nodes : Len(rows[n]) = 0
    BY DEF Init
<1>3. Dated
    <2>1. \A n \in Nodes : 1..Len(rows[n]) = {}
        BY <1>2
    <2>2. \A n \in Nodes : Ordered(rows[n]) /\ Past(rows[n], LastSimDate + changes)
        BY <2>1 DEF Ordered, Past
    <2> QED BY <1>1, <1>2, <2>2 DEF Dated
<1>4. Registered
    <2>1. PICK fleet \in Fleets : node = [n \in Nodes |->
              [gpus |-> fleet[n].gpus, inv |-> fleet[n].ib, has_ib |-> fleet[n].ib # "none"]]
        BY DEF Init
    <2>2. \A n \in Nodes : fleet[n].gpus \in Nat
        <3>1. fleet \in [Nodes -> [gpus : Sizes, ib : Ib]]
            OBVIOUS
        <3>2. \A n \in Nodes : fleet[n].gpus \in Sizes
            BY ONLY <3>1
        <3> QED BY <3>2
    <2> QED BY <2>1, <2>2 DEF Registered
<1> QED BY <1>1, <1>3, <1>4 DEF RentInv, RentedOnIb

\* Registrations, scans and rents keep the invariant.
LEMMA RentInvStep == RentInv /\ [Next]_vars => RentInv'
<1> SUFFICES ASSUME RentInv, [Next]_vars PROVE RentInv'
    OBVIOUS
<1>0. Dated /\ Registered /\ RentedOnIb
    BY DEF RentInv
<1>1. ASSUME UNCHANGED <<rows, scan, changes>> PROVE Dated'
    BY <1>0, <1>1 DEF Dated
<1>2. ASSUME UNCHANGED lease PROVE RentedOnIb'
    BY <1>0, <1>2 DEF RentedOnIb
<1>3. ASSUME UNCHANGED node PROVE Registered'
    BY <1>0, <1>3 DEF Registered
<1>4. ASSUME NEW n \in Nodes, NEW gpus \in Sizes, NEW ib \in Ib, Register(n, gpus, ib)
      PROVE  RentInv'
    <2>1. /\ changes' = changes + 1 /\ rows' = rows /\ scan' = scan /\ lease' = lease
          /\ node' = [node EXCEPT ![n] = [gpus |-> gpus, inv |-> ib, has_ib |-> ib # "none"]]
        BY <1>4 DEF Register
    <2>2. Registered'
        BY <1>0, <2>1 DEF Registered
    <2>3. \A m \in Nodes : Past(rows[m], LastSimDate + changes')
        <3> SUFFICES ASSUME NEW m \in Nodes, NEW i \in 1..Len(rows[m])
                     PROVE  rows[m][i].at <= LastSimDate + changes'
            BY DEF Past
        <3>1. rows[m] \in Seq(Report) /\ rows[m][i].at <= LastSimDate + changes
            BY <1>0 DEF Dated, Past
        <3>2. rows[m][i].at \in Nat
            <4>1. rows[m][i] \in Report
                BY <3>1
            <4> QED BY <4>1 DEF Report
        <3>3. changes \in Nat /\ changes' = changes + 1 /\ LastSimDate \in Nat
            BY <1>0, <2>1, SimDatesEnd DEF Dated
        <3> QED BY ONLY <3>1, <3>2, <3>3
    <2>4. scan # NoScan => scan.found.at <= LastSimDate + changes'
        BY <1>0, <2>1, SimDatesEnd DEF Dated, Report
    <2>5. Dated'
        BY <1>0, <2>1, <2>3, <2>4 DEF Dated
    <2> QED BY <1>2, <2>1, <2>2, <2>5 DEF RentInv
<1>5. ASSUME NEW n \in Nodes, NEW date \in ScanDates, BeginScan(n, date) PROVE RentInv'
    <2>1. Dated'
        BY <1>0, <1>5, BeginDated
    <2> QED BY <1>2, <1>3, <1>5, <2>1 DEF BeginScan, RentInv
<1>6. CASE CommitScan
    <2>1. Dated'
        BY <1>0, <1>6, CommitDated
    <2>2. Registered'
        BY <1>0, <1>6 DEF CommitScan, Registered, Inventory
    <2> QED BY <1>2, <1>6, <2>1, <2>2 DEF CommitScan, RentInv
<1>7. CASE AbortScan
    <2>1. Dated'
        BY <1>0, <1>7 DEF AbortScan, Dated
    <2> QED BY <1>2, <1>3, <1>7, <2>1 DEF AbortScan, RentInv
<1>8. ASSUME NEW S \in Pods, NEW require_ib \in BOOLEAN, Rent(S, require_ib) PROVE RentInv'
    <2>1. /\ lease' = [pod |-> S, require_ib |-> require_ib, newest |-> [n \in S |-> Newest(n)]]
          /\ require_ib => MayRent(S)
          /\ UNCHANGED <<node, rows, scan, changes>>
        BY <1>8 DEF Rent
    <2>2. S \in SUBSET Nodes
        OBVIOUS
    <2>3. require_ib => \A n \in S : Newest(n) # "none"
        BY <1>0, <2>1, <2>2, RentSeesNewest
    <2>4. lease'.require_ib = require_ib /\ lease'.pod = S
             /\ \A n \in S : lease'.newest[n] = Newest(n)
        BY <2>1
    <2>5. RentedOnIb'
        BY <2>3, <2>4 DEF RentedOnIb
    <2> QED BY <1>1, <1>3, <2>1, <2>5 DEF RentInv
<1>9. CASE UNCHANGED <<node, rows, scan, changes, lease>>
    BY <1>1, <1>2, <1>3, <1>9 DEF RentInv
<1>10. ASSUME \/ \E spec \in JobSpecs : Place(spec, lease.pod)
              \/ PostResults
              \/ \E inject \in Injections : Collect(inject)
       PROVE  UNCHANGED <<node, rows, scan, changes, lease>>
    BY <1>10 DEF Place, PostResults, Collect
<1>11. UNCHANGED vars => UNCHANGED <<node, rows, scan, changes, lease>>
    BY DEF vars
<1> QED BY <1>4, <1>5, <1>6, <1>7, <1>8, <1>9, <1>10, <1>11 DEF Next, FabricScan

\* A pod that is rented under require_ib has no node whose newest scan found no
\* device, although rent_offer asks for the report with the latest date and dates
\* of simulated scans come from their seeds (get_latest_fabric_report).
THEOREM RentCorrect == Spec => []RentedOnIb
<1>1. RentInv => RentedOnIb
    BY DEF RentInv
<1> QED BY <1>1, RentInvInit, RentInvStep, PTL DEF Spec
-----------------------------------------------------------------------------
(* The gate.  What a job was placed on stays in its row until the launch    *)
(* asks again.                                                              *)

\* The nodes of a rankmap reported a live device when the job was placed.
LiveWhereUsed ==
    OnPod =>
        /\ job.net = "IB" => \A n \in UsedNodes : has_active_ib_devices(job.planned[n])
        /\ job.spec.mode = "ib" /\ UsedNodes # {} /\ UsedNodes \subseteq job.pod => job.net = "IB"

\* The columns of the job's row.
Columns == {"st", "world", "spec", "pod", "planned", "map", "net", "code", "posted",
            "launched", "inject", "earns"}

\* The inductive invariant of the gate.
GateInv ==
    /\ DOMAIN job = Columns
    /\ job.st \in {"queued", "placed"} => job.earns = FALSE
    /\ job.spec.mode = "ib" /\ job.st = "placed" /\ job.pod # {} => AllActive(job.planned)
    /\ LiveWhereUsed
    /\ EarnsHonestly

\* InfiniBand is possible where there is a node and all of them are live.
LEMMA IbNeedsLive ==
    ASSUME NEW R, evaluate_fabric_mode("ib", R).ok
    PROVE  DOMAIN R # {} /\ AllActive(R)
BY DEF evaluate_fabric_mode

\* A job of mode ib gets InfiniBand where all nodes are live.
LEMMA LiveAllowsIb ==
    ASSUME NEW R, DOMAIN R # {}, AllActive(R)
    PROVE  NcclNet("ib", R) = "IB"
BY DEF NcclNet, evaluate_fabric_mode

\* NCCL is told of InfiniBand for live nodes only, whatever the mode.
LEMMA IbIsLive ==
    ASSUME NEW mode, NEW R, NcclNet(mode, R) = "IB"
    PROVE  AllActive(R)
BY DEF NcclNet, evaluate_fabric_mode

\* What place_ranks gives for a layout that it accepts.
LEMMA PlacedOverLive ==
    ASSUME NEW R, NEW world, NEW spec, place_ranks(R, world, spec).code = "none"
    PROVE  LET p == place_ranks(R, world, spec)
               used == {p.map[i].node : i \in DOMAIN p.map}
           IN  /\ spec.mode = "ib" => DOMAIN R # {} /\ AllActive(R)
               /\ p.net = NcclNet(spec.mode, [n \in used |-> R[n]])
<1> DEFINE planned == IF spec.policy = "pack" THEN PackWithin(R, world, spec)
                      ELSE PlanSpread(R, world, spec)
           map == BindRanks(planned)
           used == {map[i].node : i \in DOMAIN map}
           net == NcclNet(spec.mode, [n \in used |-> R[n]])
<1>1. place_ranks(R, world, spec) =
         IF ~evaluate_fabric_mode(spec.mode, R).ok
         THEN [code |-> "missing_ib", map |-> <<>>, net |-> "Socket"]
         ELSE IF planned = <<>>
         THEN [code |-> "capacity_insufficient", map |-> <<>>, net |-> "Socket"]
         ELSE [code |-> "none", map |-> map, net |-> net]
    BY DEF place_ranks
<1> HIDE DEF net, map, planned
<1>2. /\ evaluate_fabric_mode(spec.mode, R).ok
      /\ place_ranks(R, world, spec) = [code |-> "none", map |-> map, net |-> net]
    BY <1>1
<1>3. place_ranks(R, world, spec).map = map /\ place_ranks(R, world, spec).net = net
    BY <1>2
<1>4. spec.mode = "ib" => DOMAIN R # {} /\ AllActive(R)
    BY <1>2, IbNeedsLive
<1> QED BY <1>3, <1>4 DEF net

\* Placing: the planner looks at the reports that go into the row.
LEMMA PlaceGate ==
    ASSUME GateInv, NEW spec \in JobSpecs, NEW S, Place(spec, S)
    PROVE  GateInv'
<1> DEFINE R == LatestReports(S)
           world == spec.nnodes * spec.nproc
           result == IF S # {} THEN place_ranks(R, world, spec)
                     ELSE [code |-> "none", map |-> SimRankmap(spec),
                           net |-> IF spec.mode = "ib" THEN "IB" ELSE "Socket"]
<1>1. /\ job.st = "queued"
      /\ job' = [job EXCEPT !.st = IF result.code = "none" THEN "placed" ELSE "refused",
              !.world = world, !.spec = spec, !.pod = S, !.planned = R, !.map = result.map,
              !.net = result.net, !.code = result.code]
    BY DEF Place
<1> HIDE DEF world, result
<1>2. /\ DOMAIN job' = Columns
      /\ job'.st = IF result.code = "none" THEN "placed" ELSE "refused"
      /\ job'.spec = spec /\ job'.pod = S /\ job'.planned = R /\ job'.map = result.map
      /\ job'.net = result.net
      /\ job'.earns = FALSE
    BY <1>1 DEF GateInv, Columns
<1>3. CASE S # {} /\ result.code = "none"
    <2>1. place_ranks(R, world, spec).code = "none" /\ result = place_ranks(R, world, spec)
        BY <1>3 DEF result
    <2> DEFINE used == {result.map[i].node : i \in DOMAIN result.map}
               net == NcclNet(spec.mode, [n \in used |-> R[n]])
    <2>2. spec.mode = "ib" => DOMAIN R # {} /\ AllActive(R)
        BY <2>1, PlacedOverLive
    <2>3. result.net = net
        BY <2>1, PlacedOverLive
    <2>4. UsedNodes' = used
        BY <1>2 DEF UsedNodes
    <2>5. net = "IB" => \A n \in used : has_active_ib_devices(R[n])
        <3>1. net = "IB" => AllActive([n \in used |-> R[n]])
            BY IbIsLive
        <3> QED BY <3>1 DEF AllActive
    <2>6. ASSUME spec.mode = "ib", used \subseteq S, used # {}
          PROVE  net = "IB"
        <3>1. DOMAIN R = S
            BY DEF LatestReports
        <3>2. \A n \in used : has_active_ib_devices(R[n])
            BY <2>2, <2>6, <3>1 DEF AllActive
        <3>3. DOMAIN [n \in used |-> R[n]] # {} /\ AllActive([n \in used |-> R[n]])
            BY <2>6, <3>2 DEF AllActive
        <3> QED BY <2>6, <3>3, LiveAllowsIb
    <2> HIDE DEF net, used, R
    <2>8. LiveWhereUsed'
        BY <1>2, <2>3, <2>4, <2>5, <2>6 DEF LiveWhereUsed
    <2> QED BY <1>2, <2>2, <2>8 DEF GateInv, EarnsHonestly
<1>4. CASE S = {}
    BY <1>2, <1>4 DEF GateInv, EarnsHonestly, LiveWhereUsed, OnPod
<1>5. CASE S # {} /\ result.code # "none"
    <2>1. result.map = <<>>
        BY <1>5 DEF result, place_ranks
    <2> QED BY <1>2, <1>5, <2>1 DEF GateInv, EarnsHonestly, LiveWhereUsed, OnPod
<1> QED BY <1>3, <1>4, <1>5

\* The layout and the reports that it was made on are left as they are.
LEMMA SameLayout ==
    ASSUME LiveWhereUsed, job'.map = job.map, job'.pod = job.pod, job'.net = job.net,
           job'.spec = job.spec, job'.planned = job.planned
    PROVE  LiveWhereUsed'
<1>1. UsedNodes' = UsedNodes /\ (OnPod' <=> OnPod)
    BY DEF UsedNodes, OnPod
<1> QED BY <1>1 DEF LiveWhereUsed

\* The collect: the gate asks the reports of the moment.
LEMMA CollectGate ==
    ASSUME GateInv, NEW inject \in Injections, Collect(inject)
    PROVE  GateInv'
<1> DEFINE R == LatestReports(job.pod)
           launch == sim_launch(job.spec.mode, R, inject)
           earns == (job.posted \/ launch.status = "succeeded") /\ ~launch.integrity_fail
<1>1. /\ job.st = "placed"
      /\ job' = [job EXCEPT !.st = "collected", !.launched = R, !.inject = inject,
                            !.earns = earns]
    BY DEF Collect
<1>2. earns /\ inject.status = "none" =>
          /\ ~inject.spoof
          /\ job.spec.mode = "ib" => ~inject.eth /\ job.pod # {} /\ AllActive(R)
    <2>1. DOMAIN R = job.pod
        BY DEF LatestReports
    <2>2. launch.integrity_fail = (/\ inject.status = "none"
                                   /\ ~evaluate_fabric_gate(job.spec.mode, R, inject.spoof, inject.eth))
        BY DEF sim_launch
    <2> HIDE DEF R, launch
    <2> QED BY <2>1, <2>2, IbNeedsLive DEF evaluate_fabric_gate
<1> HIDE DEF R, earns
<1>3. /\ DOMAIN job' = Columns
      /\ job'.st = "collected" /\ job'.launched = R /\ job'.inject = inject /\ job'.earns = earns
      /\ job'.spec = job.spec /\ job'.pod = job.pod /\ job'.planned = job.planned
      /\ job'.map = job.map /\ job'.net = job.net
    BY <1>1 DEF GateInv, Columns
<1>4. EarnsHonestly'
    BY <1>1, <1>2, <1>3 DEF EarnsHonestly, GateInv
<1>5. LiveWhereUsed'
    BY <1>3, SameLayout DEF GateInv
<1> QED BY <1>3, <1>4, <1>5 DEF GateInv

\* No job is placed at first.
LEMMA GateInvInit == Init => GateInv
<1> SUFFICES ASSUME Init PROVE GateInv
    OBVIOUS
<1>1. /\ DOMAIN job = Columns /\ job.st = "queued" /\ job.earns = FALSE /\ job.pod = {}
    BY DEF Init, Unplaced, Columns
<1> QED BY <1>1 DEF GateInv, LiveWhereUsed, OnPod, EarnsHonestly

\* Placing, posting and collecting keep the invariant.
LEMMA GateInvStep == GateInv /\ [Next]_vars => GateInv'
<1> SUFFICES ASSUME GateInv, [Next]_vars PROVE GateInv'
    OBVIOUS
<1>1. ASSUME NEW spec \in JobSpecs, Place(spec, lease.pod) PROVE GateInv'
    BY <1>1, PlaceGate
<1>2. CASE PostResults
    <2>1. /\ DOMAIN job' = Columns
          /\ \A c \in Columns \ {"posted"} : job'[c] = job[c]
        BY <1>2 DEF PostResults, GateInv, Columns
    <2>2. /\ job'.st = job.st /\ job'.spec = job.spec /\ job'.pod = job.pod /\ job'.map = job.map
          /\ job'.net = job.net /\ job'.planned = job.planned /\ job'.earns = job.earns
          /\ job'.inject = job.inject /\ job'.launched = job.launched
        BY <2>1 DEF Columns
    <2>3. LiveWhereUsed'
        BY <2>2, SameLayout DEF GateInv
    <2> QED BY <2>1, <2>2, <2>3 DEF GateInv, EarnsHonestly
<1>3. ASSUME NEW inject \in Injections, Collect(inject) PROVE GateInv'
    BY <1>3, CollectGate
<1>4. CASE UNCHANGED job
    BY <1>4, SameLayout DEF GateInv, EarnsHonestly
<1> QED BY <1>1, <1>2, <1>3, <1>4
        DEF Next, Register, FabricScan, BeginScan, CommitScan, AbortScan, Rent, vars

\* A job of mode ib earns only on a pod that showed live devices when it was placed
\* and when it ran, and no job over a spoofed inventory, for any reports in between
\* and whoever sealed its results (evaluate_fabric_gate, _collect_success).
THEOREM EarningCorrect == Spec => []EarnsHonestly
<1>1. GateInv => EarnsHonestly
    BY DEF GateInv
<1> QED BY <1>1, GateInvInit, GateInvStep, PTL DEF Spec

-----------------------------------------------------------------------------
(* The placement in the job's row.                                          *)

\* The latest of some rows by date, the earlier of two of one date, exists.
LEMMA LatestExists ==
    ASSUME NEW r \in Seq(Report), r # <<>>
    PROVE  \E i \in DOMAIN r : \A k \in DOMAIN r :
               r[k].at < r[i].at \/ (r[k].at = r[i].at /\ i <= k)
<1> DEFINE Wins(i, l) == \A k \in 1..l : r[k].at < r[i].at \/ (r[k].at = r[i].at /\ i <= k)
           Q == {l \in Nat : l + 1 <= Len(r) => \E i \in 1..(l + 1) : Wins(i, l + 1)}
<1>1. Len(r) \in Nat /\ Len(r) # 0 /\ DOMAIN r = 1..Len(r)
    OBVIOUS
<1>2. \A k \in 1..Len(r) : r[k].at \in Nat
    <2>1. \A k \in 1..Len(r) : r[k] \in Report
        OBVIOUS
    <2> QED BY <2>1 DEF Report
<1>3. 0 \in Q
    <2>1. 1..(0 + 1) = {1}
        OBVIOUS
    <2>2. Wins(1, 0 + 1)
        BY <1>1, <1>2, <2>1
    <2> HIDE DEF Wins
    <2> QED BY <2>1, <2>2
<1>4. ASSUME NEW l \in Nat, l \in Q PROVE l + 1 \in Q
    <2> DEFINE m == l + 1
    <2> SUFFICES ASSUME m + 1 <= Len(r) PROVE \E i \in 1..(m + 1) : Wins(i, m + 1)
        OBVIOUS
    <2>1. m \in Nat /\ m <= Len(r) /\ m + 1 \in 1..Len(r)
        BY <1>1
    <2>2. PICK i \in 1..m : Wins(i, m)
        BY <1>4, <2>1
    <2> HIDE DEF m
    <2>3. i \in 1..Len(r) /\ i \in 1..(m + 1) /\ i < m + 1 /\ i \in Nat
        BY <2>1
    <2>4. \A k \in 1..(m + 1) : k \in 1..m \/ k = m + 1
        BY <2>1
    <2>5. \A k \in 1..m : k \in 1..Len(r) /\ k < m + 1
        BY <1>1, <2>1
    <2>6. CASE r[i].at < r[m + 1].at
        <3>1. Wins(m + 1, m + 1)
            BY <1>2, <2>1, <2>2, <2>3, <2>4, <2>5, <2>6
        <3>2. m + 1 \in 1..(m + 1)
            BY <2>1
        <3> HIDE DEF Wins
        <3> QED BY <3>1, <3>2
    <2>7. CASE ~(r[i].at < r[m + 1].at)
        <3>1. Wins(i, m + 1)
            BY <1>2, <2>1, <2>2, <2>3, <2>4, <2>7
        <3> HIDE DEF Wins
        <3> QED BY <2>3, <3>1
    <2> QED BY <2>6, <2>7
<1>5. \E i \in 1..Len(r) : Wins(i, Len(r))
    <2>1. Nat \subseteq Q
        <3> HIDE DEF Q
        <3> QED BY <1>3, <1>4, NumberInduction
    <2>2. Len(r) - 1 \in Nat /\ (Len(r) - 1) + 1 = Len(r) /\ Len(r) <= Len(r)
        BY <1>1
    <2>3. Len(r) - 1 \in Q
        BY <2>1, <2>2
    <2> HIDE DEF Wins
    <2> QED BY <2>2, <2>3
<1> QED BY <1>1, <1>5

\* The reports that the planner looks at count GPUs.
LEMMA ReportsReported ==
    ASSUME Dated, Registered, NEW S \in SUBSET Nodes
    PROVE  Reported(LatestReports(S)) /\ DOMAIN LatestReports(S) = S
<1>1. ASSUME NEW n \in S PROVE LatestReport(n).gpus \in Nat
    <2>1. CASE rows[n] = <<>>
        BY <2>1 DEF LatestReport, Registered
    <2>2. CASE rows[n] # <<>>
        <3>1. PICK r \in Seq(Report) : r = rows[n]
            BY DEF Dated
        <3>2. \E i \in DOMAIN r : \A k \in DOMAIN r :
                  r[k].at < r[i].at \/ (r[k].at = r[i].at /\ i <= k)
            BY <2>2, <3>1, LatestExists
        <3>3. PICK i \in DOMAIN r : LatestRow(n) = r[i]
            BY <2>2, <3>1, <3>2 DEF LatestRow
        <3>4. r[i] \in Report
            OBVIOUS
        <3> QED BY <2>2, <3>3, <3>4 DEF LatestReport, Report
    <2> QED BY <2>1, <2>2
<1>2. DOMAIN LatestReports(S) = S /\ \A n \in S : LatestReports(S)[n].gpus \in Nat
    BY <1>1 DEF LatestReports
<1>3. S \in SUBSET Nat /\ IsFiniteSet(S)
    BY FS_Subset
<1> QED BY <1>2, <1>3 DEF Reported

\* What place_ranks promised is true of the row for as long as it has the placement.
Placement ==
    /\ OnPod => UsedNodes # {} /\ UsedNodes \subseteq job.pod
    /\ RanksSound
    /\ PackIsTight

\* The inductive invariant of the placement.
PlanInv ==
    /\ RentInv
    /\ lease.pod \in SUBSET Nodes
    /\ DOMAIN job = Columns
    /\ Placement

\* Where the row keeps its placement, what is said of it stays true.
LEMMA SamePlacement ==
    ASSUME Placement, job'.map = job.map, job'.pod = job.pod, job'.world = job.world,
           job'.spec = job.spec, job'.planned = job.planned, job'.code = job.code
    PROVE  Placement'
<1>1. UsedNodes' = UsedNodes /\ (OnPod' <=> OnPod) /\ \A n : OnNode(n)' = OnNode(n)
    BY DEF UsedNodes, OnPod, OnNode
<1>2. RanksSound'
    BY <1>1 DEF Placement, RanksSound
<1>3. PackIsTight'
    BY <1>1 DEF Placement, PackIsTight
<1> QED BY <1>1, <1>2, <1>3 DEF Placement

\* The placement that a claim writes.
LEMMA PlacePromise ==
    ASSUME PlanInv, NEW spec \in JobSpecs, Place(spec, lease.pod)
    PROVE  DOMAIN job' = Columns /\ Placement'
<1> DEFINE S == lease.pod
           R == LatestReports(S)
           world == spec.nnodes * spec.nproc
           result == IF S # {} THEN place_ranks(R, world, spec)
                     ELSE [code |-> "none", map |-> SimRankmap(spec),
                           net |-> IF spec.mode = "ib" THEN "IB" ELSE "Socket"]
<1>1. job' = [job EXCEPT !.st = IF result.code = "none" THEN "placed" ELSE "refused",
              !.world = world, !.spec = spec, !.pod = S, !.planned = R, !.map = result.map,
              !.net = result.net, !.code = result.code]
    BY DEF Place
<1>2. Reported(R) /\ DOMAIN R = S /\ spec \in JobSpec
    BY ReportsReported DEF PlanInv, RentInv
<1>3. S # {} => Promised(result, R, spec)
    <2>1. S # {} => result = place_ranks(R, world, spec)
        OBVIOUS
    <2> HIDE DEF result, R
    <2> QED BY <1>2, <2>1, PlaceRanksPromise
<1>4. S = {} => result.code = "none"
    OBVIOUS
<1> HIDE DEF R, world, result
<1>5. /\ DOMAIN job' = Columns
      /\ job'.world = world /\ job'.spec = spec /\ job'.pod = S /\ job'.planned = R
      /\ job'.map = result.map /\ job'.code = result.code
    BY <1>1 DEF PlanInv, Columns
<1> HIDE DEF S
<1>6. PICK map : map = result.map
    OBVIOUS
<1>7. /\ UsedNodes' = NodesOf(map) /\ \A n : OnNode(n)' = RanksOn(map, n)
      /\ OnPod' <=> S # {} /\ map # <<>>
    BY <1>5, <1>6 DEF UsedNodes, NodesOf, OnNode, RanksOn, OnPod
<1>8. OnPod' => RanksPlaced(map, R, spec) /\ result.code = "none" /\ S # {}
    BY <1>3, <1>6, <1>7 DEF Promised
<1>9. RanksSound'
    <2>1. OnPod' =>
             /\ Len(map) = world /\ NodesOf(map) \subseteq S
             /\ Cardinality(NodesOf(map)) <= spec.nnodes
             /\ \A n \in NodesOf(map) :
                   /\ {map[i].local : i \in RanksOn(map, n)} = 0..(Cardinality(RanksOn(map, n)) - 1)
                   /\ Cardinality(RanksOn(map, n)) <= Capacity(R, n, spec.nproc)
        BY <1>2, <1>8 DEF RanksPlaced, world
    <2> QED BY <1>5, <1>6, <1>7, <2>1 DEF RanksSound
<1>10. PackIsTight'
    <2>1. spec.policy = "pack" =>
             /\ result.code = "capacity_insufficient" => ~Fits(R, spec, spec.nnodes)
             /\ OnPod' => ~Fits(R, spec, Cardinality(NodesOf(map)) - 1)
        BY <1>3, <1>4, <1>6, <1>8 DEF Promised
    <2> QED BY <1>5, <1>7, <2>1 DEF PackIsTight
<1>11. OnPod' => UsedNodes' # {} /\ UsedNodes' \subseteq job'.pod
    BY <1>2, <1>5, <1>7, <1>8 DEF RanksPlaced
<1> QED BY <1>5, <1>9, <1>10, <1>11 DEF Placement

\* Nothing is placed at first.
LEMMA PlanInvInit == Init => PlanInv
<1> SUFFICES ASSUME Init PROVE PlanInv
    OBVIOUS
<1>1. /\ DOMAIN job = Columns /\ job.pod = {} /\ job.code = "none"
      /\ lease.pod = {}
    BY DEF Init, Unplaced, Columns, NoLease
<1>2. Placement
    BY <1>1 DEF Placement, RanksSound, PackIsTight, OnPod
<1> QED BY <1>1, <1>2, RentInvInit DEF PlanInv

\* Only a claim writes a placement.
LEMMA PlanInvStep == PlanInv /\ [Next]_vars => PlanInv'
<1> SUFFICES ASSUME PlanInv, [Next]_vars PROVE PlanInv'
    OBVIOUS
<1>0. RentInv' /\ lease.pod \in SUBSET Nodes /\ DOMAIN job = Columns /\ Placement
    BY RentInvStep DEF PlanInv
<1>1. ASSUME UNCHANGED job PROVE DOMAIN job' = Columns /\ Placement'
    BY <1>0, <1>1, SamePlacement
<1>2. ASSUME NEW spec \in JobSpecs, Place(spec, lease.pod) PROVE PlanInv'
    <2>1. lease' = lease
        BY <1>2 DEF Place
    <2>2. DOMAIN job' = Columns /\ Placement'
        BY <1>2, PlacePromise
    <2> QED BY <1>0, <2>1, <2>2 DEF PlanInv
<1>3. CASE PostResults
    <2>1. /\ DOMAIN job' = Columns /\ lease' = lease
          /\ \A c \in Columns \ {"posted"} : job'[c] = job[c]
        BY <1>0, <1>3 DEF PostResults, Columns
    <2>2. /\ job'.map = job.map /\ job'.pod = job.pod /\ job'.world = job.world
          /\ job'.spec = job.spec /\ job'.planned = job.planned /\ job'.code = job.code
        BY <2>1 DEF Columns
    <2> QED BY <1>0, <2>1, <2>2, SamePlacement DEF PlanInv
<1>4. ASSUME NEW inject \in Injections, Collect(inject) PROVE PlanInv'
    <2>1. /\ DOMAIN job' = Columns /\ lease' = lease
          /\ \A c \in Columns \ {"st", "launched", "inject", "earns"} : job'[c] = job[c]
        BY <1>0, <1>4 DEF Collect, Columns
    <2>2. /\ job'.map = job.map /\ job'.pod = job.pod /\ job'.world = job.world
          /\ job'.spec = job.spec /\ job'.planned = job.planned /\ job'.code = job.code
        BY <2>1 DEF Columns
    <2> QED BY <1>0, <2>1, <2>2, SamePlacement DEF PlanInv
<1>5. ASSUME NEW S \in Pods, NEW require_ib \in BOOLEAN, Rent(S, require_ib) PROVE PlanInv'
    <2>1. lease'.pod = S /\ UNCHANGED job
        BY <1>5 DEF Rent
    <2>2. S \in SUBSET Nodes
        OBVIOUS
    <2> QED BY <1>0, <1>1, <2>1, <2>2 DEF PlanInv
<1>6. ASSUME UNCHANGED <<lease, job>> PROVE PlanInv'
    BY <1>0, <1>1, <1>6 DEF PlanInv
<1> QED BY <1>2, <1>3, <1>4, <1>5, <1>6
        DEF Next, Register, FabricScan, BeginScan, CommitScan, AbortScan, vars

\* A placement binds every rank, to GPUs that its node reported, of no more nodes
\* than the job asked for, whatever the inventory and the policy (place_ranks,
\* _plan_pack, _plan_spread, _bind_ranks_on_nodes).
THEOREM RanksCorrect == Spec => []RanksSound
<1>1. PlanInv => RanksSound
    BY DEF PlanInv, Placement
<1> QED BY <1>1, PlanInvInit, PlanInvStep, PTL DEF Spec

\* Filling the nodes with the most GPUs first is the best that packing can do: it
\* refuses only what no choice of nnodes nodes could take, and takes the fewest.
THEOREM PackCorrect == Spec => []PackIsTight
<1>1. PlanInv => PackIsTight
    BY DEF PlanInv, Placement
<1> QED BY <1>1, PlanInvInit, PlanInvStep, PTL DEF Spec

\* InfiniBand is told of only between nodes that reported a live device, and a
\* job of mode ib gets nothing else (build_nccl_env_for_mode, place_ranks).
THEOREM IbCorrect == Spec => []IbBetweenLiveDevices
<1>1. GateInv /\ PlanInv => IbBetweenLiveDevices
    BY DEF GateInv, LiveWhereUsed, IbBetweenLiveDevices, PlanInv, Placement
<1> QED BY <1>1, GateInvInit, GateInvStep, PlanInvInit, PlanInvStep, PTL DEF Spec
=============================================================================
