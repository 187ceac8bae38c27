----------------------------- MODULE TasksProofs -----------------------------
(***************************************************************************)
(* What holds on the Tasks tab whatever the polls bring: the sort orders   *)
(* the groups and the tasks by a rank, so their order is the model's alone;*)
(* the sums of the estimate count units; and TasksInv keeps the groups a   *)
(* list in that order, each with the tasks of its key.                     *)
(***************************************************************************)
EXTENDS Tasks, SequenceTheorems, FiniteSetTheorems, WellFoundedInduction, TLAPS

----------------------------------------------------------------------------
(* Sorting.                                                                *)

\* What a sort relies on: an order in which any two differ.
Ordering(S, R) ==
    /\ \A x \in S : <<x, x>> \notin R
    /\ \A x, y, z \in S : <<x, y>> \in R /\ <<y, z>> \in R => <<x, z>> \in R
    /\ \A x, y \in S : x = y \/ <<x, y>> \in R \/ <<y, x>> \in R

\* What it gives: all there is, in the order.
Arranged(s, S, R) ==
    /\ s \in Seq(S) /\ Len(s) = Cardinality(S)
    /\ \A x \in S : \E i \in 1..Len(s) : s[i] = x
    /\ \A i, j \in 1..Len(s) : i < j => <<s[i], s[j]>> \in R

\* Ranks in a finite set are its places, each taken once.
LEMMA Ranks ==
    ASSUME NEW S, IsFiniteSet(S), NEW R, Ordering(S, R),
           NEW rank, rank = [x \in S |-> Cardinality({y \in S : <<y, x>> \in R})]
    PROVE  /\ rank \in Injection(S, 0..(Cardinality(S) - 1))
           /\ rank \in Surjection(S, 0..(Cardinality(S) - 1))
           /\ \A x, y \in S : rank[x] < rank[y] => <<x, y>> \in R
<1> DEFINE Below(x) == {y \in S : <<y, x>> \in R}
<1>1. Cardinality(S) \in Nat
  BY FS_CardinalityType
<1>2. ASSUME NEW x \in S
      PROVE  /\ IsFiniteSet(Below(x)) /\ Cardinality(Below(x)) \in Nat
             /\ Cardinality(Below(x)) < Cardinality(S)
  <2>1. Below(x) \in SUBSET S /\ x \notin Below(x)
    BY DEF Ordering
  <2> HIDE DEF Below
  <2>2. IsFiniteSet(Below(x)) /\ Cardinality(Below(x)) <= Cardinality(S)
        /\ (Cardinality(S) = Cardinality(Below(x)) => S = Below(x))
    BY <2>1, FS_Subset
  <2>3. Cardinality(Below(x)) \in Nat
    BY <2>2, FS_CardinalityType
  <2> QED BY <1>1, <2>1, <2>2, <2>3
<1>3. ASSUME NEW x \in S, NEW y \in S, <<x, y>> \in R
      PROVE  Cardinality(Below(x)) < Cardinality(Below(y))
  <2>1. Below(x) \in SUBSET Below(y)
    BY <1>3 DEF Ordering
  <2>2. x \in Below(y) /\ x \notin Below(x)
    BY <1>3 DEF Ordering
  <2> HIDE DEF Below
  <2>3. Cardinality(Below(x)) <= Cardinality(Below(y))
        /\ (Cardinality(Below(y)) = Cardinality(Below(x)) => Below(y) = Below(x))
    BY <1>2, <2>1, FS_Subset
  <2> QED BY <1>2, <2>2, <2>3
<1>4. \A x \in S : rank[x] = Cardinality(Below(x))
  OBVIOUS
<1>5. rank \in [S -> 0..(Cardinality(S) - 1)]
  <2>1. \A x \in S : Cardinality(Below(x)) \in 0..(Cardinality(S) - 1)
    <3> HIDE DEF Below
    <3> QED BY <1>1, <1>2
  <2> QED BY <2>1
<1> HIDE DEF Below
<1>6. \A x, y \in S : rank[x] = rank[y] => x = y
  <2> SUFFICES ASSUME NEW x \in S, NEW y \in S, rank[x] = rank[y], x # y
               PROVE  FALSE
    OBVIOUS
  <2>1. <<x, y>> \in R \/ <<y, x>> \in R
    BY DEF Ordering
  <2> QED BY <1>2, <1>3, <1>4, <2>1
<1>7. rank \in Injection(S, 0..(Cardinality(S) - 1))
  BY <1>5, <1>6 DEF Injection, IsInjective
<1>8. rank \in Surjection(S, 0..(Cardinality(S) - 1))
  <2>1. ASSUME NEW n \in Nat
        PROVE  IsFiniteSet(0..(n - 1)) /\ Cardinality(0..(n - 1)) = n
    <3>1. 0 \in Int /\ n - 1 \in Int
      OBVIOUS
    <3>2. /\ IsFiniteSet(0..(n - 1))
          /\ Cardinality(0..(n - 1)) = IF 0 > n - 1 THEN 0 ELSE (n - 1) - 0 + 1
      BY ONLY <3>1, FS_Interval
    <3> QED BY <3>2
  <2> QED BY ONLY <1>1, <1>7, <2>1, FS_Injection
<1>9. ASSUME NEW x \in S, NEW y \in S, rank[x] < rank[y]
      PROVE  <<x, y>> \in R
  <2>1. x = y \/ <<x, y>> \in R \/ <<y, x>> \in R
    BY DEF Ordering
  <2> QED BY <1>2, <1>3, <1>4, <1>9, <2>1
<1> QED BY <1>7, <1>8, <1>9

\* Sorting by rank is sorting.
LEMMA RankedInOrder ==
    ASSUME NEW S, IsFiniteSet(S), NEW R, Ordering(S, R),
           NEW rank, rank = [x \in S |-> Cardinality({y \in S : <<y, x>> \in R})]
    PROVE  Arranged(ByRank(S, rank), S, R)
<1> DEFINE n == Cardinality(S)
           s == ByRank(S, rank)
<1>1. n \in Nat
  BY FS_CardinalityType
<1>2. /\ rank \in [S -> 0..(n - 1)]
      /\ \A x, y \in S : rank[x] = rank[y] => x = y
      /\ \A m \in 0..(n - 1) : \E x \in S : rank[x] = m
      /\ \A x, y \in S : rank[x] < rank[y] => <<x, y>> \in R
  <2>1. /\ rank \in Injection(S, 0..(n - 1)) /\ rank \in Surjection(S, 0..(n - 1))
        /\ \A x, y \in S : rank[x] < rank[y] => <<x, y>> \in R
    BY Ranks
  <2>2. rank \in [S -> 0..(n - 1)] /\ \A x, y \in S : rank[x] = rank[y] => x = y
    BY <2>1 DEF Injection, IsInjective
  <2>3. \A m \in 0..(n - 1) : \E x \in S : rank[x] = m
    BY <2>1 DEF Surjection
  <2> QED BY <2>1, <2>2, <2>3
<1>3. s = [m \in 1..n |-> CHOOSE x \in S : rank[x] = m - 1]
  BY DEF ByRank
<1> HIDE DEF n, s
<1>4. \A m \in 1..n : s[m] \in S /\ rank[s[m]] = m - 1
  <2> TAKE m \in 1..n
  <2>1. m - 1 \in 0..(n - 1)
    BY <1>1
  <2>2. \E x \in S : rank[x] = m - 1
    BY <1>2, <2>1
  <2>3. s[m] = CHOOSE x \in S : rank[x] = m - 1
    BY <1>3
  <2> QED BY <2>2, <2>3
<1>5. s \in [1..n -> S]
  BY <1>3, <1>4
<1>6. s \in Seq(S) /\ Len(s) = n
  BY <1>1, <1>5
<1>7. ASSUME NEW x \in S
      PROVE  \E i \in 1..n : s[i] = x
  <2>1. rank[x] \in 0..(n - 1)
    BY <1>2
  <2>2. rank[x] + 1 \in 1..n /\ (rank[x] + 1) - 1 = rank[x]
    BY <1>1, <2>1
  <2>3. s[rank[x] + 1] \in S /\ rank[s[rank[x] + 1]] = rank[x]
    BY <1>4, <2>2
  <2> QED BY <1>2, <2>2, <2>3
<1>8. ASSUME NEW i \in 1..n, NEW j \in 1..n, i < j
      PROVE  <<s[i], s[j]>> \in R
  <2>1. rank[s[i]] = i - 1 /\ rank[s[j]] = j - 1 /\ s[i] \in S /\ s[j] \in S
    BY <1>4
  <2>2. i - 1 < j - 1
    BY <1>1, <1>8
  <2> QED BY <1>2, <2>1, <2>2
<1> QED BY <1>6, <1>7, <1>8 DEF Arranged, n, s

\* Nothing is in two places.
LEMMA ArrangedOnce ==
    ASSUME NEW S, NEW R, Ordering(S, R), NEW s, Arranged(s, S, R)
    PROVE  /\ DOMAIN s = 1..Len(s) /\ Len(s) \in Nat
           /\ ToSet(s) = S
           /\ \A i \in DOMAIN s : s[i] \in S
           /\ \A i, j \in DOMAIN s : s[i] = s[j] => i = j
<1>1. DOMAIN s = 1..Len(s) /\ Len(s) \in Nat /\ s \in [1..Len(s) -> S]
  BY LenProperties DEF Arranged
<1>2. \A i \in DOMAIN s : s[i] \in S
  BY <1>1
<1>3. ASSUME NEW i \in DOMAIN s, NEW j \in DOMAIN s, s[i] = s[j], i # j
      PROVE  FALSE
  <2>1. i \in Nat /\ j \in Nat
    BY <1>1
  <2>2. i < j \/ j < i
    BY <1>3, <2>1
  <2>3. <<s[i], s[j]>> \in R \/ <<s[j], s[i]>> \in R
    BY <1>1, <2>2 DEF Arranged
  <2> QED BY <1>2, <1>3, <2>3 DEF Ordering
<1>4. ToSet(s) = S
  BY <1>1, <1>2 DEF ToSet, Arranged
<1> QED BY <1>1, <1>2, <1>3, <1>4

\* A finite set of naturals has a least and a greatest.
LEMMA Extremes ==
    ASSUME NEW T, T \subseteq Nat, T # {}, IsFiniteSet(T)
    PROVE  /\ Min(T) \in T /\ \A m \in T : Min(T) <= m
           /\ Max(T) \in T /\ \A m \in T : m <= Max(T)
<1> DEFINE R == {p \in T \X T : p[1] < p[2]}
           rank == [x \in T |-> Cardinality({y \in T : <<y, x>> \in R})]
           s == ByRank(T, rank)
<1>1. Ordering(T, R)
  <2>1. \A x, y \in T : <<x, y>> \in R <=> x < y
    OBVIOUS
  <2>2. \A x \in T : x \in Nat
    OBVIOUS
  <2> HIDE DEF R
  <2> QED BY <2>1, <2>2 DEF Ordering
<1>2. \A x, y \in T : <<x, y>> \in R => x < y
  OBVIOUS
<1>3. Arranged(s, T, R)
  BY <1>1, RankedInOrder
<1> HIDE DEF R, rank, s
<1>4. /\ DOMAIN s = 1..Len(s) /\ Len(s) \in Nat
      /\ \A i \in DOMAIN s : s[i] \in T
  BY <1>1, <1>3, ArrangedOnce
<1>5. 1 \in 1..Len(s) /\ Len(s) \in 1..Len(s)
  <2>1. PICK x \in T : TRUE
    OBVIOUS
  <2>2. \E i \in 1..Len(s) : s[i] = x
    BY <1>3 DEF Arranged
  <2> QED BY <1>4, <2>2
<1>6. ASSUME NEW m \in T
      PROVE  s[1] <= m /\ m <= s[Len(s)]
  <2>1. PICK i \in 1..Len(s) : s[i] = m
    BY <1>3 DEF Arranged
  <2>2. \A a, b \in 1..Len(s) : a < b => s[a] < s[b]
    BY <1>2, <1>3, <1>4 DEF Arranged
  <2>3. i \in Nat /\ 1 <= i /\ i <= Len(s) /\ Len(s) \in Nat
    BY <1>4, <2>1
  <2>4. (i = 1 \/ 1 < i) /\ (i = Len(s) \/ i < Len(s))
    BY ONLY <2>3
  <2>5. s[1] \in Nat /\ s[Len(s)] \in Nat /\ m \in Nat
    BY <1>4, <1>5
  <2>6. s[1] <= m
    BY <1>5, <2>1, <2>2, <2>4, <2>5
  <2>7. m <= s[Len(s)]
    BY <1>5, <2>1, <2>2, <2>4, <2>5
  <2> QED BY <2>6, <2>7
<1>7. s[1] \in T /\ s[Len(s)] \in T
  BY <1>4, <1>5
<1>8. Min(T) \in T /\ \A m \in T : Min(T) <= m
  BY <1>6, <1>7 DEF Min
<1>9. Max(T) \in T /\ \A m \in T : m <= Max(T)
  <2>1. \A m \in T : s[Len(s)] >= m
    BY <1>6, <1>7
  <2>2. Max(T) \in T /\ \A m \in T : Max(T) >= m
    BY <1>7, <2>1 DEF Max
  <2> QED BY <2>2
<1> QED BY <1>8, <1>9

\* A set of naturals has a least element.
LEMMA Least ==
    ASSUME NEW T, T \subseteq Nat, T # {}
    PROVE  \E n \in T : \A m \in T : n <= m
<1> DEFINE R == {ss \in Nat \X Nat : ss[1] < ss[2]}
<1>1. IsWellFoundedOn(R, Nat)
  BY NatLessThanWellFounded DEF OpToRel
<1>2. \A n, m \in Nat : m < n => <<m, n>> \in R
  OBVIOUS
<1> HIDE DEF R
<1>3. PICK n \in T : \A m \in T : ~(<<m, n>> \in R)
  BY <1>1, WFMin
<1>4. ASSUME NEW m \in T
      PROVE  n <= m
  <2>1. m \in Nat /\ n \in Nat
    OBVIOUS
  <2>2. ~(m < n)
    BY <1>2, <1>3, <2>1
  <2> QED BY <2>1, <2>2
<1> QED BY <1>4

----------------------------------------------------------------------------
(* Sums.                                                                   *)

\* The element a fold takes next.
Next1(s) == CHOOSE x \in s : TRUE

\* What is to be counted for a sum.
Units(f, S) == UNION {{x} \X (1..f[x]) : x \in S}

\* There are finitely many units to count.
LEMMA UnitsFinite ==
    ASSUME NEW S, IsFiniteSet(S), NEW f \in [S -> Nat], NEW T \in SUBSET S
    PROVE  IsFiniteSet(Units(f, T)) /\ Cardinality(Units(f, T)) \in Nat
<1> DEFINE parts == {{x} \X (1..f[x]) : x \in T}
<1>1. IsFiniteSet(T)
  BY FS_Subset
<1>2. IsFiniteSet(parts)
  <2> DEFINE part == [x \in T |-> {x} \X (1..f[x])]
  <2>1. part \in Surjection(T, parts)
    BY DEF Surjection
  <2> HIDE DEF part, parts
  <2> QED BY <1>1, <2>1, FS_Surjection
<1>3. ASSUME NEW P \in parts
      PROVE  IsFiniteSet(P)
  <2>1. PICK x \in T : P = {x} \X (1..f[x])
    OBVIOUS
  <2>2. IsFiniteSet({x})
    BY FS_Singleton
  <2>3. IsFiniteSet(1..f[x])
    <3>1. x \in S
      OBVIOUS
    <3>2. f[x] \in Int
      BY <3>1
    <3> QED BY <3>2, FS_Interval
  <2> QED BY <2>1, <2>2, <2>3, FS_Product
<1>4. IsFiniteSet(UNION parts)
  <2> HIDE DEF parts
  <2> QED BY <1>2, <1>3, FS_UNION
<1> QED BY <1>4, FS_CardinalityType DEF Units

\* One more element adds what it counts for.
LEMMA UnitsOfOneMore ==
    ASSUME NEW S, IsFiniteSet(S), NEW f \in [S -> Nat], NEW T \in SUBSET S, NEW x \in T
    PROVE  Cardinality(Units(f, T)) = f[x] + Cardinality(Units(f, T \ {x}))
<1> DEFINE one  == {x} \X (1..f[x])
           rest == Units(f, T \ {x})
<1>1. Units(f, T) = one \cup rest
  BY DEF Units
<1>2. one \cap rest = {}
  BY DEF Units
<1>3. IsFiniteSet(rest) /\ Cardinality(rest) \in Nat
  BY UnitsFinite
<1>4. IsFiniteSet(one) /\ Cardinality(one) = f[x]
  <2>1. f[x] \in Nat
    OBVIOUS
  <2>2. IsFiniteSet({x}) /\ Cardinality({x}) = 1
    BY FS_Singleton
  <2>3. IsFiniteSet(1..f[x]) /\ Cardinality(1..f[x]) = f[x]
    BY <2>1, FS_Interval
  <2>4. IsFiniteSet(one) /\ Cardinality(one) = 1 * f[x]
    BY <2>2, <2>3, FS_Product
  <2> QED BY <2>1, <2>4
<1> HIDE DEF one, rest
<1>5. Cardinality(one \cup rest) = Cardinality(one) + Cardinality(rest) - Cardinality({})
  BY <1>2, <1>3, <1>4, FS_Union
<1>6. Cardinality({}) = 0
  BY FS_EmptySet
<1>7. Cardinality(one \cup rest) = f[x] + Cardinality(rest)
  BY <1>3, <1>4, <1>5, <1>6
<1> QED BY <1>1, <1>7 DEF rest

\* There is nothing to count for no element.
LEMMA UnitsOfNone ==
    ASSUME NEW f
    PROVE  Cardinality(Units(f, {})) = 0
<1>1. Units(f, {}) = {}
  BY DEF Units
<1> QED BY <1>1, FS_EmptySet

\* The equation of a fold.
IsFold(iter, f, S) ==
    \A s \in SUBSET S :
        iter[s] = IF s = {} THEN 0 ELSE f[Next1(s)] + iter[s \ {Next1(s)}]

\* A function that meets it counts the units.
LEMMA FoldCounts ==
    ASSUME NEW S, NEW f, NEW iter, IsFiniteSet(S), f \in [S -> Nat],
           IsFold(iter, f, S)
    PROVE  \A s \in SUBSET S : iter[s] = Cardinality(Units(f, s))
<1> DEFINE Wrong == {s \in SUBSET S : iter[s] # Cardinality(Units(f, s))}
           Sizes == {Cardinality(s) : s \in Wrong}
<1> SUFFICES ASSUME Wrong # {}
             PROVE  FALSE
  OBVIOUS
<1>1. Sizes \subseteq Nat /\ Sizes # {}
  BY FS_Subset, FS_CardinalityType
<1>2. PICK n \in Sizes : \A m \in Sizes : n <= m
  BY <1>1, Least
<1>3. PICK s \in Wrong : n = Cardinality(s)
  OBVIOUS
<1>4. s \in SUBSET S /\ iter[s] # Cardinality(Units(f, s)) /\ IsFiniteSet(s)
  BY FS_Subset
<1>5. s # {}
  BY <1>4, UnitsOfNone DEF IsFold
<1> DEFINE x == Next1(s)
<1>6. x \in s
  BY <1>5 DEF Next1
<1>7. iter[s] = f[x] + iter[s \ {x}]
  BY <1>4, <1>5 DEF IsFold
<1>8. iter[s \ {x}] = Cardinality(Units(f, s \ {x}))
  <2>1. IsFiniteSet(s \ {x}) /\ Cardinality(s \ {x}) = Cardinality(s) - 1
    BY <1>4, <1>6, FS_RemoveElement
  <2>2. Cardinality(s) \in Nat
    BY <1>4, FS_CardinalityType
  <2>3. s \ {x} \notin Wrong
    <3> HIDE DEF Wrong
    <3> SUFFICES ASSUME s \ {x} \in Wrong
                 PROVE  FALSE
      OBVIOUS
    <3>1. n <= Cardinality(s \ {x})
      BY <1>2
    <3> QED BY <1>3, <2>1, <2>2, <3>1
  <2> QED BY <1>4, <2>3
<1> HIDE DEF Wrong, x
<1>9. Cardinality(Units(f, s)) = f[x] + Cardinality(Units(f, s \ {x}))
  BY <1>4, <1>6, UnitsOfOneMore
<1> QED BY <1>4, <1>7, <1>8, <1>9

\* The sum of what an operator gives, by the function that gives the same.
LEMMA FoldIsCount ==
    ASSUME NEW S, NEW f, NEW g, IsFiniteSet(S), f \in [S -> Nat],
           g = [s \in SUBSET S |-> Cardinality(Units(f, s))]
    PROVE  g = [s \in SUBSET S |-> IF s = {} THEN 0
                                  ELSE f[Next1(s)] + g[s \ {Next1(s)}]]
<1>1. ASSUME NEW s \in SUBSET S
      PROVE  Cardinality(Units(f, s)) = IF s = {} THEN 0
                                        ELSE f[Next1(s)] + g[s \ {Next1(s)}]
  <2>1. CASE s = {}
    BY <2>1, UnitsOfNone
  <2>2. CASE s # {}
    <3>1. Next1(s) \in s /\ s \ {Next1(s)} \in SUBSET S
      BY <2>2 DEF Next1
    <3>2. Cardinality(Units(f, s))
            = f[Next1(s)] + Cardinality(Units(f, s \ {Next1(s)}))
      BY <3>1, UnitsOfOneMore
    <3> QED BY <2>2, <3>1, <3>2
  <2> QED BY <2>1, <2>2
<1> QED BY <1>1

\* The tasks' work.
LEMMA WorkIsCount ==
    ASSUME NEW ts, IsFiniteSet(ts), \A t \in ts : t.timeLeft \in Nat
    PROVE  Work(ts) = Cardinality(Units([t \in ts |-> t.timeLeft], ts))
<1> DEFINE f == [t \in ts |-> t.timeLeft]
           P(i) == i = [s \in SUBSET ts |->
                          IF s = {} THEN 0
                          ELSE Next1(s).timeLeft + i[s \ {Next1(s)}]]
           iter == CHOOSE i : P(i)
           g == [s \in SUBSET ts |-> Cardinality(Units(f, s))]
<1>1. f \in [ts -> Nat]
  OBVIOUS
<1>2. \A s \in SUBSET ts : s # {} => Next1(s) \in ts /\ f[Next1(s)] = Next1(s).timeLeft
  BY DEF Next1
<1>3. Work(ts) = iter[ts]
  BY DEF Work, MapThenSumSet, MapThenFoldSet, Next1
<1> HIDE DEF f
<1>4. P(g)
  <2>1. g = [s \in SUBSET ts |-> IF s = {} THEN 0 ELSE f[Next1(s)] + g[s \ {Next1(s)}]]
    BY ONLY <1>1, IsFiniteSet(ts), FoldIsCount
  <2> HIDE DEF g
  <2> QED BY <1>2, <2>1
<1>5. P(iter)
  <2> HIDE DEF g, P
  <2> QED BY <1>4
<1>6. IsFold(iter, f, ts)
  <2> HIDE DEF iter
  <2> QED BY <1>2, <1>5 DEF IsFold
<1> HIDE DEF iter
<1>7. iter[ts] = Cardinality(Units(f, ts))
  <2>1. \A s \in SUBSET ts : iter[s] = Cardinality(Units(f, s))
    BY ONLY <1>1, <1>6, IsFiniteSet(ts), FoldCounts
  <2> QED BY <2>1
<1> QED BY <1>3, <1>7 DEF f

\* What one occupies.
Use(t, given) == IF t.useCpus > 0 THEN t.useCpus ELSE given

\* What they occupy.
LEMMA UsedIsCount ==
    ASSUME NEW ts, NEW given \in Nat, IsFiniteSet(ts), \A t \in ts : t.useCpus \in Nat
    PROVE  /\ Used(ts, given) = Cardinality(Units([t \in ts |-> Use(t, given)], ts))
           /\ Used(ts, given) \in Nat
<1> DEFINE each(t) == Use(t, given)
           f == [t \in ts |-> each(t)]
           P(i) == i = [s \in SUBSET ts |->
                          IF s = {} THEN 0
                          ELSE each(Next1(s)) + i[s \ {Next1(s)}]]
           iter == CHOOSE i : P(i)
           g == [s \in SUBSET ts |-> Cardinality(Units(f, s))]
<1>1. f \in [ts -> Nat]
  BY DEF Use
<1>2. \A s \in SUBSET ts : s # {} => Next1(s) \in ts /\ f[Next1(s)] = each(Next1(s))
  BY DEF Next1
<1>3. Used(ts, given) = iter[ts]
  BY DEF Used, MapThenSumSet, MapThenFoldSet, Next1, Use
<1> HIDE DEF f
<1>4. P(g)
  <2>1. g = [s \in SUBSET ts |-> IF s = {} THEN 0 ELSE f[Next1(s)] + g[s \ {Next1(s)}]]
    BY ONLY <1>1, IsFiniteSet(ts), FoldIsCount
  <2> HIDE DEF g
  <2> QED BY <1>2, <2>1
<1>5. P(iter)
  <2> HIDE DEF g, P
  <2> QED BY <1>4
<1>6. IsFold(iter, f, ts)
  <2> HIDE DEF iter
  <2> QED BY <1>2, <1>5 DEF IsFold
<1> HIDE DEF iter
<1>7. iter[ts] = Cardinality(Units(f, ts))
  <2>1. \A s \in SUBSET ts : iter[s] = Cardinality(Units(f, s))
    BY ONLY <1>1, <1>6, IsFiniteSet(ts), FoldCounts
  <2> QED BY <2>1
<1>8. Cardinality(Units(f, ts)) \in Nat
  BY <1>1, UnitsFinite
<1> QED BY <1>3, <1>7, <1>8 DEF f

\* At least as much as if each occupied what the least does.
LEMMA UsedAtLeast ==
    ASSUME NEW ts, NEW given \in Nat, NEW m \in Nat, IsFiniteSet(ts),
           \A t \in ts : t.useCpus \in Nat /\ Use(t, given) >= m
    PROVE  Used(ts, given) >= Cardinality(ts) * m
<1> DEFINE f == [t \in ts |-> Use(t, given)]
<1>1. Used(ts, given) = Cardinality(Units(f, ts)) /\ f \in [ts -> Nat]
  BY UsedIsCount DEF Use
<1>2. IsFiniteSet(1..m) /\ Cardinality(1..m) = m
  BY FS_Interval
<1>3. IsFiniteSet(ts \X (1..m)) /\ Cardinality(ts \X (1..m)) = Cardinality(ts) * m
  BY <1>2, FS_Product
<1>4. ts \X (1..m) \in SUBSET Units(f, ts)
  <2>1. \A t \in ts : f[t] \in Nat /\ f[t] >= m
    BY <1>1
  <2> HIDE DEF f
  <2>2. \A t \in ts : \A k \in 1..m : k \in 1..f[t]
    BY <2>1
  <2> QED BY <2>2 DEF Units
<1> HIDE DEF f
<1>5. IsFiniteSet(Units(f, ts)) /\ Cardinality(Units(f, ts)) \in Nat
  BY <1>1, UnitsFinite
<1>6. Cardinality(ts \X (1..m)) <= Cardinality(Units(f, ts))
  BY <1>4, <1>5, FS_Subset
<1>7. Cardinality(ts) * m \in Nat
  BY FS_CardinalityType
<1> QED BY <1>1, <1>3, <1>5, <1>6, <1>7

\* Nothing is left to do for no task, and when none has time left.
LEMMA NoWork ==
    ASSUME NEW ts, IsFiniteSet(ts), \A t \in ts : t.timeLeft = 0
    PROVE  Work(ts) = 0
<1>1. Work(ts) = Cardinality(Units([t \in ts |-> t.timeLeft], ts))
  BY WorkIsCount
<1>2. Units([t \in ts |-> t.timeLeft], ts) = {}
  BY DEF Units
<1> QED BY <1>1, <1>2, FS_EmptySet

\* Work adds up.
LEMMA WorkAddsUp ==
    ASSUME NEW ts, IsFiniteSet(ts), \A t \in ts : t.timeLeft \in Nat
    PROVE  /\ Work(ts) \in Nat
           /\ \A S \in SUBSET ts : Work(S) \in Nat /\ Work(S) <= Work(ts)
           /\ \A t \in ts : t.timeLeft <= Work(ts)
<1> DEFINE f(S) == [t \in S |-> t.timeLeft]
           units(S) == Units(f(S), S)
<1>1. ASSUME NEW S \in SUBSET ts
      PROVE  /\ f(S) \in [S -> Nat] /\ IsFiniteSet(S)
             /\ Work(S) = Cardinality(units(S))
             /\ IsFiniteSet(units(S)) /\ Work(S) \in Nat
  <2>1. IsFiniteSet(S) /\ \A t \in S : t.timeLeft \in Nat
    BY FS_Subset
  <2>2. f(S) \in [S -> Nat]
    BY <2>1
  <2>3. Work(S) = Cardinality(units(S))
    BY <2>1, WorkIsCount
  <2>4. IsFiniteSet(units(S)) /\ Cardinality(units(S)) \in Nat
    <3> HIDE DEF f
    <3> QED BY <2>1, <2>2, UnitsFinite
  <2> QED BY <2>1, <2>2, <2>3, <2>4
<1>2. ASSUME NEW S \in SUBSET ts
      PROVE  Work(S) <= Work(ts)
  <2>1. units(S) \in SUBSET units(ts)
    BY DEF Units
  <2> HIDE DEF units
  <2> QED BY <1>1, <2>1, FS_Subset
<1>3. ASSUME NEW t \in ts
      PROVE  t.timeLeft <= Work(ts)
  <2>1. f(ts)[t] = t.timeLeft /\ t.timeLeft \in Nat
    OBVIOUS
  <2> HIDE DEF f
  <2>2. Cardinality(units(ts)) = f(ts)[t] + Cardinality(Units(f(ts), ts \ {t}))
    BY <1>1, UnitsOfOneMore
  <2>3. Cardinality(Units(f(ts), ts \ {t})) \in Nat
    BY <1>1, UnitsFinite
  <2> QED BY <1>1, <2>1, <2>2, <2>3
<1> HIDE DEF units, f
<1> QED BY <1>1, <1>2, <1>3

\* The longest task is one of them, or 0 for no task.
LEMMA LongestOfAll ==
    ASSUME NEW ts, IsFiniteSet(ts), \A t \in ts : t.timeLeft \in Nat
    PROVE  /\ Longest(ts) \in Nat
           /\ \A t \in ts : t.timeLeft <= Longest(ts)
           /\ Longest(ts) <= Work(ts)
<1> DEFINE times == {t.timeLeft : t \in ts}
           T == {0} \cup times
<1>1. IsFiniteSet(T)
  <2> DEFINE time == [t \in ts |-> t.timeLeft]
  <2>1. time \in Surjection(ts, times)
    BY DEF Surjection
  <2> HIDE DEF time, times
  <2>2. IsFiniteSet(times)
    BY <2>1, FS_Surjection
  <2>3. IsFiniteSet(times \cup {0})
    BY <2>2, FS_AddElement
  <2>4. times \cup {0} = T
    OBVIOUS
  <2> QED BY <2>3, <2>4
<1>2. T \subseteq Nat /\ T # {}
  OBVIOUS
<1>3. Longest(ts) = Max(T)
  BY DEF Longest
<1>4. Max(T) \in T /\ \A m \in T : m <= Max(T)
  <2> HIDE DEF T
  <2> QED BY <1>1, <1>2, Extremes
<1>5. \A m \in T : m <= Work(ts)
  BY WorkAddsUp
<1> QED BY <1>2, <1>3, <1>4, <1>5

----------------------------------------------------------------------------
(* The estimate.                                                           *)

Span     == Nat \X (Nat \ {0})
Capacity == [ncpus : Nat, maxNcpusPct : Nat, cpuUsageLimit : Nat]

\* Multiplying by a positive number does not make less.
LEMMA TimesAtLeastOne ==
    ASSUME NEW n \in Nat, NEW w \in Nat, NEW m \in Nat \ {0}, n <= w
    PROVE  n <= w * m
<1>1. m = (m - 1) + 1 /\ m - 1 \in Nat
  OBVIOUS
<1>2. w * m = w * (m - 1) + w
  BY <1>1
<1>3. w * (m - 1) \in Nat
  BY <1>1
<1>4. w * m \in Nat
  OBVIOUS
<1> QED BY ONLY <1>2, <1>3, <1>4, n \in Nat, w \in Nat, n <= w

\* Comparing multiples by the same positive number.
LEMMA Cancelled ==
    ASSUME NEW p \in Nat, NEW q \in Nat, NEW d \in Nat \ {0}
    PROVE  /\ (p * d <= q * d) <=> (p <= q)
           /\ (p * d < q * d) <=> (p < q)
           /\ (p * d = q * d) <=> (p = q)
<1>1. ASSUME NEW x \in Nat, NEW y \in Nat, x < y
      PROVE  x * d < y * d
  <2>1. y * d = x * d + (y - x) * d
    OBVIOUS
  <2>2. y - x \in Nat \ {0}
    BY <1>1
  <2>3. (y - x) * d > 0
    BY <2>2
  <2>4. x * d \in Int /\ y * d \in Int /\ (y - x) * d \in Int
    BY <2>2
  <2> QED BY ONLY <2>1, <2>3, <2>4
<1>2. p * d \in Int /\ q * d \in Int
  OBVIOUS
<1>3. p < q \/ p = q \/ q < p
  OBVIOUS
<1>4. (p < q => p * d < q * d) /\ (q < p => q * d < p * d)
  BY <1>1
<1> QED BY ONLY <1>2, <1>3, <1>4, p \in Nat, q \in Nat

\* Comparing spans by cross-multiplication.
LEMMA CrossMultiplied ==
    ASSUME NEW s \in Span, NEW t \in Span, NEW u \in Span
    PROVE  /\ s[1] * t[2] \in Nat
           /\ s[1] * t[2] = t[1] * s[2] /\ t[1] * u[2] = u[1] * t[2]
                => s[1] * u[2] = u[1] * s[2]
           /\ s[1] * t[2] < t[1] * s[2] /\ t[1] * u[2] <= u[1] * t[2]
                => s[1] * u[2] < u[1] * s[2]
           /\ s[1] * t[2] <= t[1] * s[2] /\ t[1] * u[2] < u[1] * t[2]
                => s[1] * u[2] < u[1] * s[2]
<1> DEFINE a == s[1] * u[2]
           b == u[1] * s[2]
           m == t[2]
<1>1. /\ s[1] \in Nat /\ t[1] \in Nat /\ u[1] \in Nat
      /\ s[2] \in Nat \ {0} /\ t[2] \in Nat \ {0} /\ u[2] \in Nat \ {0}
  BY DEF Span
<1>2. /\ s[1] * t[2] \in Nat /\ t[1] * s[2] \in Nat /\ t[1] * u[2] \in Nat
      /\ u[1] * t[2] \in Nat /\ a \in Nat /\ b \in Nat
  BY <1>1
<1>3. /\ a * m = (s[1] * t[2]) * u[2]
      /\ (t[1] * s[2]) * u[2] = (t[1] * u[2]) * s[2]
      /\ (u[1] * t[2]) * s[2] = b * m
  BY <1>1
<1> HIDE DEF a, b
<1>4. \A p, q \in Nat, d \in Nat \ {0} :
          /\ (p * d <= q * d) <=> (p <= q)
          /\ (p * d < q * d) <=> (p < q)
          /\ (p * d = q * d) <=> (p = q)
  BY Cancelled
<1>5. ASSUME s[1] * t[2] = t[1] * s[2], t[1] * u[2] = u[1] * t[2]
      PROVE  a = b
  <2>1. a * m = b * m
    BY <1>3, <1>5
  <2> QED BY ONLY <1>1, <1>2, <1>4, <2>1
<1>6. ASSUME s[1] * t[2] < t[1] * s[2], t[1] * u[2] <= u[1] * t[2]
      PROVE  a < b
  <2>1. (s[1] * t[2]) * u[2] < (t[1] * s[2]) * u[2]
    BY ONLY <1>1, <1>2, <1>4, <1>6
  <2>2. (t[1] * u[2]) * s[2] <= (u[1] * t[2]) * s[2]
    BY ONLY <1>1, <1>2, <1>4, <1>6
  <2>3. /\ (s[1] * t[2]) * u[2] \in Nat /\ (t[1] * s[2]) * u[2] \in Nat
        /\ (u[1] * t[2]) * s[2] \in Nat
    BY <1>1, <1>2
  <2>4. a * m < b * m
    BY <1>3, <2>1, <2>2, <2>3
  <2> QED BY ONLY <1>1, <1>2, <1>4, <2>4
<1>7. ASSUME s[1] * t[2] <= t[1] * s[2], t[1] * u[2] < u[1] * t[2]
      PROVE  a < b
  <2>1. (s[1] * t[2]) * u[2] <= (t[1] * s[2]) * u[2]
    BY ONLY <1>1, <1>2, <1>4, <1>7
  <2>2. (t[1] * u[2]) * s[2] < (u[1] * t[2]) * s[2]
    BY ONLY <1>1, <1>2, <1>4, <1>7
  <2>3. /\ (s[1] * t[2]) * u[2] \in Nat /\ (t[1] * s[2]) * u[2] \in Nat
        /\ (u[1] * t[2]) * s[2] \in Nat
    BY <1>1, <1>2
  <2>4. a * m < b * m
    BY <1>3, <2>1, <2>2, <2>3
  <2> QED BY ONLY <1>1, <1>2, <1>4, <2>4
<1> QED BY <1>2, <1>5, <1>6, <1>7 DEF a, b

\* Spans are ordered.
LEMMA LeqTransitive ==
    ASSUME NEW s \in Span, NEW t \in Span, NEW u \in Span, Leq(s, t), Leq(t, u)
    PROVE  Leq(s, u)
<1>1. \A x, y \in Span : x[1] * y[2] \in Nat
  BY CrossMultiplied
<1>2. u[1] * s[2] < s[1] * u[2] /\ s[1] * t[2] <= t[1] * s[2]
        => u[1] * t[2] < t[1] * u[2]
  BY ONLY CrossMultiplied, s \in Span, t \in Span, u \in Span
<1> QED BY <1>1, <1>2 DEF Leq

\* The later of two spans is one of them, and no earlier than either.
LEMMA LaterOfTwo ==
    ASSUME NEW s \in Span, NEW t \in Span
    PROVE  /\ Later(s, t) \in {s, t}
           /\ Leq(s, Later(s, t)) /\ Leq(t, Later(s, t))
<1>1. s[1] \in Nat /\ s[2] \in Nat /\ t[1] \in Nat /\ t[2] \in Nat
  BY DEF Span
<1>2. s[1] * t[2] \in Nat /\ t[1] * s[2] \in Nat /\ s[1] * s[2] \in Nat /\ t[1] * t[2] \in Nat
  BY <1>1
<1>3. Leq(s, s) /\ Leq(t, t)
  BY <1>2 DEF Leq
<1>4. Leq(s, t) \/ Leq(t, s)
  BY <1>2 DEF Leq
<1> QED BY <1>3, <1>4 DEF Later

\* What is raised to a minimum is at least that.
LEMMA AtLeastOf ==
    ASSUME NEW n \in Nat, NEW m \in Int
    PROVE  AtLeast(n, m) \in Nat /\ AtLeast(n, m) >= n
BY DEF AtLeast

\* At least one CPU task runs at a time, so no span is divided by zero.
LEMMA CpuConcurrentPositive ==
    ASSUME NEW ts, ts \subseteq Task, IsFiniteSet(ts), CpuTasks(ts) # {},
           NEW cap \in Capacity
    PROVE  CpuConcurrent(ts, cap) \in Nat \ {0}
<1> DEFINE free  == AtLeast(0, 100 * Slots(cap) - Used(GpuRunning(ts), 0))
           each  == Used(CpuTasks(ts), 100)
           count == Cardinality(CpuTasks(ts))
<1>1. CpuTasks(ts) \in SUBSET ts /\ GpuRunning(ts) \in SUBSET ts
  BY DEF CpuTasks, GpuRunning, Unfinished
<1>2. IsFiniteSet(CpuTasks(ts)) /\ IsFiniteSet(GpuRunning(ts))
  BY <1>1, FS_Subset
<1>3. \A t \in ts : t.useCpus \in Nat
  BY DEF Task
<1>4. each \in Nat
  BY <1>1, <1>2, <1>3, UsedIsCount
<1>5. Used(GpuRunning(ts), 0) \in Nat
  BY <1>1, <1>2, <1>3, UsedIsCount
<1>6. count \in Nat /\ count >= 1
  BY <1>2, FS_CardinalityType, FS_EmptySet
<1>7. Slots(cap) \in Nat
  <2>1. cap.ncpus \in Nat /\ cap.maxNcpusPct \in Nat
    BY DEF Capacity
  <2>2. cap.ncpus * cap.maxNcpusPct \in Nat
    BY <2>1
  <2>3. (cap.ncpus * cap.maxNcpusPct) \div 100 \in Int
    BY ONLY <2>2
  <2>4. AtLeast(1, (cap.ncpus * cap.maxNcpusPct) \div 100) \in Nat
    BY <2>3, AtLeastOf
  <2> QED BY <2>4 DEF Slots
<1>8. free \in Nat
  <2>1. 100 * Slots(cap) - Used(GpuRunning(ts), 0) \in Int
    BY <1>5, <1>7
  <2> QED BY <2>1, AtLeastOf
<1>9. AtLeast(count, each) \in Nat \ {0}
  BY <1>4, <1>6, AtLeastOf
<1> HIDE DEF free, each, count
<1>10. (free * count) \div AtLeast(count, each) \in Int
  <2>1. free * count \in Int
    BY <1>6, <1>8
  <2> QED BY ONLY <1>9, <2>1
<1>11. AtLeast(1, (free * count) \div AtLeast(count, each)) \in Nat \ {0}
  BY <1>10, AtLeastOf
<1> QED BY <1>11 DEF CpuConcurrent, free, each, count

\* CPU tasks of a processor each share what the GPU tasks leave.
LEMMA CpuShared ==
    ASSUME NEW ts, ts \subseteq Task, IsFiniteSet(ts), CpuTasks(ts) # {},
           NEW cap \in Capacity, cap.ncpus > 0,
           \A t \in CpuTasks(ts) : t.useCpus = 0 \/ t.useCpus >= 100
    PROVE  100 * CpuConcurrent(ts, cap) <= LeftOver(ts, cap)
<1> DEFINE held  == Used(GpuRunning(ts), 0)
           share == cap.ncpus * cap.maxNcpusPct
           free  == AtLeast(0, 100 * Slots(cap) - held)
           each  == Used(CpuTasks(ts), 100)
           count == Cardinality(CpuTasks(ts))
           left  == LeftOver(ts, cap)
<1>1. CpuTasks(ts) \in SUBSET ts /\ GpuRunning(ts) \in SUBSET ts
  BY DEF CpuTasks, GpuRunning, Unfinished
<1>2. IsFiniteSet(CpuTasks(ts)) /\ IsFiniteSet(GpuRunning(ts))
  BY <1>1, FS_Subset
<1>3. \A t \in ts : t.useCpus \in Nat
  BY DEF Task
<1>4. held \in Nat /\ each \in Nat
  BY <1>1, <1>2, <1>3, UsedIsCount
<1>5. count \in Nat /\ count >= 1
  BY <1>2, FS_CardinalityType, FS_EmptySet
<1>6. each >= count * 100
  <2>1. \A t \in CpuTasks(ts) : t.useCpus \in Nat /\ Use(t, 100) >= 100
    BY <1>1, <1>3 DEF Use
  <2> QED BY <1>2, <2>1, UsedAtLeast
<1>7. share \in Nat
  <2>1. cap.ncpus \in Nat /\ cap.maxNcpusPct \in Nat
    BY DEF Capacity
  <2> QED BY <2>1
<1>8. /\ Slots(cap) = AtLeast(1, share \div 100)
      /\ left = AtLeast(100, share - held)
      /\ CpuConcurrent(ts, cap) = AtLeast(1, (free * count) \div AtLeast(count, each))
  <2>1. cap.ncpus # 0
    OBVIOUS
  <2> QED BY <2>1 DEF Slots, LeftOver, CpuConcurrent
<1>9. free = AtLeast(0, 100 * Slots(cap) - held)
  OBVIOUS
<1> HIDE DEF held, share, free, each, count, left
<1>10. left \in Nat /\ 100 <= left /\ free \in Nat /\ free <= left
  <2>1. share \div 100 \in Int /\ 100 * (share \div 100) <= share
    BY ONLY <1>7
  <2> QED BY ONLY <1>4, <1>7, <1>8, <1>9, <2>1 DEF AtLeast
<1> DEFINE m == AtLeast(count, each)
           q == (free * count) \div m
<1>11. m \in Nat \ {0} /\ m >= count * 100
  BY ONLY <1>4, <1>5, <1>6 DEF AtLeast
<1>12. q \in Int /\ q * m <= free * count
  <2> HIDE DEF m
  <2>1. free * count \in Int
    BY <1>5, <1>10
  <2> QED BY ONLY <1>11, <2>1
<1>13. CpuConcurrent(ts, cap) = AtLeast(1, q)
  BY <1>8
<1> HIDE DEF m, q
<1>14. CASE q < 1
  <2>1. CpuConcurrent(ts, cap) = 1
    BY <1>12, <1>13, <1>14 DEF AtLeast
  <2> QED BY ONLY <1>10, <2>1 DEF left
<1>15. CASE q >= 1
  <2>1. CpuConcurrent(ts, cap) = q /\ q \in Nat
    BY <1>12, <1>13, <1>15 DEF AtLeast
  <2>2. (count * 100) * q <= m * q
    <3>1. m = count * 100 + (m - count * 100) /\ m - count * 100 \in Nat
      BY ONLY <1>5, <1>11
    <3>2. m * q = (count * 100) * q + (m - count * 100) * q
      BY ONLY <1>5, <1>11, <2>1, <3>1
    <3>3. (m - count * 100) * q \in Nat /\ (count * 100) * q \in Nat
      BY ONLY <1>5, <2>1, <3>1
    <3> QED BY ONLY <3>2, <3>3
  <2>3. (100 * q) * count <= free * count
    <3>1. (100 * q) * count = (count * 100) * q /\ m * q = q * m
      BY ONLY <1>5, <1>11, <2>1
    <3>2. (count * 100) * q \in Nat /\ m * q \in Nat /\ free * count \in Nat
      BY ONLY <1>5, <1>10, <1>11, <2>1
    <3> QED BY ONLY <1>12, <2>2, <3>1, <3>2
  <2>4. 100 * q <= free
    <3>1. 100 * q \in Nat /\ count \in Nat \ {0}
      BY ONLY <1>5, <2>1
    <3> QED BY ONLY <1>10, <2>3, <3>1, Cancelled
  <2> QED BY ONLY <1>10, <2>1, <2>4 DEF left
<1>16. q < 1 \/ q >= 1
  BY <1>12
<1> QED BY <1>14, <1>15, <1>16

\* There is always something left over.
LEMMA LeftOverPositive ==
    ASSUME NEW ts, ts \subseteq Task, IsFiniteSet(ts), NEW cap \in Capacity
    PROVE  LeftOver(ts, cap) \in Nat \ {0}
<1>1. GpuRunning(ts) \in SUBSET ts /\ \A t \in ts : t.useCpus \in Nat
  BY DEF GpuRunning, Task
<1>2. IsFiniteSet(GpuRunning(ts))
  BY <1>1, FS_Subset
<1>3. Used(GpuRunning(ts), 0) \in Nat
  BY <1>1, <1>2, UsedIsCount
<1>4. cap.ncpus * cap.maxNcpusPct \in Int
  BY DEF Capacity
<1>5. cap.ncpus * cap.maxNcpusPct - Used(GpuRunning(ts), 0) \in Int
  BY <1>3, <1>4
<1>6. LeftOver(ts, cap) \in Nat /\ LeftOver(ts, cap) >= 100
  BY <1>5, AtLeastOf DEF LeftOver
<1> QED BY ONLY <1>6

\* At least one GPU task does.
LEMMA GpuConcurrentPositive ==
    ASSUME NEW ts, IsFiniteSet(ts)
    PROVE  GpuConcurrent(ts) \in Nat \ {0}
<1>1. IsFiniteSet(GpuRunning(ts))
  BY FS_Subset DEF GpuRunning
<1>2. Cardinality(GpuRunning(ts)) \in Int
  BY <1>1, FS_CardinalityType
<1> QED BY <1>2, AtLeastOf DEF GpuConcurrent

\* Not below the longest task, nor the CPU tasks' share, nor above all the work.
LEMMA BusyInBounds ==
    ASSUME NEW ts, ts \subseteq Task, IsFiniteSet(ts), NEW cap \in Capacity
    PROVE  /\ Busy(ts, cap) \in Span
           /\ Leq(<<Longest(ts), 1>>, Busy(ts, cap))
           /\ Leq(Busy(ts, cap), <<Work(ts), 1>>)
           /\ cap.ncpus > 0 /\ (\A t \in CpuTasks(ts) : t.useCpus = 0 \/ t.useCpus >= 100)
                => Leq(<<100 * Work(CpuTasks(ts)), LeftOver(ts, cap)>>, Busy(ts, cap))
<1> DEFINE AllWork(s) == s \in Span /\ Leq(s, <<Work(ts), 1>>)
           longest == <<Longest(ts), 1>>
<1>1. \A t \in ts : t.timeLeft \in Nat
  BY DEF Task
<1>2. /\ Work(ts) \in Nat
      /\ \A S \in SUBSET ts : Work(S) \in Nat /\ Work(S) <= Work(ts)
  BY <1>1, WorkAddsUp
<1>3. /\ Longest(ts) \in Nat /\ Longest(ts) <= Work(ts)
  BY <1>1, LongestOfAll
<1>4. ASSUME NEW n \in Nat, NEW d \in Nat \ {0}, n <= Work(ts)
      PROVE  AllWork(<<n, d>>)
  <2>1. n <= Work(ts) * d
    BY <1>2, <1>4, TimesAtLeastOne
  <2>2. n * 1 = n
    OBVIOUS
  <2> QED BY <2>1, <2>2 DEF Span, Leq
<1>5. CpuTasks(ts) \in SUBSET ts /\ GpuTasks(ts) \in SUBSET ts
  BY DEF CpuTasks, GpuTasks, Unfinished
<1> HIDE DEF AllWork
<1>6. AllWork(CpuSpan(ts, cap))
  <2>1. CASE CpuTasks(ts) = {}
    <3>1. AllWork(<<0, 1>>)
      BY <1>2, <1>4
    <3> QED BY <2>1, <3>1 DEF CpuSpan
  <2>2. CASE CpuTasks(ts) # {}
    <3>1. CpuConcurrent(ts, cap) \in Nat \ {0}
      BY <2>2, CpuConcurrentPositive
    <3>2. AllWork(<<Work(CpuTasks(ts)), CpuConcurrent(ts, cap)>>)
      BY <1>2, <1>4, <1>5, <3>1
    <3> QED BY <2>2, <3>2 DEF CpuSpan
  <2> QED BY <2>1, <2>2
<1>7. AllWork(GpuSpan(ts))
  BY <1>2, <1>4, <1>5, GpuConcurrentPositive DEF GpuSpan
<1>8. AllWork(longest)
  BY <1>3, <1>4
<1> HIDE DEF longest
<1>9. ASSUME NEW s, NEW t, AllWork(s), AllWork(t)
      PROVE  /\ AllWork(Later(s, t)) /\ s \in Span /\ t \in Span
             /\ Leq(s, Later(s, t)) /\ Leq(t, Later(s, t))
  <2>1. s \in Span /\ t \in Span
    BY <1>9 DEF AllWork
  <2> QED BY <1>9, <2>1, LaterOfTwo
<1>10. /\ AllWork(Busy(ts, cap)) /\ Leq(longest, Busy(ts, cap))
       /\ Leq(CpuSpan(ts, cap), Busy(ts, cap))
       /\ CpuSpan(ts, cap) \in Span /\ Busy(ts, cap) \in Span
  <2> DEFINE slower == Later(CpuSpan(ts, cap), GpuSpan(ts))
  <2>1. /\ AllWork(slower) /\ Leq(CpuSpan(ts, cap), slower) /\ CpuSpan(ts, cap) \in Span
    BY <1>6, <1>7, <1>9
  <2>2. Busy(ts, cap) = Later(slower, longest)
    BY DEF Busy, longest
  <2> HIDE DEF slower
  <2>3. /\ AllWork(Busy(ts, cap)) /\ Leq(longest, Busy(ts, cap))
        /\ Leq(slower, Busy(ts, cap)) /\ slower \in Span
    BY <1>8, <1>9, <2>1, <2>2
  <2>4. Busy(ts, cap) \in Span
    BY <2>3 DEF AllWork
  <2> QED BY <2>1, <2>3, <2>4, LeqTransitive
<1>11. ASSUME cap.ncpus > 0, \A t \in CpuTasks(ts) : t.useCpus = 0 \/ t.useCpus >= 100
       PROVE  Leq(<<100 * Work(CpuTasks(ts)), LeftOver(ts, cap)>>, Busy(ts, cap))
  <2> DEFINE W == Work(CpuTasks(ts))
             F == LeftOver(ts, cap)
             k == CpuConcurrent(ts, cap)
  <2>1. W \in Nat /\ F \in Nat \ {0} /\ Busy(ts, cap)[1] \in Nat
    BY <1>2, <1>5, <1>10, LeftOverPositive DEF Span
  <2>2. CASE CpuTasks(ts) = {}
    <3>1. W = 0
      BY <2>2, NoWork, FS_EmptySet
    <3> HIDE DEF W, F
    <3>2. (100 * W) * Busy(ts, cap)[2] = 0 /\ 0 <= Busy(ts, cap)[1] * F
      <4>1. Busy(ts, cap)[2] \in Nat
        BY <1>10 DEF Span
      <4> QED BY <2>1, <3>1, <4>1
    <3>3. Leq(<<100 * W, F>>, Busy(ts, cap))
      BY <3>2 DEF Leq
    <3> QED BY <3>3 DEF W, F
  <2>3. CASE CpuTasks(ts) # {}
    <3>1. k \in Nat \ {0} /\ 100 * k <= F
      BY <1>11, <2>3, CpuConcurrentPositive, CpuShared
    <3>2. CpuSpan(ts, cap) = <<W, k>>
      BY <2>3 DEF CpuSpan
    <3> HIDE DEF W, F, k
    <3>3. (100 * W) * k <= W * F
      <4>1. F = 100 * k + (F - 100 * k) /\ F - 100 * k \in Nat
        BY ONLY <2>1, <3>1
      <4>2. W * F = (100 * W) * k + W * (F - 100 * k)
        BY ONLY <2>1, <3>1, <4>1
      <4>3. W * (F - 100 * k) \in Nat /\ (100 * W) * k \in Nat
        BY ONLY <2>1, <3>1, <4>1
      <4> QED BY ONLY <4>2, <4>3
    <3>4. Leq(<<100 * W, F>>, <<W, k>>) /\ <<100 * W, F>> \in Span
      BY <2>1, <3>3 DEF Leq, Span
    <3>5. Leq(<<100 * W, F>>, Busy(ts, cap))
      BY <1>10, <3>2, <3>4, LeqTransitive
    <3> QED BY <3>5 DEF W, F
  <2> QED BY <2>2, <2>3
<1> QED BY <1>10, <1>11 DEF AllWork, longest

\* Nor is the estimate, with the time a computer works for a throttle.
THEOREM EstimateInBounds ==
    ASSUME NEW ts, ts \subseteq Task, IsFiniteSet(ts), NEW cap \in Capacity,
           WallClockRemaining(ts, cap) # Unknown
    PROVE  /\ WallClockRemaining(ts, cap) \in Span
           /\ Leq(<<Longest(ts), 1>>, WallClockRemaining(ts, cap))
           /\ cap.ncpus > 0 => Fits(ts, cap, WallClockRemaining(ts, cap))
<1> DEFINE b == Busy(ts, cap)
           n == b[1]
           d == b[2]
           l == cap.cpuUsageLimit
           L == Longest(ts)
           W == Work(ts)
           C == Work(CpuTasks(ts))
           F == LeftOver(ts, cap)
           Alone == \A t \in CpuTasks(ts) : t.useCpus = 0 \/ t.useCpus >= 100
           left  == cap.ncpus > 0 /\ Alone
           span  == WallClockRemaining(ts, cap)
<1>1. /\ b \in Span /\ Leq(<<L, 1>>, b) /\ Leq(b, <<W, 1>>)
      /\ left => Leq(<<100 * C, F>>, b)
  BY BusyInBounds
<1>2. \A t \in ts : t.timeLeft \in Nat
  BY DEF Task
<1>3. L \in Nat /\ W \in Nat /\ C \in Nat
  <2>1. CpuTasks(ts) \in SUBSET ts
    BY DEF CpuTasks, Unfinished
  <2> QED BY <1>2, <2>1, LongestOfAll, WorkAddsUp
<1>4. l \in Nat
  BY DEF Capacity
<1>5. n \in Nat /\ d \in Nat \ {0} /\ b = <<n, d>>
  BY <1>1 DEF Span
<1>6. F \in Nat
  BY LeftOverPositive
<1>7. /\ L * d <= n * 1 /\ n * 1 <= W * d
      /\ left => (100 * C) * d <= n * F
  BY <1>1 DEF Leq
<1>8. span = IF l > 0 /\ l < 100 THEN <<100 * n, l * d>> ELSE b
  BY DEF WallClockRemaining
<1>9. /\ Fits(ts, cap, span)
            <=> /\ Leq(span, <<100 * W, Limit(cap)>>)
                /\ Leq(<<100 * L, Limit(cap)>>, span)
                /\ Alone => Leq(<<10000 * C, Limit(cap) * F>>, span)
      /\ Limit(cap) = IF l \in 1..99 THEN l ELSE 100
  BY DEF Fits, Limit
<1>10. left <=> cap.ncpus > 0 /\ Alone
  OBVIOUS
<1> HIDE DEF n, d, l, L, W, C, F, b, span, Alone, left
<1>11. L * d \in Nat /\ W * d \in Nat /\ (100 * C) * d \in Nat /\ n * F \in Nat
  BY <1>3, <1>5, <1>6
<1>12. L * d <= n /\ n <= W * d
  BY ONLY <1>5, <1>7, <1>11
<1>13. CASE l > 0 /\ l < 100
  <2>1. span = <<100 * n, l * d>> /\ Limit(cap) = l
    BY <1>4, <1>8, <1>9, <1>13
  <2>2. l * d \in Nat \ {0} /\ 100 * n \in Nat
    BY <1>4, <1>5, <1>13
  <2>3. l * (L * d) <= l * n
    BY <1>4, <1>5, <1>11, <1>12
  <2>4. Leq(<<L, 1>>, span)
    <3>1. L * (l * d) = l * (L * d)
      BY <1>3, <1>4, <1>5
    <3>2. l * n <= 100 * n
      BY <1>4, <1>5, <1>13
    <3>3. L * (l * d) <= 100 * n * 1
      BY <1>3, <1>4, <1>5, <2>3, <3>1, <3>2
    <3> QED BY <2>1, <3>3 DEF Leq
  <2>5. Leq(span, <<100 * W, l>>)
    <3>1. n * l <= (W * d) * l
      BY <1>4, <1>5, <1>11, <1>12
    <3>2. (W * d) * l = W * (l * d)
      BY <1>3, <1>4, <1>5
    <3>3. 100 * n * l <= 100 * W * (l * d)
      BY <1>3, <1>4, <1>5, <3>1, <3>2
    <3> QED BY <2>1, <3>3 DEF Leq
  <2>6. Leq(<<100 * L, l>>, span)
    <3>1. 100 * L * (l * d) = 100 * (l * (L * d)) /\ 100 * n * l = 100 * (l * n)
      BY <1>3, <1>4, <1>5
    <3>2. 100 * (l * (L * d)) <= 100 * (l * n)
      BY <1>4, <1>5, <1>11, <2>3
    <3> QED BY <2>1, <3>1, <3>2 DEF Leq
  <2>7. ASSUME left
        PROVE  Leq(<<10000 * C, l * F>>, span)
    <3>1. l * ((100 * C) * d) <= l * (n * F)
      <4>1. (100 * C) * d <= n * F
        BY <1>7, <2>7
      <4>2. ((100 * C) * d) * l <= (n * F) * l
        BY ONLY <1>4, <1>11, <1>13, <4>1, Cancelled
      <4> QED BY ONLY <1>4, <1>11, <4>2
    <3>2. 100 * (l * ((100 * C) * d)) <= 100 * (l * (n * F))
      BY <1>4, <1>11, <3>1
    <3>3. (10000 * C) * (l * d) = 100 * (l * ((100 * C) * d))
      BY <1>3, <1>4, <1>5
    <3>4. (100 * n) * (l * F) = 100 * (l * (n * F))
      BY <1>4, <1>5, <1>6
    <3>5. (10000 * C) * (l * d) <= (100 * n) * (l * F)
      BY ONLY <3>2, <3>3, <3>4
    <3> QED BY <2>1, <3>5 DEF Leq
  <2>8. span \in Span
    BY <2>1, <2>2 DEF Span
  <2> QED BY <1>9, <1>10, <2>1, <2>4, <2>5, <2>6, <2>7, <2>8 DEF span, L
<1>14. CASE ~(l > 0 /\ l < 100)
  <2>1. span = <<n, d>> /\ Limit(cap) = 100
    BY <1>4, <1>5, <1>8, <1>9, <1>14
  <2>2. Leq(<<L, 1>>, span) /\ span \in Span
    BY <1>5, <1>7, <2>1 DEF Span, Leq
  <2>3. Leq(span, <<100 * W, 100>>)
    <3>1. n * 100 <= 100 * W * d
      BY <1>3, <1>5, <1>11, <1>12
    <3> QED BY <2>1, <3>1 DEF Leq
  <2>4. Leq(<<100 * L, 100>>, span)
    <3>1. 100 * L * d <= n * 100
      BY <1>3, <1>5, <1>11, <1>12
    <3> QED BY <2>1, <3>1 DEF Leq
  <2>5. ASSUME left
        PROVE  Leq(<<10000 * C, 100 * F>>, span)
    <3>1. (100 * C) * d <= n * F
      BY <1>7, <2>5
    <3>2. (10000 * C) * d = 100 * ((100 * C) * d) /\ n * (100 * F) = 100 * (n * F)
      BY <1>3, <1>5, <1>6
    <3>3. (10000 * C) * d <= n * (100 * F)
      BY <1>11, <3>1, <3>2
    <3> QED BY <2>1, <3>3 DEF Leq
  <2> QED BY <1>9, <1>10, <2>1, <2>2, <2>3, <2>4, <2>5 DEF span, L
<1> QED BY <1>13, <1>14

\* Nothing left is no time left, whatever the computer can do.
LEMMA NothingFits ==
    ASSUME NEW ts, ts \subseteq Task, IsFiniteSet(ts), NEW cap \in Capacity,
           Longest(ts) = 0
    PROVE  Fits(ts, cap, <<0, 1>>)
<1>1. \A t \in ts : t.timeLeft \in Nat
  BY DEF Task
<1>2. CpuTasks(ts) \in SUBSET ts
  BY DEF CpuTasks, Unfinished
<1>3. \A t \in ts : t.timeLeft = 0
  BY <1>1, LongestOfAll
<1>4. Work(ts) = 0 /\ Work(CpuTasks(ts)) = 0
  BY <1>2, <1>3, NoWork, FS_Subset
<1>5. Limit(cap) \in Nat
  BY DEF Limit, Capacity
<1>6. Leq(<<0, 1>>, <<100 * Work(ts), Limit(cap)>>)
  BY <1>4, <1>5 DEF Leq
<1>7. Leq(<<100 * Longest(ts), Limit(cap)>>, <<0, 1>>)
  BY <1>5 DEF Leq
<1>8. Leq(<<10000 * Work(CpuTasks(ts)), Limit(cap) * LeftOver(ts, cap)>>, <<0, 1>>)
  <2>1. LeftOver(ts, cap) \in Int
    BY LeftOverPositive
  <2>2. Limit(cap) * LeftOver(ts, cap) \in Int
    BY <1>5, <2>1
  <2>3. 0 * (Limit(cap) * LeftOver(ts, cap)) = 0
    BY ONLY <2>2
  <2> QED BY <1>4, <2>3 DEF Leq
<1> QED BY <1>6, <1>7, <1>8 DEF Fits

----------------------------------------------------------------------------
(* The orders the model sorts by.                                          *)

\* An order in which different ones may be equal.
Ranking(S, E, L) ==
    /\ \A x \in S : <<x, x>> \in E
    /\ \A x, y \in S : <<x, y>> \in E => <<y, x>> \in E /\ <<x, y>> \notin L
    /\ \A x, y \in S : <<x, y>> \notin E => (<<x, y>> \in L <=> <<y, x>> \notin L)
    /\ \A x, y, z \in S : <<x, y>> \in E /\ <<y, z>> \in E => <<x, z>> \in E
    /\ \A x, y, z \in S : <<x, y>> \in E /\ <<y, z>> \in L => <<x, z>> \in L
    /\ \A x, y, z \in S : <<x, y>> \in L /\ <<y, z>> \in E => <<x, z>> \in L
    /\ \A x, y, z \in S : <<x, y>> \in L /\ <<y, z>> \in L => <<x, z>> \in L

\* Broken ties make it a strict one, upwards or downwards.
LEMMA TiesBroken ==
    ASSUME NEW S, NEW E, NEW L, NEW T, NEW R, NEW asc \in BOOLEAN,
           Ranking(S, E, L), Ordering(S, T),
           \A x, y \in S : <<x, y>> \in R <=> IF <<x, y>> \in E THEN <<x, y>> \in T
                                             ELSE <<x, y>> \in L <=> asc
    PROVE  Ordering(S, R)
<1>1. \A x \in S : <<x, x>> \notin R
  BY DEF Ordering, Ranking
<1>2. ASSUME NEW x \in S, NEW y \in S, NEW z \in S, <<x, y>> \in R, <<y, z>> \in R
      PROVE  <<x, z>> \in R
  <2>1. CASE <<x, y>> \in E /\ <<y, z>> \in E
    BY <1>2, <2>1 DEF Ordering, Ranking
  <2>2. CASE <<x, y>> \in E /\ <<y, z>> \notin E
    BY <1>2, <2>2 DEF Ranking
  <2>3. CASE <<x, y>> \notin E /\ <<y, z>> \in E
    BY <1>2, <2>3 DEF Ranking
  <2>4. CASE <<x, y>> \notin E /\ <<y, z>> \notin E
    BY <1>2, <2>4 DEF Ranking
  <2> QED BY <2>1, <2>2, <2>3, <2>4
<1>3. ASSUME NEW x \in S, NEW y \in S
      PROVE  x = y \/ <<x, y>> \in R \/ <<y, x>> \in R
  <2>1. CASE <<x, y>> \in E
    BY <2>1 DEF Ordering, Ranking
  <2>2. CASE <<x, y>> \notin E
    BY <2>2 DEF Ranking
  <2> QED BY <2>1, <2>2
<1> QED BY <1>1, <1>2, <1>3 DEF Ordering

\* A number of each ranks them.
LEMMA NumbersRank ==
    ASSUME NEW S, NEW v \in [S -> Int], NEW E, NEW L,
           \A x, y \in S : <<x, y>> \in E <=> v[x] = v[y],
           \A x, y \in S : <<x, y>> \in L <=> v[x] < v[y]
    PROVE  Ranking(S, E, L)
<1>1. \A x \in S : v[x] \in Int
  OBVIOUS
<1> QED BY <1>1 DEF Ranking

\* Spans, compared by cross-multiplication, rank too.
LEMMA SpansRank ==
    ASSUME NEW S, NEW v, NEW E, NEW L, \A x \in S : v[x] \in Span,
           \A x, y \in S : <<x, y>> \in E <=> v[x][1] * v[y][2] = v[y][1] * v[x][2],
           \A x, y \in S : <<x, y>> \in L <=> v[x][1] * v[y][2] < v[y][1] * v[x][2]
    PROVE  Ranking(S, E, L)
<1> DEFINE c(x, y) == v[x][1] * v[y][2]
<1>1. \A x, y, z \in S :
          /\ c(x, y) \in Nat
          /\ c(x, y) = c(y, x) /\ c(y, z) = c(z, y) => c(x, z) = c(z, x)
          /\ c(x, y) < c(y, x) /\ c(y, z) <= c(z, y) => c(x, z) < c(z, x)
          /\ c(x, y) <= c(y, x) /\ c(y, z) < c(z, y) => c(x, z) < c(z, x)
  <2> TAKE x, y, z \in S
  <2> QED BY ONLY v[x] \in Span, v[y] \in Span, v[z] \in Span, CrossMultiplied
<1>2. \A x, y \in S : /\ <<x, y>> \in E <=> c(x, y) = c(y, x)
                      /\ <<x, y>> \in L <=> c(x, y) < c(y, x)
  OBVIOUS
<1> HIDE DEF c
<1> QED BY ONLY <1>1, <1>2 DEF Ranking

\* The columns to sort by.
Cols == {"natural", "computer", "timeLeft"}

\* A group, with the denominator of its span positive.
GroupNode == [key : Nat \X Nat \X Nat, expanded : BOOLEAN, tasks : Seq(Task),
              label : {Mixed} \cup DOMAIN Caps, timeLeft : Span]

\* The keys of groups are ordered.
LEMMA KeysOrdered ==
    ASSUME NEW k \in Nat \X Nat \X Nat, NEW l \in Nat \X Nat \X Nat,
           NEW m \in Nat \X Nat \X Nat
    PROVE  /\ ~KeyLess(k, k)
           /\ KeyLess(k, l) /\ KeyLess(l, m) => KeyLess(k, m)
           /\ k = l \/ KeyLess(k, l) \/ KeyLess(l, k)
<1>1. /\ k[1] \in Nat /\ k[2] \in Nat /\ k[3] \in Nat
      /\ l[1] \in Nat /\ l[2] \in Nat /\ l[3] \in Nat
      /\ m[1] \in Nat /\ m[2] \in Nat /\ m[3] \in Nat
  OBVIOUS
<1>2. k = <<k[1], k[2], k[3]>> /\ l = <<l[1], l[2], l[3]>>
  OBVIOUS
<1>3. ~KeyLess(k, k)
  BY <1>1 DEF KeyLess
<1>4. KeyLess(k, l) /\ KeyLess(l, m) => KeyLess(k, m)
  BY <1>1 DEF KeyLess
<1>5. (k[1] = l[1] /\ k[2] = l[2] /\ k[3] = l[3]) \/ KeyLess(k, l) \/ KeyLess(l, k)
  BY <1>1 DEF KeyLess
<1>6. k[1] = l[1] /\ k[2] = l[2] /\ k[3] = l[3] => k = l
  BY <1>2
<1> QED BY <1>3, <1>4, <1>5, <1>6

\* Tasks of one name have numbers that tell them apart.
Tied(tie, S) ==
    \A s, t \in S : s.name = t.name /\ s # t
                      => tie[s] \in Nat /\ tie[t] \in Nat /\ tie[s] # tie[t]

\* What breaks the ties of a set breaks those of its parts.
LEMMA TiesTell ==
    ASSUME NEW S, NEW tie \in Ties(S), NEW T \in SUBSET S
    PROVE  Tied(tie, T)
<1>1. /\ tie \in [Namesakes(S) -> 1..Cardinality(Namesakes(S))]
      /\ \A s, t \in Namesakes(S) : tie[s] = tie[t] => s = t
  BY DEF Ties, Injection, IsInjective
<1>2. ASSUME NEW s \in T, NEW t \in T, s.name = t.name, s # t
      PROVE  s \in Namesakes(S) /\ t \in Namesakes(S)
  BY <1>2 DEF Namesakes
<1>3. \A s \in Namesakes(S) : tie[s] \in Nat
  BY <1>1
<1> QED BY <1>1, <1>2, <1>3 DEF Tied

\* Tasks are ordered in each direction of each column.
LEMMA TasksOrdered ==
    ASSUME NEW S, S \subseteq Task, NEW tie, Tied(tie, S),
           sortCol' \in Cols, sortAsc' \in BOOLEAN,
           NEW R, R = {p \in S \X S : TaskBefore(p[1], p[2], tie)}
    PROVE  Ordering(S, R)
<1> DEFINE T == {p \in S \X S : NameBefore(p[1], p[2], tie)}
           v == [s \in S |-> IF sortCol' = "natural" THEN 0 ELSE s[sortCol']]
           E == {p \in S \X S : v[p[1]] = v[p[2]]}
           L == {p \in S \X S : v[p[1]] < v[p[2]]}
<1>1. \A s \in S : s.name \in Nat /\ s.computer \in Nat /\ s.timeLeft \in Nat
  BY TasksAssumption DEF Task
<1>2. Ordering(S, T)
  <2>1. \A s, t \in S : <<s, t>> \in T <=> NameBefore(s, t, tie)
    OBVIOUS
  <2>2. ASSUME NEW s \in S, NEW t \in S, NEW u \in S
        PROVE  /\ ~NameBefore(s, s, tie)
               /\ NameBefore(s, t, tie) /\ NameBefore(t, u, tie) => NameBefore(s, u, tie)
               /\ s = t \/ NameBefore(s, t, tie) \/ NameBefore(t, s, tie)
    <3>1. s.name \in Nat /\ t.name \in Nat /\ u.name \in Nat
      BY <1>1
    <3>2. /\ s.name = t.name /\ s # t
               => tie[s] \in Nat /\ tie[t] \in Nat /\ tie[s] # tie[t]
          /\ t.name = u.name /\ t # u
               => tie[t] \in Nat /\ tie[u] \in Nat /\ tie[t] # tie[u]
          /\ s.name = u.name /\ s # u
               => tie[s] \in Nat /\ tie[u] \in Nat /\ tie[s] # tie[u]
      BY DEF Tied
    <3> QED BY ONLY <3>1, <3>2 DEF NameBefore
  <2> HIDE DEF T
  <2> QED BY <2>1, <2>2 DEF Ordering
<1>3. v \in [S -> Int]
  BY <1>1 DEF Cols
<1>4. Ranking(S, E, L)
  <2>1. \A s, t \in S : <<s, t>> \in E <=> v[s] = v[t]
    OBVIOUS
  <2>2. \A s, t \in S : <<s, t>> \in L <=> v[s] < v[t]
    OBVIOUS
  <2> HIDE DEF v, E, L
  <2> QED BY <1>3, <2>1, <2>2, NumbersRank
<1>5. ASSUME NEW s \in S, NEW t \in S
      PROVE  <<s, t>> \in R <=> IF <<s, t>> \in E THEN <<s, t>> \in T
                               ELSE <<s, t>> \in L <=> sortAsc'
  <2>1. <<s, t>> \in R <=> TaskBefore(s, t, tie)
    OBVIOUS
  <2>2. /\ <<s, t>> \in E <=> v[s] = v[t]
        /\ <<s, t>> \in L <=> v[s] < v[t]
        /\ <<s, t>> \in T <=> NameBefore(s, t, tie)
    OBVIOUS
  <2>3. CASE sortCol' = "natural"
    <3>1. v[s] = v[t]
      BY <2>3
    <3> QED BY <2>1, <2>2, <2>3, <3>1 DEF TaskBefore
  <2>4. CASE sortCol' # "natural"
    <3>1. v[s] = s[sortCol'] /\ v[t] = t[sortCol']
      BY <2>4
    <3> HIDE DEF v, E, L, T
    <3>2. TaskBefore(s, t, tie) <=> IF v[s] = v[t] THEN NameBefore(s, t, tie)
                                    ELSE v[s] < v[t] <=> sortAsc'
      BY <2>4, <3>1 DEF TaskBefore
    <3> QED BY <2>1, <2>2, <3>2
  <2> QED BY <2>3, <2>4
<1> HIDE DEF T, v, E, L
<1> QED BY ONLY <1>2, <1>4, <1>5, sortAsc' \in BOOLEAN, TiesBroken

\* Sorting gives the tasks of a group, once each; by name in the natural order.
LEMMA TasksSorted ==
    ASSUME NEW S, S \subseteq Task, IsFiniteSet(S), NEW tie, Tied(tie, S),
           sortCol' \in Cols, sortAsc' \in BOOLEAN
    PROVE  /\ InTurn(S, tie) \in Seq(Task) /\ ToSet(InTurn(S, tie)) = S
           /\ \A i, j \in DOMAIN InTurn(S, tie) :
                 /\ InTurn(S, tie)[i] = InTurn(S, tie)[j] => i = j
                 /\ sortCol' = "natural" /\ i < j
                      => InTurn(S, tie)[i].name <= InTurn(S, tie)[j].name
<1> DEFINE R == {p \in S \X S : TaskBefore(p[1], p[2], tie)}
           rank == [x \in S |-> Cardinality({y \in S : <<y, x>> \in R})]
           q == ByRank(S, rank)
<1>1. Ordering(S, R)
  BY TasksOrdered
<1>2. rank = [x \in S |-> Cardinality({y \in S : TaskBefore(y, x, tie)})]
  <2>1. \A x \in S : {y \in S : <<y, x>> \in R} = {y \in S : TaskBefore(y, x, tie)}
    OBVIOUS
  <2> HIDE DEF R
  <2> QED BY <2>1
<1>3. InTurn(S, tie) = q
  <2> HIDE DEF rank
  <2> QED BY <1>2 DEF InTurn, Sorted
<1>4. \A x, y \in S : <<x, y>> \in R => TaskBefore(x, y, tie)
  OBVIOUS
<1>5. Arranged(q, S, R)
  <2> HIDE DEF R
  <2> QED BY <1>1, RankedInOrder
<1> HIDE DEF R, rank, q
<1>6. /\ DOMAIN q = 1..Len(q) /\ ToSet(q) = S
      /\ \A i \in DOMAIN q : q[i] \in S
      /\ \A i, j \in DOMAIN q : q[i] = q[j] => i = j
  BY <1>1, <1>5, ArrangedOnce
<1>7. q \in Seq(Task)
  BY <1>5, SeqMonotonic DEF Arranged
<1>8. ASSUME NEW i \in DOMAIN q, NEW j \in DOMAIN q, sortCol' = "natural", i < j
      PROVE  q[i].name <= q[j].name
  <2>1. TaskBefore(q[i], q[j], tie)
    BY <1>4, <1>5, <1>6, <1>8 DEF Arranged
  <2>2. q[i].name \in Nat /\ q[j].name \in Nat
    BY <1>6 DEF Task
  <2> QED BY <1>8, <2>1, <2>2 DEF TaskBefore, NameBefore
<1> QED BY <1>3, <1>6, <1>7, <1>8

\* Groups with different keys are.
LEMMA GroupsOrdered ==
    ASSUME NEW G, G \subseteq GroupNode, \A g, h \in G : g.key = h.key => g = h,
           sortCol' \in Cols, sortAsc' \in BOOLEAN,
           NEW R, R = {p \in G \X G : GroupBefore(p[1], p[2])}
    PROVE  Ordering(G, R)
<1> DEFINE T == {p \in G \X G : KeyLess(p[1].key, p[2].key)}
           v == [g \in G |-> g.label]
           w == [g \in G |-> g.timeLeft]
<1>1. \A g \in G : g.key \in Nat \X Nat \X Nat /\ g.label \in Int /\ g.timeLeft \in Span
  BY TasksAssumption DEF GroupNode, Mixed
<1>2. Ordering(G, T)
  <2>1. \A g, h \in G : <<g, h>> \in T <=> KeyLess(g.key, h.key)
    OBVIOUS
  <2>2. \A f, g, h \in G : /\ ~KeyLess(f.key, f.key)
                           /\ KeyLess(f.key, g.key) /\ KeyLess(g.key, h.key)
                                => KeyLess(f.key, h.key)
                           /\ f = g \/ KeyLess(f.key, g.key) \/ KeyLess(g.key, f.key)
    BY <1>1, KeysOrdered
  <2> HIDE DEF T
  <2> QED BY <2>1, <2>2 DEF Ordering
<1>3. \A g, h \in G : /\ <<g, h>> \in R <=> GroupBefore(g, h)
                      /\ <<g, h>> \in T <=> KeyLess(g.key, h.key)
  OBVIOUS
<1>4. CASE sortCol' = "natural"
  <2>1. \A g, h \in G : <<g, h>> \in R <=> <<g, h>> \in T
    BY <1>3, <1>4 DEF GroupBefore
  <2> HIDE DEF T
  <2> QED BY <1>2, <2>1 DEF Ordering
<1>5. CASE sortCol' = "computer"
  <2> DEFINE E == {p \in G \X G : v[p[1]] = v[p[2]]}
             L == {p \in G \X G : v[p[1]] < v[p[2]]}
  <2>1. \A g, h \in G : <<g, h>> \in E <=> v[g] = v[h]
    OBVIOUS
  <2>2. \A g, h \in G : <<g, h>> \in L <=> v[g] < v[h]
    OBVIOUS
  <2>3. v \in [G -> Int] /\ \A g \in G : v[g] = g.label
    BY <1>1
  <2> HIDE DEF T, v, E, L
  <2>4. Ranking(G, E, L)
    BY <2>1, <2>2, <2>3, NumbersRank
  <2>5. ASSUME NEW g \in G, NEW h \in G
        PROVE  <<g, h>> \in R <=> IF <<g, h>> \in E THEN <<g, h>> \in T
                                 ELSE <<g, h>> \in L <=> sortAsc'
    <3>1. GroupBefore(g, h) <=> IF g.label = h.label THEN KeyLess(g.key, h.key)
                                ELSE g.label < h.label <=> sortAsc'
      BY <1>5 DEF GroupBefore
    <3> QED BY <1>3, <2>1, <2>2, <2>3, <3>1
  <2> QED BY ONLY <1>2, <2>4, <2>5, sortAsc' \in BOOLEAN, TiesBroken
<1>6. CASE sortCol' = "timeLeft"
  <2> DEFINE E == {p \in G \X G : w[p[1]][1] * w[p[2]][2] = w[p[2]][1] * w[p[1]][2]}
             L == {p \in G \X G : w[p[1]][1] * w[p[2]][2] < w[p[2]][1] * w[p[1]][2]}
  <2>1. \A g, h \in G : <<g, h>> \in E <=> w[g][1] * w[h][2] = w[h][1] * w[g][2]
    OBVIOUS
  <2>2. \A g, h \in G : <<g, h>> \in L <=> w[g][1] * w[h][2] < w[h][1] * w[g][2]
    OBVIOUS
  <2>3. \A g \in G : w[g] = g.timeLeft /\ w[g] \in Span
    BY <1>1
  <2> HIDE DEF T, w, E, L
  <2>4. Ranking(G, E, L)
    BY ONLY <2>1, <2>2, <2>3, SpansRank
  <2>5. ASSUME NEW g \in G, NEW h \in G
        PROVE  <<g, h>> \in R <=> IF <<g, h>> \in E THEN <<g, h>> \in T
                                 ELSE <<g, h>> \in L <=> sortAsc'
    <3>1. GroupBefore(g, h)
            <=> IF g.timeLeft[1] * h.timeLeft[2] = h.timeLeft[1] * g.timeLeft[2]
                THEN KeyLess(g.key, h.key)
                ELSE g.timeLeft[1] * h.timeLeft[2] < h.timeLeft[1] * g.timeLeft[2]
                       <=> sortAsc'
      BY <1>6 DEF GroupBefore
    <3> QED BY <1>3, <2>1, <2>2, <2>3, <3>1
  <2> QED BY ONLY <1>2, <2>4, <2>5, sortAsc' \in BOOLEAN, TiesBroken
<1> QED BY <1>4, <1>5, <1>6 DEF Cols

\* Sorting gives the groups, once each; by key in the natural order.
LEMMA GroupsSorted ==
    ASSUME NEW G, G \subseteq GroupNode, IsFiniteSet(G),
           \A g, h \in G : g.key = h.key => g = h,
           sortCol' \in Cols, sortAsc' \in BOOLEAN
    PROVE  /\ InOrder(G) \in Seq(GroupNode) /\ ToSet(InOrder(G)) = G
           /\ \A i, j \in DOMAIN InOrder(G) :
                 /\ InOrder(G)[i].key = InOrder(G)[j].key => i = j
                 /\ sortCol' = "natural" /\ i < j
                      => KeyLess(InOrder(G)[i].key, InOrder(G)[j].key)
<1> DEFINE R == {p \in G \X G : GroupBefore(p[1], p[2])}
           rank == [x \in G |-> Cardinality({y \in G : <<y, x>> \in R})]
           q == ByRank(G, rank)
<1>1. Ordering(G, R)
  BY GroupsOrdered
<1>2. rank = [x \in G |-> Cardinality({y \in G : GroupBefore(y, x)})]
  <2>1. \A x \in G : {y \in G : <<y, x>> \in R} = {y \in G : GroupBefore(y, x)}
    OBVIOUS
  <2> HIDE DEF R
  <2> QED BY <2>1
<1>3. InOrder(G) = q
  <2> HIDE DEF rank
  <2> QED BY <1>2 DEF InOrder, Sorted
<1>4. \A x, y \in G : <<x, y>> \in R => GroupBefore(x, y)
  OBVIOUS
<1>5. Arranged(q, G, R)
  <2> HIDE DEF R
  <2> QED BY <1>1, RankedInOrder
<1> HIDE DEF R, rank, q
<1>6. /\ DOMAIN q = 1..Len(q) /\ ToSet(q) = G
      /\ \A i \in DOMAIN q : q[i] \in G
      /\ \A i, j \in DOMAIN q : q[i] = q[j] => i = j
  BY <1>1, <1>5, ArrangedOnce
<1>7. q \in Seq(GroupNode)
  BY <1>5, SeqMonotonic DEF Arranged
<1>8. \A i, j \in DOMAIN q : q[i].key = q[j].key => i = j
  BY <1>6
<1>9. ASSUME NEW i \in DOMAIN q, NEW j \in DOMAIN q, sortCol' = "natural", i < j
      PROVE  KeyLess(q[i].key, q[j].key)
  <2>1. GroupBefore(q[i], q[j])
    BY <1>4, <1>5, <1>6, <1>9 DEF Arranged
  <2> QED BY <1>9, <2>1 DEF GroupBefore
<1> QED BY <1>3, <1>6, <1>7, <1>8, <1>9

----------------------------------------------------------------------------
(* Rows.                                                                   *)

\* There are finitely many rows, of groups there are and tasks they have.
LEMMA CellsFinite ==
    ASSUME NEW gs, gs \in Seq(GroupNode)
    PROVE  /\ IsFiniteSet(Cells(gs))
           /\ \A p \in Cells(gs) : /\ p = <<p[1], p[2]>> /\ p[1] \in DOMAIN gs
                                   /\ p[2] \in 0..Len(gs[p[1]].tasks)
<1> DEFINE last(i) == IF gs[i].expanded /\ Len(gs[i].tasks) > 1
                      THEN Len(gs[i].tasks) ELSE 0
           row(i)  == {<<i, j>> : j \in 0..last(i)}
           rows    == {row(i) : i \in DOMAIN gs}
<1>1. DOMAIN gs = 1..Len(gs) /\ Len(gs) \in Nat /\ \A i \in DOMAIN gs : gs[i] \in GroupNode
  BY LenProperties
<1>2. ASSUME NEW i \in DOMAIN gs
      PROVE  Len(gs[i].tasks) \in Nat /\ last(i) \in 0..Len(gs[i].tasks)
  <2>1. Len(gs[i].tasks) \in Nat
    BY <1>1, LenProperties DEF GroupNode
  <2> QED BY <2>1
<1>3. Cells(gs) = UNION rows
  BY DEF Cells
<1>4. IsFiniteSet(DOMAIN gs)
  BY <1>1, FS_Interval
<1>5. ASSUME NEW P \in rows
      PROVE  IsFiniteSet(P)
  <2>1. PICK i \in DOMAIN gs : P = row(i)
    OBVIOUS
  <2> DEFINE cell == [j \in 0..last(i) |-> <<i, j>>]
  <2>2. cell \in Surjection(0..last(i), row(i))
    BY DEF Surjection
  <2>3. IsFiniteSet(0..last(i))
    <3>1. last(i) \in Int
      BY <1>2
    <3> HIDE DEF last
    <3> QED BY <3>1, FS_Interval
  <2> HIDE DEF cell, row, last
  <2> QED BY <2>1, <2>2, <2>3, FS_Surjection
<1>6. IsFiniteSet(rows)
  <2> DEFINE r == [i \in DOMAIN gs |-> row(i)]
  <2>1. r \in Surjection(DOMAIN gs, rows)
    BY DEF Surjection
  <2> HIDE DEF r, rows
  <2> QED BY <1>4, <2>1, FS_Surjection
<1>7. IsFiniteSet(UNION rows)
  <2> HIDE DEF rows
  <2> QED BY <1>5, <1>6, FS_UNION
<1>8. ASSUME NEW p \in Cells(gs)
      PROVE  /\ p = <<p[1], p[2]>> /\ p[1] \in DOMAIN gs
             /\ p[2] \in 0..Len(gs[p[1]].tasks)
  <2>1. PICK i \in DOMAIN gs : p \in row(i)
    BY <1>3
  <2>2. PICK j \in 0..last(i) : p = <<i, j>>
    BY <2>1
  <2>3. j \in 0..Len(gs[i].tasks)
    <3> HIDE DEF last
    <3> QED BY <1>2
  <2> QED BY <2>2, <2>3
<1> QED BY <1>3, <1>7, <1>8

\* m_flat is a list of them.
LEMMA FlatRows ==
    ASSUME NEW gs, gs \in Seq(GroupNode)
    PROVE  /\ DOMAIN Flat(gs) = 1..Len(Flat(gs)) /\ Len(Flat(gs)) \in Nat
           /\ \A r \in DOMAIN Flat(gs) :
                 /\ Flat(gs)[r][1] \in DOMAIN gs
                 /\ Flat(gs)[r][2] \in 0..Len(gs[Flat(gs)[r][1]].tasks)
<1> DEFINE S == Cells(gs)
           R == {p \in S \X S : Above(p[1], p[2])}
           rank == [x \in S |-> Cardinality({y \in S : <<y, x>> \in R})]
           q == ByRank(S, rank)
<1>1. /\ IsFiniteSet(S)
      /\ \A p \in S : /\ p = <<p[1], p[2]>> /\ p[1] \in DOMAIN gs
                      /\ p[2] \in 0..Len(gs[p[1]].tasks)
  BY CellsFinite
<1>2. \A p \in S : p[1] \in Nat /\ p[2] \in Nat
  <2>1. DOMAIN gs = 1..Len(gs)
    BY LenProperties
  <2> HIDE DEF S
  <2> QED BY <1>1, <2>1
<1> HIDE DEF S
<1>3. Ordering(S, R)
  <2>1. \A p, o \in S : <<p, o>> \in R <=> Above(p, o)
    OBVIOUS
  <2> HIDE DEF R
  <2>2. \A p \in S : <<p, p>> \notin R
    BY ONLY <1>2, <2>1 DEF Above
  <2>3. \A p, o, n \in S : <<p, o>> \in R /\ <<o, n>> \in R => <<p, n>> \in R
    <3> SUFFICES ASSUME NEW p \in S, NEW o \in S, NEW n \in S, Above(p, o), Above(o, n)
                 PROVE  Above(p, n)
      BY <2>1
    <3> QED BY <1>2 DEF Above
  <2>4. ASSUME NEW p \in S, NEW o \in S, <<p, o>> \notin R, <<o, p>> \notin R
        PROVE  p = o
    <3>1. p[1] = o[1] /\ p[2] = o[2]
      BY <1>2, <2>1, <2>4 DEF Above
    <3>2. p = <<p[1], p[2]>> /\ o = <<o[1], o[2]>>
      BY <1>1
    <3> QED BY <3>1, <3>2
  <2> QED BY <2>2, <2>3, <2>4 DEF Ordering
<1>4. rank = [x \in S |-> Cardinality({y \in S : Above(y, x)})]
  <2>1. \A x \in S : {y \in S : <<y, x>> \in R} = {y \in S : Above(y, x)}
    OBVIOUS
  <2> HIDE DEF R
  <2> QED BY <2>1
<1>5. Flat(gs) = q
  <2> HIDE DEF rank
  <2> QED BY <1>4 DEF Flat, Sorted, S
<1>6. Arranged(q, S, R)
  <2> HIDE DEF R
  <2> QED BY <1>1, <1>3, RankedInOrder
<1> HIDE DEF R, rank, q
<1>7. /\ DOMAIN q = 1..Len(q) /\ Len(q) \in Nat
      /\ \A r \in DOMAIN q : q[r] \in S
  BY <1>3, <1>6, ArrangedOnce
<1> QED BY <1>1, <1>5, <1>7

----------------------------------------------------------------------------
(* Groups.                                                                 *)

\* The longest task at least, and what one computer that is known can do.
Bounded(T, span, kn) ==
    /\ Leq(<<Longest(T), 1>>, span)
    /\ \A c \in kn : Caps[c].ncpus > 0 /\ (\A t \in T : t.computer = c)
                       => Fits(T, Caps[c], span)

\* A group before its tasks are sorted.
Unsorted == [key : Nat \X Nat \X Nat, expanded : BOOLEAN, tasks : SUBSET Task,
             label : {Mixed} \cup DOMAIN Caps, timeLeft : Span]

\* Groups that share no key and no task, each with the tasks of its key.
Apart(G, kn, flags) ==
    /\ G \subseteq Unsorted /\ IsFiniteSet(G)
    /\ \A g \in G : /\ g.tasks # {} /\ IsFiniteSet(g.tasks)
                     /\ Bounded(g.tasks, g.timeLeft, kn)
    /\ \A g, h \in G : g.key = h.key => g = h
    /\ \A g, h \in G : \A s \in g.tasks, t \in h.tasks : SameTask(s, t) => g = h /\ s = t
    /\ flags # {} => \A g \in G : \A t \in g.tasks : Key(flags, t, 0) = g.key

\* The list of them: m_groups.
Listed(gs, kn, flags, col) ==
    /\ gs \in Seq(GroupNode)
    /\ \A i \in DOMAIN gs : /\ gs[i].tasks # <<>>
                             /\ Bounded(ToSet(gs[i].tasks), gs[i].timeLeft, kn)
    /\ \A i, j \in DOMAIN gs : gs[i].key = gs[j].key => i = j
    /\ \A i, j \in DOMAIN gs : \A a \in DOMAIN gs[i].tasks, b \in DOMAIN gs[j].tasks :
          SameTask(gs[i].tasks[a], gs[j].tasks[b]) => i = j /\ a = b
    /\ flags # {} => \A i \in DOMAIN gs : \A a \in DOMAIN gs[i].tasks :
          Key(flags, gs[i].tasks[a], 0) = gs[i].key
    /\ col = "natural" =>
          /\ \A i, j \in DOMAIN gs : i < j => KeyLess(gs[i].key, gs[j].key)
          /\ \A i \in DOMAIN gs : \A a, b \in DOMAIN gs[i].tasks :
                a < b => gs[i].tasks[a].name <= gs[i].tasks[b].name

\* ApplySort makes the list of groups from groups in any order.
LEMMA ApplySortLists ==
    ASSUME NEW G, NEW kn, NEW flags, Apart(G, kn, flags),
           NEW tie, \A g \in G : Tied(tie, g.tasks),
           sortCol' \in Cols, sortAsc' \in BOOLEAN
    PROVE  /\ Listed(ApplySort(G, tie), kn, flags, sortCol')
           /\ \A g \in G : \E i \in DOMAIN ApplySort(G, tie) :
                 /\ ApplySort(G, tie)[i].key = g.key /\ ApplySort(G, tie)[i].expanded = g.expanded
                 /\ ToSet(ApplySort(G, tie)[i].tasks) = g.tasks
           /\ \A i \in DOMAIN ApplySort(G, tie) : \E g \in G :
                 /\ ApplySort(G, tie)[i].key = g.key /\ ApplySort(G, tie)[i].expanded = g.expanded
                 /\ ToSet(ApplySort(G, tie)[i].tasks) = g.tasks
<1> DEFINE sort(g) == [g EXCEPT !.tasks = InTurn(g.tasks, tie)]
           H == {sort(g) : g \in G}
           gs == InOrder(H)
<1>1. ApplySort(G, tie) = gs
  BY DEF ApplySort
<1>2. ASSUME NEW g \in G
      PROVE  /\ sort(g) \in GroupNode /\ sort(g).key = g.key
             /\ sort(g).expanded = g.expanded /\ sort(g).timeLeft = g.timeLeft
             /\ ToSet(sort(g).tasks) = g.tasks
             /\ \A a, b \in DOMAIN sort(g).tasks :
                   /\ sort(g).tasks[a] = sort(g).tasks[b] => a = b
                   /\ sortCol' = "natural" /\ a < b
                        => sort(g).tasks[a].name <= sort(g).tasks[b].name
  <2> DEFINE q == InTurn(g.tasks, tie)
  <2>1. g \in Unsorted /\ IsFiniteSet(g.tasks) /\ g.tasks \subseteq Task
    BY DEF Apart, Unsorted
  <2>2. Tied(tie, g.tasks)
    OBVIOUS
  <2>3. /\ q \in Seq(Task) /\ ToSet(q) = g.tasks
        /\ \A a, b \in DOMAIN q :
              /\ q[a] = q[b] => a = b
              /\ sortCol' = "natural" /\ a < b => q[a].name <= q[b].name
    BY <2>1, <2>2, TasksSorted
  <2> HIDE DEF q
  <2>4. sort(g) = [g EXCEPT !.tasks = q]
    BY DEF q
  <2>5. /\ sort(g).tasks = q /\ sort(g).key = g.key /\ sort(g).expanded = g.expanded
        /\ sort(g).timeLeft = g.timeLeft /\ sort(g) \in GroupNode
    BY <2>1, <2>3, <2>4 DEF Unsorted, GroupNode
  <2> HIDE DEF sort
  <2> QED BY <2>3, <2>5
<1> HIDE DEF sort
<1>3. IsFiniteSet(H)
  <2> DEFINE f == [g \in G |-> sort(g)]
  <2>1. f \in Surjection(G, H)
    BY DEF Surjection
  <2>2. IsFiniteSet(G)
    BY DEF Apart
  <2> HIDE DEF f, H
  <2> QED BY <2>1, <2>2, FS_Surjection
<1>4. H \subseteq GroupNode
  BY <1>2
<1>5. \A g, h \in H : g.key = h.key => g = h
  BY <1>2 DEF Apart
<1>6. \A h \in H : \E g \in G : h = sort(g)
  OBVIOUS
<1>7. \A g \in G : sort(g) \in H
  OBVIOUS
<1> HIDE DEF H
<1>8. /\ gs \in Seq(GroupNode) /\ ToSet(gs) = H
      /\ \A i, j \in DOMAIN gs :
            /\ gs[i].key = gs[j].key => i = j
            /\ sortCol' = "natural" /\ i < j => KeyLess(gs[i].key, gs[j].key)
  BY <1>3, <1>4, <1>5, GroupsSorted
<1> HIDE DEF gs
<1>9. \A i \in DOMAIN gs : \E g \in G : gs[i] = sort(g)
  BY <1>6, <1>8 DEF ToSet
<1>10. \A g \in G : \E i \in DOMAIN gs : gs[i] = sort(g)
  BY <1>7, <1>8 DEF ToSet
<1>11. ASSUME NEW i \in DOMAIN gs
       PROVE  gs[i].tasks # <<>> /\ Bounded(ToSet(gs[i].tasks), gs[i].timeLeft, kn)
  <2>1. PICK g \in G : gs[i] = sort(g)
    BY <1>9
  <2>2. ToSet(gs[i].tasks) = g.tasks /\ g.tasks # {} /\ gs[i].timeLeft = g.timeLeft
    BY <1>2, <2>1 DEF Apart
  <2>3. gs[i].tasks # <<>>
    BY <2>2 DEF ToSet
  <2> QED BY <2>2, <2>3 DEF Apart
<1>12. ASSUME NEW i \in DOMAIN gs, NEW j \in DOMAIN gs,
              NEW a \in DOMAIN gs[i].tasks, NEW b \in DOMAIN gs[j].tasks,
              SameTask(gs[i].tasks[a], gs[j].tasks[b])
       PROVE  i = j /\ a = b
  <2>1. PICK g \in G : gs[i] = sort(g)
    BY <1>9
  <2>2. PICK h \in G : gs[j] = sort(h)
    BY <1>9
  <2>3. gs[i].tasks[a] \in g.tasks /\ gs[j].tasks[b] \in h.tasks
    BY <1>2, <2>1, <2>2 DEF ToSet
  <2>4. g = h /\ gs[i].tasks[a] = gs[j].tasks[b]
    BY <1>12, <2>3 DEF Apart
  <2>5. i = j
    BY <1>8, <2>1, <2>2, <2>4
  <2> QED BY <1>2, <2>1, <2>4, <2>5
<1>13. ASSUME flags # {}, NEW i \in DOMAIN gs, NEW a \in DOMAIN gs[i].tasks
       PROVE  Key(flags, gs[i].tasks[a], 0) = gs[i].key
  <2>1. PICK g \in G : gs[i] = sort(g)
    BY <1>9
  <2>2. gs[i].tasks[a] \in g.tasks /\ gs[i].key = g.key
    BY <1>2, <2>1 DEF ToSet
  <2> QED BY <1>13, <2>2 DEF Apart
<1>14. ASSUME sortCol' = "natural", NEW i \in DOMAIN gs,
              NEW a \in DOMAIN gs[i].tasks, NEW b \in DOMAIN gs[i].tasks, a < b
       PROVE  gs[i].tasks[a].name <= gs[i].tasks[b].name
  BY <1>2, <1>9, <1>14
<1>15. Listed(gs, kn, flags, sortCol')
  BY <1>8, <1>11, <1>12, <1>13, <1>14 DEF Listed
<1>16. /\ \A g \in G : \E i \in DOMAIN gs :
             /\ gs[i].key = g.key /\ gs[i].expanded = g.expanded
             /\ ToSet(gs[i].tasks) = g.tasks
       /\ \A i \in DOMAIN gs : \E g \in G :
             /\ gs[i].key = g.key /\ gs[i].expanded = g.expanded
             /\ ToSet(gs[i].tasks) = g.tasks
  BY <1>2, <1>9, <1>10
<1> QED BY <1>1, <1>15, <1>16

----------------------------------------------------------------------------
(* A poll.                                                                 *)

\* Where there is no estimate, it is unknown what the computer has, or nothing is left.
LEMMA NoEstimate ==
    ASSUME NEW ts, ts \subseteq Task, IsFiniteSet(ts), NEW cap \in Capacity,
           WallClockRemaining(ts, cap) = Unknown, cap.ncpus > 0
    PROVE  Longest(ts) = 0
<1> DEFINE n == Busy(ts, cap)[1]
           d == Busy(ts, cap)[2]
<1>1. Busy(ts, cap) \in Span
  BY BusyInBounds
<1>2. n \in Nat /\ Busy(ts, cap) = <<n, d>>
  BY <1>1 DEF Span
<1>3. Slots(cap) # 0
  <2>1. cap.ncpus \in Nat /\ cap.maxNcpusPct \in Nat
    BY DEF Capacity
  <2>2. cap.ncpus * cap.maxNcpusPct \in Int
    BY <2>1
  <2>3. (cap.ncpus * cap.maxNcpusPct) \div 100 \in Int
    BY <2>2
  <2>4. AtLeast(1, (cap.ncpus * cap.maxNcpusPct) \div 100) >= 1
    BY <2>3, AtLeastOf
  <2>5. Slots(cap) = AtLeast(1, (cap.ncpus * cap.maxNcpusPct) \div 100)
    BY <2>1 DEF Slots
  <2> QED BY ONLY <2>4, <2>5
<1> HIDE DEF n, d
<1>4. ASSUME Longest(ts) # 0
      PROVE  FALSE
  <2>1. WallClockRemaining(ts, cap) = <<100 * n, cap.cpuUsageLimit * d>>
        \/ WallClockRemaining(ts, cap) = <<n, d>>
    BY <1>2, <1>3, <1>4 DEF WallClockRemaining, n, d
  <2>2. 100 * n # -1 /\ n # -1
    BY <1>2
  <2> QED BY <2>1, <2>2 DEF Unknown
<1> QED BY <1>4

\* A group's time left is within the bounds, by the estimate or without one.
LEMMA TimeLeftBounded ==
    ASSUME NEW list, list \subseteq Task, IsFiniteSet(list), NEW first \in list,
           known' \subseteq DOMAIN Caps
    PROVE  /\ TimeLeft(list, first) \in Span
           /\ Bounded(list, TimeLeft(list, first), known')
<1> DEFINE c    == first.computer
           span == IF c \in known' THEN WallClockRemaining(list, Caps[c]) ELSE Unknown
           L    == Longest(list)
<1>1. TimeLeft(list, first) = IF span = Unknown THEN <<L, 1>> ELSE span
  BY DEF TimeLeft
<1>2. \A t \in list : t.timeLeft \in Nat
  BY DEF Task
<1>3. L \in Nat
  BY <1>2, LongestOfAll
<1>4. c \in DOMAIN Caps
  BY DEF Task
<1>5. Caps[c] \in Capacity
  BY <1>4, TasksAssumption DEF Capacity
<1>6. ASSUME NEW d \in known', \A t \in list : t.computer = d
      PROVE  d = c
  BY <1>6
<1>7. CASE span = Unknown
  <2>1. TimeLeft(list, first) = <<L, 1>>
    BY <1>1, <1>7
  <2>2. ASSUME c \in known', Caps[c].ncpus > 0
        PROVE  Fits(list, Caps[c], <<L, 1>>)
    <3>1. WallClockRemaining(list, Caps[c]) = Unknown
      BY <1>7, <2>2
    <3>2. L = 0
      BY <1>5, <2>2, <3>1, NoEstimate
    <3> QED BY <1>5, <3>2, NothingFits
  <2> HIDE DEF c, span, L
  <2>3. <<L, 1>> \in Span /\ Leq(<<L, 1>>, <<L, 1>>)
    BY <1>3 DEF Span, Leq
  <2> QED BY <1>6, <2>1, <2>2, <2>3 DEF Bounded, L
<1>8. CASE span # Unknown
  <2>1. span = WallClockRemaining(list, Caps[c])
    BY <1>8
  <2>2. /\ span \in Span /\ Leq(<<L, 1>>, span)
        /\ Caps[c].ncpus > 0 => Fits(list, Caps[c], span)
    BY <1>5, <1>8, <2>1, EstimateInBounds
  <2>3. TimeLeft(list, first) = span
    BY <1>1, <1>8
  <2> HIDE DEF span, c
  <2> QED BY <1>6, <2>2, <2>3 DEF Bounded
<1> QED BY <1>7, <1>8

\* Update's buckets, by the places of the tasks, and the groups it makes.
Buckets(poll) ==
    {{i \in DOMAIN poll.tasks :
        Key(combine', poll.tasks[i], i) = Key(combine', poll.tasks[j], j)} :
          j \in DOMAIN poll.tasks}

\* The groups of a poll, in no order yet.
Gathered(poll) == {Group(poll, at) : at \in Buckets(poll)}

\* A key has three numbers.
LEMMA KeyType ==
    ASSUME NEW flags, NEW t \in Task, NEW i \in Nat
    PROVE  Key(flags, t, i) \in Nat \X Nat \X Nat
<1>1. t.computer \in Nat /\ t.status \in Nat
  BY TasksAssumption DEF Task
<1> QED BY <1>1 DEF Key

\* The group Update makes of a bucket.
LEMMA PollGroups ==
    ASSUME NEW poll \in Polls, groups \in Seq(GroupNode), NEW at \in Buckets(poll),
           known' \subseteq DOMAIN Caps
    PROVE  /\ Min(at) \in at /\ at \subseteq DOMAIN poll.tasks
           /\ at = {i \in DOMAIN poll.tasks :
                      Key(combine', poll.tasks[i], i) = Group(poll, at).key}
           /\ Group(poll, at) \in Unsorted
           /\ Group(poll, at).tasks = {poll.tasks[i] : i \in at}
           /\ IsFiniteSet(Group(poll, at).tasks)
           /\ Bounded(Group(poll, at).tasks, Group(poll, at).timeLeft, known')
           /\ Group(poll, at).expanded
                <=> \E i \in DOMAIN groups : /\ groups[i].key = Group(poll, at).key
                                             /\ groups[i].expanded
<1> DEFINE first == poll.tasks[Min(at)]
           list  == {poll.tasks[i] : i \in at}
           k     == Key(combine', first, Min(at))
           old   == {g \in ToSet(groups) : g.key = k}
           label == IF old = {} THEN Label(list, first) ELSE (CHOOSE g \in old : TRUE).label
           span  == TimeLeft(list, first)
<1>1. Group(poll, at) = [key |-> k, expanded |-> Expanded(old), tasks |-> list,
                         label |-> label, timeLeft |-> span]
  BY DEF Group
<1>2. /\ poll.tasks \in Seq(Task)
      /\ DOMAIN poll.tasks = 1..Len(poll.tasks) /\ Len(poll.tasks) \in Nat
      /\ \A i \in DOMAIN poll.tasks : poll.tasks[i] \in Task /\ i \in Nat
  <2>1. poll.tasks \in Seq(Task)
    BY TasksAssumption
  <2> QED BY <2>1, LenProperties
<1>3. PICK j \in DOMAIN poll.tasks :
         at = {i \in DOMAIN poll.tasks :
                 Key(combine', poll.tasks[i], i) = Key(combine', poll.tasks[j], j)}
  BY DEF Buckets
<1>4. at \subseteq DOMAIN poll.tasks /\ j \in at
  BY <1>3
<1>5. IsFiniteSet(at)
  <2>1. IsFiniteSet(DOMAIN poll.tasks)
    BY <1>2, FS_Interval
  <2> QED BY <1>4, <2>1, FS_Subset
<1>6. at \subseteq Nat /\ at # {}
  BY <1>2, <1>4
<1>7. Min(at) \in at
  BY <1>5, <1>6, Extremes
<1>8. /\ first \in list /\ first \in Task /\ list \subseteq Task
      /\ k = Key(combine', poll.tasks[j], j) /\ Min(at) \in Nat
  BY <1>2, <1>3, <1>4, <1>7
<1>9. IsFiniteSet(list)
  <2> DEFINE task == [i \in at |-> poll.tasks[i]]
  <2>1. task \in Surjection(at, list)
    BY DEF Surjection
  <2> HIDE DEF task, list
  <2> QED BY <1>5, <2>1, FS_Surjection
<1>10. k \in Nat \X Nat \X Nat
  BY <1>8, KeyType
<1>11. span \in Span /\ Bounded(list, span, known')
  <2> HIDE DEF list, first
  <2> QED BY <1>8, <1>9, TimeLeftBounded
<1>12. old \subseteq GroupNode
  BY DEF ToSet
<1>13. label \in {Mixed} \cup DOMAIN Caps
  <2>1. CASE old = {}
    <3>1. Label(list, first) \in {Mixed, first.computer}
      BY DEF Label
    <3>2. first.computer \in DOMAIN Caps
      BY <1>8 DEF Task
    <3> QED BY <2>1, <3>1, <3>2
  <2>2. CASE old # {}
    <3>1. (CHOOSE g \in old : TRUE) \in old
      BY <2>2
    <3>2. (CHOOSE g \in old : TRUE) \in GroupNode
      BY <1>12, <3>1
    <3> QED BY <2>2, <3>2 DEF GroupNode
  <2> QED BY <2>1, <2>2
<1>14. Expanded(old) \in BOOLEAN
       /\ (Expanded(old) <=> \E i \in DOMAIN groups : groups[i].key = k /\ groups[i].expanded)
  BY DEF Expanded, ToSet
<1> HIDE DEF first, list, k, old, label, span
<1>15. Group(poll, at) \in Unsorted
  BY <1>1, <1>8, <1>10, <1>11, <1>13, <1>14 DEF Unsorted
<1>16. Group(poll, at).tasks = {poll.tasks[i] : i \in at}
  BY <1>1 DEF list
<1>17. at = {i \in DOMAIN poll.tasks : Key(combine', poll.tasks[i], i) = Group(poll, at).key}
  BY <1>1, <1>3, <1>8
<1> QED BY <1>1, <1>4, <1>7, <1>9, <1>11, <1>14, <1>15, <1>16, <1>17

\* A poll's groups share no key and no task, and have the poll's tasks.
LEMMA GatheredApart ==
    ASSUME NEW poll \in Polls, groups \in Seq(GroupNode), known' \subseteq DOMAIN Caps
    PROVE  /\ Apart(Gathered(poll), known', combine')
           /\ \A g \in Gathered(poll) : g.tasks \subseteq ToSet(poll.tasks)
<1> DEFINE G == Gathered(poll)
<1>1. /\ poll.tasks \in Seq(Task)
      /\ DOMAIN poll.tasks = 1..Len(poll.tasks) /\ Len(poll.tasks) \in Nat
      /\ \A i, j \in DOMAIN poll.tasks : SameTask(poll.tasks[i], poll.tasks[j]) => i = j
  <2>1. /\ poll.tasks \in Seq(Task)
        /\ \A i, j \in DOMAIN poll.tasks : SameTask(poll.tasks[i], poll.tasks[j]) => i = j
    BY TasksAssumption DEF SameTask
  <2> QED BY <2>1, LenProperties
<1>2. \A g \in G : \E at \in Buckets(poll) : g = Group(poll, at)
  BY DEF Gathered
<1>3. G \subseteq Unsorted
  BY <1>2, PollGroups
<1>4. IsFiniteSet(G)
  <2> DEFINE bucket(j) == {i \in DOMAIN poll.tasks :
                 Key(combine', poll.tasks[i], i) = Key(combine', poll.tasks[j], j)}
             f == [j \in DOMAIN poll.tasks |-> Group(poll, bucket(j))]
  <2>1. Buckets(poll) = {bucket(j) : j \in DOMAIN poll.tasks}
    BY DEF Buckets
  <2> HIDE DEF bucket
  <2>2. f \in Surjection(DOMAIN poll.tasks, G)
    BY <2>1 DEF Surjection, Gathered
  <2>3. IsFiniteSet(DOMAIN poll.tasks)
    BY <1>1, FS_Interval
  <2> HIDE DEF f, G
  <2> QED BY <2>2, <2>3, FS_Surjection
<1>5. ASSUME NEW g \in G
      PROVE  g.tasks # {} /\ IsFiniteSet(g.tasks) /\ Bounded(g.tasks, g.timeLeft, known')
  <2>1. PICK at \in Buckets(poll) : g = Group(poll, at)
    BY <1>2
  <2>2. at # {} /\ g.tasks = {poll.tasks[i] : i \in at}
    BY <2>1, PollGroups
  <2>3. g.tasks # {}
    BY <2>2
  <2> QED BY <2>1, <2>3, PollGroups
<1>6. ASSUME NEW g \in G, NEW h \in G, g.key = h.key
      PROVE  g = h
  <2>1. PICK at \in Buckets(poll) : g = Group(poll, at)
    BY <1>2
  <2>2. PICK bt \in Buckets(poll) : h = Group(poll, bt)
    BY <1>2
  <2>3. /\ at = {i \in DOMAIN poll.tasks : Key(combine', poll.tasks[i], i) = g.key}
        /\ bt = {i \in DOMAIN poll.tasks : Key(combine', poll.tasks[i], i) = h.key}
    BY <2>1, <2>2, PollGroups
  <2> QED BY <1>6, <2>1, <2>2, <2>3
<1>7. ASSUME NEW g \in G, NEW t \in g.tasks
      PROVE  \E i \in DOMAIN poll.tasks : /\ t = poll.tasks[i]
                                          /\ Key(combine', poll.tasks[i], i) = g.key
  <2>1. PICK at \in Buckets(poll) : g = Group(poll, at)
    BY <1>2
  <2>2. /\ at = {i \in DOMAIN poll.tasks : Key(combine', poll.tasks[i], i) = g.key}
        /\ g.tasks = {poll.tasks[i] : i \in at}
    BY <2>1, PollGroups
  <2> QED BY <2>2
<1>8. ASSUME NEW g \in G, NEW h \in G, NEW s \in g.tasks, NEW t \in h.tasks,
             SameTask(s, t)
      PROVE  g = h /\ s = t
  <2>1. PICK i \in DOMAIN poll.tasks : s = poll.tasks[i]
                                       /\ Key(combine', poll.tasks[i], i) = g.key
    BY <1>7
  <2>2. PICK j \in DOMAIN poll.tasks : t = poll.tasks[j]
                                       /\ Key(combine', poll.tasks[j], j) = h.key
    BY <1>7
  <2>3. i = j
    BY <1>1, <1>8, <2>1, <2>2
  <2>4. s = t /\ g.key = h.key
    BY <2>1, <2>2, <2>3
  <2> QED BY <1>6, <2>4
<1>9. ASSUME combine' # {}, NEW g \in G, NEW t \in g.tasks
      PROVE  Key(combine', t, 0) = g.key
  <2>1. \A i \in Nat : Key(combine', t, 0) = Key(combine', t, i)
    BY <1>9 DEF Key
  <2>2. PICK i \in DOMAIN poll.tasks : t = poll.tasks[i]
                                       /\ Key(combine', poll.tasks[i], i) = g.key
    BY <1>7
  <2>3. i \in Nat
    BY <1>1
  <2> QED BY <2>1, <2>2, <2>3
<1>10. \A g \in G : g.tasks \subseteq ToSet(poll.tasks)
  BY <1>7 DEF ToSet
<1> HIDE DEF G
<1>11. Apart(G, known', combine')
  BY <1>3, <1>4, <1>5, <1>6, <1>8, <1>9 DEF Apart
<1> QED BY <1>10, <1>11 DEF G

\* A group of the poll is expanded if a group of its key was.
LEMMA GatheredExpanded ==
    ASSUME NEW poll \in Polls, groups \in Seq(GroupNode), NEW g \in Gathered(poll),
           known' \subseteq DOMAIN Caps
    PROVE  g.expanded <=> \E i \in DOMAIN groups : groups[i].key = g.key /\ groups[i].expanded
<1>1. PICK at \in Buckets(poll) : g = Group(poll, at)
  BY DEF Gathered
<1> QED BY <1>1, PollGroups

\* The groups as they are, for another order.
Resorted == {[g EXCEPT !.tasks = ToSet(@)] : g \in ToSet(groups)}

\* Nor do the groups of the list, when their tasks are taken out of order.
LEMMA ResortedApart ==
    ASSUME NEW kn, NEW flags, NEW col, Listed(groups, kn, flags, col)
    PROVE  /\ Apart(Resorted, kn, flags)
           /\ \A h \in Resorted : \E i \in DOMAIN groups :
                 h.key = groups[i].key /\ h.expanded = groups[i].expanded
                 /\ h.tasks = ToSet(groups[i].tasks)
           /\ \A i \in DOMAIN groups : \E h \in Resorted :
                 h.key = groups[i].key /\ h.expanded = groups[i].expanded
                 /\ h.tasks = ToSet(groups[i].tasks)
<1> DEFINE loose(i) == [groups[i] EXCEPT !.tasks = ToSet(groups[i].tasks)]
<1>1. /\ groups \in Seq(GroupNode) /\ DOMAIN groups = 1..Len(groups)
      /\ Len(groups) \in Nat /\ \A i \in DOMAIN groups : groups[i] \in GroupNode
  <2>1. groups \in Seq(GroupNode)
    BY DEF Listed
  <2> QED BY <2>1, LenProperties
<1>2. Resorted = {loose(i) : i \in DOMAIN groups}
  BY DEF Resorted, ToSet
<1>3. ASSUME NEW i \in DOMAIN groups
      PROVE  /\ groups[i].tasks \in Seq(Task)
             /\ DOMAIN groups[i].tasks = 1..Len(groups[i].tasks)
             /\ ToSet(groups[i].tasks) \subseteq Task /\ IsFiniteSet(ToSet(groups[i].tasks))
             /\ ToSet(groups[i].tasks) # {}
  <2> DEFINE q == groups[i].tasks
  <2>1. q \in Seq(Task) /\ q # <<>>
    BY <1>1 DEF GroupNode, Listed
  <2> HIDE DEF q
  <2>2. DOMAIN q = 1..Len(q) /\ Len(q) \in Nat /\ q \in [1..Len(q) -> Task]
    BY <2>1, LenProperties
  <2>3. q \in Surjection(1..Len(q), ToSet(q))
    BY <2>2 DEF Surjection, ToSet
  <2>4. IsFiniteSet(1..Len(q))
    BY <2>2, FS_Interval
  <2>5. IsFiniteSet(ToSet(q))
    BY <2>3, <2>4, FS_Surjection
  <2>6. ToSet(q) \subseteq Task /\ (Len(q) # 0 => ToSet(q) # {})
    BY <2>2 DEF ToSet
  <2>7. Len(q) # 0
    BY <2>1, EmptySeq
  <2> QED BY <2>1, <2>2, <2>5, <2>6, <2>7 DEF q
<1>4. ASSUME NEW i \in DOMAIN groups
      PROVE  /\ loose(i) \in Unsorted /\ loose(i).key = groups[i].key
             /\ loose(i).expanded = groups[i].expanded
             /\ loose(i).timeLeft = groups[i].timeLeft
             /\ loose(i).tasks = ToSet(groups[i].tasks)
  <2> DEFINE T == ToSet(groups[i].tasks)
  <2>1. groups[i] \in GroupNode /\ T \in SUBSET Task
    BY <1>1, <1>3
  <2> HIDE DEF T
  <2>2. loose(i) = [groups[i] EXCEPT !.tasks = T]
    BY DEF T
  <2>3. /\ loose(i) \in Unsorted /\ loose(i).key = groups[i].key
        /\ loose(i).expanded = groups[i].expanded
        /\ loose(i).timeLeft = groups[i].timeLeft /\ loose(i).tasks = T
    BY <2>1, <2>2 DEF GroupNode, Unsorted
  <2> QED BY <2>3 DEF T
<1> HIDE DEF loose
<1>5. \A h \in Resorted : \E i \in DOMAIN groups : h = loose(i)
  BY <1>2
<1>6. IsFiniteSet(Resorted)
  <2> DEFINE f == [i \in DOMAIN groups |-> loose(i)]
  <2>1. f \in Surjection(DOMAIN groups, Resorted)
    BY <1>2 DEF Surjection
  <2>2. IsFiniteSet(DOMAIN groups)
    BY <1>1, FS_Interval
  <2> HIDE DEF f
  <2> QED BY <2>1, <2>2, FS_Surjection
<1>7. Resorted \subseteq Unsorted
  BY <1>4, <1>5
<1>8. ASSUME NEW h \in Resorted
      PROVE  h.tasks # {} /\ IsFiniteSet(h.tasks) /\ Bounded(h.tasks, h.timeLeft, kn)
  <2>1. PICK i \in DOMAIN groups : h = loose(i)
    BY <1>5
  <2> QED BY <1>3, <1>4, <2>1 DEF Listed
<1>9. ASSUME NEW g \in Resorted, NEW h \in Resorted, g.key = h.key
      PROVE  g = h
  <2>1. PICK i \in DOMAIN groups : g = loose(i)
    BY <1>5
  <2>2. PICK j \in DOMAIN groups : h = loose(j)
    BY <1>5
  <2>3. i = j
    BY <1>4, <1>9, <2>1, <2>2 DEF Listed
  <2> QED BY <2>1, <2>2, <2>3
<1>10. ASSUME NEW g \in Resorted, NEW h \in Resorted, NEW s \in g.tasks, NEW t \in h.tasks,
              SameTask(s, t)
       PROVE  g = h /\ s = t
  <2>1. PICK i \in DOMAIN groups : g = loose(i)
    BY <1>5
  <2>2. PICK j \in DOMAIN groups : h = loose(j)
    BY <1>5
  <2>3. PICK a \in DOMAIN groups[i].tasks : s = groups[i].tasks[a]
    BY <1>4, <2>1 DEF ToSet
  <2>4. PICK b \in DOMAIN groups[j].tasks : t = groups[j].tasks[b]
    BY <1>4, <2>2 DEF ToSet
  <2>5. i = j /\ a = b
    BY <1>10, <2>3, <2>4 DEF Listed
  <2> QED BY <2>1, <2>2, <2>3, <2>4, <2>5
<1>11. ASSUME flags # {}, NEW g \in Resorted, NEW t \in g.tasks
       PROVE  Key(flags, t, 0) = g.key
  <2>1. PICK i \in DOMAIN groups : g = loose(i)
    BY <1>5
  <2>2. PICK a \in DOMAIN groups[i].tasks : t = groups[i].tasks[a]
    BY <1>4, <2>1 DEF ToSet
  <2>3. Key(flags, groups[i].tasks[a], 0) = groups[i].key
    BY <1>11 DEF Listed
  <2> QED BY <1>4, <2>1, <2>2, <2>3
<1>12. Apart(Resorted, kn, flags)
  BY <1>6, <1>7, <1>8, <1>9, <1>10, <1>11 DEF Apart
<1>13. \A i \in DOMAIN groups : loose(i) \in Resorted
  BY <1>2
<1> QED BY <1>4, <1>5, <1>12, <1>13

----------------------------------------------------------------------------
(* The invariant.                                                          *)

\* The groups are those of an order of the tasks, and an open menu has the tasks
\* that were chosen.
TasksInv ==
    /\ TypeOK
    /\ Listed(groups, known, combine, sortCol)
    /\ menu.open => menu.tasks = chosen

\* The groups of a poll, in order.
LEMMA UpdateLists ==
    ASSUME NEW poll \in Polls, groups \in Seq(GroupNode), Update(poll),
           sortCol' \in Cols, sortAsc' \in BOOLEAN
    PROVE  /\ Listed(groups', known', combine', sortCol') /\ known' \subseteq DOMAIN Caps
           /\ \A j \in DOMAIN groups' : groups'[j].expanded
                <=> \E i \in DOMAIN groups : groups[i].key = groups'[j].key
                                             /\ groups[i].expanded
<1>1. PICK tie \in Ties(ToSet(poll.tasks)) : groups' = ApplySort(Gathered(poll), tie)
  BY DEF Update, Gathered, Buckets
<1>2. known' \subseteq DOMAIN Caps
  BY TasksAssumption DEF Update
<1>3. /\ Apart(Gathered(poll), known', combine')
      /\ \A g \in Gathered(poll) : g.tasks \subseteq ToSet(poll.tasks)
  BY <1>2, GatheredApart
<1>4. \A g \in Gathered(poll) : Tied(tie, g.tasks)
  BY <1>3, TiesTell
<1>5. /\ Listed(groups', known', combine', sortCol')
      /\ \A j \in DOMAIN groups' : \E g \in Gathered(poll) :
            groups'[j].key = g.key /\ groups'[j].expanded = g.expanded
  BY <1>1, <1>3, <1>4, ApplySortLists
<1>6. ASSUME NEW j \in DOMAIN groups'
      PROVE  groups'[j].expanded
                <=> \E i \in DOMAIN groups : groups[i].key = groups'[j].key
                                             /\ groups[i].expanded
  <2>1. PICK g \in Gathered(poll) :
           groups'[j].key = g.key /\ groups'[j].expanded = g.expanded
    BY <1>5
  <2> QED BY <1>2, <2>1, GatheredExpanded
<1> QED BY <1>2, <1>5, <1>6

\* Sorting lists the same groups, each expanded as it was.
LEMMA SortLists ==
    ASSUME NEW col \in Cols, Listed(groups, known, combine, sortCol), SortBy(col),
           sortAsc \in BOOLEAN
    PROVE  /\ Listed(groups', known', combine', sortCol')
           /\ \A j \in DOMAIN groups' : \E i \in DOMAIN groups :
                 /\ groups'[j].key = groups[i].key
                 /\ groups'[j].expanded = groups[i].expanded
<1>1. PICK tie \in Ties(Shown(groups)) : groups' = ApplySort(Resorted, tie)
  BY DEF SortBy, Resorted
<1>2. /\ sortCol' = col /\ sortAsc' \in BOOLEAN
      /\ combine' = combine /\ known' = known
  BY DEF SortBy
<1>3. /\ Apart(Resorted, known, combine)
      /\ \A h \in Resorted : \E i \in DOMAIN groups :
            h.key = groups[i].key /\ h.expanded = groups[i].expanded
            /\ h.tasks = ToSet(groups[i].tasks)
  BY ResortedApart
<1>4. \A h \in Resorted : h.tasks \in SUBSET Shown(groups)
  BY <1>3 DEF Shown
<1>5. \A h \in Resorted : Tied(tie, h.tasks)
  BY <1>4, TiesTell
<1>6. /\ Listed(groups', known, combine, sortCol')
      /\ \A j \in DOMAIN groups' : \E h \in Resorted :
            groups'[j].key = h.key /\ groups'[j].expanded = h.expanded
  BY <1>1, <1>2, <1>3, <1>5, ApplySortLists
<1>7. ASSUME NEW j \in DOMAIN groups'
      PROVE  \E i \in DOMAIN groups : /\ groups'[j].key = groups[i].key
                                       /\ groups'[j].expanded = groups[i].expanded
  <2>1. PICK h \in Resorted : groups'[j].key = h.key /\ groups'[j].expanded = h.expanded
    BY <1>6
  <2> QED BY <1>3, <2>1
<1> QED BY <1>2, <1>6, <1>7

\* Expanding a group lists the same groups, each but that one as it was.
LEMMA ToggleLists ==
    ASSUME NEW r \in DOMAIN Rows, Listed(groups, known, combine, sortCol), ToggleRow(r)
    PROVE  /\ Listed(groups', known', combine', sortCol')
           /\ DOMAIN groups' = DOMAIN groups
           /\ \A i \in DOMAIN groups :
                 /\ groups'[i].key = groups[i].key
                 /\ i # Rows[r][1] => groups'[i].expanded = groups[i].expanded
<1> DEFINE k == Rows[r][1]
<1>1. /\ groups' = [groups EXCEPT ![k].expanded = ~@]
      /\ combine' = combine /\ sortCol' = sortCol /\ known' = known
  BY DEF ToggleRow
<1>2. groups \in Seq(GroupNode) /\ DOMAIN groups = 1..Len(groups) /\ Len(groups) \in Nat
      /\ \A i \in DOMAIN groups : groups[i] \in GroupNode
  <2>1. groups \in Seq(GroupNode)
    BY DEF Listed
  <2> QED BY <2>1, LenProperties
<1> HIDE DEF k
<1>3. /\ DOMAIN groups' = DOMAIN groups
      /\ \A i \in DOMAIN groups :
            /\ groups'[i] \in GroupNode
            /\ groups'[i].key = groups[i].key /\ groups'[i].tasks = groups[i].tasks
            /\ groups'[i].timeLeft = groups[i].timeLeft
            /\ i # k => groups'[i].expanded = groups[i].expanded
  <2>1. DOMAIN groups' = DOMAIN groups
    BY <1>1, <1>2
  <2>2. ASSUME NEW i \in DOMAIN groups
        PROVE  /\ groups'[i] \in GroupNode
               /\ groups'[i].key = groups[i].key /\ groups'[i].tasks = groups[i].tasks
               /\ groups'[i].timeLeft = groups[i].timeLeft
               /\ i # k => groups'[i].expanded = groups[i].expanded
    <3>1. groups[i] \in GroupNode
      BY <1>2
    <3>2. groups'[i] = IF i = k THEN [groups[i] EXCEPT !.expanded = ~@] ELSE groups[i]
      BY <1>1, <1>2
    <3> QED BY <3>1, <3>2 DEF GroupNode
  <2> QED BY <2>1, <2>2
<1>4. groups' \in Seq(GroupNode)
  <2>1. groups' = [i \in 1..Len(groups) |-> groups'[i]]
    BY <1>1, <1>2
  <2>2. groups' \in [1..Len(groups) -> GroupNode]
    BY <1>2, <1>3, <2>1
  <2> QED BY <1>2, <2>2
<1>5. Listed(groups', known', combine', sortCol')
  BY <1>1, <1>3, <1>4 DEF Listed
<1> QED BY <1>3, <1>5 DEF k

\* The selection is of rows there are.
LEMMA SelectionInRange ==
    ASSUME NEW kn, NEW flags, NEW col, Listed(groups, kn, flags, col),
           NEW newKn, NEW newFlags, NEW newCol, Listed(groups', newKn, newFlags, newCol),
           sel \subseteq DOMAIN Rows, Reflatten
    PROVE  sel' \subseteq DOMAIN Rows'
<1>1. groups \in Seq(GroupNode) /\ groups' \in Seq(GroupNode)
  BY DEF Listed
<1>2. DOMAIN Rows = 1..Len(Rows)
  BY <1>1, FlatRows DEF Rows
<1>3. DOMAIN Flat(groups') = 1..Len(Flat(groups'))
  BY <1>1, FlatRows
<1>4. Rows' = Flat(groups')
  BY DEF Rows
<1>5. sel' = IF Len(Flat(groups')) = Len(Rows) THEN sel ELSE {}
  BY DEF Reflatten, SelectionAfter
<1> QED BY <1>2, <1>3, <1>4, <1>5

\* The menu opens with tasks of the list, those under the selected rows.
LEMMA MenuOpens ==
    ASSUME NEW kn, NEW flags, NEW col, Listed(groups, kn, flags, col),
           sel \subseteq DOMAIN Rows, OnContextMenu
    PROVE  menu'.open = TRUE /\ menu'.tasks \subseteq Task /\ menu'.tasks = chosen'
<1> DEFINE list(r) == groups[Rows[r][1]].tasks
           place(r) == Rows[r][2]
           under(r) == IF place(r) > 0 THEN {list(r)[place(r)]} ELSE ToSet(list(r))
<1>1. groups \in Seq(GroupNode) /\ \A i \in DOMAIN groups : groups[i] \in GroupNode
  <2>1. groups \in Seq(GroupNode)
    BY DEF Listed
  <2> QED BY <2>1, LenProperties
<1>2. ASSUME NEW r \in sel
      PROVE  /\ Rows[r][1] \in DOMAIN groups
             /\ place(r) \in Nat /\ (place(r) > 0 => place(r) \in DOMAIN list(r))
             /\ ToSet(list(r)) \subseteq Task
  <2>1. /\ Rows[r][1] \in DOMAIN groups
        /\ place(r) \in 0..Len(list(r))
    BY <1>1, FlatRows DEF Rows
  <2>2. list(r) \in Seq(Task)
    BY <1>1, <2>1 DEF GroupNode
  <2> HIDE DEF list, place
  <2>3. /\ DOMAIN list(r) = 1..Len(list(r)) /\ Len(list(r)) \in Nat
        /\ list(r) \in [1..Len(list(r)) -> Task]
    BY <2>2, LenProperties
  <2>4. ToSet(list(r)) \subseteq Task
    BY <2>3 DEF ToSet
  <2> QED BY <2>1, <2>3, <2>4 DEF list
<1>3. TasksForRows(sel) = UNION {under(r) : r \in sel}
  BY DEF TasksForRows
<1>4. menu' = [open |-> TRUE, tasks |-> TasksForRows(sel)]
  BY DEF OnContextMenu
<1>5. chosen' = {t \in Shown(groups) :
                   \E r \in sel : t \in {list(r)[j] : j \in IF place(r) = 0 THEN DOMAIN list(r)
                                                          ELSE {place(r)}}}
  BY DEF OnContextMenu
<1>6. ASSUME NEW r \in sel
      PROVE  /\ under(r) = {list(r)[j] : j \in IF place(r) = 0 THEN DOMAIN list(r)
                                                ELSE {place(r)}}
             /\ under(r) \subseteq Task
             /\ under(r) \subseteq Shown(groups)
  <2>1. /\ place(r) \in Nat /\ (place(r) > 0 => place(r) \in DOMAIN list(r))
        /\ ToSet(list(r)) \subseteq Task
    BY <1>2
  <2>2. ToSet(list(r)) \subseteq Shown(groups)
    BY <1>2 DEF Shown
  <2> HIDE DEF list, place
  <2>3. under(r) \subseteq ToSet(list(r))
    BY <2>1 DEF ToSet
  <2>4. under(r) = {list(r)[j] : j \in IF place(r) = 0 THEN DOMAIN list(r) ELSE {place(r)}}
    <3>1. CASE place(r) = 0
      BY <3>1 DEF ToSet
    <3>2. CASE place(r) > 0
      BY <3>2
    <3> QED BY <2>1, <3>1, <3>2
  <2> QED BY <2>1, <2>2, <2>3, <2>4
<1> HIDE DEF under
<1>7. chosen' = UNION {under(r) : r \in sel}
  <2>1. ASSUME NEW t
        PROVE  t \in chosen' <=> \E r \in sel : t \in under(r)
    BY <1>5, <1>6
  <2> QED BY ONLY <2>1
<1>8. UNION {under(r) : r \in sel} \subseteq Task
  BY <1>6
<1> QED BY <1>3, <1>4, <1>7, <1>8

\* The rest of the invariant follows from the list of the groups.
LEMMA ListedTypes ==
    ASSUME NEW gs, NEW kn, NEW flags, NEW col, Listed(gs, kn, flags, col)
    PROVE  /\ gs \in Seq([key : Nat \X Nat \X Nat, expanded : BOOLEAN,
                          tasks : Seq(Task), label : {Mixed} \cup DOMAIN Caps,
                          timeLeft : Nat \X Nat])
           /\ \A i \in DOMAIN gs : gs[i].tasks # <<>>
<1>1. Span \subseteq Nat \X Nat
  BY DEF Span
<1>2. GroupNode \subseteq [key : Nat \X Nat \X Nat, expanded : BOOLEAN,
                           tasks : Seq(Task), label : {Mixed} \cup DOMAIN Caps,
                           timeLeft : Nat \X Nat]
  BY <1>1 DEF GroupNode
<1>3. gs \in Seq(GroupNode)
  BY DEF Listed
<1>4. gs \in Seq([key : Nat \X Nat \X Nat, expanded : BOOLEAN,
                  tasks : Seq(Task), label : {Mixed} \cup DOMAIN Caps,
                  timeLeft : Nat \X Nat])
  BY <1>2, <1>3, SeqMonotonic
<1> QED BY <1>4 DEF Listed

\* With new groups in place.
LEMMA NewList ==
    ASSUME TasksInv, Listed(groups', known', combine', sortCol'), Reflatten,
           known' \subseteq DOMAIN Caps,
           sortCol' \in Cols, sortAsc' \in BOOLEAN, combine' \subseteq Flags,
           menu' = menu, chosen' = chosen, sent' = {}
    PROVE  TasksInv'
<1>1. sel' \subseteq DOMAIN Rows'
  BY SelectionInRange DEF TasksInv, TypeOK
<1>2. TypeOK'
  <2>1. menu.open \in BOOLEAN /\ menu.tasks \subseteq Task
    BY DEF TasksInv, TypeOK
  <2> QED BY <1>1, <2>1, ListedTypes DEF TypeOK, Cols
<1>3. Listed(groups, known, combine, sortCol)'
  OBVIOUS
<1> QED BY <1>2, <1>3 DEF TasksInv

\* With the groups and their rows as they are.
LEMMA SameList ==
    ASSUME TasksInv, UNCHANGED <<groups, known, sortCol, sortAsc, combine>>,
           sel' \subseteq DOMAIN Rows, sent' \subseteq Task,
           menu'.open \in BOOLEAN, menu'.tasks \subseteq Task,
           menu'.open => menu'.tasks = chosen'
    PROVE  TasksInv'
<1>1. Rows' = Rows
  BY DEF Rows
<1>2. TypeOK'
  BY <1>1 DEF TasksInv, TypeOK
<1>3. Listed(groups', known', combine', sortCol')
  BY DEF TasksInv
<1>4. Listed(groups, known, combine, sortCol)'
  BY <1>3
<1> QED BY <1>2, <1>4 DEF TasksInv

\* The empty list is in order.
LEMMA NothingListed ==
    ASSUME NEW kn, NEW flags, NEW col
    PROVE  Listed(<<>>, kn, flags, col)
<1>1. << >> \in Seq(GroupNode) /\ DOMAIN << >> = {}
  BY EmptySeq
<1> QED BY <1>1 DEF Listed

\* The invariant holds at the start, with no group.
LEMMA StartsListed == Init => TasksInv
<1> SUFFICES ASSUME Init PROVE TasksInv
  OBVIOUS
<1>1. groups = <<>> /\ Listed(groups, known, combine, sortCol)
  BY NothingListed DEF Init
<1>2. TypeOK
  <2>1. sel \subseteq DOMAIN Rows
    BY DEF Init
  <2> QED BY <1>1, <2>1, ListedTypes DEF TypeOK, Init, Shut
<1> QED BY <1>1, <1>2 DEF TasksInv, Init, Shut

\* Each step keeps it.
LEMMA StaysListed == TasksInv /\ [Next]_vars => TasksInv'
<1> SUFFICES ASSUME TasksInv, [Next]_vars PROVE TasksInv'
  OBVIOUS
<1>1. /\ Listed(groups, known, combine, sortCol) /\ groups \in Seq(GroupNode)
      /\ known \subseteq DOMAIN Caps /\ sortCol \in Cols /\ sortAsc \in BOOLEAN /\ combine \subseteq Flags
      /\ sel \subseteq DOMAIN Rows
      /\ menu.open \in BOOLEAN /\ menu.tasks \subseteq Task /\ sent \subseteq Task
      /\ menu.open => menu.tasks = chosen
  BY DEF TasksInv, TypeOK, Listed, Cols
<1>2. ASSUME NEW poll \in Polls, Rebuild(poll)
      PROVE  TasksInv'
  <2>1. /\ Update(poll) /\ combine' = combine /\ sent' = {}
        /\ UNCHANGED <<sortCol, sortAsc, menu, chosen>>
    BY <1>2 DEF Rebuild
  <2>2. /\ Listed(groups', known', combine', sortCol') /\ Reflatten
        /\ known' \subseteq DOMAIN Caps
    BY <1>1, <2>1, UpdateLists DEF Update
  <2> QED BY <1>1, <2>1, <2>2, NewList
<1>3. ASSUME NEW flags \in SUBSET Flags, NEW poll \in Polls, Filter(flags, poll)
      PROVE  TasksInv'
  <2>1. /\ Update(poll) /\ combine' = flags /\ sent' = {}
        /\ UNCHANGED <<sortCol, sortAsc, menu, chosen>>
    BY <1>3 DEF Filter
  <2>2. /\ Listed(groups', known', combine', sortCol') /\ Reflatten
        /\ known' \subseteq DOMAIN Caps
    BY <1>1, <2>1, UpdateLists DEF Update
  <2> QED BY <1>1, <2>1, <2>2, NewList
<1>4. ASSUME NEW col \in Cols, SortBy(col)
      PROVE  TasksInv'
  <2>1. /\ sortCol' = col /\ sortAsc' \in BOOLEAN /\ Reflatten /\ sent' = {}
        /\ UNCHANGED <<known, combine, menu, chosen>>
    BY <1>1, <1>4 DEF SortBy
  <2>2. Listed(groups', known', combine', sortCol')
    BY <1>1, <1>4, SortLists
  <2> QED BY <1>1, <2>1, <2>2, NewList
<1>5. ASSUME NEW r \in DOMAIN Rows, ToggleRow(r)
      PROVE  TasksInv'
  <2>1. /\ Reflatten /\ sent' = {}
        /\ UNCHANGED <<known, sortCol, sortAsc, combine, menu, chosen>>
    BY <1>5 DEF ToggleRow
  <2>2. Listed(groups', known', combine', sortCol')
    BY <1>1, <1>5, ToggleLists
  <2> QED BY <1>1, <2>1, <2>2, NewList
<1>6. ASSUME NEW r \in DOMAIN Rows, NEW q \in DOMAIN Rows, Select({r, q})
      PROVE  TasksInv'
  <2>1. /\ UNCHANGED <<groups, known, sortCol, sortAsc, combine, menu, chosen>>
        /\ sel' = {r, q} /\ sent' = {}
    BY <1>6 DEF Select
  <2> QED BY <1>1, <2>1, SameList
<1>7. CASE OnContextMenu
  <2>1. UNCHANGED <<groups, known, sortCol, sortAsc, combine, sel>> /\ sent' = {}
    BY <1>7 DEF OnContextMenu
  <2>2. menu'.open = TRUE /\ menu'.tasks \subseteq Task /\ menu'.tasks = chosen'
    BY <1>1, <1>7, MenuOpens
  <2> QED BY <1>1, <2>1, <2>2, SameList
<1>8. CASE MenuOp
  <2>1. /\ UNCHANGED <<groups, known, sortCol, sortAsc, combine, sel>> /\ menu' = Shut
        /\ sent' \subseteq menu.tasks
    BY <1>8 DEF MenuOp, Operands
  <2>2. ~menu'.open /\ menu'.open \in BOOLEAN /\ menu'.tasks = {}
    BY <2>1 DEF Shut
  <2> QED BY <1>1, <2>1, <2>2, SameList
<1>9. CASE Dismiss
  <2>1. /\ UNCHANGED <<groups, known, sortCol, sortAsc, combine, sel>> /\ menu' = Shut
        /\ sent' = {}
    BY <1>9 DEF Dismiss
  <2>2. ~menu'.open /\ menu'.open \in BOOLEAN /\ menu'.tasks = {}
    BY <2>1 DEF Shut
  <2> QED BY <1>1, <2>1, <2>2, SameList
<1>10. CASE UNCHANGED vars
  <2>1. UNCHANGED <<groups, known, sortCol, sortAsc, combine, sel, menu, sent, chosen>>
    BY <1>10 DEF vars
  <2> QED BY <1>1, <2>1, SameList
<1>11. {"computer", "timeLeft"} \subseteq Cols
  BY DEF Cols
<1> QED BY <1>2, <1>3, <1>4, <1>5, <1>6, <1>7, <1>8, <1>9, <1>10, <1>11 DEF Next

\* So it always holds.
THEOREM AlwaysListed == Spec => []TasksInv
<1> QED BY StartsListed, StaysListed, PTL DEF Spec

\* Type correctness: groups are never empty, and the selection is of rows there are
\* whatever was polled, sorted or expanded since it was made.
THEOREM TaskTypesHold == Spec => []TypeOK
<1>1. TasksInv => TypeOK
  BY DEF TasksInv
<1> QED BY <1>1, AlwaysListed, PTL

\* A group's time left (BtWallClockRemaining) is never below its longest task; on one
\* computer whose processors are known, however few its preferences leave and however
\* many its GPU tasks hold, it is within what that computer can do.
THEOREM EstimateBounded == Spec => []TimeLeftInBounds
<1>1. TasksInv => TimeLeftInBounds
  BY DEF TasksInv, Listed, Bounded, TimeLeftInBounds
<1> QED BY <1>1, AlwaysListed, PTL

\* A task is where its name and computer are, in the list of its group.
LEMMA PlaceOfTask ==
    ASSUME NEW gs, NEW kn, NEW flags, NEW col, Listed(gs, kn, flags, col), flags # {},
           NEW t, NEW u \in Shown(gs), SameTask(u, t)
    PROVE  LET p == Place(gs, t)
           IN  /\ p = <<p[1], p[2]>> /\ p[1] \in DOMAIN gs
               /\ p[2] \in DOMAIN gs[p[1]].tasks /\ gs[p[1]].tasks[p[2]] = u
               /\ p[1] \in Nat /\ p[2] \in Nat
               /\ gs[p[1]].key = Key(flags, u, 0)
<1> DEFINE at(i) == \E v \in ToSet(gs[i].tasks) : SameTask(v, t)
           c == CHOOSE i \in DOMAIN gs : at(i)
           d == CHOOSE j \in DOMAIN gs[c].tasks : SameTask(gs[c].tasks[j], t)
<1>1. Place(gs, t) = <<c, d>>
  BY DEF Place
<1>2. PICK k \in DOMAIN gs : u \in ToSet(gs[k].tasks)
  BY DEF Shown
<1>3. PICK a \in DOMAIN gs[k].tasks : u = gs[k].tasks[a]
  BY <1>2 DEF ToSet
<1>4. c \in DOMAIN gs /\ at(c)
  BY <1>2
<1>5. PICK b \in DOMAIN gs[c].tasks : SameTask(gs[c].tasks[b], t)
  BY <1>4 DEF ToSet
<1>6. d \in DOMAIN gs[c].tasks /\ SameTask(gs[c].tasks[d], t)
  <2> HIDE DEF c
  <2> QED BY <1>5
<1> HIDE DEF c, d
<1>7. c = k /\ d = a
  <2>1. SameTask(gs[c].tasks[d], gs[k].tasks[a])
    BY <1>3, <1>6 DEF SameTask
  <2> QED BY <1>3, <1>4, <1>6, <2>1 DEF Listed
<1>8. c \in Nat /\ d \in Nat
  <2>1. gs \in Seq(GroupNode) /\ DOMAIN gs = 1..Len(gs) /\ gs[c] \in GroupNode
    <3>1. gs \in Seq(GroupNode)
      BY DEF Listed
    <3> QED BY <1>4, <3>1, LenProperties
  <2>2. DOMAIN gs[c].tasks = 1..Len(gs[c].tasks)
    <3>1. gs[c].tasks \in Seq(Task)
      BY <2>1 DEF GroupNode
    <3> QED BY <3>1, LenProperties
  <2> QED BY <1>4, <1>6, <2>1, <2>2
<1>9. Key(flags, gs[c].tasks[d], 0) = gs[c].key
  BY <1>4, <1>6 DEF Listed
<1> QED BY <1>1, <1>3, <1>4, <1>6, <1>7, <1>8, <1>9

\* A task that stays is shown before and after, under the same key.
LEMMA StaysUnderItsKey ==
    ASSUME Listed(groups, known, combine, sortCol),
           Listed(groups', known', combine', sortCol'), combine' = combine, combine # {}, NEW t \in Stayed
    PROVE  LET p == Place(groups, t)
               q == Place(groups', t)
           IN  /\ p = <<p[1], p[2]>>
               /\ p[1] \in DOMAIN groups /\ p[2] \in DOMAIN groups[p[1]].tasks
               /\ q = <<q[1], q[2]>>
               /\ q[1] \in DOMAIN groups' /\ q[2] \in DOMAIN groups'[q[1]].tasks
               /\ p[1] \in Nat /\ p[2] \in Nat /\ q[1] \in Nat /\ q[2] \in Nat
               /\ groups[p[1]].tasks[p[2]] = t /\ groups'[q[1]].tasks[q[2]].name = t.name
               /\ groups'[q[1]].key = groups[p[1]].key
<1> DEFINE p == Place(groups, t)
           q == Place(groups', t)
<1>1. t \in Shown(groups)
  BY DEF Stayed
<1>2. PICK u \in Shown(groups') :
         SameTask(u, t) /\ u.status = t.status
  BY DEF Stayed
<1>3. /\ p = <<p[1], p[2]>> /\ p[1] \in DOMAIN groups /\ p[2] \in DOMAIN groups[p[1]].tasks
      /\ groups[p[1]].tasks[p[2]] = t /\ p[1] \in Nat /\ p[2] \in Nat
      /\ groups[p[1]].key = Key(combine, t, 0)
  BY <1>1, PlaceOfTask DEF SameTask
<1>4. /\ q = <<q[1], q[2]>> /\ q[1] \in DOMAIN groups' /\ q[2] \in DOMAIN groups'[q[1]].tasks
      /\ groups'[q[1]].tasks[q[2]] = u /\ q[1] \in Nat /\ q[2] \in Nat
      /\ groups'[q[1]].key = Key(combine, u, 0)
  BY <1>2, PlaceOfTask
<1>5. Key(combine, u, 0) = Key(combine, t, 0)
  BY <1>2 DEF Key, SameTask
<1> HIDE DEF p, q
<1>6. groups'[q[1]].tasks[q[2]].name = t.name /\ groups'[q[1]].key = groups[p[1]].key
  BY <1>2, <1>3, <1>4, <1>5 DEF SameTask
<1> QED BY <1>3, <1>4, <1>6 DEF p, q

\* In the natural order, tasks that stay from poll to poll stay in the same order,
\* whatever comes, goes or changes its status around them; but for two of one name in
\* one group, which std::sort may leave in any order (bt_taskmodel.cpp).
THEOREM OrderKept == Spec => RowsDoNotDance
<1>1. ASSUME Listed(groups, known, combine, sortCol),
             Listed(groups', known', combine', sortCol'), sortCol = "natural", sortCol' = "natural", combine' = combine, combine # {},
             NEW s \in Stayed, NEW t \in Stayed, Above(Place(groups, s), Place(groups, t)),
             s.name # t.name \/ Place(groups, s)[1] # Place(groups, t)[1]
      PROVE  Above(Place(groups', s), Place(groups', t))
  <2> DEFINE ps == Place(groups, s)
             qs == Place(groups', s)
             pt == Place(groups, t)
             qt == Place(groups', t)
  <2>1. /\ ps[1] \in DOMAIN groups /\ ps[2] \in DOMAIN groups[ps[1]].tasks
        /\ qs[1] \in DOMAIN groups' /\ qs[2] \in DOMAIN groups'[qs[1]].tasks
        /\ ps[1] \in Nat /\ ps[2] \in Nat /\ qs[1] \in Nat /\ qs[2] \in Nat
        /\ groups[ps[1]].tasks[ps[2]] = s /\ groups'[qs[1]].tasks[qs[2]].name = s.name
        /\ groups'[qs[1]].key = groups[ps[1]].key
    BY <1>1, StaysUnderItsKey
  <2>2. /\ pt[1] \in DOMAIN groups /\ pt[2] \in DOMAIN groups[pt[1]].tasks
        /\ qt[1] \in DOMAIN groups' /\ qt[2] \in DOMAIN groups'[qt[1]].tasks
        /\ pt[1] \in Nat /\ pt[2] \in Nat /\ qt[1] \in Nat /\ qt[2] \in Nat
        /\ groups[pt[1]].tasks[pt[2]] = t /\ groups'[qt[1]].tasks[qt[2]].name = t.name
        /\ groups'[qt[1]].key = groups[pt[1]].key
    BY <1>1, StaysUnderItsKey
  <2>3. /\ \A i, j \in DOMAIN groups : i < j => KeyLess(groups[i].key, groups[j].key)
        /\ \A i, j \in DOMAIN groups' : i < j => KeyLess(groups'[i].key, groups'[j].key)
        /\ \A i, j \in DOMAIN groups' : groups'[i].key = groups'[j].key => i = j
        /\ \A i \in DOMAIN groups : \A a, b \in DOMAIN groups[i].tasks :
              a < b => groups[i].tasks[a].name <= groups[i].tasks[b].name
        /\ \A i \in DOMAIN groups' : \A a, b \in DOMAIN groups'[i].tasks :
              a < b => groups'[i].tasks[a].name <= groups'[i].tasks[b].name
    BY <1>1 DEF Listed
  <2>4. groups[ps[1]].key \in Nat \X Nat \X Nat /\ groups[pt[1]].key \in Nat \X Nat \X Nat
        /\ s.name \in Nat /\ t.name \in Nat
    <3>1. groups \in Seq(GroupNode)
      BY <1>1 DEF Listed
    <3> HIDE DEF ps, pt
    <3>2. groups[ps[1]] \in GroupNode /\ groups[pt[1]] \in GroupNode
      BY <2>1, <2>2, <3>1, LenProperties
    <3>3. groups[ps[1]].tasks \in Seq(Task) /\ groups[pt[1]].tasks \in Seq(Task)
      BY <3>2 DEF GroupNode
    <3>4. s \in Task /\ t \in Task
      BY <2>1, <2>2, <3>3, LenProperties
    <3> QED BY <3>2, <3>4 DEF GroupNode, Task
  <2>5. Above(ps, pt) /\ (s.name # t.name \/ ps[1] # pt[1])
    BY <1>1
  <2> HIDE DEF ps, pt, qs, qt
  <2>6. ASSUME ps[1] < pt[1]
        PROVE  Above(qs, qt)
    <3>1. KeyLess(groups'[qs[1]].key, groups'[qt[1]].key)
      BY <2>1, <2>2, <2>3, <2>6
    <3>2. ~KeyLess(groups'[qs[1]].key, groups'[qs[1]].key)
          /\ ~KeyLess(groups'[qt[1]].key, groups'[qs[1]].key)
      BY <2>1, <2>2, <2>4, <3>1, KeysOrdered
    <3>3. qs[1] # qt[1] /\ ~(qt[1] < qs[1])
      BY <2>1, <2>2, <2>3, <3>1, <3>2
    <3> QED BY <2>1, <2>2, <3>3 DEF Above
  <2>7. ASSUME ps[1] = pt[1], ps[2] < pt[2]
        PROVE  Above(qs, qt)
    <3>1. s.name < t.name
      <4>1. s.name <= t.name
        BY <2>1, <2>2, <2>3, <2>7
      <4> QED BY ONLY <2>4, <2>5, <2>7, <4>1
    <3>2. qs[1] = qt[1]
      BY <2>1, <2>2, <2>3, <2>7
    <3>3. qs[2] # qt[2] /\ ~(qt[2] < qs[2])
      BY <2>1, <2>2, <2>3, <2>4, <3>1, <3>2
    <3> QED BY <2>1, <2>2, <3>2, <3>3 DEF Above
  <2>8. Above(qs, qt)
    BY <2>5, <2>6, <2>7 DEF Above
  <2> QED BY <2>8 DEF qs, qt
<1>2. TasksInv /\ TasksInv' =>
        ((sortCol = "natural" /\ sortCol' = "natural" /\ combine' = combine /\ combine # {}) =>
           \A s, t \in Stayed :
              /\ Above(Place(groups, s), Place(groups, t))
              /\ s.name # t.name \/ Place(groups, s)[1] # Place(groups, t)[1]
              => Above(Place(groups', s), Place(groups', t)))
  <2>1. TasksInv /\ TasksInv' => /\ Listed(groups, known, combine, sortCol)
                                 /\ Listed(groups', known', combine', sortCol')
    BY DEF TasksInv
  <2> QED BY <1>1, <2>1
<1> QED BY <1>2, AlwaysListed, PTL DEF RowsDoNotDance

\* No poll and no sorting closes a group while a task of it is there: where one that
\* was expanded is not any more, it is its own row that was clicked.
THEOREM OpenStaysOpen == Spec => ExpansionSurvives
<1>1. ASSUME TasksInv, TasksInv', [Next]_vars, combine' = combine, combine # {},
             NEW t \in Stayed, groups[Place(groups, t)[1]].expanded,
             ~groups'[Place(groups', t)[1]].expanded
      PROVE  \E r \in DOMAIN Rows : Rows[r][1] = Place(groups, t)[1] /\ ToggleRow(r)
  <2> DEFINE p == Place(groups, t)[1]
             q == Place(groups', t)[1]
  <2>1. /\ Listed(groups, known, combine, sortCol)
        /\ Listed(groups', known', combine', sortCol')
        /\ groups \in Seq(GroupNode)
        /\ sortCol \in Cols /\ sortCol' \in Cols
        /\ sortAsc \in BOOLEAN /\ sortAsc' \in BOOLEAN
    <3>1. /\ Listed(groups, known, combine, sortCol)
          /\ Listed(groups', known', combine', sortCol')
      BY <1>1 DEF TasksInv
    <3> QED BY <1>1, <3>1 DEF TasksInv, TypeOK, Cols, Listed
  <2>2. p \in DOMAIN groups /\ q \in DOMAIN groups' /\ groups'[q].key = groups[p].key
    BY <1>1, <2>1, StaysUnderItsKey
  <2>3. /\ groups[p].expanded /\ ~groups'[q].expanded
        /\ \A i, j \in DOMAIN groups : groups[i].key = groups[j].key => i = j
        /\ \A i, j \in DOMAIN groups' : groups'[i].key = groups'[j].key => i = j
    BY <1>1, <2>1 DEF Listed
  <2> HIDE DEF p, q
  <2>4. ASSUME NEW poll \in Polls, Update(poll)
        PROVE  FALSE
    <3>1. groups'[q].expanded
            <=> \E i \in DOMAIN groups : groups[i].key = groups'[q].key /\ groups[i].expanded
      BY <2>1, <2>2, <2>4, UpdateLists
    <3> QED BY <2>2, <2>3, <3>1
  <2>5. ASSUME NEW col \in Cols, SortBy(col)
        PROVE  FALSE
    <3>1. PICK i \in DOMAIN groups : /\ groups'[q].key = groups[i].key
                                     /\ groups'[q].expanded = groups[i].expanded
      BY <2>1, <2>2, <2>5, SortLists
    <3>2. i = p
      BY <2>2, <2>3, <3>1
    <3> QED BY <2>3, <3>1, <3>2
  <2>6. ASSUME NEW r \in DOMAIN Rows, ToggleRow(r)
        PROVE  Rows[r][1] = p
    <3>1. /\ DOMAIN groups' = DOMAIN groups
          /\ \A i \in DOMAIN groups :
                /\ groups'[i].key = groups[i].key
                /\ i # Rows[r][1] => groups'[i].expanded = groups[i].expanded
      BY <2>1, <2>6, ToggleLists
    <3>2. p = q
      BY <2>2, <2>3, <3>1
    <3> QED BY <2>2, <2>3, <3>1, <3>2
  <2>7. groups' # groups
    <3>1. SUFFICES ASSUME groups' = groups PROVE FALSE
      OBVIOUS
    <3>2. p = q
      BY <2>2, <2>3, <3>1
    <3> QED BY <2>3, <3>1, <3>2
  <2>8. {"computer", "timeLeft"} \subseteq Cols
    BY DEF Cols
  <2>9. \/ \E poll \in Polls : Update(poll)
        \/ \E col \in Cols : SortBy(col)
        \/ \E r \in DOMAIN Rows : ToggleRow(r)
        \/ groups' = groups
    BY <1>1, <2>8 DEF Next, Rebuild, Filter, Select, OnContextMenu, MenuOp, Dismiss, vars
  <2>10. \E r \in DOMAIN Rows : Rows[r][1] = p /\ ToggleRow(r)
    BY <2>4, <2>5, <2>6, <2>7, <2>9
  <2> QED BY <2>10 DEF p
<1>2. TasksInv /\ TasksInv' /\ [Next]_vars =>
        ((combine' = combine /\ combine # {}) =>
           \A t \in Stayed :
              /\ groups[Place(groups, t)[1]].expanded
              /\ ~groups'[Place(groups', t)[1]].expanded
              => \E r \in DOMAIN Rows :
                    Rows[r][1] = Place(groups, t)[1] /\ ToggleRow(r))
  BY <1>1
<1> QED BY <1>2, AlwaysListed, PTL DEF Spec, ExpansionSurvives

\* An operation from the menu is for the tasks under the rows that were selected when
\* it opened, whatever polls came under it.
THEOREM ChosenAreSent == Spec => ActsOnWhatWasChosen
<1>1. TasksInv /\ [Next]_vars =>
        (sent' # {} => sent' = {t \in chosen : t.computer \in Polled} \/ UNCHANGED vars)
  <2> SUFFICES ASSUME TasksInv, [Next]_vars, sent' # {}, ~UNCHANGED vars
               PROVE  sent' = {t \in chosen : t.computer \in Polled}
    OBVIOUS
  <2>1. MenuOp
    BY DEF Next, Rebuild, Filter, SortBy, ToggleRow, Select, OnContextMenu, Dismiss
  <2>2. menu.tasks = chosen
    BY <2>1 DEF MenuOp, TasksInv
  <2> QED BY <2>1, <2>2 DEF MenuOp, Operands
<1> QED BY <1>1, AlwaysListed, PTL DEF Spec, ActsOnWhatWasChosen
=============================================================================
