----------------------------- MODULE SumLemmas ------------------------------
(* Lemmas about least and last numbers, sums and other folds, counting and *)
(* remainders, which the proofs of the components share.                   *)
EXTENDS Functions, FiniteSetTheorems, WellFoundedInduction, TLAPS

\* Induction over Nat, in the form of sets: a nonempty set of numbers has a
\* least one.
LEMMA LeastNumber ==
  ASSUME NEW T, T \subseteq Nat, T # {}
  PROVE  \E x \in T : \A y \in T : x <= y
<1>1. PICK x \in T : \A y \in T : ~(<<y, x>> \in OpToRel(<, Nat))
  BY WFMin, NatLessThanWellFounded
<1>2. ASSUME NEW y \in T
      PROVE  x <= y
  <2>1. x \in Nat /\ y \in Nat
    OBVIOUS
  <2>2. ~(y < x)
    BY <1>1, <2>1 DEF OpToRel
  <2> QED BY <2>1, <2>2
<1> QED BY <1>2

\* A nonempty set of positions has a last one.
LEMMA LastPosition ==
  ASSUME NEW n \in Nat, NEW P, P \subseteq 1..n, P # {}
  PROVE  \E i \in P : \A j \in P : j <= i
<1> DEFINE T == {m \in Nat : n - m \in P}
<1>1. T # {}
  <2>1. PICK i \in P : TRUE
    OBVIOUS
  <2>2. n - i \in Nat /\ n - (n - i) = i
    OBVIOUS
  <2> QED BY <2>1, <2>2
<1>2. PICK m \in T : \A k \in T : m <= k
  <2> HIDE DEF T
  <2>1. T \subseteq Nat
    BY DEF T
  <2> QED BY <1>1, <2>1, LeastNumber
<1>3. ASSUME NEW j \in P
      PROVE  j <= n - m
  <2>1. n - j \in Nat /\ n - (n - j) = j
    OBVIOUS
  <2>2. n - j \in T
    BY <2>1
  <2> QED BY <1>2, <2>1, <2>2
<1> QED BY <1>2, <1>3

-----------------------------------------------------------------------------
(* Sums.  The library folds over a set by choosing one element after       *)
(* another; these lemmas show that the order does not matter for a sum.    *)

\* Induction over the subsets of a finite set: if each subset with a defect
\* has a smaller one that has it too, there is none.
LEMMA NoSmallestDefect ==
  ASSUME NEW S, IsFiniteSet(S), NEW D, D \subseteq SUBSET S,
         \A s \in D : \E r \in D : r \subseteq s /\ r # s
  PROVE  D = {}
<1> SUFFICES ASSUME D # {} PROVE FALSE
  OBVIOUS
<1> DEFINE sizes == {n \in Nat : \E s \in D : Cardinality(s) = n}
<1>1. \A s \in D : IsFiniteSet(s) /\ Cardinality(s) \in Nat
  BY FS_Subset, FS_CardinalityType
<1>2. sizes # {}
  BY <1>1
<1>3. PICK n \in sizes : \A m \in sizes : n <= m
  <2> HIDE DEF sizes
  <2>1. sizes \subseteq Nat
    BY DEF sizes
  <2> QED BY <1>2, <2>1, LeastNumber
<1>4. PICK s \in D : Cardinality(s) = n
  OBVIOUS
<1>5. PICK r \in D : r \subseteq s /\ r # s
  OBVIOUS
<1>6. Cardinality(r) <= Cardinality(s) /\ Cardinality(r) # Cardinality(s)
  BY <1>1, <1>5, FS_Subset
<1>7. Cardinality(r) \in sizes
  BY <1>1
<1> QED BY <1>1, <1>3, <1>4, <1>6, <1>7

Chooses(c, S) == \A s \in SUBSET S : s # {} => c[s] \in s

\* it is the fold's own recursion for the sum of f, with choice function c.
Sums(it, f, c, S) ==
  \A s \in SUBSET S : it[s] = IF s = {} THEN 0 ELSE f[c[s]] + it[s \ {c[s]}]

SumsTable(it, f, c, S) ==
  it = [s \in SUBSET S |-> IF s = {} THEN 0 ELSE f[c[s]] + it[s \ {c[s]}]]

LEMMA SumsExist ==
  ASSUME NEW S, IsFiniteSet(S), NEW f, NEW c, Chooses(c, S)
  PROVE  \E it : SumsTable(it, f, c, S)
<1> DEFINE Dom(n) == {s \in SUBSET S : Cardinality(s) <= n}
           Is(it, n) == it = [s \in Dom(n) |->
                                IF s = {} THEN 0 ELSE f[c[s]] + it[s \ {c[s]}]]
           T == {n \in Nat : ~\E it : Is(it, n)}
<1>1. \A s \in SUBSET S : IsFiniteSet(s) /\ Cardinality(s) \in Nat
  BY FS_Subset, FS_CardinalityType
<1>2. T = {}
  <2> SUFFICES ASSUME T # {} PROVE FALSE
    OBVIOUS
  <2>1. PICK n \in T : \A m \in T : n <= m
    <3> HIDE DEF T
    <3>1. T \subseteq Nat
      BY DEF T
    <3> QED BY <3>1, LeastNumber
  <2>2. n # 0
    <3> SUFFICES Is([s \in Dom(0) |-> 0], 0)
      BY DEF T
    <3>1. \A s \in Dom(0) : s = {}
      BY <1>1, FS_EmptySet
    <3> QED BY <3>1
  <2>3. PICK it : Is(it, n - 1)
    <3>1. n - 1 \in Nat /\ ~(n <= n - 1)
      BY <2>2
    <3> QED BY <2>1, <3>1
  <2> DEFINE it2 == [s \in Dom(n) |-> IF s = {} THEN 0 ELSE f[c[s]] + it[s \ {c[s]}]]
  <2>4. ASSUME NEW s \in Dom(n), s # {}
        PROVE  it2[s \ {c[s]}] = it[s \ {c[s]}]
    <3>1. s \in SUBSET S /\ c[s] \in s
      BY <2>4 DEF Chooses
    <3>2. Cardinality(s \ {c[s]}) = Cardinality(s) - 1
      BY <1>1, <3>1, FS_RemoveElement
    <3>3. s \ {c[s]} \in Dom(n) /\ s \ {c[s]} \in Dom(n - 1)
      BY <1>1, <3>1, <3>2
    <3>4. it = [r \in Dom(n - 1) |-> IF r = {} THEN 0 ELSE f[c[r]] + it[r \ {c[r]}]]
      BY <2>3
    <3> HIDE DEF Dom, Is, T
    <3> QED BY <3>3, <3>4
  <2>5. Is(it2, n)
    <3> HIDE DEF Dom, T
    <3> QED BY <2>4
  <2> QED BY <2>5
<1>3. Cardinality(S) \in Nat /\ Dom(Cardinality(S)) = SUBSET S
  BY FS_Subset, FS_CardinalityType
<1>4. \E it : Is(it, Cardinality(S))
  <2> HIDE DEF Is, Dom
  <2> QED BY <1>2, <1>3
<1> QED BY <1>3, <1>4 DEF SumsTable

Numbers(f, S) == \A x \in S : f[x] \in Int

LEMMA SumsAreNumbers ==
  ASSUME NEW S, IsFiniteSet(S), NEW f, NEW c, Chooses(c, S), Numbers(f, S),
         NEW it, Sums(it, f, c, S)
  PROVE  \A s \in SUBSET S : it[s] \in Int
<1> DEFINE D == {s \in SUBSET S : it[s] \notin Int}
<1>1. ASSUME NEW s \in D
      PROVE  \E r \in D : r \subseteq s /\ r # s
  <2>1. s # {}
    BY DEF Sums
  <2>2. c[s] \in s /\ f[c[s]] \in Int
    BY <2>1 DEF Chooses, Numbers
  <2>3. it[s] = f[c[s]] + it[s \ {c[s]}]
    BY <2>1 DEF Sums
  <2>4. s \ {c[s]} \in D
    BY <2>2, <2>3
  <2> QED BY <2>2, <2>4
<1>2. D = {}
  <2> HIDE DEF D
  <2>1. D \subseteq SUBSET S
    BY DEF D
  <2> QED BY <1>1, <2>1, NoSmallestDefect
<1> QED BY <1>2

\* Any element may be taken out first.
LEMMA SumsAnyElement ==
  ASSUME NEW S, IsFiniteSet(S), NEW f, NEW c, Chooses(c, S), Numbers(f, S),
         NEW it, Sums(it, f, c, S)
  PROVE  \A s \in SUBSET S : \A y \in s : it[s] = f[y] + it[s \ {y}]
<1> DEFINE D == {s \in SUBSET S : \E y \in s : it[s] # f[y] + it[s \ {y}]}
<1>1. ASSUME NEW s \in D
      PROVE  \E r \in D : r \subseteq s /\ r # s
  <2>1. PICK y \in s : it[s] # f[y] + it[s \ {y}]
    OBVIOUS
  <2>2. PICK x : x = c[s]
    OBVIOUS
  <2>3. x \in s /\ it[s] = f[x] + it[s \ {x}] /\ x # y
    BY <2>1, <2>2 DEF Sums, Chooses
  <2>4. SUFFICES ASSUME s \ {x} \notin D, s \ {y} \notin D
                 PROVE  FALSE
    BY <2>1, <2>3
  <2>5. it[s \ {x}] = f[y] + it[(s \ {x}) \ {y}]
    BY <2>3, <2>4
  <2>6. it[s \ {y}] = f[x] + it[(s \ {y}) \ {x}]
    BY <2>3, <2>4
  <2>7. (s \ {x}) \ {y} = (s \ {y}) \ {x}
    OBVIOUS
  <2>8. PICK rest : rest = it[(s \ {x}) \ {y}]
    OBVIOUS
  <2>9. f[x] \in Int /\ f[y] \in Int /\ rest \in Int
    <3>1. (s \ {x}) \ {y} \in SUBSET S /\ x \in S /\ y \in S
      BY <2>3
    <3> QED BY <2>8, <3>1, SumsAreNumbers DEF Numbers
  <2>10. it[s] = f[x] + (f[y] + rest) /\ it[s \ {y}] = f[x] + rest
    BY <2>3, <2>5, <2>6, <2>7, <2>8
  <2>11. f[x] + (f[y] + rest) = f[y] + (f[x] + rest)
    BY <2>9
  <2> QED BY <2>1, <2>10, <2>11
<1>2. D = {}
  <2> HIDE DEF D
  <2>1. D \subseteq SUBSET S
    BY DEF D
  <2> QED BY <1>1, <2>1, NoSmallestDefect
<1> QED BY <1>2

\* Two sums of the same numbers are equal, in whatever order each is taken.
LEMMA SumsAgree ==
  ASSUME NEW S, IsFiniteSet(S), NEW f, NEW c, Chooses(c, S), Numbers(f, S),
         NEW it, Sums(it, f, c, S),
         NEW S2, IsFiniteSet(S2), NEW f2, NEW c2, Chooses(c2, S2), Numbers(f2, S2),
         NEW it2, Sums(it2, f2, c2, S2),
         NEW common, common \subseteq S, common \subseteq S2,
         \A x \in common : f[x] = f2[x]
  PROVE  it[common] = it2[common]
<1> DEFINE D == {s \in SUBSET common : it[s] # it2[s]}
<1>1. ASSUME NEW s \in D
      PROVE  \E r \in D : r \subseteq s /\ r # s
  <2>1. s # {}
    BY DEF Sums
  <2>2. PICK x \in s : it[s] = f[x] + it[s \ {x}]
    BY <2>1 DEF Sums, Chooses
  <2>3. it2[s] = f2[x] + it2[s \ {x}]
    BY SumsAnyElement
  <2>4. s \ {x} \in D
    BY <2>2, <2>3
  <2> QED BY <2>4
<1>2. D = {}
  <2> HIDE DEF D
  <2>1. D \subseteq SUBSET common /\ IsFiniteSet(common)
    BY FS_Subset DEF D
  <2> QED BY <1>1, <2>1, NoSmallestDefect
<1> QED BY <1>2

SumOver(f, S) == FoldFunctionOnSet(+, 0, f, S)

\* The library's fold is such a sum.
LEMMA SumOverIsSum ==
  ASSUME NEW S, IsFiniteSet(S), NEW f
  PROVE  \E it, c : Chooses(c, S) /\ Sums(it, f, c, S) /\ SumOver(f, S) = it[S]
<1> DEFINE c == [s \in SUBSET S |-> CHOOSE x \in s : TRUE]
           Is(it) == it = [s \in SUBSET S |-> IF s = {} THEN 0
                             ELSE f[CHOOSE x \in s : TRUE] + it[s \ {CHOOSE x \in s : TRUE}]]
           chosen == CHOOSE it : Is(it)
<1>1. Chooses(c, S)
  BY DEF Chooses
<1>2. \E it : Is(it)
  <2>1. PICK it : SumsTable(it, f, c, S)
    <3> HIDE DEF c, Is, chosen
    <3> QED BY <1>1, SumsExist
  <2>2. Is(it)
    BY <2>1 DEF SumsTable
  <2> QED BY <2>2
<1>3. Is(chosen)
  <2> HIDE DEF Is
  <2> QED BY <1>2
<1>4. SumOver(f, S) = chosen[S]
  BY DEF SumOver, FoldFunctionOnSet, MapThenFoldSet
<1> HIDE DEF chosen
<1>5. Sums(chosen, f, c, S)
  BY <1>3 DEF Sums
<1> QED BY <1>1, <1>4, <1>5

LEMMA SumOverEmpty ==
  ASSUME NEW f
  PROVE  SumOver(f, {}) = 0
<1>1. PICK it, c : Sums(it, f, c, {}) /\ SumOver(f, {}) = it[{}]
  BY SumOverIsSum, FS_EmptySet
<1> QED BY <1>1 DEF Sums

LEMMA SumOverType ==
  ASSUME NEW S, IsFiniteSet(S), NEW f, Numbers(f, S)
  PROVE  SumOver(f, S) \in Int
<1>1. PICK it, c : Chooses(c, S) /\ Sums(it, f, c, S) /\ SumOver(f, S) = it[S]
  BY SumOverIsSum
<1> QED BY <1>1, SumsAreNumbers

\* A sum is a matter of the numbers in it.
LEMMA SumOverSame ==
  ASSUME NEW S, IsFiniteSet(S), NEW f, NEW f2, Numbers(f, S), \A x \in S : f[x] = f2[x]
  PROVE  SumOver(f, S) = SumOver(f2, S)
<1>1. PICK it, c : Chooses(c, S) /\ Sums(it, f, c, S) /\ SumOver(f, S) = it[S]
  BY SumOverIsSum
<1>2. PICK it2, c2 : Chooses(c2, S) /\ Sums(it2, f2, c2, S) /\ SumOver(f2, S) = it2[S]
  BY SumOverIsSum
<1>3. Numbers(f2, S)
  BY DEF Numbers
<1> QED BY <1>1, <1>2, <1>3, SumsAgree

\* One element apart.
LEMMA SumOverSplit ==
  ASSUME NEW S, IsFiniteSet(S), NEW f, Numbers(f, S), NEW x \in S
  PROVE  SumOver(f, S) = f[x] + SumOver(f, S \ {x})
<1>1. PICK it, c : Chooses(c, S) /\ Sums(it, f, c, S) /\ SumOver(f, S) = it[S]
  BY SumOverIsSum
<1> DEFINE R == S \ {x}
<1>2. IsFiniteSet(R) /\ Numbers(f, R) /\ R \subseteq S
  BY FS_Subset DEF Numbers
<1> HIDE DEF R
<1>3. PICK it2, c2 : Chooses(c2, R) /\ Sums(it2, f, c2, R) /\ SumOver(f, R) = it2[R]
  BY <1>2, SumOverIsSum
<1>4. it[R] = it2[R]
  BY <1>1, <1>2, <1>3, SumsAgree
<1>5. it[S] = f[x] + it[S \ {x}]
  BY <1>1, SumsAnyElement
<1> QED BY <1>1, <1>3, <1>4, <1>5 DEF R

\* One number changed.
LEMMA SumOverChange ==
  ASSUME NEW S, IsFiniteSet(S), NEW f, NEW f2, Numbers(f, S), Numbers(f2, S), NEW x \in S,
         \A y \in S \ {x} : f[y] = f2[y]
  PROVE  SumOver(f2, S) = SumOver(f, S) - f[x] + f2[x]
<1> DEFINE R == S \ {x}
<1>1. IsFiniteSet(R) /\ Numbers(f, R) /\ f[x] \in Int /\ f2[x] \in Int
  BY FS_Subset DEF Numbers
<1>2. SumOver(f, R) = SumOver(f2, R) /\ SumOver(f, R) \in Int
  <2> HIDE DEF R
  <2>1. \A y \in R : f[y] = f2[y]
    BY DEF R
  <2> QED BY <1>1, <2>1, SumOverSame, SumOverType
<1>3. SumOver(f, S) = f[x] + SumOver(f, R) /\ SumOver(f2, S) = f2[x] + SumOver(f2, R)
  BY SumOverSplit
<1> HIDE DEF R
<1> QED BY <1>1, <1>2, <1>3

\* Numbers that are at most a bound, in whatever unit k, add up to at most as
\* many times the bound.
LEMMA SumOverBound ==
  ASSUME NEW S, IsFiniteSet(S), NEW f, Numbers(f, S), NEW k \in Int, NEW b \in Int,
         \A x \in S : f[x] * k <= b
  PROVE  SumOver(f, S) * k <= Cardinality(S) * b
<1> DEFINE D == {s \in SUBSET S : ~(SumOver(f, s) * k <= Cardinality(s) * b)}
<1>1. ASSUME NEW s \in D
      PROVE  \E r \in D : r \subseteq s /\ r # s
  <2>1. IsFiniteSet(s) /\ Cardinality(s) \in Nat /\ Numbers(f, s)
    BY FS_Subset, FS_CardinalityType DEF Numbers
  <2>2. s # {}
    BY SumOverEmpty, FS_EmptySet
  <2>3. PICK x \in s : TRUE
    BY <2>2
  <2>4. PICK r \in SUBSET S : r = s \ {x}
    OBVIOUS
  <2>5. IsFiniteSet(r) /\ Cardinality(r) \in Nat /\ Numbers(f, r)
    BY <2>1, <2>4, FS_Subset, FS_CardinalityType DEF Numbers
  <2>6. Cardinality(s) = Cardinality(r) + 1
    BY <2>1, <2>4, <2>5, FS_RemoveElement
  <2>7. SumOver(f, s) = f[x] + SumOver(f, r)
    BY <2>1, <2>4, SumOverSplit
  <2>8. SumOver(f, r) \in Int /\ f[x] \in Int /\ f[x] * k <= b
    BY <2>1, <2>5, SumOverType DEF Numbers
  <2>9. /\ (Cardinality(r) + 1) * b = Cardinality(r) * b + b /\ Cardinality(r) * b \in Int
        /\ (f[x] + SumOver(f, r)) * k = f[x] * k + SumOver(f, r) * k
        /\ f[x] * k \in Int /\ SumOver(f, r) * k \in Int
    BY <2>5, <2>8
  <2>10. ~(SumOver(f, r) * k <= Cardinality(r) * b)
    BY <2>6, <2>7, <2>8, <2>9
  <2> QED BY <2>3, <2>4, <2>10
<1>2. D = {}
  <2> HIDE DEF D
  <2>1. D \subseteq SUBSET S
    BY DEF D
  <2> QED BY <1>1, <2>1, NoSmallestDefect
<1> QED BY <1>2

LEMMA SumOverZero ==
  ASSUME NEW S, IsFiniteSet(S), NEW f, \A x \in S : f[x] = 0
  PROVE  SumOver(f, S) = 0
<1>1. /\ Numbers(f, S) /\ \A x \in S : f[x] * 1 <= 0 /\ f[x] * (-1) <= 0
      /\ Cardinality(S) * 0 = 0
  BY FS_CardinalityType DEF Numbers
<1>2. SumOver(f, S) * 1 <= 0
  BY <1>1, SumOverBound
<1>3. SumOver(f, S) * (-1) <= 0
  BY <1>1, SumOverBound
<1> QED BY <1>1, <1>2, <1>3, SumOverType

\* Two parts.
LEMMA SumOverUnion ==
  ASSUME NEW A, IsFiniteSet(A), NEW B, IsFiniteSet(B), A \cap B = {},
         NEW f, Numbers(f, A \cup B)
  PROVE  SumOver(f, A \cup B) = SumOver(f, A) + SumOver(f, B)
<1> DEFINE D == {s \in SUBSET B : SumOver(f, A \cup s) # SumOver(f, A) + SumOver(f, s)}
<1>1. ASSUME NEW s \in D
      PROVE  \E r \in D : r \subseteq s /\ r # s
  <2>1. /\ IsFiniteSet(s) /\ IsFiniteSet(A \cup s)
        /\ Numbers(f, A) /\ Numbers(f, s) /\ Numbers(f, A \cup s)
    BY FS_Subset, FS_Union DEF Numbers
  <2>2. SumOver(f, A) \in Int
    BY <2>1, SumOverType
  <2>3. s # {}
    <3>1. A \cup {} = A /\ SumOver(f, {}) = 0
      BY SumOverEmpty
    <3>2. SumOver(f, A) + 0 = SumOver(f, A)
      BY <2>2
    <3> QED BY <3>1, <3>2
  <2>4. PICK x \in s : TRUE
    BY <2>3
  <2>5. PICK r \in SUBSET B : r = s \ {x}
    OBVIOUS
  <2>6. (A \cup s) \ {x} = A \cup r /\ x \in A \cup s
    BY <2>4, <2>5
  <2>7. SumOver(f, s) = f[x] + SumOver(f, r)
    BY <2>1, <2>5, SumOverSplit
  <2>8. SumOver(f, A \cup s) = f[x] + SumOver(f, A \cup r)
    BY <2>1, <2>6, SumOverSplit
  <2>9. /\ IsFiniteSet(r) /\ IsFiniteSet(A \cup r)
        /\ Numbers(f, r) /\ Numbers(f, A \cup r) /\ f[x] \in Int
    BY <2>1, <2>5, FS_Subset, FS_Union DEF Numbers
  <2>10. SumOver(f, r) \in Int /\ SumOver(f, A \cup r) \in Int
    BY <2>9, SumOverType
  <2>11. SumOver(f, A \cup r) # SumOver(f, A) + SumOver(f, r)
    BY <2>2, <2>7, <2>8, <2>9, <2>10
  <2> QED BY <2>4, <2>5, <2>11
<1>2. D = {}
  <2> HIDE DEF D
  <2>1. D \subseteq SUBSET B
    BY DEF D
  <2> QED BY <1>1, <2>1, NoSmallestDefect
<1> QED BY <1>2

\* The same numbers under other names.
LEMMA SumOverRenamed ==
  ASSUME NEW S, IsFiniteSet(S), NEW T, NEW h \in Bijection(S, T),
         NEW f, Numbers(f, T), NEW f2, \A x \in S : f2[x] = f[h[x]]
  PROVE  SumOver(f2, S) = SumOver(f, T)
<1> DEFINE Img(s) == {h[x] : x \in s}
           D == {s \in SUBSET S : SumOver(f2, s) # SumOver(f, Img(s))}
<1>1. /\ h \in [S -> T] /\ \A x \in S, y \in S : h[x] = h[y] => x = y
      /\ Img(S) = T
  <2>1. h \in Injection(S, T) /\ h \in Surjection(S, T)
    BY DEF Bijection
  <2> QED BY <2>1 DEF Injection, IsInjective, Surjection
<1>2. IsFiniteSet(T)
  BY FS_Bijection DEF ExistsBijection
<1>3. ASSUME NEW s \in D
      PROVE  \E r \in D : r \subseteq s /\ r # s
  <2>1. s # {}
    <3>1. Img({}) = {}
      OBVIOUS
    <3> QED BY <3>1, SumOverEmpty
  <2>2. PICK x \in s : TRUE
    BY <2>1
  <2>3. PICK r \in SUBSET S : r = s \ {x}
    OBVIOUS
  <2>4. Img(s) \ {h[x]} = Img(r) /\ h[x] \in Img(s) /\ Img(s) \subseteq T
    BY <1>1, <2>2, <2>3
  <2>5. IsFiniteSet(s) /\ IsFiniteSet(Img(s)) /\ Numbers(f, Img(s))
    BY <1>2, <2>4, FS_Subset DEF Numbers
  <2>6. Numbers(f2, s)
    BY <1>1 DEF Numbers
  <2> HIDE DEF Img
  <2>7. SumOver(f2, s) = f2[x] + SumOver(f2, r)
    BY <2>2, <2>3, <2>5, <2>6, SumOverSplit
  <2>8. SumOver(f, Img(s)) = f[h[x]] + SumOver(f, Img(r))
    BY <2>4, <2>5, SumOverSplit
  <2>9. SumOver(f2, r) # SumOver(f, Img(r))
    BY <2>2, <2>7, <2>8
  <2> QED BY <2>2, <2>3, <2>9
<1>4. D = {}
  <2> HIDE DEF D
  <2>1. D \subseteq SUBSET S
    BY DEF D
  <2> QED BY <1>3, <2>1, NoSmallestDefect
<1> QED BY <1>1, <1>4

\* Of all choices of as many elements, the one of the smallest has the
\* smallest sum.
LEMMA SumOverSmallest ==
  ASSUME NEW S, IsFiniteSet(S), NEW f, Numbers(f, S),
         NEW W \in SUBSET S, NEW I \in SUBSET S, Cardinality(I) = Cardinality(W),
         NEW v \in Int, \A x \in W : f[x] <= v, \A x \in S \ W : v <= f[x]
  PROVE  SumOver(f, W) <= SumOver(f, I)
<1>1. PICK both, lost, won :
        both = W \cap I /\ lost = W \ I /\ won = I \ W
  OBVIOUS
<1>2. IsFiniteSet(W) /\ IsFiniteSet(I)
  BY FS_Subset
<1>3. /\ IsFiniteSet(both) /\ IsFiniteSet(lost) /\ IsFiniteSet(won)
      /\ Numbers(f, both) /\ Numbers(f, lost) /\ Numbers(f, won)
      /\ Numbers(f, W) /\ Numbers(f, I)
  BY <1>1, <1>2, FS_Subset DEF Numbers
<1>4. Cardinality(lost) = Cardinality(won)
  <2>1. /\ Cardinality(lost) = Cardinality(W) - Cardinality(W \cap I)
        /\ Cardinality(won) = Cardinality(I) - Cardinality(I \cap W)
    BY <1>1, <1>2, FS_Difference
  <2>2. W \cap I = I \cap W
    OBVIOUS
  <2> QED BY <2>1, <2>2
<1>5. SumOver(f, W) = SumOver(f, both) + SumOver(f, lost)
  <2>1. W = both \cup lost /\ both \cap lost = {}
    BY <1>1
  <2> QED BY <1>3, <2>1, SumOverUnion
<1>6. SumOver(f, I) = SumOver(f, both) + SumOver(f, won)
  <2>1. I = both \cup won /\ both \cap won = {}
    BY <1>1
  <2> QED BY <1>3, <2>1, SumOverUnion
<1>7. PICK k : k = Cardinality(lost) /\ k \in Nat
  BY <1>3, FS_CardinalityType
<1>8. SumOver(f, lost) * 1 <= k * v
  <2>1. \A x \in lost : f[x] * 1 <= v
    BY <1>1 DEF Numbers
  <2> QED BY <1>3, <1>7, <2>1, SumOverBound
<1>9. SumOver(f, won) * (-1) <= k * (-v)
  <2>1. \A x \in won : f[x] * (-1) <= -v
    BY <1>1 DEF Numbers
  <2>2. -1 \in Int /\ -v \in Int
    OBVIOUS
  <2> QED BY <1>3, <1>4, <1>7, <2>1, <2>2, SumOverBound
<1>10. PICK b, l, w \in Int :
         b = SumOver(f, both) /\ l = SumOver(f, lost) /\ w = SumOver(f, won)
  BY <1>3, SumOverType
<1>11. k * (-v) = -(k * v) /\ k * v \in Int
  BY <1>7
<1>12. l * 1 <= k * v /\ w * (-1) <= -(k * v)
  BY <1>8, <1>9, <1>10, <1>11
<1>13. l <= w
  BY <1>11, <1>12, <1>10
<1> QED BY <1>5, <1>6, <1>10, <1>13

-----------------------------------------------------------------------------
(* Other folds.                                                            *)

\* A fold over a set takes its elements in the order of c, whatever its steps g
\* are: it exists, and keeps what each step keeps.
FoldTable(it, g, b, c, S) ==
  it = [s \in SUBSET S |-> IF s = {} THEN b ELSE g[<<c[s], it[s \ {c[s]}]>>]]

LEMMA FoldExists ==
  ASSUME NEW S, IsFiniteSet(S), NEW g, NEW b, NEW c, Chooses(c, S)
  PROVE  \E it : FoldTable(it, g, b, c, S)
<1> DEFINE Dom(n) == {s \in SUBSET S : Cardinality(s) <= n}
           Is(it, n) == it = [s \in Dom(n) |->
                                IF s = {} THEN b ELSE g[<<c[s], it[s \ {c[s]}]>>]]
           T == {n \in Nat : ~\E it : Is(it, n)}
<1>1. \A s \in SUBSET S : IsFiniteSet(s) /\ Cardinality(s) \in Nat
  BY FS_Subset, FS_CardinalityType
<1>2. T = {}
  <2> SUFFICES ASSUME T # {} PROVE FALSE
    OBVIOUS
  <2>1. PICK n \in T : \A m \in T : n <= m
    <3> HIDE DEF T
    <3>1. T \subseteq Nat
      BY DEF T
    <3> QED BY <3>1, LeastNumber
  <2>2. n # 0
    <3> SUFFICES Is([s \in Dom(0) |-> b], 0)
      BY DEF T
    <3>1. \A s \in Dom(0) : s = {}
      BY <1>1, FS_EmptySet
    <3> QED BY <3>1
  <2>3. PICK it : Is(it, n - 1)
    <3>1. n - 1 \in Nat /\ ~(n <= n - 1)
      BY <2>2
    <3> QED BY <2>1, <3>1
  <2> DEFINE it2 == [s \in Dom(n) |-> IF s = {} THEN b ELSE g[<<c[s], it[s \ {c[s]}]>>]]
  <2>4. ASSUME NEW s \in Dom(n), s # {}
        PROVE  it2[s \ {c[s]}] = it[s \ {c[s]}]
    <3>1. s \in SUBSET S /\ c[s] \in s
      BY <2>4 DEF Chooses
    <3>2. Cardinality(s \ {c[s]}) = Cardinality(s) - 1
      BY <1>1, <3>1, FS_RemoveElement
    <3>3. s \ {c[s]} \in Dom(n) /\ s \ {c[s]} \in Dom(n - 1)
      BY <1>1, <3>1, <3>2
    <3>4. it = [r \in Dom(n - 1) |-> IF r = {} THEN b ELSE g[<<c[r], it[r \ {c[r]}]>>]]
      BY <2>3
    <3> HIDE DEF Dom, Is, T
    <3> QED BY <3>3, <3>4
  <2>5. Is(it2, n)
    <3> HIDE DEF Dom, T
    <3> QED BY <2>4
  <2> QED BY <2>5
<1>3. Cardinality(S) \in Nat /\ Dom(Cardinality(S)) = SUBSET S
  BY FS_Subset, FS_CardinalityType
<1>4. \E it : Is(it, Cardinality(S))
  <2> HIDE DEF Is, Dom
  <2> QED BY <1>2, <1>3
<1> QED BY <1>3, <1>4 DEF FoldTable

LEMMA FoldStays ==
  ASSUME NEW S, IsFiniteSet(S), NEW c, Chooses(c, S), NEW A, NEW it, it[{}] \in A,
         \A s \in SUBSET S : s # {} /\ it[s \ {c[s]}] \in A => it[s] \in A
  PROVE  \A s \in SUBSET S : it[s] \in A
<1> DEFINE D == {s \in SUBSET S : it[s] \notin A}
<1>1. ASSUME NEW s \in D
      PROVE  \E r \in D : r \subseteq s /\ r # s
  <2>1. s # {}
    OBVIOUS
  <2>2. c[s] \in s /\ s \ {c[s]} \in D
    BY <2>1 DEF Chooses
  <2> QED BY <2>2
<1>2. D = {}
  <2> HIDE DEF D
  <2>1. D \subseteq SUBSET S
    BY DEF D
  <2> QED BY <1>1, <2>1, NoSmallestDefect
<1> QED BY <1>2

-----------------------------------------------------------------------------
(* Counting.                                                               *)

\* Parts of the same size, one for each of n values.
LEMMA EqualParts ==
  ASSUME NEW S, IsFiniteSet(S), NEW n \in Nat, NEW h \in [S -> 1..n], NEW c \in Nat,
         \A p \in 1..n : Cardinality({x \in S : h[x] = p}) = c
  PROVE  Cardinality(S) = n * c
<1> DEFINE Below(k) == {x \in S : h[x] <= k}
           T == {k \in Nat : k <= n /\ Cardinality(Below(k)) # k * c}
<1>1. T = {}
  <2> SUFFICES ASSUME T # {} PROVE FALSE
    OBVIOUS
  <2>1. PICK k \in T : \A l \in T : k <= l
    <3> HIDE DEF T
    <3>1. T \subseteq Nat
      BY DEF T
    <3> QED BY <3>1, LeastNumber
  <2>2. k # 0
    <3>1. Below(0) = {}
      OBVIOUS
    <3>2. Cardinality({}) = 0 /\ 0 * c = 0
      BY FS_EmptySet
    <3> QED BY <3>1, <3>2
  <2>3. PICK l \in Nat : l = k - 1 /\ k = l + 1 /\ l <= n /\ k \in 1..n
    BY <2>2
  <2>4. Cardinality(Below(l)) = l * c
    <3>1. ~(k <= l) /\ l \in Nat /\ l <= n
      BY <2>3
    <3> QED BY <2>1, <3>1
  <2>5. PICK part : part = {x \in S : h[x] = k}
    OBVIOUS
  <2>6. Below(k) = Below(l) \cup part /\ Below(l) \cap part = {}
    BY <2>3, <2>5
  <2>7. IsFiniteSet(Below(l)) /\ IsFiniteSet(part)
    <3>1. Below(l) \in SUBSET S /\ part \in SUBSET S
      BY <2>5
    <3> HIDE DEF Below
    <3> QED BY <3>1, FS_Subset
  <2>8. Cardinality(Below(k)) = Cardinality(Below(l)) + Cardinality(part) - Cardinality({})
    <3> HIDE DEF Below
    <3> QED BY <2>6, <2>7, FS_Union
  <2>9. Cardinality(part) = c
    BY <2>3, <2>5
  <2>10. Cardinality(Below(k)) = l * c + c
    <3> HIDE DEF Below, T
    <3>1. l * c \in Nat
      BY <2>3
    <3> QED BY <2>4, <2>8, <2>9, <3>1, FS_EmptySet
  <2>11. l * c + c = k * c
    BY <2>3
  <2> QED BY <2>10, <2>11
<1>2. Cardinality(Below(n)) = n * c
  <2>1. n \notin T /\ n <= n
    <3> HIDE DEF T
    <3> QED BY <1>1
  <2> HIDE DEF Below
  <2> QED BY <2>1
<1>3. Below(n) = S
  OBVIOUS
<1> QED BY <1>2, <1>3

\* There are finitely many lists of a length over a finite set.
LEMMA ListsAreFinite ==
  ASSUME NEW S, IsFiniteSet(S), NEW n \in Nat
  PROVE  IsFiniteSet([1..n -> S])
<1> DEFINE T == {k \in Nat : ~IsFiniteSet([1..k -> S])}
<1>1. T = {}
  <2> SUFFICES ASSUME T # {} PROVE FALSE
    OBVIOUS
  <2>1. PICK k \in T : \A l \in T : k <= l
    <3> HIDE DEF T
    <3>1. T \subseteq Nat
      BY DEF T
    <3> QED BY <3>1, LeastNumber
  <2>2. k # 0
    <3>1. PICK e : e = [i \in 1..0 |-> i]
      OBVIOUS
    <3>2. [1..0 -> S] \subseteq {e}
      BY <3>1
    <3>3. IsFiniteSet({e})
      BY FS_Singleton
    <3>4. IsFiniteSet([1..0 -> S])
      BY <3>2, <3>3, FS_Subset
    <3> QED BY <3>4
  <2>3. PICK l \in Nat : l = k - 1 /\ k = l + 1
    BY <2>2
  <2>4. IsFiniteSet([1..l -> S])
    <3>1. ~(k <= l)
      BY <2>3
    <3> QED BY <2>1, <2>3, <3>1
  <2>5. IsFiniteSet([1..l -> S] \X S)
    BY <2>4, FS_Product
  <2>6. PICK g : g = [fx \in [1..l -> S] \X S |-> [i \in 1..k |-> IF i = k THEN fx[2] ELSE fx[1][i]]]
    OBVIOUS
  <2>7. ASSUME NEW fx \in [1..l -> S] \X S
        PROVE  g[fx] \in [1..k -> S]
    <3>1. fx[1] \in [1..l -> S] /\ fx[2] \in S
      OBVIOUS
    <3>2. \A i \in 1..k : i = k \/ i \in 1..l
      BY <2>3
    <3> QED BY <2>6, <3>1, <3>2
  <2>8. ASSUME NEW f \in [1..k -> S]
        PROVE  \E fx \in [1..l -> S] \X S : g[fx] = f
    <3>1. PICK fx : fx = <<[i \in 1..l |-> f[i]], f[k]>>
      OBVIOUS
    <3>2. k \in 1..k /\ \A i \in 1..l : i \in 1..k /\ i # k
      BY <2>3
    <3>3. fx \in [1..l -> S] \X S
      BY <3>1, <3>2
    <3>4. g[fx] = [i \in 1..k |-> IF i = k THEN fx[2] ELSE fx[1][i]]
      BY <2>6, <3>3
    <3>5. \A i \in 1..k : i # k => fx[1][i] = f[i]
      <4>1. \A i \in 1..k : i # k => i \in 1..l
        BY <2>3
      <4>2. fx[1] = [i \in 1..l |-> f[i]]
        BY <3>1
      <4> QED BY <4>1, <4>2
    <3>6. fx[2] = f[k]
      BY <3>1
    <3>7. g[fx] = [i \in 1..k |-> f[i]]
      BY <3>4, <3>5, <3>6
    <3> QED BY <3>3, <3>7
  <2>9. g \in Surjection([1..l -> S] \X S, [1..k -> S])
    <3>1. g \in [[1..l -> S] \X S -> [1..k -> S]]
      BY <2>6, <2>7
    <3> QED BY <2>8, <3>1 DEF Surjection
  <2>10. IsFiniteSet([1..k -> S])
    BY <2>5, <2>9, FS_Surjection
  <2> QED BY <2>10
<1> QED BY <1>1

\* A multiple of n that is nearer to 0 than n is 0.
LEMMA SmallMultiple ==
  ASSUME NEW n \in Nat \ {0}, NEW q \in Int, -n < q * n, q * n < n
  PROVE  q = 0
<1>1. CASE q >= 1
  <2>1. \A d \in Nat : (1 + d) * n = n + d * n /\ d * n >= 0
    OBVIOUS
  <2>2. PICK d \in Nat : q = 1 + d
    <3>1. q - 1 \in Nat /\ q = 1 + (q - 1)
      BY <1>1
    <3> QED BY <3>1
  <2> QED BY <2>1, <2>2
<1>2. CASE q <= -1
  <2>1. \A d \in Nat : (-1 - d) * n = -n - d * n /\ d * n >= 0
    OBVIOUS
  <2>2. PICK d \in Nat : q = -1 - d
    <3>1. -1 - q \in Nat /\ q = -1 - (-1 - q)
      BY <1>2
    <3> QED BY <3>1
  <2> QED BY <2>1, <2>2
<1> QED BY <1>1, <1>2

\* Going round by r, every number below n comes from one such number.
LEMMA RoundIsBijection ==
  ASSUME NEW n \in Nat \ {0}, NEW r \in Nat
  PROVE  [v \in 0..(n - 1) |-> 1 + ((v + r) % n)] \in Bijection(0..(n - 1), 1..n)
<1>1. PICK f : f = [v \in 0..(n - 1) |-> 1 + ((v + r) % n)]
  OBVIOUS
<1>2. ASSUME NEW x \in Int
      PROVE  x % n \in 0..(n - 1) /\ \E q \in Int : x = q * n + (x % n)
  <2>1. x % n \in 0..(n - 1) /\ x \div n \in Int /\ x = (x \div n) * n + (x % n)
    OBVIOUS
  <2> QED BY <2>1
<1>3. f \in [0..(n - 1) -> 1..n]
  <2>1. ASSUME NEW v \in 0..(n - 1)
        PROVE  1 + ((v + r) % n) \in 1..n
    <3>1. PICK e \in 0..(n - 1) : e = (v + r) % n
      <4>1. v + r \in Int
        OBVIOUS
      <4> QED BY <1>2, <4>1
    <3> QED BY <3>1
  <2> QED BY <1>1, <2>1
<1>4. ASSUME NEW v \in 0..(n - 1), NEW w \in 0..(n - 1), f[v] = f[w]
      PROVE  v = w
  <2>1. PICK x \in Int, y \in Int : x = v + r /\ y = w + r
    OBVIOUS
  <2>2. PICK d \in 0..(n - 1), e \in 0..(n - 1), p \in Int, q \in Int :
          d = x % n /\ e = y % n /\ x = p * n + d /\ y = q * n + e
    <3>1. (x % n \in 0..(n - 1)) /\ \E p \in Int : x = p * n + (x % n)
      BY <1>2
    <3>2. (y % n \in 0..(n - 1)) /\ \E q \in Int : y = q * n + (y % n)
      BY <1>2
    <3> QED BY <3>1, <3>2
  <2>3. d = e
    <3>1. f[v] = 1 + ((v + r) % n) /\ f[w] = 1 + ((w + r) % n)
      BY <1>1
    <3>2. f[v] = 1 + d /\ f[w] = 1 + e
      BY <2>1, <2>2, <3>1
    <3>3. 1 + d = 1 + e
      BY <1>4, <3>2
    <3>4. d \in Int /\ e \in Int
      OBVIOUS
    <3> QED BY <3>3, <3>4
  <2>4. PICK a, b \in Int : a = p * n /\ b = q * n
    OBVIOUS
  <2>5. x = a + d /\ y = b + e
    BY <2>2, <2>4
  <2>6. v - w = a - b
    BY <2>1, <2>3, <2>5
  <2>7. (p - q) * n = a - b
    BY <2>4
  <2>8. p - q = 0
    <3>1. -n < a - b /\ a - b < n
      BY <2>6
    <3>2. p - q \in Int /\ -n < (p - q) * n /\ (p - q) * n < n
      BY <2>7, <3>1
    <3> QED BY <3>2, SmallMultiple
  <2>9. a = b
    <3>1. p = q
      BY <2>8
    <3> QED BY <2>4, <3>1
  <2> QED BY <2>6, <2>9
<1>5. f \in Injection(0..(n - 1), 1..n)
  BY <1>3, <1>4 DEF Injection, IsInjective
<1>6. /\ IsFiniteSet(1..n) /\ Cardinality(1..n) = n
      /\ Cardinality(0..(n - 1)) = n
  BY FS_Interval
<1>7. f \in Surjection(0..(n - 1), 1..n)
  BY <1>5, <1>6, FS_Injection
<1> QED BY <1>1, <1>5, <1>7 DEF Bijection

-----------------------------------------------------------------------------
(* Parts of sums.                                                          *)

\* Induction over the first numbers, in the form of sets: a set of them that
\* has 0 and with a number the next one is all of them.
LEMMA AllReached ==
  ASSUME NEW n \in Nat, NEW P, 0 \in P, \A k \in 0..(n - 1) : k \in P => k + 1 \in P
  PROVE  \A k \in 0..n : k \in P
<1> DEFINE T == {k \in 0..n : k \notin P}
<1> SUFFICES ASSUME T # {} PROVE FALSE
  OBVIOUS
<1>1. PICK k \in T : \A l \in T : k <= l
  <2> HIDE DEF T
  <2>1. T \subseteq Nat
    BY DEF T
  <2> QED BY <2>1, LeastNumber
<1>2. PICK l \in 0..(n - 1) : l = k - 1 /\ k = l + 1
  OBVIOUS
<1>3. l \in 0..n /\ ~(k <= l)
  BY <1>2
<1> QED BY <1>1, <1>2, <1>3

\* The sum of the first numbers of a sequence grows by one of them at a time.
LEMMA SumOverNext ==
  ASSUME NEW k \in Nat, NEW f, Numbers(f, 1..(k + 1))
  PROVE  SumOver(f, 1..(k + 1)) = SumOver(f, 1..k) + f[k + 1]
<1>1. IsFiniteSet(1..(k + 1)) /\ k + 1 \in 1..(k + 1) /\ IsFiniteSet(1..k)
  BY FS_Interval
<1>2. (1..(k + 1)) \ {k + 1} = 1..k
  OBVIOUS
<1>3. SumOver(f, 1..(k + 1)) = f[k + 1] + SumOver(f, 1..k)
  BY <1>1, <1>2, SumOverSplit
<1>4. f[k + 1] \in Int /\ Numbers(f, 1..k)
  BY DEF Numbers
<1>5. SumOver(f, 1..k) \in Int
  BY <1>1, <1>4, SumOverType
<1> QED BY <1>3, <1>4, <1>5

\* h sends every element of S to its part.
PartedBy(S, I, h, part) ==
  /\ \A x \in S : h[x] \in I
  /\ \A i \in I : part[i] = {x \in S : h[x] = i}

\* sums holds the sum over each part.
SumsOfParts(f, part, I, sums) == \A i \in I : sums[i] = SumOver(f, part[i])

\* A sum is the sum over the parts.
LEMMA SumOverParts ==
  ASSUME NEW S, IsFiniteSet(S), NEW I, IsFiniteSet(I),
         NEW h, NEW part, PartedBy(S, I, h, part),
         NEW f, Numbers(f, S),
         NEW sums, SumsOfParts(f, part, I, sums)
  PROVE  SumOver(f, S) = SumOver(sums, I)
<1> DEFINE In(J) == {x \in S : h[x] \in J}
           D == {J \in SUBSET I : SumOver(f, In(J)) # SumOver(sums, J)}
<1>1. \A J : In(J) \subseteq S /\ IsFiniteSet(In(J)) /\ Numbers(f, In(J))
  BY FS_Subset DEF Numbers
<1>2. Numbers(sums, I)
  <2>1. ASSUME NEW i \in I
        PROVE  sums[i] \in Int
    <3>1. part[i] = In({i})
      BY DEF PartedBy
    <3> HIDE DEF In
    <3> QED BY <1>1, <3>1, SumOverType DEF SumsOfParts
  <2> QED BY <2>1 DEF Numbers
<1>3. ASSUME NEW J \in D
      PROVE  \E K \in D : K \subseteq J /\ K # J
  <2>1. J # {}
    <3> SUFFICES ASSUME J = {} PROVE FALSE
      OBVIOUS
    <3>1. In({}) = {}
      OBVIOUS
    <3> HIDE DEF In
    <3> QED BY <3>1, SumOverEmpty
  <2>2. PICK i \in J : TRUE
    BY <2>1
  <2>3. i \in I /\ J \in SUBSET I /\ IsFiniteSet(J) /\ Numbers(sums, J)
    BY <1>2, FS_Subset DEF Numbers
  <2>4. SumOver(sums, J) = sums[i] + SumOver(sums, J \ {i})
    BY <2>3, SumOverSplit
  <2>5. /\ In(J) = In({i}) \cup In(J \ {i}) /\ In({i}) \cap In(J \ {i}) = {}
        /\ part[i] = In({i})
    BY <2>3 DEF PartedBy
  <2>6. sums[i] = SumOver(f, In({i}))
    <3> HIDE DEF In
    <3> QED BY <2>3, <2>5 DEF SumsOfParts
  <2>7. SumOver(f, In(J)) = SumOver(f, In({i})) + SumOver(f, In(J \ {i}))
    <3>1. PICK one, rest : one = In({i}) /\ rest = In(J \ {i}) /\ In(J) = one \cup rest
      BY <2>5
    <3>2. /\ IsFiniteSet(one) /\ IsFiniteSet(rest) /\ one \cap rest = {}
          /\ Numbers(f, one \cup rest)
      <4> HIDE DEF In
      <4> QED BY <1>1, <2>5, <3>1
    <3>3. SumOver(f, one \cup rest) = SumOver(f, one) + SumOver(f, rest)
      BY <3>2, SumOverUnion
    <3> HIDE DEF In
    <3> QED BY <3>1, <3>3
  <2>8. SumOver(f, In(J \ {i})) # SumOver(sums, J \ {i})
    <3> HIDE DEF In
    <3> QED BY <2>4, <2>6, <2>7
  <2>9. J \ {i} \in D
    BY <2>8
  <2> QED BY <2>9
<1>4. D = {}
  <2>1. D \subseteq SUBSET I
    OBVIOUS
  <2> HIDE DEF D
  <2> QED BY <1>3, <2>1, NoSmallestDefect
<1>5. In(I) = S
  BY DEF PartedBy
<1> HIDE DEF In
<1> QED BY <1>4, <1>5

\* So is a number of elements.
LEMMA SumOverOnes ==
  ASSUME NEW S, IsFiniteSet(S), NEW f, \A x \in S : f[x] = 1
  PROVE  SumOver(f, S) = Cardinality(S)
<1>1. Numbers(f, S) /\ Cardinality(S) \in Nat
  BY FS_CardinalityType DEF Numbers
<1>2. SumOver(f, S) * 1 <= Cardinality(S) * 1
  BY <1>1, SumOverBound
<1>3. SumOver(f, S) * (-1) <= Cardinality(S) * (-1)
  BY <1>1, SumOverBound
<1>4. SumOver(f, S) \in Int
  BY <1>1, SumOverType
<1> QED BY <1>1, <1>2, <1>3, <1>4

\* A sum of differences is the difference of the sums.
LEMMA SumOverDifference ==
  ASSUME NEW S, IsFiniteSet(S), NEW f, NEW g, NEW d, Numbers(f, S), Numbers(g, S),
         \A x \in S : d[x] = f[x] - g[x]
  PROVE  SumOver(d, S) = SumOver(f, S) - SumOver(g, S)
<1> DEFINE D == {s \in SUBSET S : SumOver(d, s) # SumOver(f, s) - SumOver(g, s)}
<1>1. ASSUME NEW s \in D
      PROVE  \E r \in D : r \subseteq s /\ r # s
  <2>1. s # {}
    BY SumOverEmpty
  <2>2. PICK x \in s : TRUE
    BY <2>1
  <2>3. s \in SUBSET S /\ s \ {x} \in SUBSET S /\ IsFiniteSet(s) /\ IsFiniteSet(s \ {x})
    BY FS_Subset
  <2>4. /\ Numbers(f, s) /\ Numbers(g, s) /\ Numbers(d, s)
        /\ Numbers(f, s \ {x}) /\ Numbers(g, s \ {x}) /\ Numbers(d, s \ {x})
    BY <2>3 DEF Numbers
  <2>5. /\ SumOver(f, s) = f[x] + SumOver(f, s \ {x})
        /\ SumOver(g, s) = g[x] + SumOver(g, s \ {x})
        /\ SumOver(d, s) = d[x] + SumOver(d, s \ {x})
    BY <2>3, <2>4, SumOverSplit
  <2>6. /\ SumOver(f, s \ {x}) \in Int /\ SumOver(g, s \ {x}) \in Int
        /\ SumOver(d, s \ {x}) \in Int /\ f[x] \in Int /\ g[x] \in Int
        /\ d[x] = f[x] - g[x]
    BY <2>3, <2>4, SumOverType DEF Numbers
  <2>7. SumOver(d, s \ {x}) # SumOver(f, s \ {x}) - SumOver(g, s \ {x})
    BY <2>5, <2>6
  <2> QED BY <2>3, <2>7
<1>2. D = {}
  <2>1. D \subseteq SUBSET S
    OBVIOUS
  <2> HIDE DEF D
  <2> QED BY <1>1, <2>1, NoSmallestDefect
<1> QED BY <1>2

\* A sum is no further from 0 than the sum of bounds of what is summed.
LEMMA SumOverMagnitude ==
  ASSUME NEW S, IsFiniteSet(S), NEW f, NEW m, Numbers(f, S), Numbers(m, S),
         \A x \in S : f[x] <= m[x] /\ -f[x] <= m[x]
  PROVE  SumOver(f, S) <= SumOver(m, S) /\ -SumOver(f, S) <= SumOver(m, S)
<1> DEFINE Within(s) == SumOver(f, s) <= SumOver(m, s) /\ -SumOver(f, s) <= SumOver(m, s)
           D == {s \in SUBSET S : ~Within(s)}
<1>1. ASSUME NEW s \in D
      PROVE  \E r \in D : r \subseteq s /\ r # s
  <2>1. s # {}
    BY SumOverEmpty
  <2>2. PICK x \in s : TRUE
    BY <2>1
  <2>3. s \in SUBSET S /\ s \ {x} \in SUBSET S /\ IsFiniteSet(s) /\ IsFiniteSet(s \ {x})
    BY FS_Subset
  <2>4. Numbers(f, s) /\ Numbers(m, s) /\ Numbers(f, s \ {x}) /\ Numbers(m, s \ {x})
    BY <2>3 DEF Numbers
  <2>5. /\ SumOver(f, s) = f[x] + SumOver(f, s \ {x})
        /\ SumOver(m, s) = m[x] + SumOver(m, s \ {x})
    BY <2>3, <2>4, SumOverSplit
  <2>6. /\ SumOver(f, s \ {x}) \in Int /\ SumOver(m, s \ {x}) \in Int
        /\ f[x] \in Int /\ m[x] \in Int /\ f[x] <= m[x] /\ -f[x] <= m[x]
    BY <2>3, <2>4, SumOverType DEF Numbers
  <2>7. ~Within(s \ {x})
    BY <2>5, <2>6
  <2> QED BY <2>3, <2>7
<1>2. D = {}
  <2>1. D \subseteq SUBSET S
    OBVIOUS
  <2> HIDE DEF D
  <2> QED BY <1>1, <2>1, NoSmallestDefect
<1>3. S \notin D
  BY <1>2
<1> QED BY <1>3
=============================================================================
