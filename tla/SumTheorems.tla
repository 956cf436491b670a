------------------------------ MODULE SumTheorems ------------------------------
(***************************************************************************)
(* Induction over the naturals and over finite sets, with the induction    *)
(* hypothesis given as a set, and what follows by it for the sums of the   *)
(* library (SumFunction, SumFunctionOnSet) of integers over a finite set.  *)
(***************************************************************************)
EXTENDS FiniteSetTheorems, Sequences, TLAPS

\* ------------------------------------------------------------------ induction

\* A set of naturals that is not empty has a least element.
LEMMA LeastNatural ==
    ASSUME NEW S, S \subseteq Nat, S # {}
    PROVE  \E m \in S : \A n \in S : m <= n
  <1>1. OpToRel(<, Nat) = {p \in Nat \X Nat : p[1] < p[2]}
    BY SMT DEF OpToRel
  <1>2. PICK m \in S : \A n \in S : <<n, m>> \notin OpToRel(<, Nat)
    BY NatLessThanWellFounded, WFMin, Zenon
  <1>3. ASSUME NEW n \in S PROVE ~(n < m)
    BY <1>1, <1>2, Zenon
  <1> QED
    BY <1>3

\* A set of naturals that has 0 and every successor of its members is Nat.
LEMMA NaturalInduction ==
    ASSUME NEW T, 0 \in T, \A n \in Nat : n \in T => n + 1 \in T
    PROVE  Nat \subseteq T
  <1>1. SUFFICES ASSUME Nat \ T # {} PROVE FALSE
    OBVIOUS
  <1>2. PICK m \in Nat \ T : \A n \in Nat \ T : m <= n
    BY <1>1, LeastNatural
  <1>3. m # 0 /\ m - 1 \in Nat /\ (m - 1) + 1 = m
    BY <1>2
  <1>4. m - 1 \in T
    BY <1>2, <1>3
  <1> QED
    BY <1>2, <1>3, <1>4

\* A set of subsets of a finite S that has the empty one, and with a subset
\* every larger one by one element, has S.
LEMMA SubsetInduction ==
    ASSUME NEW S, IsFiniteSet(S), NEW T, {} \in T,
           \A s \in SUBSET S : s \in T => \A x \in S \ s : s \cup {x} \in T
    PROVE  S \in T
  <1> DEFINE Sizes == {Cardinality(S \ s) : s \in T \cap SUBSET S}
  <1>1. ASSUME NEW s \in SUBSET S
        PROVE  IsFiniteSet(S \ s) /\ Cardinality(S \ s) \in Nat
    BY FS_Subset, FS_CardinalityType
  <1>2. Sizes \subseteq Nat /\ Sizes # {}
    BY <1>1
  <1>3. PICK n \in Sizes : \A k \in Sizes : n <= k
    BY <1>2, LeastNatural
  <1>4. PICK s \in T \cap SUBSET S : n = Cardinality(S \ s)
    BY <1>3
  <1>5. SUFFICES ASSUME NEW x \in S \ s PROVE FALSE
    BY <1>4
  <1>6. s \cup {x} \in T \cap SUBSET S /\ S \ (s \cup {x}) = (S \ s) \ {x}
    BY <1>4, <1>5
  <1>7. Cardinality((S \ s) \ {x}) = Cardinality(S \ s) - 1
    BY <1>1, <1>4, <1>5, FS_RemoveElement
  <1>8. n <= Cardinality(S \ (s \cup {x}))
    BY <1>3, <1>6
  <1>9. n \in Nat /\ n <= n - 1
    BY <1>1, <1>4, <1>6, <1>7, <1>8
  <1> QED
    BY <1>9

\* ------------------------------------------------- the recursion of the library

\* The recursion by which the library sums f over the subsets of S.
Sums(f, S, g) ==
    g = [s \in SUBSET S |->
            IF s = {} THEN 0
            ELSE LET x == CHOOSE x \in s : TRUE IN f[x] + g[s \ {x}]]

\* A solution of the recursion, unfolded at one subset.
LEMMA SumUnfold ==
    ASSUME NEW f, NEW S
    PROVE  SumFunctionOnSet(f, S) = (CHOOSE g : Sums(f, S, g))[S]
  BY DEF SumFunctionOnSet, FoldFunctionOnSet, MapThenFoldSet, Sums

\* The recursion, as far as the subsets of at most n elements.
SumsUpTo(f, S, g, n) ==
    \A s \in SUBSET S : Cardinality(s) <= n =>
        g[s] = IF s = {} THEN 0 ELSE LET x == CHOOSE x \in s : TRUE IN f[x] + g[s \ {x}]

\* The size of a subset, and of one with an element less.
LEMMA SubsetSizes ==
    ASSUME NEW S, IsFiniteSet(S)
    PROVE  \A s \in SUBSET S :
              /\ Cardinality(s) \in Nat /\ (Cardinality(s) = 0 <=> s = {})
              /\ \A x \in s : s \ {x} \in SUBSET S /\ Cardinality(s \ {x}) = Cardinality(s) - 1
  <1> SUFFICES ASSUME NEW s \in SUBSET S
               PROVE  /\ Cardinality(s) \in Nat /\ (Cardinality(s) = 0 <=> s = {})
                      /\ \A x \in s : s \ {x} \in SUBSET S /\ Cardinality(s \ {x}) = Cardinality(s) - 1
    OBVIOUS
  <1>1. IsFiniteSet(s) /\ Cardinality(s) \in Nat /\ (Cardinality(s) = 0 <=> s = {})
    BY FS_Subset, FS_CardinalityType, FS_EmptySet
  <1>2. \A x \in s : Cardinality(s \ {x}) = Cardinality(s) - 1
    BY <1>1, FS_RemoveElement
  <1> QED
    BY <1>1, <1>2

\* The recursion has a solution: by induction on the size of the subsets.
LEMMA SumsExist ==
    ASSUME NEW f, NEW S, IsFiniteSet(S)
    PROVE  \E g : Sums(f, S, g)
  <1> DEFINE T == {n \in Nat : \E g : SumsUpTo(f, S, g, n)}
             Choice(s) == CHOOSE x \in s : TRUE
  <1>1. ASSUME NEW s \in SUBSET S
        PROVE  /\ Cardinality(s) \in Nat /\ (Cardinality(s) = 0 <=> s = {})
               /\ s # {} => /\ Choice(s) \in s
                            /\ s \ {Choice(s)} \in SUBSET S
                            /\ Cardinality(s \ {Choice(s)}) = Cardinality(s) - 1
    <2>1. PICK c : c = Choice(s)
      OBVIOUS
    <2>2. s # {} => c \in s
      BY <2>1
    <2>3. s # {} => s \ {c} \in SUBSET S /\ Cardinality(s \ {c}) = Cardinality(s) - 1
      BY <2>2, SubsetSizes
    <2>4. Cardinality(s) \in Nat /\ (Cardinality(s) = 0 <=> s = {})
      BY SubsetSizes
    <2> QED
      BY <2>1, <2>2, <2>3, <2>4
  <1>2. 0 \in T
    <2> DEFINE g == [s \in SUBSET S |-> 0]
    <2>1. ASSUME NEW s \in SUBSET S, Cardinality(s) <= 0
          PROVE  g[s] = 0 /\ s = {}
      <3>1. Cardinality(s) \in Nat /\ (Cardinality(s) = 0 <=> s = {})
        BY <1>1
      <3> QED
        BY <2>1, <3>1
    <2>2. SumsUpTo(f, S, g, 0)
      BY <2>1 DEF SumsUpTo
    <2> QED
      BY <2>2
  <1>3. ASSUME NEW n \in Nat, n \in T PROVE n + 1 \in T
    <2>1. PICK g : SumsUpTo(f, S, g, n)
      BY <1>3
    <2> DEFINE h == [s \in SUBSET S |-> IF Cardinality(s) = n + 1 THEN f[Choice(s)] + g[s \ {Choice(s)}] ELSE g[s]]
    <2>2. ASSUME NEW s \in SUBSET S, Cardinality(s) <= n + 1
          PROVE  h[s] = IF s = {} THEN 0 ELSE f[Choice(s)] + h[s \ {Choice(s)}]
      <3>1. CASE Cardinality(s) = n + 1
        <4>1. s # {} /\ Cardinality(s \ {Choice(s)}) = n /\ s \ {Choice(s)} \in SUBSET S
          BY <1>1, <3>1
        <4>2. h[s \ {Choice(s)}] = g[s \ {Choice(s)}]
          BY <4>1
        <4> QED
          BY <3>1, <4>1, <4>2
      <3>2. CASE Cardinality(s) # n + 1
        <4>1. Cardinality(s) <= n
          <5>1. Cardinality(s) \in Nat
            BY <1>1
          <5> QED
            BY <2>2, <3>2, <5>1
        <4>2. g[s] = IF s = {} THEN 0 ELSE f[Choice(s)] + g[s \ {Choice(s)}]
          BY <2>1, <4>1 DEF SumsUpTo
        <4>3. s # {} => h[s \ {Choice(s)}] = g[s \ {Choice(s)}]
          BY <1>1, <4>1
        <4> QED
          BY <3>2, <4>2, <4>3
      <3> QED
        BY <3>1, <3>2
    <2>3. SumsUpTo(f, S, h, n + 1)
      BY <2>2 DEF SumsUpTo
    <2> QED
      BY <2>3
  <1>4. Cardinality(S) \in T
    <2>1. Nat \subseteq T
      <3> HIDE DEF T
      <3> QED
        BY <1>2, <1>3, NaturalInduction
    <2> QED
      BY <2>1, FS_CardinalityType
  <1>5. PICK g : SumsUpTo(f, S, g, Cardinality(S))
    BY <1>4
  <1> DEFINE h == [s \in SUBSET S |-> g[s]]
  <1>6. ASSUME NEW s \in SUBSET S
        PROVE  h[s] = IF s = {} THEN 0 ELSE f[Choice(s)] + h[s \ {Choice(s)}]
    <2>1. Cardinality(s) <= Cardinality(S)
      BY FS_Subset
    <2>2. g[s] = IF s = {} THEN 0 ELSE f[Choice(s)] + g[s \ {Choice(s)}]
      BY <1>5, <2>1 DEF SumsUpTo
    <2> QED
      BY <1>1, <2>2
  <1>7. h = [s \in SUBSET S |-> IF s = {} THEN 0 ELSE f[Choice(s)] + h[s \ {Choice(s)}]]
    BY <1>6
  <1>8. Sums(f, S, h)
    BY <1>7 DEF Sums
  <1> QED
    BY <1>8

\* What the library's sum is a value of.
LEMMA SumsOf ==
    ASSUME NEW f, NEW S, IsFiniteSet(S)
    PROVE  \E g : Sums(f, S, g) /\ SumFunctionOnSet(f, S) = g[S]
  BY SumsExist, SumUnfold

\* The solution is an integer at every subset, and taking away any element,
\* not just the one the recursion chooses, takes away its value.
LEMMA SumsInt ==
    ASSUME NEW f, NEW S, IsFiniteSet(S), \A x \in S : f[x] \in Int, NEW g, Sums(f, S, g)
    PROVE  \A s \in SUBSET S : g[s] \in Int
  <1> DEFINE Choice(s) == CHOOSE x \in s : TRUE
             IntAt(n) == \A s \in SUBSET S : Cardinality(s) = n => g[s] \in Int
             T == {n \in Nat : IntAt(n)}
  <1>1. ASSUME NEW s \in SUBSET S
        PROVE  /\ Cardinality(s) \in Nat /\ (Cardinality(s) = 0 <=> s = {})
               /\ \A x \in s : s \ {x} \in SUBSET S /\ Cardinality(s \ {x}) = Cardinality(s) - 1
               /\ s # {} => Choice(s) \in s
    BY SubsetSizes
  <1>2. ASSUME NEW s \in SUBSET S
        PROVE  g[s] = IF s = {} THEN 0 ELSE f[Choice(s)] + g[s \ {Choice(s)}]
    BY DEF Sums
  <1>3. 0 \in T
    <2>1. g[{}] = 0
      BY <1>2
    <2>2. ASSUME NEW s \in SUBSET S, Cardinality(s) = 0 PROVE g[s] = 0
      <3>1. s = {}
        BY <2>2, SubsetSizes
      <3> QED
        BY <2>1, <3>1
    <2>3. IntAt(0)
      BY <2>2
    <2> QED
      BY <2>3
  <1>4. ASSUME NEW n \in Nat, n \in T PROVE n + 1 \in T
    <2>1. SUFFICES ASSUME NEW s \in SUBSET S, Cardinality(s) = n + 1 PROVE g[s] \in Int
      OBVIOUS
    <2>2. PICK c \in s : c = Choice(s)
      BY <1>1, <2>1
    <2>3. s \ {c} \in SUBSET S /\ Cardinality(s \ {c}) = n /\ s # {}
      BY <1>1, <2>1
    <2>4. g[s] = f[c] + g[s \ {c}] /\ f[c] \in Int
      BY <1>2, <2>2, <2>3
    <2>5. g[s \ {c}] \in Int
      BY <1>4, <2>3
    <2> QED
      BY <2>4, <2>5
  <1>5. Nat \subseteq T
    <2> HIDE DEF T
    <2> QED
      BY <1>3, <1>4, NaturalInduction
  <1> QED
    BY <1>1, <1>5

\* The same, for an element of the reader's choice.
LEMMA SumsRemove ==
    ASSUME NEW f, NEW S, IsFiniteSet(S), \A x \in S : f[x] \in Int, NEW g, Sums(f, S, g)
    PROVE  \A s \in SUBSET S : \A x \in s : g[s] = f[x] + g[s \ {x}]
  <1> DEFINE Choice(s) == CHOOSE x \in s : TRUE
             Good(n) == \A s \in SUBSET S : Cardinality(s) = n => \A x \in s : g[s] = f[x] + g[s \ {x}]
             T == {n \in Nat : Good(n)}
  <1>1. ASSUME NEW s \in SUBSET S
        PROVE  /\ Cardinality(s) \in Nat /\ (Cardinality(s) = 0 <=> s = {})
               /\ \A x \in s : s \ {x} \in SUBSET S /\ Cardinality(s \ {x}) = Cardinality(s) - 1
               /\ s # {} => Choice(s) \in s
    BY SubsetSizes
  <1>2. ASSUME NEW s \in SUBSET S
        PROVE  g[s] = IF s = {} THEN 0 ELSE f[Choice(s)] + g[s \ {Choice(s)}]
    BY DEF Sums
  <1>3. 0 \in T
    <2>1. Good(0)
      BY <1>1
    <2> QED
      BY <2>1
  <1>4. ASSUME NEW n \in Nat, n \in T PROVE n + 1 \in T
    <2>1. SUFFICES ASSUME NEW s \in SUBSET S, Cardinality(s) = n + 1, NEW x \in s
                   PROVE  g[s] = f[x] + g[s \ {x}]
      OBVIOUS
    <2>2. PICK c \in s : c = Choice(s)
      BY <1>1
    <2>3. g[s] = f[c] + g[s \ {c}]
      BY <1>2, <2>2
    <2>4. CASE x = c
      BY <2>3, <2>4
    <2>5. CASE x # c
      <3>1. PICK r \in SUBSET S : r = s \ {c, x}
        OBVIOUS
      <3>2. (s \ {c}) \ {x} = r /\ (s \ {x}) \ {c} = r
        BY <3>1
      <3>3. Good(n)
        BY <1>4
      <3>4. /\ s \ {c} \in SUBSET S /\ Cardinality(s \ {c}) = n /\ x \in s \ {c}
            /\ s \ {x} \in SUBSET S /\ Cardinality(s \ {x}) = n /\ c \in s \ {x}
        BY <1>1, <2>1, <2>5
      <3>5. g[s \ {c}] = f[x] + g[r]
        BY <3>2, <3>3, <3>4
      <3>6. g[s \ {x}] = f[c] + g[r]
        BY <3>2, <3>3, <3>4
      <3>7. f[x] \in Int /\ f[c] \in Int /\ g[r] \in Int
        BY SumsInt
      <3> QED
        BY <2>3, <3>5, <3>6, <3>7
    <2> QED
      BY <2>4, <2>5
  <1>5. Nat \subseteq T
    <2> HIDE DEF T
    <2> QED
      BY <1>3, <1>4, NaturalInduction
  <1> QED
    BY <1>1, <1>5, Zenon

\* ------------------------------------------------------------ sums over a set

\* Nothing sums to 0.
LEMMA SumOfNone ==
    ASSUME NEW f
    PROVE  SumFunctionOnSet(f, {}) = 0
  <1>1. IsFiniteSet({})
    BY FS_EmptySet
  <1>2. PICK g : Sums(f, {}, g) /\ SumFunctionOnSet(f, {}) = g[{}]
    BY <1>1, SumsOf
  <1> QED
    BY <1>2 DEF Sums

\* Solutions for functions that agree on a set agree on it.
LEMMA SolutionsAgree ==
    ASSUME NEW S, IsFiniteSet(S), NEW R, IsFiniteSet(R), NEW U, U \subseteq S, U \subseteq R,
           NEW f, NEW h, \A x \in U : f[x] = h[x], NEW g, Sums(f, S, g), NEW k, Sums(h, R, k)
    PROVE  g[U] = k[U]
  <1> DEFINE Agree(n) == \A s \in SUBSET U : Cardinality(s) = n => g[s] = k[s]
             T == {n \in Nat : Agree(n)}
  <1>1. IsFiniteSet(U)
    BY FS_Subset
  <1>2. g[{}] = 0 /\ k[{}] = 0
    BY DEF Sums
  <1>3. 0 \in T
    <2>1. ASSUME NEW s \in SUBSET U, Cardinality(s) = 0 PROVE g[s] = k[s]
      <3>1. s = {}
        BY <1>1, <2>1, SubsetSizes
      <3> QED
        BY <1>2, <3>1
    <2>2. Agree(0)
      BY <2>1
    <2> QED
      BY <2>2
  <1>4. ASSUME NEW n \in Nat, n \in T PROVE n + 1 \in T
    <2>1. ASSUME NEW s \in SUBSET U, Cardinality(s) = n + 1 PROVE g[s] = k[s]
      <3>1. s # {}
        BY <1>1, <2>1, SubsetSizes
      <3>2. PICK c : c = CHOOSE x \in s : TRUE
        OBVIOUS
      <3>3. c \in s
        BY <3>1, <3>2
      <3>4. g[s] = f[c] + g[s \ {c}]
        BY <3>1, <3>2 DEF Sums
      <3>5. k[s] = h[c] + k[s \ {c}]
        BY <3>1, <3>2 DEF Sums
      <3>6. s \ {c} \in SUBSET U /\ Cardinality(s \ {c}) = n
        BY <1>1, <2>1, <3>3, SubsetSizes
      <3>7. g[s \ {c}] = k[s \ {c}] /\ f[c] = h[c]
        BY <1>4, <3>3, <3>6
      <3> QED
        BY <3>4, <3>5, <3>7
    <2>2. Agree(n + 1)
      BY <2>1
    <2> QED
      BY <2>2
  <1>5. Nat \subseteq T
    <2> HIDE DEF T
    <2> QED
      BY <1>3, <1>4, NaturalInduction
  <1>6. Cardinality(U) \in T
    BY <1>1, <1>5, FS_CardinalityType
  <1> QED
    BY <1>6

\* Two functions that agree on a set have one sum there.
LEMMA SumAgrees ==
    ASSUME NEW S, IsFiniteSet(S), NEW f, NEW h, \A x \in S : f[x] = h[x]
    PROVE  SumFunctionOnSet(f, S) = SumFunctionOnSet(h, S)
  <1>1. PICK g : Sums(f, S, g) /\ SumFunctionOnSet(f, S) = g[S]
    BY SumsOf
  <1>2. PICK k : Sums(h, S, k) /\ SumFunctionOnSet(h, S) = k[S]
    BY SumsOf
  <1> QED
    BY <1>1, <1>2, SolutionsAgree

\* A sum of integers is the value at any element and the sum over the others.
LEMMA SumRemove ==
    ASSUME NEW S, IsFiniteSet(S), NEW f, \A x \in S : f[x] \in Int, NEW x \in S
    PROVE  /\ SumFunctionOnSet(f, S) = f[x] + SumFunctionOnSet(f, S \ {x})
           /\ SumFunctionOnSet(f, S \ {x}) \in Int
  <1>1. PICK g : Sums(f, S, g) /\ SumFunctionOnSet(f, S) = g[S]
    BY SumsOf
  <1>2. IsFiniteSet(S \ {x})
    BY FS_RemoveElement
  <1>3. PICK k : Sums(f, S \ {x}, k) /\ SumFunctionOnSet(f, S \ {x}) = k[S \ {x}]
    BY <1>2, SumsOf
  <1>4. g[S \ {x}] = k[S \ {x}]
    BY <1>1, <1>2, <1>3, SolutionsAgree
  <1>5. g[S] = f[x] + g[S \ {x}]
    BY <1>1, SumsRemove
  <1>6. g[S \ {x}] \in Int
    BY <1>1, SumsInt
  <1> QED
    BY <1>1, <1>3, <1>4, <1>5, <1>6

\* A sum of integers is one.
LEMMA SumInt ==
    ASSUME NEW S, IsFiniteSet(S), NEW f, \A x \in S : f[x] \in Int
    PROVE  SumFunctionOnSet(f, S) \in Int
  <1>1. PICK g : Sums(f, S, g) /\ SumFunctionOnSet(f, S) = g[S]
    BY SumsOf
  <1> QED
    BY <1>1, SumsInt

\* One more element adds its value.
LEMMA SumAdd ==
    ASSUME NEW S, IsFiniteSet(S), NEW x, x \notin S, NEW f, \A y \in S \cup {x} : f[y] \in Int
    PROVE  SumFunctionOnSet(f, S \cup {x}) = f[x] + SumFunctionOnSet(f, S)
  <1>1. PICK R : R = S \cup {x}
    OBVIOUS
  <1>2. IsFiniteSet(R) /\ x \in R /\ R \ {x} = S
    BY <1>1, FS_AddElement
  <1>3. SumFunctionOnSet(f, R) = f[x] + SumFunctionOnSet(f, R \ {x})
    BY <1>1, <1>2, SumRemove
  <1> QED
    BY <1>1, <1>2, <1>3

\* A sum of naturals is one, and at least any of them.
LEMMA SumNat ==
    ASSUME NEW S, IsFiniteSet(S), NEW f, \A x \in S : f[x] \in Nat
    PROVE  SumFunctionOnSet(f, S) \in Nat /\ \A x \in S : f[x] <= SumFunctionOnSet(f, S)
  <1> DEFINE T == {s \in SUBSET S : SumFunctionOnSet(f, s) \in Nat}
  <1>1. {} \in T
    BY SumOfNone
  <1>2. ASSUME NEW s \in SUBSET S, s \in T, NEW x \in S \ s
        PROVE  s \cup {x} \in T
    <2>1. SumFunctionOnSet(f, s \cup {x}) = f[x] + SumFunctionOnSet(f, s)
      <3>1. IsFiniteSet(s) /\ x \notin s /\ \A y \in s \cup {x} : f[y] \in Int
        BY FS_Subset
      <3> QED
        BY <3>1, SumAdd
    <2> QED
      BY <1>2, <2>1
  <1>3. ASSUME NEW s \in SUBSET S PROVE s \in T
    <2>1. IsFiniteSet(s)
      BY FS_Subset
    <2>2. \A r \in SUBSET s : r \in T => \A x \in s \ r : r \cup {x} \in T
      BY <1>2
    <2> HIDE DEF T
    <2> QED
      BY <1>1, <2>1, <2>2, SubsetInduction
  <1>4. ASSUME NEW x \in S PROVE f[x] <= SumFunctionOnSet(f, S)
    <2>1. SumFunctionOnSet(f, S) = f[x] + SumFunctionOnSet(f, S \ {x})
      BY SumRemove
    <2>2. SumFunctionOnSet(f, S \ {x}) \in Nat
      BY <1>3
    <2> QED
      BY <2>1, <2>2
  <1> QED
    BY <1>3, <1>4

\* Summing over the images of distinct elements is summing over the elements.
LEMMA SumReindexed ==
    ASSUME NEW S, IsFiniteSet(S), NEW R, NEW e \in [S -> R],
           \A x, y \in S : e[x] = e[y] => x = y, \A y \in R : \E x \in S : y = e[x],
           NEW f, NEW h, \A x \in S : h[x] = f[e[x]] /\ h[x] \in Int
    PROVE  SumFunctionOnSet(h, S) = SumFunctionOnSet(f, R)
  <1> DEFINE Image(s) == {e[x] : x \in s}
             T == {s \in SUBSET S : IsFiniteSet(Image(s)) /\ SumFunctionOnSet(h, s) = SumFunctionOnSet(f, Image(s))}
  <1>1. {} \in T
    <2>1. Image({}) = {}
      OBVIOUS
    <2> HIDE DEF Image
    <2> QED
      BY <2>1, SumOfNone, FS_EmptySet
  <1>2. ASSUME NEW s \in SUBSET S, s \in T, NEW x \in S \ s
        PROVE  s \cup {x} \in T
    <2>1. Image(s \cup {x}) = Image(s) \cup {e[x]} /\ e[x] \notin Image(s)
      OBVIOUS
    <2>2. /\ IsFiniteSet(s) /\ x \notin s /\ \A y \in s \cup {x} : h[y] \in Int
          /\ \A y \in Image(s) \cup {e[x]} : f[y] \in Int
      BY FS_Subset
    <2> HIDE DEF Image
    <2>3. IsFiniteSet(Image(s)) /\ IsFiniteSet(Image(s) \cup {e[x]})
      BY <1>2, FS_AddElement
    <2>4. SumFunctionOnSet(h, s \cup {x}) = h[x] + SumFunctionOnSet(h, s)
      BY <2>2, SumAdd
    <2>5. SumFunctionOnSet(f, Image(s) \cup {e[x]}) = f[e[x]] + SumFunctionOnSet(f, Image(s))
      BY <2>1, <2>2, <2>3, SumAdd
    <2> QED
      BY <1>2, <2>1, <2>3, <2>4, <2>5
  <1>3. S \in T
    <2>1. \A s \in SUBSET S : s \in T => \A x \in S \ s : s \cup {x} \in T
      BY <1>2
    <2> HIDE DEF T
    <2> QED
      BY <1>1, <2>1, SubsetInduction
  <1>4. R = Image(S)
    OBVIOUS
  <1> QED
    BY <1>3, <1>4

\* ----------------------------------------------------- sums of several functions

\* The sum of two functions is the sum of their sums.
LEMMA SumPlus ==
    ASSUME NEW S, IsFiniteSet(S), NEW f, NEW g, NEW h,
           \A x \in S : f[x] \in Int /\ g[x] \in Int /\ h[x] = f[x] + g[x]
    PROVE  SumFunctionOnSet(h, S) = SumFunctionOnSet(f, S) + SumFunctionOnSet(g, S)
  <1> DEFINE T == {s \in SUBSET S : SumFunctionOnSet(h, s) = SumFunctionOnSet(f, s) + SumFunctionOnSet(g, s)}
  <1>1. {} \in T
    BY SumOfNone
  <1>2. ASSUME NEW s \in SUBSET S, s \in T, NEW x \in S \ s
        PROVE  s \cup {x} \in T
    <2>1. IsFiniteSet(s)
      BY FS_Subset
    <2>2. \A y \in s \cup {x} : f[y] \in Int /\ g[y] \in Int /\ h[y] \in Int
      OBVIOUS
    <2>3. PICK a, b, c : /\ a = SumFunctionOnSet(f, s) /\ b = SumFunctionOnSet(g, s)
                         /\ c = SumFunctionOnSet(h, s)
      OBVIOUS
    <2>4. a \in Int /\ b \in Int /\ c = a + b
      BY <1>2, <2>1, <2>2, <2>3, SumInt
    <2>5. SumFunctionOnSet(f, s \cup {x}) = f[x] + a
      BY <2>1, <2>2, <2>3, SumAdd
    <2>6. SumFunctionOnSet(g, s \cup {x}) = g[x] + b
      BY <2>1, <2>2, <2>3, SumAdd
    <2>7. SumFunctionOnSet(h, s \cup {x}) = h[x] + c
      BY <2>1, <2>2, <2>3, SumAdd
    <2>8. h[x] + c = (f[x] + a) + (g[x] + b)
      BY <2>2, <2>4
    <2> QED
      BY <2>5, <2>6, <2>7, <2>8
  <1>3. \A s \in SUBSET S : s \in T => \A x \in S \ s : s \cup {x} \in T
    BY <1>2
  <1>4. S \in T
    <2> HIDE DEF T
    <2> QED
      BY <1>1, <1>3, SubsetInduction
  <1> QED
    BY <1>4

\* A function that is nowhere above another has no larger sum.
LEMMA SumAtMost ==
    ASSUME NEW S, IsFiniteSet(S), NEW f, NEW g,
           \A x \in S : f[x] \in Int /\ g[x] \in Int /\ f[x] <= g[x]
    PROVE  SumFunctionOnSet(f, S) <= SumFunctionOnSet(g, S)
  <1>1. PICK d : d = [x \in S |-> g[x] - f[x]]
    OBVIOUS
  <1>2. \A x \in S : d[x] \in Nat
    BY <1>1
  <1>3. \A x \in S : f[x] \in Int /\ d[x] \in Int /\ g[x] = f[x] + d[x]
    BY <1>1
  <1>4. SumFunctionOnSet(d, S) \in Nat
    BY <1>2, SumNat
  <1>5. SumFunctionOnSet(g, S) = SumFunctionOnSet(f, S) + SumFunctionOnSet(d, S)
    BY <1>3, SumPlus
  <1>6. SumFunctionOnSet(f, S) \in Int
    BY SumInt
  <1> QED
    BY <1>4, <1>5, <1>6

\* A constant sums to as many times it as there are elements.
LEMMA SumConstant ==
    ASSUME NEW S, IsFiniteSet(S), NEW c \in Int, NEW f, \A x \in S : f[x] = c
    PROVE  SumFunctionOnSet(f, S) = Cardinality(S) * c
  <1> DEFINE T == {s \in SUBSET S : SumFunctionOnSet(f, s) = Cardinality(s) * c}
  <1>1. {} \in T
    BY SumOfNone, FS_EmptySet
  <1>2. ASSUME NEW s \in SUBSET S, s \in T, NEW x \in S \ s
        PROVE  s \cup {x} \in T
    <2>1. IsFiniteSet(s)
      BY FS_Subset
    <2>2. PICK n \in Nat : n = Cardinality(s)
      BY <2>1, FS_CardinalityType
    <2>3. Cardinality(s \cup {x}) = n + 1
      BY <2>1, <2>2, FS_AddElement
    <2>4. SumFunctionOnSet(f, s \cup {x}) = c + n * c
      <3>1. \A y \in s \cup {x} : f[y] \in Int
        OBVIOUS
      <3>2. SumFunctionOnSet(f, s \cup {x}) = f[x] + SumFunctionOnSet(f, s)
        BY <2>1, <3>1, SumAdd
      <3>3. SumFunctionOnSet(f, s) = n * c
        BY <1>2, <2>2
      <3> QED
        BY <3>2, <3>3
    <2>5. c + n * c = (n + 1) * c
      OBVIOUS
    <2> QED
      BY <2>3, <2>4, <2>5
  <1>3. \A s \in SUBSET S : s \in T => \A x \in S \ s : s \cup {x} \in T
    BY <1>2
  <1>4. S \in T
    <2> HIDE DEF T
    <2> QED
      BY <1>1, <1>3, SubsetInduction
  <1> QED
    BY <1>4

\* What is 0 outside a subset sums over the subset.
LEMMA SumWhere ==
    ASSUME NEW S, IsFiniteSet(S), NEW A \in SUBSET S, NEW f,
           \A x \in S : f[x] \in Int, \A x \in S \ A : f[x] = 0
    PROVE  SumFunctionOnSet(f, S) = SumFunctionOnSet(f, A)
  <1> DEFINE T == {s \in SUBSET (S \ A) : SumFunctionOnSet(f, A \cup s) = SumFunctionOnSet(f, A)}
  <1>0. IsFiniteSet(A) /\ IsFiniteSet(S \ A) /\ SumFunctionOnSet(f, A) \in Int
    BY FS_Subset, SumInt
  <1>1. {} \in T
    <2>1. A \cup {} = A
      OBVIOUS
    <2> QED
      BY <2>1
  <1>2. ASSUME NEW s \in SUBSET (S \ A), s \in T, NEW x \in (S \ A) \ s
        PROVE  s \cup {x} \in T
    <2>1. PICK r \in SUBSET S : r = A \cup s
      OBVIOUS
    <2>2. PICK u : u = r \cup {x}
      OBVIOUS
    <2>3. IsFiniteSet(r) /\ x \notin r /\ \A y \in r \cup {x} : f[y] \in Int
      BY <2>1, FS_Subset
    <2>4. SumFunctionOnSet(f, u) = f[x] + SumFunctionOnSet(f, r)
      BY <2>2, <2>3, SumAdd
    <2>5. f[x] = 0 /\ SumFunctionOnSet(f, r) = SumFunctionOnSet(f, A)
      BY <1>2, <2>1
    <2>6. SumFunctionOnSet(f, u) = SumFunctionOnSet(f, A)
      BY <1>0, <2>4, <2>5
    <2>7. A \cup (s \cup {x}) = u /\ s \cup {x} \in SUBSET (S \ A)
      BY <2>1, <2>2
    <2> QED
      BY <2>6, <2>7
  <1>3. \A s \in SUBSET (S \ A) : s \in T => \A x \in (S \ A) \ s : s \cup {x} \in T
    BY <1>2
  <1>4. (S \ A) \in T
    <2> HIDE DEF T
    <2> QED
      BY <1>0, <1>1, <1>3, SubsetInduction
  <1>5. A \cup (S \ A) = S
    OBVIOUS
  <1> QED
    BY <1>4, <1>5

\* A table of integers f, with the rows S and the columns R, and the same
\* table g by columns; and the sums of the rows of a table.
Transposed(f, g, S, R) == \A x \in S : \A y \in R : f[x][y] \in Int /\ g[y][x] = f[x][y]
RowSums(f, S, R, sums) == \A x \in S : sums[x] = SumFunctionOnSet(f[x], R)

\* The sums of the rows of a table and those of its columns sum up to the same.
LEMMA SumSwap ==
    ASSUME NEW S, IsFiniteSet(S), NEW R, IsFiniteSet(R), NEW f, NEW g, Transposed(f, g, S, R),
           NEW rows, RowSums(f, S, R, rows), NEW cols, RowSums(g, R, S, cols)
    PROVE  SumFunctionOnSet(rows, S) = SumFunctionOnSet(cols, R)
  <1> USE DEF Transposed, RowSums
  <1> DEFINE col(s) == [y \in R |-> SumFunctionOnSet(g[y], s)]
             T == {s \in SUBSET S : SumFunctionOnSet(rows, s) = SumFunctionOnSet(col(s), R)}
  <1>0. \A x \in S : rows[x] \in Int
    BY SumInt
  <1>1. {} \in T
    <2>1. \A y \in R : col({})[y] = 0
      BY SumOfNone
    <2>2. SumFunctionOnSet(col({}), R) = Cardinality(R) * 0
      <3> HIDE DEF col
      <3> QED
        BY <2>1, SumConstant
    <2>3. Cardinality(R) * 0 = 0
      BY FS_CardinalityType
    <2> HIDE DEF col
    <2> QED
      BY <2>2, <2>3, SumOfNone
  <1>2. ASSUME NEW s \in SUBSET S, s \in T, NEW x \in S \ s
        PROVE  s \cup {x} \in T
    <2>1. IsFiniteSet(s)
      BY FS_Subset
    <2>2. SumFunctionOnSet(rows, s \cup {x}) = rows[x] + SumFunctionOnSet(rows, s)
      <3>1. \A y \in s \cup {x} : rows[y] \in Int
        BY <1>0
      <3> QED
        BY <2>1, <3>1, SumAdd
    <2>3. ASSUME NEW y \in R
          PROVE  /\ f[x][y] \in Int /\ col(s)[y] \in Int
                 /\ col(s \cup {x})[y] = f[x][y] + col(s)[y]
      <3>1. \A z \in s \cup {x} : g[y][z] \in Int
        OBVIOUS
      <3>2. SumFunctionOnSet(g[y], s \cup {x}) = g[y][x] + SumFunctionOnSet(g[y], s)
        BY <2>1, <3>1, SumAdd
      <3>3. SumFunctionOnSet(g[y], s) \in Int
        BY <2>1, <3>1, SumInt
      <3> QED
        BY <3>2, <3>3
    <2>4. SumFunctionOnSet(col(s \cup {x}), R) = SumFunctionOnSet(f[x], R) + SumFunctionOnSet(col(s), R)
      <3>1. PICK a, b, c : a = f[x] /\ b = col(s) /\ c = col(s \cup {x})
        OBVIOUS
      <3>2. \A y \in R : a[y] \in Int /\ b[y] \in Int /\ c[y] = a[y] + b[y]
        BY <2>3, <3>1
      <3>3. SumFunctionOnSet(c, R) = SumFunctionOnSet(a, R) + SumFunctionOnSet(b, R)
        BY <3>2, SumPlus
      <3> QED
        BY <3>1, <3>3
    <2>5. SumFunctionOnSet(rows, s) = SumFunctionOnSet(col(s), R) /\ rows[x] = SumFunctionOnSet(f[x], R)
      BY <1>2
    <2> HIDE DEF col
    <2> QED
      BY <2>2, <2>4, <2>5
  <1>3. \A s \in SUBSET S : s \in T => \A x \in S \ s : s \cup {x} \in T
    BY <1>2
  <1>4. S \in T
    <2> HIDE DEF T
    <2> QED
      BY <1>1, <1>3, SubsetInduction
  <1>5. \A y \in R : col(S)[y] = cols[y]
    OBVIOUS
  <1>6. SumFunctionOnSet(col(S), R) = SumFunctionOnSet(cols, R)
    <2> HIDE DEF col
    <2> QED
      BY <1>5, SumAgrees
  <1> QED
    BY <1>4, <1>6

\* ---------------------------------------------------------- sums of a sequence

\* The sum of a sequence of naturals is one, and 0 for the empty sequence.
LEMMA SeqSumType ==
    ASSUME NEW s \in Seq(Nat)
    PROVE  SumFunction(s) \in Nat /\ (s = <<>> => SumFunction(s) = 0)
  <1>1. DOMAIN s = 1 .. Len(s) /\ Len(s) \in Nat /\ \A i \in DOMAIN s : s[i] \in Nat
    OBVIOUS
  <1>2. IsFiniteSet(DOMAIN s)
    BY <1>1, FS_Interval
  <1>3. s = <<>> => DOMAIN s = {}
    OBVIOUS
  <1> QED
    BY <1>1, <1>2, <1>3, SumNat, SumOfNone DEF SumFunction

\* What is appended is added.
LEMMA SeqSumAppend ==
    ASSUME NEW s \in Seq(Nat), NEW v \in Nat
    PROVE  SumFunction(Append(s, v)) = SumFunction(s) + v
  <1>1. PICK n \in Nat : n = Len(s)
    OBVIOUS
  <1>2. PICK r : r = Append(s, v)
    OBVIOUS
  <1>3. DOMAIN s = 1 .. n /\ DOMAIN r = 1 .. n + 1 /\ r[n + 1] = v /\ \A i \in 1 .. n : r[i] = s[i]
    BY <1>1, <1>2
  <1>4. IsFiniteSet(1 .. n)
    BY FS_Interval
  <1>5. 1 .. n + 1 = (1 .. n) \cup {n + 1} /\ n + 1 \notin 1 .. n
    OBVIOUS
  <1>6. \A i \in (1 .. n) \cup {n + 1} : r[i] \in Int
    BY <1>3
  <1>7. SumFunctionOnSet(r, (1 .. n) \cup {n + 1}) = r[n + 1] + SumFunctionOnSet(r, 1 .. n)
    BY <1>4, <1>5, <1>6, SumAdd
  <1>8. SumFunctionOnSet(r, 1 .. n) = SumFunctionOnSet(s, 1 .. n)
    BY <1>3, <1>4, SumAgrees
  <1>9. SumFunction(r) = SumFunctionOnSet(r, (1 .. n) \cup {n + 1}) /\ SumFunction(s) = SumFunctionOnSet(s, 1 .. n)
    BY <1>3, <1>5 DEF SumFunction
  <1>10. SumFunction(s) \in Nat
    BY SeqSumType
  <1> QED
    BY <1>2, <1>3, <1>7, <1>8, <1>9, <1>10

\* What leaves at the head is subtracted.
LEMMA SeqSumTail ==
    ASSUME NEW s \in Seq(Nat), s # <<>>
    PROVE  SumFunction(s) = Head(s) + SumFunction(Tail(s))
  <1>1. PICK n \in Nat : n + 1 = Len(s)
    <2>1. Len(s) \in Nat \ {0}
      OBVIOUS
    <2> QED
      BY <2>1
  <1>2. PICK r : r = Tail(s)
    OBVIOUS
  <1>3. DOMAIN s = 1 .. n + 1 /\ DOMAIN r = 1 .. n /\ Head(s) = s[1] /\ \A i \in 1 .. n : r[i] = s[i + 1]
    BY <1>1, <1>2
  <1>4. IsFiniteSet(1 .. n) /\ IsFiniteSet(1 .. n + 1)
    BY FS_Interval
  <1> DEFINE e == [i \in 1 .. n |-> i + 1]
  <1>5. PICK D, R : D = 1 .. n /\ R = (1 .. n + 1) \ {1}
    OBVIOUS
  <1>6. /\ IsFiniteSet(D) /\ e \in [D -> R]
        /\ \A i, j \in D : e[i] = e[j] => i = j
        /\ \A i \in D : r[i] = s[e[i]] /\ r[i] \in Int
    BY <1>3, <1>4, <1>5
  <1>7. \A j \in R : \E i \in D : j = e[i]
    <2>1. ASSUME NEW j \in R PROVE j - 1 \in D /\ e[j - 1] = j
      BY <1>5
    <2> QED
      BY <2>1
  <1> HIDE DEF e
  <1>9. SumFunctionOnSet(r, D) = SumFunctionOnSet(s, R)
    BY <1>6, <1>7, SumReindexed
  <1>8. SumFunctionOnSet(s, 1 .. n + 1) = s[1] + SumFunctionOnSet(s, (1 .. n + 1) \ {1})
    <2>1. 1 \in 1 .. n + 1 /\ \A i \in 1 .. n + 1 : s[i] \in Int
      BY <1>3
    <2> QED
      BY <1>4, <2>1, SumRemove
  <1> QED
    BY <1>2, <1>3, <1>5, <1>8, <1>9 DEF SumFunction

\* The sum over a sequence of what W says each element counts for.
SumBy(s, W) == SumFunction([i \in DOMAIN s |-> W[s[i]]])

\* v is what each element of s counts for.
CountedBy(s, W, v) ==
    /\ Len(v) = Len(s) /\ SumBy(s, W) = SumFunction(v)
    /\ \A i \in 1 .. Len(s) : v[i] = W[s[i]]

\* Such a sequence of the values exists.
LEMMA SumByCounts ==
    ASSUME NEW E, NEW W \in [E -> Nat], NEW s \in Seq(E)
    PROVE  \E v \in Seq(Nat) : CountedBy(s, W, v)
  <1>1. PICK v : v = [i \in DOMAIN s |-> W[s[i]]]
    OBVIOUS
  <1>2. PICK n \in Nat : n = Len(s)
    OBVIOUS
  <1>3. DOMAIN s = 1 .. n /\ \A i \in 1 .. n : s[i] \in E
    BY <1>2
  <1>4. v \in [1 .. n -> Nat] /\ \A i \in 1 .. n : v[i] = W[s[i]]
    BY <1>1, <1>3
  <1>5. v \in Seq(Nat) /\ Len(v) = n
    BY <1>4
  <1> QED
    BY <1>1, <1>2, <1>4, <1>5 DEF SumBy, CountedBy

\* What a sequence is worth is a natural number, 0 for the empty one.
LEMMA SumByType ==
    ASSUME NEW E, NEW W \in [E -> Nat], NEW s \in Seq(E)
    PROVE  SumBy(s, W) \in Nat /\ (s = <<>> => SumBy(s, W) = 0)
  <1>1. PICK v \in Seq(Nat) : CountedBy(s, W, v)
    BY SumByCounts
  <1>2. s = <<>> => v = <<>>
    BY <1>1 DEF CountedBy
  <1> QED
    BY <1>1, <1>2, SeqSumType DEF CountedBy

\* An appended element adds its value.
LEMMA SumByAppend ==
    ASSUME NEW E, NEW W \in [E -> Nat], NEW s \in Seq(E), NEW e \in E
    PROVE  SumBy(Append(s, e), W) = SumBy(s, W) + W[e]
  <1>0. Append(s, e) \in Seq(E)
    OBVIOUS
  <1>1. PICK r \in Seq(E) : r = Append(s, e)
    BY <1>0
  <1>2. PICK v \in Seq(Nat) : CountedBy(s, W, v)
    BY SumByCounts
  <1>3. PICK u \in Seq(Nat) : CountedBy(r, W, u)
    BY SumByCounts
  <1>4. PICK n \in Nat : n = Len(s)
    OBVIOUS
  <1>5. Len(r) = n + 1 /\ r[n + 1] = e /\ \A i \in 1 .. n : r[i] = s[i]
    BY <1>1, <1>4
  <1>6. W[e] \in Nat
    OBVIOUS
  <1>7. \A i \in 1 .. n + 1 : u[i] = Append(v, W[e])[i]
    BY <1>2, <1>3, <1>4, <1>5, <1>6, SMTT(30) DEF CountedBy
  <1>8. Append(v, W[e]) \in Seq(Nat) /\ Len(Append(v, W[e])) = n + 1 /\ Len(u) = n + 1
    BY <1>2, <1>3, <1>4, <1>5, <1>6 DEF CountedBy
  <1>9. u = Append(v, W[e])
    BY <1>7, <1>8
  <1> QED
    BY <1>1, <1>2, <1>3, <1>6, <1>9, SeqSumAppend DEF CountedBy

\* The head takes its value with it.
LEMMA SumByTail ==
    ASSUME NEW E, NEW W \in [E -> Nat], NEW s \in Seq(E), s # <<>>
    PROVE  SumBy(s, W) = W[Head(s)] + SumBy(Tail(s), W)
  <1>0. Tail(s) \in Seq(E)
    OBVIOUS
  <1>1. PICK r \in Seq(E) : r = Tail(s)
    BY <1>0
  <1>2. PICK v \in Seq(Nat) : CountedBy(s, W, v)
    BY SumByCounts
  <1>3. PICK u \in Seq(Nat) : CountedBy(r, W, u)
    BY SumByCounts
  <1>4. PICK n \in Nat : n + 1 = Len(s)
    <2>1. Len(s) - 1 \in Nat /\ (Len(s) - 1) + 1 = Len(s)
      OBVIOUS
    <2> QED
      BY <2>1, Zenon
  <1>5. Len(r) = n /\ Head(s) = s[1] /\ \A i \in 1 .. n : r[i] = s[i + 1]
    BY <1>1, <1>4
  <1>6. v # <<>> /\ Head(v) = W[Head(s)]
    BY <1>2, <1>4, <1>5 DEF CountedBy
  <1>7. Tail(v) \in Seq(Nat)
    BY <1>6
  <1>12. PICK x \in Seq(Nat) : x = Tail(v)
    BY <1>7
  <1>8. Len(x) = n /\ \A i \in 1 .. n : x[i] = v[i + 1]
    BY <1>2, <1>4, <1>6, <1>12 DEF CountedBy
  <1>9. ASSUME NEW i \in 1 .. n PROVE u[i] = x[i]
    <2>1. i + 1 \in 1 .. Len(s) /\ i \in 1 .. Len(r)
      BY <1>4, <1>5
    <2>2. u[i] = W[r[i]] /\ v[i + 1] = W[s[i + 1]]
      BY <1>2, <1>3, <2>1 DEF CountedBy
    <2> QED
      BY <1>5, <1>8, <2>2
  <1>10. u = x
    BY <1>3, <1>5, <1>8, <1>9 DEF CountedBy
  <1> QED
    BY <1>1, <1>2, <1>3, <1>6, <1>12, <1>10, SeqSumTail DEF CountedBy
================================================================================
