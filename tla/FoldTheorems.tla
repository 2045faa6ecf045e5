----------------------------- MODULE FoldTheorems -----------------------------
(***************************************************************************)
(* Recursion on the size of a finite set, without operator parameters: the *)
(* sums the properties are stated with, and what changes them.             *)
(***************************************************************************)
EXTENDS Functions, FiniteSets, FiniteSetTheorems, WellFoundedInduction, TLAPS

-----------------------------------------------------------------------------
(* Natural numbers                                                         *)

\* A set of natural numbers has a least one.
LEMMA LeastNumber ==
  ASSUME NEW T, T \subseteq Nat, T # {}
  PROVE  \E n \in T : \A m \in T : n <= m
<1>1. PICK n \in T : \A m \in T : <<m, n>> \notin OpToRel(<, Nat)
  BY NatLessThanWellFounded, WFMin, Zenon
<1>2. \A m \in T : <<m, n>> \in Nat \X Nat
  OBVIOUS
<1>3. \A m \in T : m < n => <<m, n>> \in OpToRel(<, Nat)
  BY <1>2 DEF OpToRel
<1>4. \A m \in T : ~(m < n)
  BY <1>1, <1>3
<1> QED  BY <1>4

\* A set with zero and the successor of each of its numbers has all of them.
LEMMA Successors ==
  ASSUME NEW T, 0 \in T, \A n \in Nat : n \in T => n + 1 \in T
  PROVE  Nat \subseteq T
<1> SUFFICES ASSUME ~(Nat \subseteq T)
             PROVE  FALSE
  OBVIOUS
<1> DEFINE Missing == Nat \ T
<1>1. Missing \subseteq Nat /\ Missing # {}
  OBVIOUS
<1>2. PICK n \in Missing : \A m \in Missing : n <= m
  <2> HIDE DEF Missing
  <2> QED  BY <1>1, LeastNumber
<1>3. n \in Nat /\ n # 0 /\ n - 1 \in Nat /\ n = (n - 1) + 1
  OBVIOUS
<1>4. n - 1 \notin T
  BY <1>3
<1> QED  BY <1>2, <1>3, <1>4

-----------------------------------------------------------------------------
(* Folds                                                                   *)

\* total gives every subset of whole what is reached from base by taking its
\* elements away in the order pick takes them.
FoldsUp(total, whole, pick, step, base) ==
  \A s \in SUBSET whole :
    total[s] = IF s = {} THEN base ELSE step[<<pick[s], total[s \ {pick[s]}]>>]

\* pick takes an element of each set that has any.
Picks(pick, whole) == \A s \in SUBSET whole : s # {} => pick[s] \in s

\* A set without the element that was picked.
LEMMA OneLess ==
  ASSUME NEW whole, IsFiniteSet(whole), NEW s \in SUBSET whole, NEW x \in s
  PROVE  /\ IsFiniteSet(s) /\ s \ {x} \in SUBSET whole
         /\ Cardinality(s) \in Nat \ {0}
         /\ Cardinality(s \ {x}) = Cardinality(s) - 1
<1>1. IsFiniteSet(s)
  BY FS_Subset
<1>2. Cardinality(s) \in Nat /\ Cardinality(s \ {x}) = Cardinality(s) - 1
  BY <1>1, FS_RemoveElement, FS_CardinalityType
<1>3. Cardinality(s) # 0
  BY <1>1, FS_EmptySet
<1> QED  BY <1>1, <1>2, <1>3

\* There is such a fold: one that is right for sets of up to n elements gives
\* one that is right for sets of n + 1.
LEMMA FoldExists ==
  ASSUME NEW whole, IsFiniteSet(whole), NEW V, NEW base \in V,
         NEW step \in [whole \X V -> V], NEW pick, Picks(pick, whole)
  PROVE  \E total \in [SUBSET whole -> V] : FoldsUp(total, whole, pick, step, base)
<1> DEFINE Next(total, s) ==
             IF s = {} THEN base ELSE step[<<pick[s], total[s \ {pick[s]}]>>]
           RightUpTo(total, n) ==
             \A s \in SUBSET whole : Cardinality(s) <= n => total[s] = Next(total, s)
           Sizes == {n \in Nat : \E total \in [SUBSET whole -> V] : RightUpTo(total, n)}
<1>1. ASSUME NEW total \in [SUBSET whole -> V], NEW s \in SUBSET whole
      PROVE  Next(total, s) \in V
  BY <1>1 DEF Picks
<1>2. 0 \in Sizes
  <2> DEFINE total == [s \in SUBSET whole |-> base]
  <2>1. ASSUME NEW s \in SUBSET whole, Cardinality(s) <= 0
        PROVE  s = {}
    <3>1. s # {} => Cardinality(s) \in Nat \ {0}
      BY OneLess
    <3> QED  BY <2>1, <3>1
  <2>2. RightUpTo(total, 0)
    BY <2>1
  <2>3. total \in [SUBSET whole -> V]
    OBVIOUS
  <2> HIDE DEF total, RightUpTo
  <2> QED  BY <2>2, <2>3
<1>3. ASSUME NEW n \in Nat, n \in Sizes
      PROVE  n + 1 \in Sizes
  <2>1. PICK old \in [SUBSET whole -> V] : RightUpTo(old, n)
    BY <1>3
  <2> DEFINE new == [s \in SUBSET whole |-> Next(old, s)]
  <2>2. new \in [SUBSET whole -> V]
    BY <1>1
  <2>3. ASSUME NEW s \in SUBSET whole, Cardinality(s) <= n + 1
        PROVE  new[s] = Next(new, s)
    <3>1. CASE s = {}
      BY <3>1
    <3>2. CASE s # {}
      <4> DEFINE r == s \ {pick[s]}
      <4>1. pick[s] \in s
        BY <3>2 DEF Picks
      <4>2. r \in SUBSET whole /\ Cardinality(r) = Cardinality(s) - 1
            /\ Cardinality(s) \in Nat
        <5> DEFINE x == pick[s]
        <5> HIDE DEF x, new, Next
        <5>1. x \in s
          BY <4>1 DEF x
        <5>2. s \ {x} \in SUBSET whole /\ Cardinality(s \ {x}) = Cardinality(s) - 1
              /\ Cardinality(s) \in Nat
          BY <5>1, OneLess
        <5> QED  BY <5>2 DEF x
      <4>3. Cardinality(r) <= n
        BY <2>3, <4>2
      <4>4. old[r] = Next(old, r)
        BY <2>1, <4>2, <4>3
      <4>5. new[r] = Next(old, r)
        BY <4>2
      <4>6. new[s] = step[<<pick[s], old[r]>>]
        BY <3>2
      <4>7. Next(new, s) = step[<<pick[s], new[r]>>]
        BY <3>2
      <4> HIDE DEF new, Next, r
      <4> QED  BY <4>4, <4>5, <4>6, <4>7
    <3> QED  BY <3>1, <3>2
  <2>4. RightUpTo(new, n + 1)
    <3> HIDE DEF new, Next
    <3> QED  BY <2>3
  <2>5. n + 1 \in Nat
    OBVIOUS
  <2> HIDE DEF new, RightUpTo
  <2> QED  BY <2>2, <2>4, <2>5
<1>4. Cardinality(whole) \in Sizes
  <2>1. Cardinality(whole) \in Nat
    BY FS_CardinalityType
  <2> HIDE DEF Sizes
  <2> QED  BY <1>2, <1>3, <2>1, Successors
<1>5. PICK total \in [SUBSET whole -> V] : RightUpTo(total, Cardinality(whole))
  BY <1>4
<1>6. ASSUME NEW s \in SUBSET whole
      PROVE  Cardinality(s) <= Cardinality(whole)
  BY FS_Subset
<1>7. FoldsUp(total, whole, pick, step, base)
  BY <1>5, <1>6 DEF FoldsUp
<1> QED  BY <1>7

\* Induction over the subsets of a finite set: what holds of a set when it
\* holds of it without any one of its elements holds of them all.
LEMMA AllSubsets ==
  ASSUME NEW whole, IsFiniteSet(whole), NEW good,
         \A s \in SUBSET whole : (\A x \in s : s \ {x} \in good) => s \in good
  PROVE  SUBSET whole \subseteq good
<1> DEFINE Sizes == {n \in Nat : \A s \in SUBSET whole : Cardinality(s) = n => s \in good}
<1>1. 0 \in Sizes
  <2>1. ASSUME NEW s \in SUBSET whole, Cardinality(s) = 0
        PROVE  s \in good
    <3>1. s # {} => Cardinality(s) \in Nat \ {0}
      BY OneLess
    <3>2. s = {}
      BY <2>1, <3>1
    <3> QED  BY <3>2
  <2> QED  BY <2>1
<1>2. ASSUME NEW n \in Nat, n \in Sizes
      PROVE  n + 1 \in Sizes
  <2>1. ASSUME NEW s \in SUBSET whole, Cardinality(s) = n + 1
        PROVE  s \in good
    <3>1. ASSUME NEW x \in s
          PROVE  s \ {x} \in good
      <4>1. s \ {x} \in SUBSET whole /\ Cardinality(s \ {x}) = n
        BY <2>1, OneLess
      <4> QED  BY <1>2, <4>1
    <3> QED  BY <3>1
  <2> QED  BY <2>1
<1>3. Nat \subseteq Sizes
  <2> HIDE DEF Sizes
  <2> QED  BY <1>1, <1>2, Successors
<1>4. ASSUME NEW s \in SUBSET whole
      PROVE  Cardinality(s) \in Nat
  BY FS_Subset, FS_CardinalityType
<1> QED  BY <1>3, <1>4

\* There is only one fold: two of the same elements give the same.
LEMMA FoldUnique ==
  ASSUME NEW whole, IsFiniteSet(whole), NEW base, NEW step,
         NEW pick, Picks(pick, whole),
         NEW one, FoldsUp(one, whole, pick, step, base),
         NEW other, FoldsUp(other, whole, pick, step, base)
  PROVE  \A s \in SUBSET whole : one[s] = other[s]
<1> DEFINE good == {s \in SUBSET whole : one[s] = other[s]}
<1>1. ASSUME NEW s \in SUBSET whole, \A x \in s : s \ {x} \in good
      PROVE  s \in good
  <2>1. CASE s = {}
    BY <2>1 DEF FoldsUp
  <2>2. CASE s # {}
    <3>1. pick[s] \in s
      BY <2>2 DEF Picks
    <3> DEFINE r == s \ {pick[s]}
    <3>2. one[r] = other[r]
      BY <1>1, <3>1
    <3>3. /\ one[s] = step[<<pick[s], one[r]>>]
          /\ other[s] = step[<<pick[s], other[r]>>]
      BY <2>2 DEF FoldsUp
    <3> HIDE DEF r
    <3> QED  BY <3>2, <3>3
  <2> QED  BY <2>1, <2>2
<1>2. SUBSET whole \subseteq good
  <2> HIDE DEF good
  <2> QED  BY <1>1, AllSubsets
<1> QED  BY <1>2

-----------------------------------------------------------------------------
(* Sums                                                                    *)

\* The values of fun over S are integers.
Summable(fun, S) == IsFiniteSet(S) /\ \A x \in S : fun[x] \in Int

\* The fold behind a sum.
Chosen(S) == [s \in SUBSET S |-> CHOOSE x \in s : TRUE]
Adding(fun, S) == [p \in S \X Int |-> fun[p[1]] + p[2]]

LEMMA ChosenPicks == \A S : Picks(Chosen(S), S)
BY DEF Picks, Chosen

\* A sum is what any such fold makes of the whole set.
LEMMA SumIsFold ==
  ASSUME NEW fun, NEW S, Summable(fun, S)
  PROVE  \E total \in [SUBSET S -> Int] :
           /\ FoldsUp(total, S, Chosen(S), Adding(fun, S), 0)
           /\ SumFunctionOnSet(fun, S) = total[S]
<1>1. /\ IsFiniteSet(S) /\ 0 \in Int
      /\ Adding(fun, S) \in [S \X Int -> Int]
  BY DEF Summable, Adding
<1>2. \E total \in [SUBSET S -> Int] : FoldsUp(total, S, Chosen(S), Adding(fun, S), 0)
  BY <1>1, ChosenPicks, FoldExists
<1> DEFINE Equation(total) ==
             total = [s \in SUBSET S |->
                        IF s = {} THEN 0
                        ELSE fun[CHOOSE x \in s : TRUE] + total[s \ {CHOOSE x \in s : TRUE}]]
<1>3. ASSUME NEW total \in [SUBSET S -> Int],
             FoldsUp(total, S, Chosen(S), Adding(fun, S), 0)
      PROVE  Equation(total)
  <2>1. ASSUME NEW s \in SUBSET S, s # {}
        PROVE  total[s] = fun[CHOOSE x \in s : TRUE] + total[s \ {CHOOSE x \in s : TRUE}]
    <3> DEFINE x == CHOOSE x \in s : TRUE
    <3>1. x \in s
      BY <2>1
    <3>2. Chosen(S)[s] = x
      BY DEF Chosen
    <3> HIDE DEF x
    <3>3. total[s] = Adding(fun, S)[<<x, total[s \ {x}]>>]
      BY <1>3, <2>1, <3>2 DEF FoldsUp
    <3>4. total[s] = fun[x] + total[s \ {x}]
      BY <3>1, <3>3 DEF Adding
    <3> QED  BY <3>4 DEF x
  <2>2. {} \in SUBSET S /\ total[{}] = 0
    BY <1>3 DEF FoldsUp
  <2> QED  BY <2>1, <2>2
<1>4. ASSUME NEW one, NEW other, Equation(one), Equation(other)
      PROVE  one[S] = other[S]
  <2> DEFINE good == {s \in SUBSET S : one[s] = other[s]}
  <2>1. ASSUME NEW s \in SUBSET S, \A x \in s : s \ {x} \in good
        PROVE  s \in good
    <3>1. CASE s = {}
      BY <1>4, <3>1
    <3>2. CASE s # {}
      <4> DEFINE x == CHOOSE x \in s : TRUE
      <4>1. x \in s
        BY <3>2
      <4>2. one[s] = fun[x] + one[s \ {x}] /\ other[s] = fun[x] + other[s \ {x}]
        BY <1>4, <3>2
      <4>3. one[s \ {x}] = other[s \ {x}]
        BY <2>1, <4>1
      <4> HIDE DEF x
      <4> QED  BY <4>2, <4>3
    <3> QED  BY <3>1, <3>2
  <2>2. SUBSET S \subseteq good
    <3> HIDE DEF good
    <3> QED  BY <1>1, <2>1, AllSubsets
  <2> QED  BY <2>2
<1>5. SumFunctionOnSet(fun, S) = (CHOOSE total : Equation(total))[S]
  BY DEF SumFunctionOnSet, FoldFunctionOnSet, MapThenFoldSet
<1>6. PICK total \in [SUBSET S -> Int] : FoldsUp(total, S, Chosen(S), Adding(fun, S), 0)
  BY <1>2
<1>7. Equation(total)
  BY <1>3, <1>6
<1> DEFINE chosen == CHOOSE t : Equation(t)
<1>8. Equation(chosen)
  <2> HIDE DEF Equation
  <2> QED  BY <1>7
<1>9. chosen[S] = total[S]
  <2> HIDE DEF Equation, chosen
  <2> QED  BY <1>4, <1>7, <1>8
<1> QED  BY <1>5, <1>6, <1>9

\* A sum is an integer, and over nothing it is zero.
LEMMA SumType ==
  ASSUME NEW fun, NEW S, Summable(fun, S)
  PROVE  SumFunctionOnSet(fun, S) \in Int
<1>1. PICK total \in [SUBSET S -> Int] : SumFunctionOnSet(fun, S) = total[S]
  BY SumIsFold
<1>2. S \in SUBSET S
  OBVIOUS
<1> QED  BY <1>1, <1>2

LEMMA SumOverNothing ==
  ASSUME NEW fun
  PROVE  SumFunctionOnSet(fun, {}) = 0
<1>1. Summable(fun, {})
  BY FS_EmptySet DEF Summable
<1>2. PICK total \in [SUBSET {} -> Int] :
        /\ FoldsUp(total, {}, Chosen({}), Adding(fun, {}), 0)
        /\ SumFunctionOnSet(fun, {}) = total[{}]
  BY <1>1, SumIsFold
<1> QED  BY <1>2 DEF FoldsUp

\* Functions that agree have the same sum.
LEMMA SameSum ==
  ASSUME NEW fun, NEW other, NEW S, Summable(fun, S), \A x \in S : fun[x] = other[x]
  PROVE  SumFunctionOnSet(fun, S) = SumFunctionOnSet(other, S)
<1>1. Summable(other, S)
  BY DEF Summable
<1>2. Adding(fun, S) = Adding(other, S)
  BY DEF Adding
<1>3. PICK one \in [SUBSET S -> Int] :
        /\ FoldsUp(one, S, Chosen(S), Adding(fun, S), 0)
        /\ SumFunctionOnSet(fun, S) = one[S]
  BY SumIsFold
<1>4. PICK two \in [SUBSET S -> Int] :
        /\ FoldsUp(two, S, Chosen(S), Adding(fun, S), 0)
        /\ SumFunctionOnSet(other, S) = two[S]
  BY <1>1, <1>2, SumIsFold
<1>5. IsFiniteSet(S) /\ S \in SUBSET S
  BY DEF Summable
<1>6. one[S] = two[S]
  BY <1>3, <1>4, <1>5, ChosenPicks, FoldUnique
<1> QED  BY <1>3, <1>4, <1>6

\* A sum without one of its elements, the one that is chosen first.
LEMMA SumWithoutOne ==
  ASSUME NEW fun, NEW S, Summable(fun, S), S # {}
  PROVE  \E x \in S : SumFunctionOnSet(fun, S) = fun[x] + SumFunctionOnSet(fun, S \ {x})
<1> PICK x : x = CHOOSE y \in S : TRUE
  OBVIOUS
<1> DEFINE R == S \ {x}
<1>1. x \in S /\ R \in SUBSET S
  OBVIOUS
<1>2. IsFiniteSet(S) /\ IsFiniteSet(R) /\ Summable(fun, R)
  BY <1>1, FS_Subset DEF Summable
<1>3. PICK total \in [SUBSET S -> Int] :
        /\ FoldsUp(total, S, Chosen(S), Adding(fun, S), 0)
        /\ SumFunctionOnSet(fun, S) = total[S]
  BY SumIsFold
<1> HIDE DEF R
<1>4. PICK part \in [SUBSET R -> Int] :
        /\ FoldsUp(part, R, Chosen(R), Adding(fun, R), 0)
        /\ SumFunctionOnSet(fun, R) = part[R]
  BY <1>2, SumIsFold
<1>5. ASSUME NEW s \in SUBSET R
      PROVE  part[s] = IF s = {} THEN 0 ELSE Adding(fun, S)[<<Chosen(R)[s], part[s \ {Chosen(R)[s]}]>>]
  <2>1. CASE s = {}
    BY <1>4, <2>1 DEF FoldsUp
  <2>2. CASE s # {}
    <3> DEFINE y == Chosen(R)[s]
    <3>1. y \in s /\ y \in R /\ y \in S
      BY <1>1, <2>2, ChosenPicks DEF Picks
    <3>2. part[s] = Adding(fun, R)[<<y, part[s \ {y}]>>]
      BY <1>4, <2>2 DEF FoldsUp
    <3>3. part[s \ {y}] \in Int
      OBVIOUS
    <3> HIDE DEF y
    <3>4. Adding(fun, R)[<<y, part[s \ {y}]>>] = Adding(fun, S)[<<y, part[s \ {y}]>>]
      BY <3>1, <3>3 DEF Adding
    <3> QED  BY <2>2, <3>2, <3>4 DEF y
  <2> QED  BY <2>1, <2>2
<1>6. FoldsUp(part, R, Chosen(R), Adding(fun, S), 0)
  BY <1>5 DEF FoldsUp
<1>7. FoldsUp(total, R, Chosen(R), Adding(fun, S), 0)
  <2>1. ASSUME NEW s \in SUBSET R
        PROVE  s \in SUBSET S /\ Chosen(R)[s] = Chosen(S)[s]
    BY <1>1 DEF Chosen
  <2> QED  BY <1>3, <2>1 DEF FoldsUp
<1>8. R \in SUBSET R /\ total[R] = part[R]
  BY <1>2, <1>6, <1>7, ChosenPicks, FoldUnique
<1>9. total[S] = Adding(fun, S)[<<x, total[R]>>]
  <2>1. S \in SUBSET S /\ Chosen(S)[S] = x
    BY DEF Chosen
  <2> QED  BY <1>3, <2>1 DEF FoldsUp, R
<1>10. total[S] = fun[x] + total[R]
  BY <1>1, <1>3, <1>9 DEF Adding
<1> QED  BY <1>1, <1>3, <1>4, <1>8, <1>10 DEF R

\* A sum without any one of its elements.
LEMMA SumWithout ==
  ASSUME NEW fun, NEW S, Summable(fun, S), NEW x \in S
  PROVE  SumFunctionOnSet(fun, S) = fun[x] + SumFunctionOnSet(fun, S \ {x})
<1> DEFINE Sum(s) == SumFunctionOnSet(fun, s)
           good == {s \in SUBSET S : \A y \in s : Sum(s) = fun[y] + Sum(s \ {y})}
<1>1. ASSUME NEW s \in SUBSET S
      PROVE  Summable(fun, s) /\ Sum(s) \in Int
  <2>1. Summable(fun, s)
    BY FS_Subset DEF Summable
  <2> QED  BY <2>1, SumType
<1> HIDE DEF Sum
<1>2. ASSUME NEW s \in SUBSET S, \A z \in s : s \ {z} \in good
      PROVE  s \in good
  <2>1. ASSUME NEW y \in s
        PROVE  Sum(s) = fun[y] + Sum(s \ {y})
    <3>1. Summable(fun, s) /\ s # {}
      BY <1>1, <2>1
    <3>2. PICK z \in s : Sum(s) = fun[z] + Sum(s \ {z})
      BY <3>1, SumWithoutOne DEF Sum
    <3>3. z \in s
      OBVIOUS
    <3>4. CASE y # z
      <4>1. y \in s \ {z} /\ z \in s \ {y}
        BY <3>2, <3>4
      <4>2. Sum(s \ {z}) = fun[y] + Sum((s \ {z}) \ {y})
        BY <1>2, <3>2, <4>1
      <4>3. Sum(s \ {y}) = fun[z] + Sum((s \ {y}) \ {z})
        BY <1>2, <4>1
      <4>4. (s \ {z}) \ {y} = (s \ {y}) \ {z}
        OBVIOUS
      <4> DEFINE rest == (s \ {y}) \ {z}
      <4>5. fun[y] \in Int /\ fun[z] \in Int /\ Sum(rest) \in Int
        BY <1>1, <3>2 DEF Summable
      <4>6. /\ Sum(s) = fun[z] + (fun[y] + Sum(rest))
            /\ Sum(s \ {y}) = fun[z] + Sum(rest)
        BY <3>2, <4>2, <4>3, <4>4
      <4> HIDE DEF rest
      <4> QED  BY <4>5, <4>6
    <3> QED  BY <3>2, <3>4
  <2> QED  BY <2>1
<1>3. SUBSET S \subseteq good
  <2>1. IsFiniteSet(S)
    BY DEF Summable
  <2> HIDE DEF good
  <2> QED  BY <1>2, <2>1, AllSubsets
<1> QED  BY <1>3 DEF Sum

\* A sum with one more element.
LEMMA SumWith ==
  ASSUME NEW fun, NEW S, Summable(fun, S), NEW x, x \notin S, fun[x] \in Int
  PROVE  /\ Summable(fun, S \cup {x})
         /\ SumFunctionOnSet(fun, S \cup {x}) = SumFunctionOnSet(fun, S) + fun[x]
<1>1. Summable(fun, S \cup {x})
  BY FS_AddElement DEF Summable
<1>2. (S \cup {x}) \ {x} = S
  OBVIOUS
<1>3. SumFunctionOnSet(fun, S \cup {x}) = fun[x] + SumFunctionOnSet(fun, S)
  BY <1>1, <1>2, SumWithout
<1> QED  BY <1>1, <1>3, SumType
=============================================================================
