----------------------- MODULE PixelcacheMemoryProofs -----------------------
(***************************************************************************)
(* Proofs about the memory of the pixel cache: the arena's list of free    *)
(* runs is exact whoever frees what, every page has one owner, so the      *)
(* arena implements PageStore, and the account, the budget and the floor   *)
(* are kept.                                                               *)
(***************************************************************************)
EXTENDS PixelcacheMemory, SequencesExt, FiniteSetsExt, TLAPS, FiniteSetTheorems,
        WellFoundedInduction, SequenceTheorems

----------------------------------------------------------------------------
(***************************************************************************)
(* What a sum over a set (MapThenSumSet) is, for every finite set, and what*)
(* a list contains after elements were cut out or put in with SubSeq and \o.*)
(*                                                                         *)
(* The folds are recursive functions on the subsets of a finite set, and   *)
(* the induction theorems of the library take an operator as a parameter.  *)
(* The lemmas argue instead with the smallest element of a set of          *)
(* naturals, the sizes of the counterexamples.                             *)
(***************************************************************************)

\* Every nonempty set of naturals has a smallest element.
LEMMA Smallest ==
    ASSUME NEW B \in SUBSET Nat, B # {}
    PROVE  \E m \in B : \A k \in B : m <= k
<1>1. \E R : IsWellFoundedOn(R, Nat) /\ \A x, y \in Nat : <<y, x>> \in R <=> y < x
  <2>1. \A x, y \in Nat : <<y, x>> \in OpToRel(<, Nat) <=> y < x
    BY DEF OpToRel
  <2>. QED
    BY <2>1, NatLessThanWellFounded, Zenon
<1>2. PICK R : IsWellFoundedOn(R, Nat) /\ \A x, y \in Nat : <<y, x>> \in R <=> y < x
  BY <1>1, Zenon
<1>3. PICK m \in B : \A k \in B : ~ (<<k, m>> \in R)
  BY <1>2, WFMin, Zenon
<1>4. m \in Nat /\ \A k \in B : k \in Nat /\ ~(k < m)
  BY <1>2, <1>3, Zenon
<1>. QED
  BY <1>3, <1>4

----------------------------------------------------------------------------
(* Sums *)

\* The sum of f[x] over the x in S.
SumOver(f, S) == MapThenSumSet(LAMBDA x : f[x], S)

\* The element that the recursion takes first, and its equation.
First(s) == CHOOSE x \in s : TRUE

IsSum(g, f, S) ==
    g = [s \in SUBSET S |-> IF s = {} THEN 0 ELSE f[First(s)] + g[s \ {First(s)}]]

\* SumOver is what the recursion equation of MapThenSumSet defines.
LEMMA SumIsChosen == \A f, S : SumOver(f, S) = (CHOOSE g : IsSum(g, f, S))[S]
BY Zenon DEF SumOver, MapThenSumSet, MapThenFoldSet, IsSum, First

\* The subsets of a finite set, without the element taken first.
LEMMA FirstTaken ==
    ASSUME NEW S, IsFiniteSet(S), NEW s \in SUBSET S, s # {}
    PROVE  /\ First(s) \in s
           /\ s \ {First(s)} \in SUBSET S
           /\ IsFiniteSet(s) /\ IsFiniteSet(s \ {First(s)})
           /\ Cardinality(s) \in Nat /\ Cardinality(s) > 0
           /\ Cardinality(s \ {First(s)}) = Cardinality(s) - 1
<1>1. First(s) \in s
  BY DEF First
<1>2. IsFiniteSet(s)
  BY FS_Subset
<1>3. IsFiniteSet(s \ {First(s)}) /\ Cardinality(s \ {First(s)}) = Cardinality(s) - 1
  BY <1>1, <1>2, FS_RemoveElement
<1>4. Cardinality(s) \in Nat /\ Cardinality(s) # 0
  BY <1>2, FS_CardinalityType, FS_EmptySet
<1>. QED
  BY <1>1, <1>2, <1>3, <1>4

\* The recursion has a solution on a finite set.
LEMMA SumExists ==
    ASSUME NEW f, NEW S, IsFiniteSet(S)
    PROVE  \E g : IsSum(g, f, S)
<1>. DEFINE Body(g, s) == IF s = {} THEN 0 ELSE f[First(s)] + g[s \ {First(s)}]
            Upto(g, n) == \A s \in SUBSET S : Cardinality(s) <= n => g[s] = Body(g, s)
            Bad == {n \in Nat : ~ \E g : Upto(g, n)}
<1>1. Bad = {}
  <2>. SUFFICES ASSUME Bad # {} PROVE FALSE
    OBVIOUS
  <2>1. PICK m \in Bad : \A k \in Bad : m <= k
    BY Smallest
  <2>2. ASSUME m = 0 PROVE FALSE
    <3>. DEFINE z == [s \in SUBSET S |-> 0]
    <3>1. ASSUME NEW s \in SUBSET S, Cardinality(s) <= 0 PROVE s = {}
      BY <3>1, FS_Subset, FS_EmptySet, FS_CardinalityType
    <3>2. Upto(z, 0)
      BY <3>1
    <3>. QED
      BY <2>1, <2>2, <3>2
  <2>3. ASSUME m # 0 PROVE FALSE
    <3>1. m - 1 \in Nat /\ m - 1 \notin Bad
      <4>. HIDE DEF Bad
      <4>1. m \in Nat
        BY <2>1 DEF Bad
      <4>. QED
        BY <2>1, <2>3, <4>1
    <3>2. PICK g : Upto(g, m - 1)
      BY <3>1
    <3>. DEFINE h == [s \in SUBSET S |-> Body(g, s)]
    <3>3. ASSUME NEW s \in SUBSET S, Cardinality(s) <= m PROVE h[s] = Body(h, s)
      <4>1. CASE s = {}
        BY <4>1
      <4>2. CASE s # {}
        <5>. DEFINE r == s \ {First(s)}
        <5>1. r \in SUBSET S /\ Cardinality(r) <= m - 1
          <6>1. m \in Nat
            BY <2>1
          <6>2. /\ Cardinality(s) \in Nat
                /\ Cardinality(s \ {First(s)}) = Cardinality(s) - 1
            BY <4>2, FirstTaken, Zenon
          <6>. QED
            BY <3>3, <6>1, <6>2
        <5>2. g[r] = Body(g, r)
          BY <5>1, <3>2
        <5>3. h[r] = Body(g, r)
          BY <5>1
        <5>. QED
          BY <4>2, <5>2, <5>3
      <4>. QED
        BY <4>1, <4>2
    <3>4. Upto(h, m)
      BY <3>3
    <3>. QED
      BY <3>4, <2>1
  <2>. QED
    BY <2>2, <2>3
<1>2. PICK g : Upto(g, Cardinality(S))
  <2>1. Cardinality(S) \in Nat
    BY FS_CardinalityType
  <2>. QED
    BY <1>1, <2>1
<1>. DEFINE h == [s \in SUBSET S |-> g[s]]
<1>3. \A s \in SUBSET S : Cardinality(s) <= Cardinality(S)
  BY FS_Subset
<1>4. ASSUME NEW s \in SUBSET S PROVE g[s] = Body(h, s)
  <2>1. g[s] = Body(g, s)
    BY <1>2, <1>3
  <2>2. s \ {First(s)} \in SUBSET S
    OBVIOUS
  <2>3. h[s \ {First(s)}] = g[s \ {First(s)}]
    BY <2>2
  <2>. QED
    BY <2>1, <2>3
<1>5. h = [s \in SUBSET S |-> Body(h, s)]
  BY <1>4
<1>6. IsSum(h, f, S)
  BY <1>5 DEF IsSum
<1>. QED
  BY <1>6

\* A solution on a set agrees with the solution on a subset.
LEMMA SumLocal ==
    ASSUME NEW f, NEW S, IsFiniteSet(S), NEW T \in SUBSET S, NEW g, NEW h,
           IsSum(g, f, S), IsSum(h, f, T)
    PROVE  g[T] = h[T]
<1>. DEFINE Bad == {n \in Nat : \E s \in SUBSET T : Cardinality(s) = n /\ g[s] # h[s]}
<1>1. \A s \in SUBSET S : g[s] = IF s = {} THEN 0 ELSE f[First(s)] + g[s \ {First(s)}]
  BY DEF IsSum
<1>2. \A s \in SUBSET T : h[s] = IF s = {} THEN 0 ELSE f[First(s)] + h[s \ {First(s)}]
  BY DEF IsSum
<1>3. IsFiniteSet(T)
  BY FS_Subset
<1>4. Bad = {}
  <2>. SUFFICES ASSUME Bad # {} PROVE FALSE
    OBVIOUS
  <2>1. PICK m \in Bad : \A k \in Bad : m <= k
    BY Smallest
  <2>2. PICK s \in SUBSET T : Cardinality(s) = m /\ g[s] # h[s]
    BY <2>1
  <2>3. s # {} /\ s \in SUBSET S
    BY <1>1, <1>2, <2>2
  <2>. DEFINE r == s \ {First(s)}
  <2>4. r \in SUBSET T /\ Cardinality(r) = m - 1 /\ m - 1 \in Nat
    <3>1. /\ Cardinality(s) \in Nat /\ Cardinality(s) > 0
          /\ Cardinality(s \ {First(s)}) = Cardinality(s) - 1
      BY <1>3, <2>3, FirstTaken, Zenon
    <3>. QED
      BY <2>2, <3>1
  <2>5. g[r] # h[r]
    BY <1>1, <1>2, <2>2, <2>3
  <2>6. m - 1 \in Bad
    BY <2>4, <2>5
  <2>. QED
    BY <2>1, <2>6, <2>4
<1>5. Cardinality(T) \in Nat
  BY <1>3, FS_CardinalityType
<1>. QED
  BY <1>4, <1>5

\* The empty sum, and the first step of any other.
LEMMA SumUnfolds ==
    ASSUME NEW f, NEW S, IsFiniteSet(S)
    PROVE  SumOver(f, S) = IF S = {} THEN 0 ELSE f[First(S)] + SumOver(f, S \ {First(S)})
<1>. DEFINE G(T) == CHOOSE g : IsSum(g, f, T)
            r == S \ {First(S)}
<1>1. IsFiniteSet(r) /\ r \in SUBSET S
  BY FS_Subset
<1>2. IsSum(G(S), f, S) /\ IsSum(G(r), f, r)
  BY <1>1, SumExists
<1>3. G(S)[r] = G(r)[r]
  BY <1>1, <1>2, SumLocal
<1>4. G(S)[S] = IF S = {} THEN 0 ELSE f[First(S)] + G(S)[r]
  BY <1>2 DEF IsSum
<1>5. SumOver(f, S) = G(S)[S] /\ SumOver(f, r) = G(r)[r]
  BY SumIsChosen, Zenon
<1>. QED
  BY <1>3, <1>4, <1>5

\* A sum of naturals is a natural.
LEMMA SumType ==
    ASSUME NEW f, NEW S, IsFiniteSet(S), \A x \in S : f[x] \in Nat
    PROVE  SumOver(f, S) \in Nat
<1>. DEFINE Bad == {n \in Nat : \E s \in SUBSET S : Cardinality(s) = n /\ SumOver(f, s) \notin Nat}
<1>1. Bad = {}
  <2>. SUFFICES ASSUME Bad # {} PROVE FALSE
    OBVIOUS
  <2>1. PICK m \in Bad : \A k \in Bad : m <= k
    BY Smallest
  <2>2. PICK s \in SUBSET S : Cardinality(s) = m /\ SumOver(f, s) \notin Nat
    BY <2>1
  <2>3. IsFiniteSet(s)
    BY FS_Subset
  <2>4. s # {}
    <3>1. s = {} => SumOver(f, s) = 0
      BY <2>3, SumUnfolds
    <3>. QED
      BY <2>2, <3>1
  <2>. DEFINE r == s \ {First(s)}
  <2>5. /\ First(s) \in S /\ r \in SUBSET S
        /\ Cardinality(r) = m - 1 /\ m - 1 \in Nat
    <3>1. /\ First(s) \in s
          /\ Cardinality(s) \in Nat /\ Cardinality(s) > 0
          /\ Cardinality(s \ {First(s)}) = Cardinality(s) - 1
      BY <2>4, FirstTaken, Zenon
    <3>. QED
      BY <2>2, <3>1
  <2>6. SumOver(f, r) \notin Nat
    <3>1. SumOver(f, s) = f[First(s)] + SumOver(f, r)
      BY <2>3, <2>4, SumUnfolds
    <3>. QED
      BY <3>1, <2>2, <2>5
  <2>7. m - 1 \in Bad
    BY <2>5, <2>6
  <2>. QED
    BY <2>1, <2>7, <2>5
<1>2. Cardinality(S) \in Nat
  BY FS_CardinalityType
<1>. QED
  BY <1>1, <1>2

\* Any element of the set may be taken first.
LEMMA SumTakes ==
    ASSUME NEW f, NEW S, IsFiniteSet(S), \A x \in S : f[x] \in Nat, NEW a \in S
    PROVE  SumOver(f, S) = f[a] + SumOver(f, S \ {a})
<1>. DEFINE Bad == {n \in Nat : \E s \in SUBSET S : Cardinality(s) = n
                                  /\ \E x \in s : SumOver(f, s) # f[x] + SumOver(f, s \ {x})}
<1>1. Bad = {}
  <2>. SUFFICES ASSUME Bad # {} PROVE FALSE
    OBVIOUS
  <2>1. PICK m \in Bad : \A k \in Bad : m <= k
    BY Smallest
  <2>2. PICK s \in SUBSET S : Cardinality(s) = m
                              /\ \E x \in s : SumOver(f, s) # f[x] + SumOver(f, s \ {x})
    BY <2>1
  <2>3. PICK x \in s : SumOver(f, s) # f[x] + SumOver(f, s \ {x})
    BY <2>2
  <2>4. s # {} /\ IsFiniteSet(s) /\ IsFiniteSet(s \ {x})
    BY <2>3, FS_Subset
  <2>. DEFINE c == First(s)
              r == s \ {c}
              d == s \ {x}
              both == (s \ {c}) \ {x}
  <2>5. /\ c \in s /\ r \in SUBSET S /\ IsFiniteSet(r)
        /\ Cardinality(r) = m - 1 /\ m - 1 \in Nat
    BY <2>2, <2>4, FirstTaken
  <2>6. SumOver(f, s) = f[c] + SumOver(f, r)
    BY <2>4, SumUnfolds
  <2>7. c # x
    BY <2>3, <2>6
  <2>8. x \in r /\ c \in d /\ d \in SUBSET S
    BY <2>3, <2>5, <2>7
  <2>9. Cardinality(d) = m - 1
    BY <2>2, <2>3, <2>4, FS_Subset, FS_RemoveElement
  <2>10. m - 1 \notin Bad
    BY <2>1, <2>5
  <2>11. SumOver(f, r) = f[x] + SumOver(f, both)
    BY <2>5, <2>8, <2>10
  <2>12. d \ {c} = both
    OBVIOUS
  <2>13. SumOver(f, d) = f[c] + SumOver(f, both)
    <3>1. SumOver(f, d) = f[c] + SumOver(f, d \ {c})
      BY <2>5, <2>8, <2>9, <2>10
    <3>. QED
      BY <3>1, <2>12
  <2>14. SumOver(f, both) \in Nat
    <3>1. both \in SUBSET S /\ IsFiniteSet(both)
      BY FS_Subset, <2>2
    <3>2. \A y \in both : f[y] \in Nat
      BY <3>1
    <3>. QED
      BY <3>1, <3>2, SumType
  <2>15. f[c] \in Nat /\ f[x] \in Nat
    BY <2>3, <2>5
  <2>. QED
    BY <2>3, <2>6, <2>11, <2>13, <2>14, <2>15
<1>2. Cardinality(S) \in Nat
  BY FS_CardinalityType
<1>. QED
  BY <1>1, <1>2

\* A sum depends on the values on its set only.
LEMMA SumSame ==
    ASSUME NEW f, NEW g, NEW S, IsFiniteSet(S), \A x \in S : f[x] = g[x]
    PROVE  SumOver(f, S) = SumOver(g, S)
<1>. DEFINE Bad == {n \in Nat : \E s \in SUBSET S : Cardinality(s) = n
                                  /\ SumOver(f, s) # SumOver(g, s)}
<1>1. Bad = {}
  <2>. SUFFICES ASSUME Bad # {} PROVE FALSE
    OBVIOUS
  <2>1. PICK m \in Bad : \A k \in Bad : m <= k
    BY Smallest
  <2>2. PICK s \in SUBSET S : Cardinality(s) = m /\ SumOver(f, s) # SumOver(g, s)
    BY <2>1
  <2>3. IsFiniteSet(s)
    BY FS_Subset
  <2>. DEFINE c == First(s)
              r == s \ {c}
  <2>4. /\ SumOver(f, s) = IF s = {} THEN 0 ELSE f[c] + SumOver(f, r)
        /\ SumOver(g, s) = IF s = {} THEN 0 ELSE g[c] + SumOver(g, r)
    BY <2>3, SumUnfolds
  <2>5. s # {}
    BY <2>2, <2>4
  <2>6. c \in s /\ Cardinality(r) = m - 1 /\ m - 1 \in Nat /\ r \in SUBSET S
    <3>1. /\ First(s) \in s
          /\ Cardinality(s) \in Nat /\ Cardinality(s) > 0
          /\ Cardinality(s \ {First(s)}) = Cardinality(s) - 1
      BY <2>5, FirstTaken, Zenon
    <3>. QED
      BY <2>2, <3>1
  <2>7. f[c] = g[c]
    BY <2>6
  <2>8. SumOver(f, r) # SumOver(g, r)
    BY <2>2, <2>4, <2>5, <2>7
  <2>9. m - 1 \in Bad
    BY <2>6, <2>8
  <2>. QED
    BY <2>1, <2>6, <2>9
<1>2. Cardinality(S) \in Nat
  BY FS_CardinalityType
<1>. QED
  BY <1>1, <1>2

\* A sum is the same when the elements are renamed.
LEMMA SumRenamed ==
    ASSUME NEW S, IsFiniteSet(S), NEW h, NEW f, NEW g,
           \A x \in S : g[x] \in Nat /\ g[x] = f[h[x]],
           \A x, y \in S : h[x] = h[y] => x = y
    PROVE  SumOver(g, S) = SumOver(f, {h[x] : x \in S})
<1>. DEFINE Image(s) == {h[x] : x \in s}
            Wrong(s) == SumOver(g, s) # SumOver(f, Image(s))
            Bad == {n \in Nat : \E s \in SUBSET S : Cardinality(s) = n /\ Wrong(s)}
<1>1. ASSUME NEW s \in SUBSET S
      PROVE  IsFiniteSet(s) /\ Cardinality(s) \in Nat
  BY FS_Subset, FS_CardinalityType
<1>2. Bad = {}
  <2>. SUFFICES ASSUME Bad # {} PROVE FALSE
    OBVIOUS
  <2>1. PICK m \in Bad : \A k \in Bad : m <= k
    BY Smallest
  <2>2. PICK s \in SUBSET S : Cardinality(s) = m /\ Wrong(s)
    BY <2>1
  <2>3. m \in Nat /\ IsFiniteSet(s)
    BY <1>1, <2>2
  <2>4. CASE s = {}
    <3>1. Image(s) = {}
      BY <2>4
    <3>2. SumOver(g, {}) = 0 /\ SumOver(f, {}) = 0
      BY SumUnfolds, FS_EmptySet
    <3>. QED
      BY <2>2, <2>4, <3>1, <3>2
  <2>5. CASE s # {}
    <3>1. PICK a \in s : TRUE
      BY <2>5
    <3>. DEFINE r == s \ {a}
    <3>2. r \in SUBSET S /\ Cardinality(r) = m - 1 /\ m - 1 \in Nat
      <4>1. Cardinality(r) = m - 1
        BY <2>2, <2>3, <3>1, FS_RemoveElement
      <4>2. Cardinality(r) \in Nat
        BY <1>1
      <4>. QED
        BY <4>1, <4>2
    <3>3. SumOver(g, r) = SumOver(f, Image(r))
      <4>1. m - 1 \notin Bad
        <5>. HIDE DEF Bad
        <5>. QED
          BY <2>1, <2>3
      <4>. QED
        BY <3>2, <4>1
    <3>4. SumOver(g, s) = g[a] + SumOver(g, r)
      BY <2>3, <3>1, SumTakes
    <3>5. Image(r) = Image(s) \ {h[a]} /\ h[a] \in Image(s)
      BY <3>1
    <3>6. IsFiniteSet(Image(s))
      <4>. DEFINE b == [x \in s |-> h[x]]
      <4>1. b \in Surjection(s, Image(s))
        BY DEF Surjection
      <4>. QED
        BY <2>3, <4>1, FS_Surjection
    <3>7. SumOver(f, Image(s)) = f[h[a]] + SumOver(f, Image(s) \ {h[a]})
      <4>. DEFINE T == Image(s)
      <4>1. \A y \in T : f[y] \in Nat
        OBVIOUS
      <4>2. h[a] \in T /\ IsFiniteSet(T)
        BY <3>5, <3>6
      <4>. HIDE DEF T
      <4>3. SumOver(f, T) = f[h[a]] + SumOver(f, T \ {h[a]})
        BY <4>1, <4>2, SumTakes
      <4>. QED
        BY <4>3 DEF T
    <3>. QED
      BY <2>2, <3>1, <3>3, <3>4, <3>5, <3>7
  <2>. QED
    BY <2>4, <2>5
<1>3. Cardinality(S) \notin Bad /\ Cardinality(S) \in Nat
  BY <1>1, <1>2
<1>. QED
  BY <1>3

\* g names the elements of S but i by those of R; f and h give them the same numbers.
Renames(g, f, S, i, h, R) ==
    /\ i \in S
    /\ \A j \in S : f[j] \in Nat
    /\ \A j \in R : h[j] \in Nat /\ g[j] \in S /\ g[j] # i /\ h[j] = f[g[j]]
    /\ \A j, k \in R : j # k => g[j] # g[k]
    /\ \A m \in S : m # i => \E j \in R : g[j] = m

\* One element is taken out of a sum, and the others are renamed.
LEMMA SumWithout ==
    ASSUME NEW S, IsFiniteSet(S), NEW R, IsFiniteSet(R), NEW i, NEW f, NEW h, NEW g,
           Renames(g, f, S, i, h, R)
    PROVE  SumOver(f, S) = f[i] + SumOver(h, R)
<1>1. SumOver(f, S) = f[i] + SumOver(f, S \ {i})
  BY SumTakes DEF Renames
<1>2. SumOver(h, R) = SumOver(f, {g[j] : j \in R})
  <2>1. \A j \in R : h[j] \in Nat /\ h[j] = f[g[j]]
    BY DEF Renames
  <2>2. \A j, k \in R : g[j] = g[k] => j = k
    BY DEF Renames
  <2>. QED
    BY <2>1, <2>2, SumRenamed
<1>3. {g[j] : j \in R} = S \ {i}
  BY DEF Renames
<1>. QED
  BY <1>1, <1>2, <1>3

\* One element is added to a sum.
LEMMA SumWith ==
    ASSUME NEW S, IsFiniteSet(S), NEW a, a \notin S, NEW f, NEW h,
           \A x \in S : f[x] \in Nat /\ h[x] = f[x], h[a] \in Nat
    PROVE  SumOver(h, S \cup {a}) = h[a] + SumOver(f, S)
<1>1. IsFiniteSet(S \cup {a})
  BY FS_AddElement
<1>2. \A x \in S \cup {a} : h[x] \in Nat
  OBVIOUS
<1>3. SumOver(h, S \cup {a}) = h[a] + SumOver(h, (S \cup {a}) \ {a})
  BY <1>1, <1>2, SumTakes
<1>4. (S \cup {a}) \ {a} = S
  OBVIOUS
<1>5. SumOver(h, S) = SumOver(f, S)
  BY SumSame
<1>. QED
  BY <1>3, <1>4, <1>5

\* Sets that do not meet have no more elements together than the set they lie in.
LEMMA SumBounded ==
    ASSUME NEW S, IsFiniteSet(S), NEW A, IsFiniteSet(A), NEW P, NEW c \in Nat, NEW f,
           \A x \in S : P[x] \subseteq A /\ f[x] = c * Cardinality(P[x]),
           \A x, y \in S : x # y => P[x] \cap P[y] = {}
    PROVE  SumOver(f, S) <= c * Cardinality(A)
<1>. DEFINE Wrong(s, B) == /\ \A x \in s : P[x] \subseteq B
                           /\ ~ (SumOver(f, s) <= c * Cardinality(B))
            Bad == {n \in Nat : \E s \in SUBSET S, B \in SUBSET A :
                                    Cardinality(s) = n /\ Wrong(s, B)}
<1>1. ASSUME NEW s \in SUBSET S
      PROVE  IsFiniteSet(s) /\ Cardinality(s) \in Nat
  BY FS_Subset, FS_CardinalityType
<1>2. ASSUME NEW B \in SUBSET A
      PROVE  IsFiniteSet(B) /\ Cardinality(B) \in Nat
  BY FS_Subset, FS_CardinalityType
<1>3. \A x \in S : f[x] \in Nat
  <2>1. ASSUME NEW x \in S PROVE f[x] \in Nat
    <3>1. Cardinality(P[x]) \in Nat
      BY <1>2
    <3>. QED
      BY <3>1
  <2>. QED
    BY <2>1
<1>4. Bad = {}
  <2>. SUFFICES ASSUME Bad # {} PROVE FALSE
    OBVIOUS
  <2>1. PICK m \in Bad : \A k \in Bad : m <= k
    BY Smallest
  <2>2. PICK s \in SUBSET S, B \in SUBSET A : Cardinality(s) = m /\ Wrong(s, B)
    BY <2>1
  <2>3. m \in Nat /\ IsFiniteSet(s) /\ IsFiniteSet(B) /\ Cardinality(B) \in Nat
    BY <1>1, <1>2, <2>2
  <2>4. CASE s = {}
    <3>1. SumOver(f, {}) = 0
      BY SumUnfolds, FS_EmptySet
    <3>. QED
      BY <2>2, <2>3, <2>4, <3>1
  <2>5. CASE s # {}
    <3>1. PICK a \in s : TRUE
      BY <2>5
    <3>. DEFINE r == s \ {a}
                D == B \ P[a]
    <3>2. r \in SUBSET S /\ Cardinality(r) = m - 1 /\ m - 1 \in Nat
      <4>1. Cardinality(r) = m - 1
        BY <2>2, <2>3, <3>1, FS_RemoveElement
      <4>2. Cardinality(r) \in Nat
        BY <1>1
      <4>. QED
        BY <4>1, <4>2
    <3>3. D \in SUBSET A /\ \A x \in r : P[x] \subseteq D
      BY <2>2, <3>1
    <3>4. SumOver(f, r) <= c * Cardinality(D)
      <4>1. m - 1 \notin Bad
        <5>. HIDE DEF Bad
        <5>. QED
          BY <2>1, <2>3
      <4>. QED
        BY <3>2, <3>3, <4>1
    <3>5. SumOver(f, s) = f[a] + SumOver(f, r)
      BY <1>3, <2>3, <3>1, SumTakes
    <3>6. Cardinality(B) = Cardinality(P[a]) + Cardinality(D)
      <4>1. P[a] \in SUBSET B /\ P[a] \cup D = B /\ P[a] \cap D = {}
        BY <2>2, <3>1
      <4>2. IsFiniteSet(P[a]) /\ IsFiniteSet(D)
        BY <1>2, <3>1, <3>3
      <4>3. Cardinality(P[a] \cup D)
               = Cardinality(P[a]) + Cardinality(D) - Cardinality(P[a] \cap D)
        BY <4>2, FS_Union
      <4>4. Cardinality(P[a]) \in Nat /\ Cardinality(D) \in Nat /\ Cardinality({}) = 0
        BY <4>2, FS_CardinalityType, FS_EmptySet
      <4>5. Cardinality(P[a] \cup D) = Cardinality(B) /\ Cardinality(P[a] \cap D) = 0
        BY <4>1, <4>4, Zenon
      <4>. HIDE DEF D
      <4>. QED
        BY <4>3, <4>4, <4>5
    <3>7. f[a] = c * Cardinality(P[a]) /\ Cardinality(P[a]) \in Nat /\ Cardinality(D) \in Nat
      BY <1>2, <3>1, <3>3
    <3>8. SumOver(f, r) \in Nat
      BY <1>1, <1>3, <3>2, SumType
    <3>. HIDE DEF D, r
    <3>9. c * Cardinality(B) = c * Cardinality(P[a]) + c * Cardinality(D)
      BY <3>6, <3>7
    <3>10. c * Cardinality(P[a]) \in Nat /\ c * Cardinality(D) \in Nat
      BY <3>7
    <3>. QED
      BY <2>2, <3>4, <3>5, <3>7, <3>8, <3>9, <3>10
  <2>. QED
    BY <2>4, <2>5
<1>5. Cardinality(S) \notin Bad /\ Cardinality(S) \in Nat
  BY <1>1, <1>4
<1>. QED
  BY <1>5

----------------------------------------------------------------------------
(* Lists *)

\* r is the list s without its i-th element.
IsRemoval(r, A, s, i) ==
    /\ r \in Seq(A)
    /\ Len(r) = Len(s) - 1
    /\ \A j \in 1..Len(s) - 1 : r[j] = IF j < i THEN s[j] ELSE s[j + 1]

\* r is the list s with x in the place of its elements from the one after a to b.
IsSplice(r, A, s, x, a, b) ==
    /\ r \in Seq(A)
    /\ Len(r) = Len(s) + 1 + a - b
    /\ \A j \in 1..a : r[j] = s[j]
    /\ r[a + 1] = x
    /\ \A j \in b + 1..Len(s) : r[j + 1 + a - b] = s[j]

\* The code's way to take an element out of a list.
LEMMA ListRemoved ==
    ASSUME NEW A, NEW s \in Seq(A), NEW i \in 1..Len(s)
    PROVE  IsRemoval(SubSeq(s, 1, i - 1) \o SubSeq(s, i + 1, Len(s)), A, s, i)
<1>. DEFINE n == Len(s)
            a == SubSeq(s, 1, i - 1)
            b == SubSeq(s, i + 1, n)
<1>1. n \in Nat /\ i \in 1..n /\ \A j \in 1..n : s[j] \in A
  OBVIOUS
<1>. HIDE DEF n
<1>2. /\ a \in Seq(A) /\ Len(a) = i - 1
      /\ \A j \in 1..i - 1 : a[j] = s[j]
  BY <1>1, SubSeqProperties
<1>3. /\ b \in Seq(A) /\ Len(b) = n - i
      /\ \A j \in 1..n - i : b[j] = s[i + j]
  BY <1>1, SubSeqProperties
<1>. HIDE DEF a, b
<1>4. /\ a \o b \in Seq(A) /\ Len(a \o b) = Len(a) + Len(b)
      /\ \A j \in 1..Len(a) + Len(b) : (a \o b)[j] = IF j <= Len(a) THEN a[j] ELSE b[j - Len(a)]
  BY <1>2, <1>3, ConcatProperties
<1>5. ASSUME NEW j \in 1..n - 1 PROVE (a \o b)[j] = IF j < i THEN s[j] ELSE s[j + 1]
  <2>0. (a \o b)[j] = IF j <= i - 1 THEN a[j] ELSE b[j - (i - 1)]
    BY <1>1, <1>2, <1>3, <1>4
  <2>1. CASE j < i
    BY <1>1, <1>2, <2>0, <2>1
  <2>2. CASE ~ (j < i)
    <3>1. j - (i - 1) \in 1..n - i /\ i + (j - (i - 1)) = j + 1 /\ ~ (j <= i - 1)
      BY <1>1, <2>2
    <3>. QED
      BY <1>3, <2>0, <2>2, <3>1
  <2>. QED
    BY <2>1, <2>2
<1>6. a \o b \in Seq(A) /\ Len(a \o b) = n - 1
  BY <1>1, <1>2, <1>3, <1>4
<1>7. SubSeq(s, 1, i - 1) \o SubSeq(s, i + 1, Len(s)) = a \o b
  BY DEF n, a, b
<1>. QED
  BY <1>5, <1>6, <1>7, Zenon DEF n, IsRemoval

\* The code's way to put an element in the place of some others.
LEMMA ListSpliced ==
    ASSUME NEW A, NEW s \in Seq(A), NEW x \in A, NEW a \in 0..Len(s), NEW b \in a..Len(s)
    PROVE  IsSplice(SubSeq(s, 1, a) \o <<x>> \o SubSeq(s, b + 1, Len(s)), A, s, x, a, b)
<1>. DEFINE n == Len(s)
            p == SubSeq(s, 1, a)
            q == SubSeq(s, b + 1, n)
            m == p \o <<x>>
<1>1. n \in Nat /\ a \in 0..n /\ b \in a..n /\ \A j \in 1..n : s[j] \in A
  OBVIOUS
<1>. HIDE DEF n
<1>2. p \in Seq(A) /\ Len(p) = a /\ \A j \in 1..a : p[j] = s[j]
  BY <1>1, SubSeqProperties
<1>3. /\ q \in Seq(A) /\ Len(q) = n - b
      /\ \A j \in 1..n - b : q[j] = s[b + j]
  BY <1>1, SubSeqProperties
<1>. HIDE DEF p, q
<1>4. <<x>> \in Seq(A) /\ Len(<<x>>) = 1 /\ <<x>>[1] = x
  OBVIOUS
<1>5. /\ m \in Seq(A) /\ Len(m) = a + 1
      /\ \A j \in 1..a + 1 : m[j] = IF j <= a THEN p[j] ELSE <<x>>[j - a]
  BY <1>2, <1>4, ConcatProperties
<1>6. m[a + 1] = x /\ \A j \in 1..a : m[j] = s[j]
  <2>1. m[a + 1] = <<x>>[a + 1 - a] /\ a + 1 - a = 1
    BY <1>1, <1>5
  <2>2. \A j \in 1..a : m[j] = s[j]
    BY <1>1, <1>2, <1>5
  <2>. QED
    BY <1>4, <2>1, <2>2
<1>. HIDE DEF m
<1>c. /\ m \o q \in Seq(A) /\ Len(m \o q) = Len(m) + Len(q)
      /\ \A j \in 1..Len(m) + Len(q) :
           (m \o q)[j] = IF j <= Len(m) THEN m[j] ELSE q[j - Len(m)]
  BY <1>3, <1>5, ConcatProperties
<1>7. /\ m \o q \in Seq(A) /\ Len(m \o q) = a + 1 + (n - b)
      /\ \A j \in 1..a + 1 + (n - b) :
           (m \o q)[j] = IF j <= a + 1 THEN m[j] ELSE q[j - (a + 1)]
  BY <1>c, <1>3, <1>5, Zenon
<1>8. ASSUME NEW j \in b + 1..n PROVE (m \o q)[j + 1 + a - b] = s[j]
  <2>1. /\ j + 1 + a - b \in 1..a + 1 + (n - b) /\ ~ (j + 1 + a - b <= a + 1)
        /\ (j + 1 + a - b) - (a + 1) = j - b /\ j - b \in 1..n - b /\ b + (j - b) = j
    BY <1>1
  <2>2. (m \o q)[j + 1 + a - b] = q[j - b]
    BY <1>7, <2>1
  <2>. QED
    BY <1>3, <2>1, <2>2
<1>9. (m \o q)[a + 1] = x /\ \A j \in 1..a : (m \o q)[j] = s[j]
  <2>1. /\ a + 1 \in 1..a + 1 + (n - b) /\ a + 1 <= a + 1
        /\ \A j \in 1..a : j \in 1..a + 1 + (n - b) /\ j <= a + 1
    BY <1>1
  <2>. QED
    BY <1>6, <1>7, <2>1, Zenon
<1>10. Len(m \o q) = n + 1 + a - b
  BY <1>1, <1>7
<1>11. SubSeq(s, 1, a) \o <<x>> \o SubSeq(s, b + 1, Len(s)) = m \o q
  BY DEF n, p, q, m
<1>. QED
  BY <1>7, <1>8, <1>9, <1>10, <1>11, Zenon DEF n, IsSplice

----------------------------------------------------------------------------
(* The list of free runs *)

Run == [start : Nat, length : Nat \ {0}]

\* The end of a run, the first page after it.
End(r) == r.start + r.length

\* The runs lie in the arena, in order, and never touch.
Sorted(runs) ==
    /\ runs \in Seq(Run)
    /\ \A i \in 1..Len(runs) : End(runs[i]) <= num_pages
    /\ \A i, j \in 1..Len(runs) : i < j => End(runs[i]) < runs[j].start

\* The pages of a list of runs.
Covered(runs) == UNION {RunPages(runs[i]) : i \in DOMAIN runs}

\* A block that lies in the arena.
Block == {b \in [first : Nat, pages : Nat \ {0}] : b.first + b.pages <= num_pages}

\* The arena has at least one page.
LEMMA ArenaHasPages ==
    /\ num_pages \in Nat /\ num_pages >= 1
    /\ PageSize * num_pages <= TotalSize
    /\ PageSize \in Nat /\ PageSize >= 1 /\ TotalSize \in Nat
<1>1. PageSize \in Nat \ {0} /\ TotalSize \in Nat /\ TotalSize >= PageSize
  BY ArenaAssumption
<1>. QED
  BY <1>1 DEF num_pages

\* The fields of a run.
LEMMA RunType ==
    ASSUME NEW r \in Run
    PROVE  /\ r.start \in Nat /\ r.length \in Nat /\ r.length > 0
           /\ End(r) = r.start + r.length /\ End(r) \in Nat /\ r.start < End(r)
<1>1. r.start \in Nat /\ r.length \in Nat \ {0}
  BY DEF Run
<1>. QED
  BY <1>1 DEF End

\* What a sorted list of runs is, one run at a time.
LEMMA SortedType ==
    ASSUME NEW runs, Sorted(runs)
    PROVE  /\ runs \in Seq(Run) /\ Len(runs) \in Nat /\ DOMAIN runs = 1..Len(runs)
           /\ \A i \in 1..Len(runs) :
                /\ runs[i] \in Run
                /\ runs[i].start \in Nat /\ runs[i].length \in Nat /\ runs[i].length > 0
                /\ End(runs[i]) = runs[i].start + runs[i].length /\ End(runs[i]) \in Nat
                /\ runs[i].start < End(runs[i]) /\ End(runs[i]) <= num_pages
           /\ \A i, j \in 1..Len(runs) : i < j => End(runs[i]) < runs[j].start
<1>1. /\ runs \in Seq(Run) /\ Len(runs) \in Nat /\ DOMAIN runs = 1..Len(runs)
      /\ \A i \in 1..Len(runs) : runs[i] \in Run
  BY DEF Sorted
<1>2. /\ \A i \in 1..Len(runs) : End(runs[i]) <= num_pages
      /\ \A i, j \in 1..Len(runs) : i < j => End(runs[i]) < runs[j].start
  BY DEF Sorted
<1>3. ASSUME NEW i \in 1..Len(runs)
      PROVE  /\ runs[i].start \in Nat /\ runs[i].length \in Nat /\ runs[i].length > 0
             /\ End(runs[i]) = runs[i].start + runs[i].length /\ End(runs[i]) \in Nat
             /\ runs[i].start < End(runs[i])
  BY <1>1, RunType
<1>. QED
  BY <1>1, <1>2, <1>3, Zenon

\* A page of a list of runs lies in one of them.
LEMMA CoveredMeaning ==
    ASSUME NEW runs, Sorted(runs), NEW p
    PROVE  p \in Covered(runs) <=>
               p \in Int /\ \E i \in 1..Len(runs) : runs[i].start <= p /\ p < End(runs[i])
<1>1. DOMAIN runs = 1..Len(runs) /\ \A i \in 1..Len(runs) : runs[i] \in Run
  BY DEF Sorted
<1>2. ASSUME NEW i \in 1..Len(runs)
      PROVE  p \in RunPages(runs[i]) <=> p \in Int /\ runs[i].start <= p /\ p < End(runs[i])
  <2>1. runs[i].start \in Nat /\ runs[i].length \in Nat
    BY <1>1 DEF Run
  <2>. QED
    BY <2>1 DEF RunPages, End
<1>. QED
  BY <1>1, <1>2 DEF Covered

\* A page of a block.
LEMMA PagesMeaning ==
    ASSUME NEW b \in Block, NEW p
    PROVE  p \in PagesOf(b) <=> p \in Int /\ b.first <= p /\ p < b.first + b.pages
<1>1. b.first \in Nat /\ b.pages \in Nat
  BY DEF Block
<1>. QED
  BY <1>1 DEF PagesOf

\* No hole is larger than the longest run: the runs never touch.
LEMMA SortedHolesWhole ==
    ASSUME Sorted(free_runs)
    PROVE  HolesWhole
<1>. SUFFICES ASSUME NEW n \in 1..num_pages, Fits(n) = {}, NEW p \in Pages,
                     p..p + n - 1 \subseteq FreePages
              PROVE  FALSE
  BY DEF HolesWhole
<1>0. FreePages = Covered(free_runs) /\ num_pages \in Nat
  BY ArenaHasPages DEF FreePages, Covered
<1>1. p \in Int /\ n \in Nat /\ n >= 1 /\ p \in p..p + n - 1
  BY <1>0 DEF Pages
<1>2. PICK i \in 1..Len(free_runs) : free_runs[i].start <= p /\ p < End(free_runs[i])
  BY <1>0, <1>1, CoveredMeaning
<1>3. \A j \in 1..Len(free_runs) :
        /\ free_runs[j].start \in Nat /\ free_runs[j].length \in Nat
        /\ End(free_runs[j]) = free_runs[j].start + free_runs[j].length
  BY SortedType
<1>4. free_runs[i].length < n
  BY <1>1, <1>3 DEF Fits, Sorted
<1>. DEFINE q == End(free_runs[i])
<1>5. q \in Int /\ q \in p..p + n - 1
  BY <1>1, <1>2, <1>3, <1>4
<1>6. PICK j \in 1..Len(free_runs) : free_runs[j].start <= q /\ q < End(free_runs[j])
  BY <1>0, <1>5, CoveredMeaning
<1>7. i < j => End(free_runs[i]) < free_runs[j].start
  BY DEF Sorted
<1>8. j < i => End(free_runs[j]) < free_runs[i].start
  BY DEF Sorted
<1>9. j < i \/ j = i \/ i < j
  OBVIOUS
<1>t. /\ free_runs[i].start \in Nat /\ q \in Nat /\ free_runs[i].start < q
      /\ free_runs[j].start \in Nat /\ End(free_runs[j]) \in Nat
  BY SortedType
<1>. HIDE DEF q
<1>10. CASE j < i
  BY <1>6, <1>8, <1>10, <1>t
<1>11. CASE i < j
  <2>1. q < free_runs[j].start
    BY <1>7, <1>11 DEF q
  <2>. QED
    BY <1>6, <1>t, <2>1
<1>12. CASE j = i
  BY <1>6, <1>12, <1>t DEF q
<1>. QED
  BY <1>9, <1>10, <1>11, <1>12

\* The best fit is one of the runs that fit.
LEMMA BestFits ==
    ASSUME Sorted(free_runs), NEW n, Fits(n) # {}
    PROVE  BestFit(n) \in Fits(n)
<1>t. /\ Fits(n) \subseteq 1..Len(free_runs) /\ Len(free_runs) \in Nat
      /\ \A i \in 1..Len(free_runs) : free_runs[i].length \in Nat
  BY SortedType DEF Fits
<1>. DEFINE L == {free_runs[i].length : i \in Fits(n)}
<1>1. PICK m \in L : \A k \in L : m <= k
  BY <1>t, Smallest
<1>. DEFINE I == {i \in Fits(n) : free_runs[i].length = m}
<1>2. I \in SUBSET Nat /\ I # {}
  BY <1>1, <1>t
<1>3. PICK i \in I : \A j \in I : i <= j
  BY <1>2, Smallest
<1>4. ASSUME NEW j \in Fits(n)
      PROVE  \/ free_runs[i].length < free_runs[j].length
             \/ free_runs[i].length = free_runs[j].length /\ i <= j
  <2>1. free_runs[i].length = m /\ m <= free_runs[j].length
    BY <1>1, <1>3
  <2>2. m \in Nat /\ free_runs[j].length \in Nat
    BY <1>1, <1>t
  <2>3. free_runs[j].length = m => i <= j
    BY <1>3
  <2>. HIDE DEF I
  <2>. QED
    BY <2>1, <2>2, <2>3
<1>. QED
  BY <1>3, <1>4 DEF BestFit

\* dt_cache_arena_alloc hands out free pages and takes exactly those from the list.
LEMMA CarveKeeps ==
    ASSUME Sorted(free_runs), NEW n \in Nat \ {0}, Fits(n) # {}, Carve(n),
           NEW b, b = [first |-> free_runs[BestFit(n)].start, pages |-> n]
    PROVE  /\ Sorted(free_runs')
           /\ b \in Block
           /\ PagesOf(b) \subseteq FreePages
           /\ FreePages' = FreePages \ PagesOf(b)
<1>. DEFINE k == BestFit(n)
            len == Len(free_runs)
            r == free_runs[k]
<1>t. len \in Nat /\ \A i \in 1..len : free_runs[i] \in Run
  BY SortedType
<1>r. \A i \in 1..len :
        /\ free_runs[i].start \in Nat /\ free_runs[i].length \in Nat /\ free_runs[i].length > 0
        /\ End(free_runs[i]) = free_runs[i].start + free_runs[i].length
        /\ End(free_runs[i]) \in Nat /\ End(free_runs[i]) <= num_pages
  BY SortedType
<1>o. \A i, j \in 1..len : i < j => End(free_runs[i]) < free_runs[j].start
  BY SortedType
<1>k. k \in 1..len /\ r.length >= n
  BY BestFits DEF Fits, Sorted
<1>f. FreePages = Covered(free_runs) /\ FreePages' = Covered(free_runs')
  BY DEF FreePages, Covered
<1>b. b \in Block /\ b.first = r.start /\ b.pages = n
  BY <1>r, <1>k, ArenaHasPages DEF Block
<1>1. ASSUME NEW p
      PROVE  p \in PagesOf(b) <=> p \in Int /\ r.start <= p /\ p < r.start + n
  BY <1>b, PagesMeaning
<1>2. PagesOf(b) \subseteq FreePages
  BY <1>1, <1>f, <1>k, <1>r, CoveredMeaning
<1>3. CASE r.length = n
  <2>1. free_runs' = RemoveRun(free_runs, k)
    BY <1>3 DEF Carve
  <2>. HIDE DEF k
  <2>2. /\ free_runs' \in Seq(Run)
        /\ Len(free_runs') = len - 1
        /\ \A j \in 1..len - 1 :
             free_runs'[j] = IF j < k THEN free_runs[j] ELSE free_runs[j + 1]
    <3>1. free_runs \in Seq(Run) /\ k \in 1..Len(free_runs)
      BY <1>k, SortedType
    <3>2. IsRemoval(free_runs', Run, free_runs, k)
      BY <2>1, <3>1, ListRemoved, Zenon DEF RemoveRun
    <3>. QED
      BY <3>2 DEF IsRemoval
  <2>. DEFINE sh(j) == IF j < k THEN j ELSE j + 1
  <2>3. \A j \in 1..len - 1 : sh(j) \in 1..len /\ sh(j) # k /\ free_runs'[j] = free_runs[sh(j)]
    BY <1>k, <1>t, <2>2
  <2>4. \A i, j \in 1..len - 1 : i < j => sh(i) < sh(j)
    BY <1>k, <1>t
  <2>. HIDE DEF sh
  <2>5. Sorted(free_runs')
    BY <1>r, <1>o, <2>2, <2>3, <2>4 DEF Sorted
  <2>6. \A i \in 1..len : i # k => \E j \in 1..len - 1 : sh(j) = i
    <3>. SUFFICES ASSUME NEW i \in 1..len, i # k PROVE \E j \in 1..len - 1 : sh(j) = i
      OBVIOUS
    <3>1. CASE i < k
      <4>1. i \in 1..len - 1 /\ sh(i) = i
        BY <1>k, <1>t, <3>1 DEF sh
      <4>. QED
        BY <4>1
    <3>2. CASE ~ (i < k)
      <4>1. i - 1 \in 1..len - 1 /\ sh(i - 1) = i
        BY <1>k, <1>t, <3>2 DEF sh
      <4>. QED
        BY <4>1
    <3>. QED
      BY <3>1, <3>2
  <2>7. ASSUME NEW p
        PROVE  p \in Covered(free_runs') <=> p \in Covered(free_runs) /\ p \notin PagesOf(b)
    <3>1. p \in Covered(free_runs') <=>
            p \in Int /\ \E j \in 1..len - 1 :
                free_runs'[j].start <= p /\ p < End(free_runs'[j])
      BY <2>2, <2>5, CoveredMeaning
    <3>2. p \in Covered(free_runs) <=>
            p \in Int /\ \E i \in 1..len : free_runs[i].start <= p /\ p < End(free_runs[i])
      BY CoveredMeaning
    <3>3. p \in PagesOf(b) <=> p \in Int /\ r.start <= p /\ p < End(r)
      BY <1>1, <1>3, <1>k, <1>r
    <3>4. ASSUME NEW i \in 1..len, i # k, p \in Int, free_runs[i].start <= p, p < End(free_runs[i])
          PROVE  ~ (r.start <= p /\ p < End(r))
      <4>1. i < k \/ k < i
        BY <1>k, <1>t, <3>4
      <4>. QED
        BY <1>k, <1>o, <1>r, <3>4, <4>1
    <3>. QED
      BY <2>3, <2>6, <3>1, <3>2, <3>3, <3>4
  <2>. QED
    BY <1>2, <1>b, <1>f, <2>5, <2>7
<1>4. CASE r.length # n
  <2>. DEFINE x == [start |-> r.start + n, length |-> r.length - n]
  <2>1. free_runs' = [free_runs EXCEPT ![k] = x]
    BY <1>4 DEF Carve
  <2>2. x \in Run /\ x.start = r.start + n /\ End(x) = End(r)
    BY <1>4, <1>k, <1>r DEF Run, End
  <2>. HIDE DEF x, k
  <2>3. /\ free_runs' \in Seq(Run) /\ Len(free_runs') = len
        /\ \A j \in 1..len : free_runs'[j] = IF j = k THEN x ELSE free_runs[j]
    BY <1>k, <2>1, <2>2, ExceptSeq DEF Sorted
  <2>4. \A j \in 1..len : End(free_runs'[j]) = End(free_runs[j])
                          /\ free_runs'[j].start >= free_runs[j].start
    <3>. SUFFICES ASSUME NEW j \in 1..len
                  PROVE  End(free_runs'[j]) = End(free_runs[j])
                         /\ free_runs'[j].start >= free_runs[j].start
      OBVIOUS
    <3>1. CASE j = k
      <4>1. free_runs'[j] = x /\ free_runs[j] = r /\ r.start \in Nat
        BY <1>r, <2>3, <3>1
      <4>. QED
        BY <2>2, <4>1
    <3>2. CASE j # k
      <4>1. free_runs'[j] = free_runs[j] /\ free_runs[j].start \in Nat
        BY <1>r, <2>3, <3>2
      <4>. QED
        BY <4>1
    <3>. QED
      BY <3>1, <3>2
  <2>t. \A j \in 1..len : free_runs'[j].start \in Nat
    <3>1. \A j \in 1..len : free_runs'[j] \in Run
      BY <1>t, <2>2, <2>3
    <3>. QED
      BY <3>1, RunType
  <2>5. Sorted(free_runs')
    <3>1. ASSUME NEW i \in 1..len, NEW j \in 1..len, i < j
          PROVE  End(free_runs'[i]) < free_runs'[j].start
      <4>1. /\ End(free_runs[i]) < free_runs[j].start /\ End(free_runs[i]) \in Nat
            /\ free_runs[j].start \in Nat /\ free_runs'[j].start \in Nat
        BY <1>o, <1>r, <2>t, <3>1
      <4>2. End(free_runs'[i]) = End(free_runs[i]) /\ free_runs'[j].start >= free_runs[j].start
        BY <2>4
      <4>. QED
        BY <4>1, <4>2
    <3>2. \A i \in 1..len : End(free_runs'[i]) <= num_pages
      BY <1>r, <2>4
    <3>. QED
      BY <2>3, <3>1, <3>2 DEF Sorted
  <2>6. ASSUME NEW p
        PROVE  p \in Covered(free_runs') <=> p \in Covered(free_runs) /\ p \notin PagesOf(b)
    <3>1. p \in Covered(free_runs') <=>
            p \in Int /\ \E j \in 1..len :
                free_runs'[j].start <= p /\ p < End(free_runs'[j])
      BY <2>3, <2>5, CoveredMeaning
    <3>2. p \in Covered(free_runs) <=>
            p \in Int /\ \E i \in 1..len : free_runs[i].start <= p /\ p < End(free_runs[i])
      BY CoveredMeaning
    <3>4. ASSUME NEW i \in 1..len, i # k, p \in Int, free_runs[i].start <= p, p < End(free_runs[i])
          PROVE  ~ (r.start <= p /\ p < End(r))
      <4>1. i < k \/ k < i
        BY <1>k, <1>t, <3>4
      <4>. QED
        BY <1>k, <1>o, <1>r, <3>4, <4>1
    <3>5. ASSUME NEW i \in 1..len, p \in Int
          PROVE  (free_runs'[i].start <= p /\ p < End(free_runs'[i])) <=>
                   /\ free_runs[i].start <= p /\ p < End(free_runs[i])
                   /\ ~ (r.start <= p /\ p < r.start + n)
      <4>1. CASE i = k
        BY <1>k, <1>r, <2>2, <2>3, <2>4, <3>5, <4>1
      <4>2. CASE i # k
        <5>1. free_runs'[i] = free_runs[i]
          BY <2>3, <4>2
        <5>2. r.start + n <= End(r)
          BY <1>k, <1>r
        <5>3. r.start \in Nat /\ End(r) \in Nat
          BY <1>k, <1>r
        <5>. QED
          BY <3>4, <3>5, <4>2, <5>1, <5>2, <5>3
      <4>. QED
        BY <4>1, <4>2
    <3>. QED
      BY <1>1, <3>1, <3>2, <3>5
  <2>. QED
    BY <1>2, <1>b, <1>f, <2>5, <2>6
<1>. QED
  BY <1>3, <1>4

\* A list of runs in which x takes the place of those after a, up to c, is in order if x
\* lies apart from the runs that stay.
LEMMA SpliceKeeps ==
    ASSUME NEW runs, Sorted(runs), NEW a \in 0..Len(runs), NEW c \in a..Len(runs),
           NEW x \in Run, End(x) <= num_pages,
           \A i \in 1..a : End(runs[i]) < x.start,
           \A i \in c + 1..Len(runs) : End(x) < runs[i].start,
           NEW r, r = SubSeq(runs, 1, a) \o <<x>> \o SubSeq(runs, c + 1, Len(runs))
    PROVE  /\ Sorted(r)
           /\ \A p : p \in Covered(r) <=>
                /\ p \in Int
                /\ \/ x.start <= p /\ p < End(x)
                   \/ \E i \in (1..a) \cup (c + 1..Len(runs)) :
                          runs[i].start <= p /\ p < End(runs[i])
<1>. DEFINE len == Len(runs)
            m == len + 1 + a - c
<1>t. /\ runs \in Seq(Run) /\ len \in Nat /\ a \in 0..len /\ c \in a..len
      /\ \A i \in 1..len : /\ runs[i].start \in Nat /\ End(runs[i]) \in Nat
                           /\ runs[i].start < End(runs[i]) /\ End(runs[i]) <= num_pages
      /\ \A i, j \in 1..len : i < j => End(runs[i]) < runs[j].start
  BY SortedType
<1>x. x.start \in Nat /\ End(x) \in Nat /\ x.start < End(x)
  BY RunType
<1>1. /\ r \in Seq(Run) /\ Len(r) = m
      /\ \A j \in 1..a : r[j] = runs[j]
      /\ r[a + 1] = x
      /\ \A j \in c + 1..len : r[j + 1 + a - c] = runs[j]
  <2>1. runs \in Seq(Run) /\ a \in 0..Len(runs) /\ c \in a..Len(runs) /\ x \in Run
    BY <1>t
  <2>2. IsSplice(r, Run, runs, x, a, c)
    BY <2>1, ListSpliced, Zenon
  <2>. QED
    BY <2>2 DEF IsSplice
<1>n. len \in Nat /\ a \in Nat /\ c \in Nat /\ a <= c /\ c <= len /\ m \in Nat
      /\ m = len + 1 + a - c
  BY <1>t
<1>o. /\ \A i \in 1..a : End(runs[i]) < x.start
      /\ \A i \in c + 1..len : End(x) < runs[i].start
  OBVIOUS
<1>. HIDE DEF len, m
<1>2. ASSUME NEW j \in 1..m, j > a + 1
      PROVE  /\ j - 1 - a + c \in c + 1..len /\ j - 1 - a + c \in 1..len
             /\ r[j] = runs[j - 1 - a + c]
  <2>1. j - 1 - a + c \in c + 1..len /\ j - 1 - a + c \in 1..len
        /\ (j - 1 - a + c) + 1 + a - c = j
    BY <1>n, <1>2
  <2>. QED
    BY <1>1, <2>1, Zenon
<1>3. ASSUME NEW j \in 1..m, j <= a
      PROVE  j \in 1..a /\ j \in 1..len /\ r[j] = runs[j]
  <2>1. j \in 1..a /\ j \in 1..len
    BY <1>3, <1>n
  <2>. QED
    BY <1>1, <2>1, Zenon
<1>4. ASSUME NEW j \in 1..m PROVE End(r[j]) <= num_pages
  <2>1. CASE j <= a
    BY <1>3, <1>t, <2>1
  <2>2. CASE j = a + 1
    BY <1>1, <2>2
  <2>3. CASE j > a + 1
    BY <1>2, <1>t, <2>3
  <2>4. j <= a \/ j = a + 1 \/ j > a + 1
    BY <1>n
  <2>. QED
    BY <2>1, <2>2, <2>3, <2>4, Zenon
<1>5. ASSUME NEW i \in 1..m, NEW j \in 1..m, i < j PROVE End(r[i]) < r[j].start
  <2>1. CASE j <= a
    <3>1. i <= a
      BY <1>n, <1>5, <2>1
    <3>. QED
      BY <1>3, <1>5, <1>t, <2>1, <3>1
  <2>2. CASE j = a + 1
    <3>1. i <= a
      BY <1>n, <1>5, <2>2
    <3>. QED
      BY <1>1, <1>3, <1>o, <2>2, <3>1
  <2>3. CASE j > a + 1 /\ i <= a
    <3>1. i \in 1..len /\ j - 1 - a + c \in 1..len /\ i < j - 1 - a + c
      <4>1. i \in 1..len /\ j - 1 - a + c \in 1..len
        BY <1>2, <1>3, <2>3
      <4>. QED
        BY <1>n, <2>3, <4>1
    <3>2. r[i] = runs[i] /\ r[j] = runs[j - 1 - a + c]
      BY <1>2, <1>3, <2>3
    <3>. QED
      BY <1>t, <3>1, <3>2
  <2>4. CASE j > a + 1 /\ i = a + 1
    BY <1>1, <1>2, <1>o, <2>4
  <2>5. CASE j > a + 1 /\ i > a + 1
    <3>1. i - 1 - a + c \in 1..len /\ j - 1 - a + c \in 1..len /\ i - 1 - a + c < j - 1 - a + c
      <4>1. i - 1 - a + c \in 1..len /\ j - 1 - a + c \in 1..len
        BY <1>2, <2>5
      <4>. QED
        BY <1>n, <1>5, <4>1
    <3>2. r[i] = runs[i - 1 - a + c] /\ r[j] = runs[j - 1 - a + c]
      BY <1>2, <2>5
    <3>. QED
      BY <1>t, <3>1, <3>2
  <2>6. j <= a \/ j = a + 1 \/ (j > a + 1 /\ (i <= a \/ i = a + 1 \/ i > a + 1))
    BY <1>n
  <2>. QED
    BY <2>1, <2>2, <2>3, <2>4, <2>5, <2>6, Zenon
<1>6. Sorted(r)
  BY <1>1, <1>4, <1>5 DEF Sorted
<1>7. ASSUME NEW p
      PROVE  p \in Covered(r) <=>
                /\ p \in Int
                /\ \/ x.start <= p /\ p < End(x)
                   \/ \E i \in (1..a) \cup (c + 1..len) :
                          runs[i].start <= p /\ p < End(runs[i])
  <2>1. p \in Covered(r) <=>
          p \in Int /\ \E j \in 1..m : r[j].start <= p /\ p < End(r[j])
    BY <1>1, <1>6, CoveredMeaning, Zenon
  <2>2. ASSUME NEW j \in 1..m, r[j].start <= p, p < End(r[j])
        PROVE  \/ x.start <= p /\ p < End(x)
               \/ \E i \in (1..a) \cup (c + 1..len) : runs[i].start <= p /\ p < End(runs[i])
    <3>1. CASE j <= a
      BY <1>3, <2>2, <3>1
    <3>2. CASE j = a + 1
      BY <1>1, <2>2, <3>2
    <3>3. CASE j > a + 1
      <4>1. j - 1 - a + c \in c + 1..len /\ r[j] = runs[j - 1 - a + c]
        BY <1>2, <3>3
      <4>. QED
        BY <2>2, <4>1, Zenon
    <3>4. j <= a \/ j = a + 1 \/ j > a + 1
      BY <1>n
    <3>. QED
      BY <3>1, <3>2, <3>3, <3>4, Zenon
  <2>3. a + 1 \in 1..m /\ r[a + 1] = x
    <3>1. a + 1 \in 1..m
      BY <1>n
    <3>. QED
      BY <1>1, <3>1
  <2>4. ASSUME NEW i \in 1..a PROVE i \in 1..m /\ r[i] = runs[i]
    <3>1. i \in 1..m
      BY <1>n
    <3>. QED
      BY <1>1, <3>1
  <2>5. ASSUME NEW i \in c + 1..len PROVE i + 1 + a - c \in 1..m /\ r[i + 1 + a - c] = runs[i]
    <3>1. i + 1 + a - c \in 1..m
      BY <1>n
    <3>. QED
      BY <1>1, <3>1
  <2>6. (x.start <= p /\ p < End(x)) => \E j \in 1..m : r[j].start <= p /\ p < End(r[j])
    BY <2>3
  <2>7. ASSUME NEW i \in (1..a) \cup (c + 1..len), runs[i].start <= p, p < End(runs[i])
        PROVE  \E j \in 1..m : r[j].start <= p /\ p < End(r[j])
    <3>1. CASE i \in 1..a
      BY <2>4, <2>7, <3>1
    <3>2. CASE i \in c + 1..len
      <4>1. i + 1 + a - c \in 1..m /\ r[i + 1 + a - c] = runs[i]
        BY <2>5, <3>2
      <4>. QED
        BY <2>7, <4>1
    <3>. QED
      BY <3>1, <3>2
  <2>. QED
    BY <2>1, <2>2, <2>6, <2>7, Zenon
<1>. QED
  BY <1>6, <1>7, Zenon DEF len, m

\* The place of a block in the list: after the runs that start before it.
LEMMA BeforeMeaning ==
    ASSUME Sorted(free_runs), NEW b \in Block
    PROVE  /\ Before(b) \in 0..Len(free_runs)
           /\ \A i \in 1..Len(free_runs) : free_runs[i].start < b.first <=> i <= Before(b)
<1>. DEFINE len == Len(free_runs)
            f == b.first
<1>t. /\ len \in Nat /\ DOMAIN free_runs = 1..len /\ f \in Nat
      /\ \A i \in 1..len : free_runs[i].start \in Nat /\ End(free_runs[i]) \in Nat
                           /\ free_runs[i].start < End(free_runs[i])
      /\ \A i, j \in 1..len : i < j => End(free_runs[i]) < free_runs[j].start
  BY SortedType DEF Block
<1>b. Before(b) = Cardinality({i \in 1..len : free_runs[i].start < f})
  BY <1>t DEF Before
<1>. HIDE DEF len, f
<1>. DEFINE U == {i \in 1..len + 1 : i = len + 1 \/ ~ (free_runs[i].start < f)}
<1>1. U \in SUBSET Nat /\ U # {}
  <2>1. len \in Nat
    BY <1>t
  <2>2. len + 1 \in U
    BY <2>1
  <2>3. ASSUME NEW i \in U PROVE i \in Nat
    <3>1. i \in 1..len + 1
      BY <2>3, Zenon
    <3>. QED
      BY <2>1, <3>1
  <2>4. U \in SUBSET Nat
    <3>. HIDE DEF U
    <3>. QED
      BY <2>3, Zenon
  <2>. QED
    BY <2>2, <2>4, Zenon
<1>2. PICK m \in U : \A i \in U : m <= i
  BY <1>1, Smallest
<1>3. m \in 1..len + 1
  BY <1>2
<1>4. ASSUME NEW i \in 1..len PROVE free_runs[i].start < f <=> i <= m - 1
  <2>1. CASE i < m
    <3>1. i \notin U
      <4>. HIDE DEF U
      <4>. QED
        BY <1>2, <1>3, <1>t, <2>1
    <3>2. i \in 1..len + 1 /\ i # len + 1
      BY <1>t
    <3>. QED
      BY <1>3, <2>1, <3>1, <3>2
  <2>2. CASE ~ (i < m)
    <3>1. m \in 1..len /\ ~ (free_runs[m].start < f)
      BY <1>2, <1>3, <1>t, <2>2
    <3>2. m < i => End(free_runs[m]) < free_runs[i].start
      BY <1>t, <3>1
    <3>3. /\ free_runs[m].start \in Nat /\ End(free_runs[m]) \in Nat
          /\ free_runs[m].start < End(free_runs[m]) /\ free_runs[i].start \in Nat
      BY <1>t, <3>1
    <3>. HIDE DEF U
    <3>4. CASE m = i
      BY <1>3, <3>1, <3>4
    <3>5. CASE m < i
      <4>1. f \in Nat /\ End(free_runs[m]) < free_runs[i].start
        BY <1>t, <3>2, <3>5
      <4>2. ~ (free_runs[i].start < f)
        BY <3>1, <3>3, <4>1
      <4>. QED
        BY <1>3, <3>5, <4>2
    <3>. QED
      BY <1>3, <2>2, <3>4, <3>5
  <2>. QED
    BY <2>1, <2>2
<1>. HIDE DEF U
<1>5. {i \in 1..len : free_runs[i].start < f} = 1..m - 1
  <2>1. ASSUME NEW i PROVE i \in 1..len /\ i <= m - 1 <=> i \in 1..m - 1
    BY <1>3, <1>t
  <2>. QED
    BY <1>4, <2>1
<1>6. Cardinality(1..m - 1) = m - 1
  BY <1>3, <1>t, FS_Interval
<1>7. Before(b) = m - 1
  BY <1>5, <1>6, <1>b, Zenon
<1>8. m - 1 \in 0..len
  BY <1>3, <1>t
<1>. QED
  BY <1>4, <1>7, <1>8 DEF len, f

\* dt_cache_arena_free: a block of pages none of which is free is never refused, and the
\* list then has its pages too.
LEMMA InsertedKeeps ==
    ASSUME Sorted(free_runs), NEW b \in Block, PagesOf(b) \cap FreePages = {}
    PROVE  /\ ~ Overlaps(b)
           /\ Sorted(Inserted(b))
           /\ Covered(Inserted(b)) = FreePages \cup PagesOf(b)
<1>. DEFINE len == Len(free_runs)
            k == Before(b)
            f == b.first
            e == b.first + b.pages
<1>t. /\ len \in Nat
      /\ \A i \in 1..len :
           /\ free_runs[i].start \in Nat /\ free_runs[i].length \in Nat
           /\ End(free_runs[i]) = free_runs[i].start + free_runs[i].length
           /\ End(free_runs[i]) \in Nat
           /\ free_runs[i].start < End(free_runs[i]) /\ End(free_runs[i]) <= num_pages
      /\ \A i, j \in 1..len : i < j => End(free_runs[i]) < free_runs[j].start
  BY SortedType
<1>b. f \in Nat /\ e \in Nat /\ f < e /\ e <= num_pages
  BY DEF Block
<1>n. num_pages \in Nat
  BY ArenaHasPages
<1>k. k \in 0..len /\ \A i \in 1..len : free_runs[i].start < f <=> i <= k
  BY BeforeMeaning
<1>p. ASSUME NEW p PROVE p \in PagesOf(b) <=> p \in Int /\ f <= p /\ p < e
  BY PagesMeaning
<1>c. ASSUME NEW p
      PROVE  p \in FreePages <=>
               p \in Int /\ \E i \in 1..len : free_runs[i].start <= p /\ p < End(free_runs[i])
  BY CoveredMeaning DEF FreePages, Covered
<1>. HIDE DEF len, f, e
<1>1. ASSUME NEW i \in 1..len, i <= k PROVE End(free_runs[i]) <= f
  <2>1. free_runs[i].start < f
    BY <1>1, <1>k
  <2>2. f \in PagesOf(b) /\ f \notin FreePages
    BY <1>b, <1>p
  <2>3. ~ (f < End(free_runs[i]))
    <3>1. free_runs[i].start <= f
      BY <1>b, <1>t, <2>1
    <3>. QED
      BY <1>b, <1>c, <2>2, <3>1
  <2>. QED
    BY <1>b, <1>t, <2>3
<1>2. ASSUME NEW i \in 1..len, i > k PROVE e <= free_runs[i].start
  <2>1. free_runs[i].start \in Nat /\ f <= free_runs[i].start
    BY <1>2, <1>b, <1>k, <1>t
  <2>2. free_runs[i].start \in FreePages
    <3>1. free_runs[i].start \in Int /\ free_runs[i].start <= free_runs[i].start
          /\ free_runs[i].start < End(free_runs[i])
      BY <1>t
    <3>. QED
      BY <1>c, <3>1
  <2>3. free_runs[i].start \notin PagesOf(b)
    BY <2>2
  <2>. QED
    BY <1>b, <1>p, <2>1, <2>3
<1>. DEFINE after == k < len /\ free_runs[k + 1].start = e
            prior == k > 0 /\ End(free_runs[k]) = f
            start == IF prior THEN free_runs[k].start ELSE f
            end == e + IF after THEN free_runs[k + 1].length ELSE 0
            x == [start |-> start, length |-> end - start]
            a == IF prior THEN k - 1 ELSE k
            c == IF after THEN k + 1 ELSE k
<1>d. /\ Overlaps(b) <=> \/ k > 0 /\ End(free_runs[k]) > f
                         \/ k < len /\ e > free_runs[k + 1].start
      /\ Inserted(b) = SubSeq(free_runs, 1, a) \o <<x>>
                         \o SubSeq(free_runs, IF after THEN k + 2 ELSE k + 1, len)
  BY DEF Overlaps, Inserted, End, f, e, len
<1>3. ~ Overlaps(b)
  <2>1. ~ (k > 0 /\ End(free_runs[k]) > f)
    <3>. SUFFICES ASSUME k > 0 PROVE ~ (End(free_runs[k]) > f)
      OBVIOUS
    <3>1. k \in 1..len /\ k <= k
      BY <1>k, <1>t
    <3>. QED
      BY <1>1, <1>b, <1>t, <3>1
  <2>2. ~ (k < len /\ e > free_runs[k + 1].start)
    <3>. SUFFICES ASSUME k < len PROVE ~ (e > free_runs[k + 1].start)
      OBVIOUS
    <3>1. k + 1 \in 1..len /\ k + 1 > k
      BY <1>k, <1>t
    <3>. QED
      BY <1>2, <1>b, <1>t, <3>1
  <2>. QED
    BY <1>d, <2>1, <2>2
<1>kk. k \in Nat /\ k <= len
  BY <1>k, <1>t
<1>. HIDE DEF k
<1>4. /\ start \in Nat /\ start <= f
      /\ prior => k \in 1..len /\ start = free_runs[k].start
      /\ ~ prior => start = f
  <2>1. CASE prior
    <3>1. k \in 1..len /\ start = free_runs[k].start
      BY <1>kk, <1>t, <2>1
    <3>2. free_runs[k].start \in Nat /\ free_runs[k].start < End(free_runs[k])
          /\ End(free_runs[k]) = f
      BY <1>t, <2>1, <3>1
    <3>. QED
      BY <1>b, <2>1, <3>1, <3>2
  <2>2. CASE ~ prior
    BY <1>b, <2>2
  <2>. QED
    BY <2>1, <2>2
<1>5. /\ end \in Nat /\ e <= end /\ end <= num_pages
      /\ after => k + 1 \in 1..len /\ end = End(free_runs[k + 1]) /\ e = free_runs[k + 1].start
      /\ ~ after => end = e
  <2>1. CASE after
    <3>1. k + 1 \in 1..len
      BY <1>kk, <1>t, <2>1
    <3>2. end = e + free_runs[k + 1].length /\ e = free_runs[k + 1].start
      BY <2>1
    <3>3. /\ free_runs[k + 1].start \in Nat /\ free_runs[k + 1].length \in Nat
          /\ End(free_runs[k + 1]) = free_runs[k + 1].start + free_runs[k + 1].length
          /\ End(free_runs[k + 1]) <= num_pages
      BY <1>t, <3>1
    <3>. HIDE DEF end, after
    <3>4. end = End(free_runs[k + 1]) /\ end \in Nat /\ e <= end
      BY <3>2, <3>3
    <3>. QED
      BY <2>1, <3>1, <3>2, <3>3, <3>4
  <2>2. CASE ~ after
    BY <1>b, <2>2
  <2>. QED
    BY <2>1, <2>2
<1>a. /\ a \in 0..len /\ a <= k /\ (prior => a = k - 1 /\ k > 0) /\ (~ prior => a = k)
  BY <1>kk, <1>t
<1>cc. c \in a..len /\ k <= c /\ (after => c = k + 1) /\ (~ after => c = k)
  BY <1>kk, <1>t
<1>6. x \in Run /\ x.start = start /\ End(x) = end
  <2>1. end - start \in Nat \ {0} /\ start + (end - start) = end
    <3>. HIDE DEF start, end
    <3>. QED
      BY <1>4, <1>5, <1>b
  <2>. HIDE DEF start, end
  <2>. QED
    BY <1>4, <2>1 DEF Run, End
<1>7. Inserted(b) = SubSeq(free_runs, 1, a) \o <<x>> \o SubSeq(free_runs, c + 1, Len(free_runs))
  <2>1. (IF after THEN k + 2 ELSE k + 1) = c + 1
    BY <1>kk
  <2>. QED
    BY <1>d, <2>1, Zenon DEF len
<1>pr. prior => End(free_runs[k]) = f
  OBVIOUS
<1>np. ~ prior => (k > 0 => End(free_runs[k]) # f)
  OBVIOUS
<1>na. ~ after => (k < len => free_runs[k + 1].start # e)
  OBVIOUS
<1>. HIDE DEF after, prior, start, end, x, a, c
<1>8. ASSUME NEW i \in 1..a PROVE i \in 1..len /\ i <= k /\ End(free_runs[i]) < start
  <2>0. i \in 1..len /\ i <= k
    BY <1>a, <1>kk, <1>t
  <2>1. CASE prior
    <3>1. k \in 1..len /\ i < k
      BY <1>4, <1>a, <1>kk, <2>1
    <3>2. End(free_runs[i]) < free_runs[k].start
      BY <1>t, <2>0, <3>1
    <3>. QED
      BY <1>4, <2>0, <2>1, <3>2
  <2>2. CASE ~ prior
    <3>1. End(free_runs[i]) <= f /\ End(free_runs[i]) \in Nat
      BY <1>1, <1>t, <2>0
    <3>2. k \in 1..len /\ k > 0 /\ k <= k
      BY <1>kk, <2>0
    <3>3. End(free_runs[k]) <= f /\ End(free_runs[k]) # f /\ End(free_runs[k]) \in Nat
      BY <1>1, <1>np, <1>t, <2>2, <3>2
    <3>4. CASE i = k
      BY <1>4, <1>b, <2>0, <2>2, <3>3, <3>4
    <3>5. CASE i < k
      <4>1. End(free_runs[i]) < free_runs[k].start /\ free_runs[k].start < End(free_runs[k])
            /\ free_runs[k].start \in Nat
        BY <1>t, <2>0, <3>2, <3>5
      <4>2. End(free_runs[i]) < f
        BY <1>b, <3>1, <3>3, <4>1
      <4>. QED
        BY <1>4, <2>0, <2>2, <4>2
    <3>6. i = k \/ i < k
      BY <1>kk, <2>0
    <3>. QED
      BY <3>4, <3>5, <3>6
  <2>. QED
    BY <2>1, <2>2
<1>9. ASSUME NEW i \in c + 1..len PROVE i \in 1..len /\ i > k /\ end < free_runs[i].start
  <2>0. i \in 1..len /\ i > k
    BY <1>a, <1>cc, <1>kk, <1>t
  <2>1. CASE after
    <3>1. k + 1 \in 1..len /\ k + 1 < i
      BY <1>5, <1>cc, <1>kk, <2>1
    <3>2. End(free_runs[k + 1]) < free_runs[i].start
      BY <1>t, <2>0, <3>1
    <3>. QED
      BY <1>5, <2>0, <2>1, <3>2
  <2>2. CASE ~ after
    <3>1. e <= free_runs[i].start /\ free_runs[i].start \in Nat
      BY <1>2, <1>t, <2>0
    <3>2. k + 1 \in 1..len /\ k < len /\ k + 1 > k
      BY <1>kk, <1>t, <2>0
    <3>3. /\ e <= free_runs[k + 1].start /\ free_runs[k + 1].start # e
          /\ free_runs[k + 1].start \in Nat
      BY <1>2, <1>na, <1>t, <2>2, <3>2
    <3>4. CASE i = k + 1
      BY <1>5, <1>b, <2>0, <2>2, <3>3, <3>4
    <3>5. CASE i > k + 1
      <4>1. /\ End(free_runs[k + 1]) < free_runs[i].start /\ End(free_runs[k + 1]) \in Nat
            /\ free_runs[k + 1].start < End(free_runs[k + 1])
        BY <1>t, <2>0, <3>2, <3>5
      <4>2. e < free_runs[i].start
        BY <1>b, <3>1, <3>3, <4>1
      <4>. QED
        BY <1>5, <2>0, <2>2, <4>2
    <3>6. i = k + 1 \/ i > k + 1
      BY <1>kk, <2>0
    <3>. QED
      BY <3>4, <3>5, <3>6
  <2>. QED
    BY <2>1, <2>2
<1>10. /\ Sorted(Inserted(b))
       /\ \A p : p \in Covered(Inserted(b)) <=>
            /\ p \in Int
            /\ \/ start <= p /\ p < end
               \/ \E i \in (1..a) \cup (c + 1..len) :
                      free_runs[i].start <= p /\ p < End(free_runs[i])
  <2>1. /\ a \in 0..Len(free_runs) /\ c \in a..Len(free_runs) /\ x \in Run /\ End(x) <= num_pages
        /\ \A i \in 1..a : End(free_runs[i]) < x.start
        /\ \A i \in c + 1..Len(free_runs) : End(x) < free_runs[i].start
    BY <1>5, <1>6, <1>8, <1>9, <1>a, <1>cc DEF len
  <2>2. /\ Sorted(Inserted(b))
        /\ \A p : p \in Covered(Inserted(b)) <=>
             /\ p \in Int
             /\ \/ x.start <= p /\ p < End(x)
                \/ \E i \in (1..a) \cup (c + 1..Len(free_runs)) :
                       free_runs[i].start <= p /\ p < End(free_runs[i])
    BY <1>7, <2>1, SpliceKeeps, Zenon
  <2>. QED
    BY <1>6, <2>2, Zenon DEF len
<1>11. ASSUME NEW p \in Int
       PROVE  (\/ start <= p /\ p < end
               \/ \E i \in (1..a) \cup (c + 1..len) :
                      free_runs[i].start <= p /\ p < End(free_runs[i]))
              <=> \/ f <= p /\ p < e
                  \/ \E i \in 1..len : free_runs[i].start <= p /\ p < End(free_runs[i])
  <2>1. ASSUME start <= p, p < end
        PROVE  \/ f <= p /\ p < e
               \/ \E i \in 1..len : free_runs[i].start <= p /\ p < End(free_runs[i])
    <3>1. CASE p < f
      <4>1. prior
        BY <1>4, <1>b, <2>1, <3>1
      <4>2. k \in 1..len /\ free_runs[k].start <= p /\ p < End(free_runs[k])
        BY <1>4, <1>pr, <2>1, <3>1, <4>1
      <4>. QED
        BY <4>2
    <3>2. CASE p >= e
      <4>1. after
        BY <1>5, <1>b, <2>1, <3>2
      <4>2. k + 1 \in 1..len /\ free_runs[k + 1].start <= p /\ p < End(free_runs[k + 1])
        BY <1>5, <2>1, <3>2, <4>1
      <4>. QED
        BY <4>2
    <3>3. p < f \/ p >= e \/ (f <= p /\ p < e)
      BY <1>b
    <3>. QED
      BY <3>1, <3>2, <3>3, Zenon
  <2>2. ASSUME f <= p, p < e PROVE start <= p /\ p < end
    BY <1>4, <1>5, <1>b, <2>2
  <2>3. ASSUME NEW i \in 1..len, free_runs[i].start <= p, p < End(free_runs[i])
        PROVE  \/ start <= p /\ p < end
               \/ \E j \in (1..a) \cup (c + 1..len) :
                      free_runs[j].start <= p /\ p < End(free_runs[j])
    <3>1. CASE i \in (1..a) \cup (c + 1..len)
      BY <2>3, <3>1
    <3>2. CASE i \notin (1..a) \cup (c + 1..len)
      <4>1. i > a /\ i <= c
        BY <1>a, <1>cc, <1>t, <3>2
      <4>2. CASE i <= k
        <5>1. prior /\ i = k
          BY <1>a, <1>kk, <4>1, <4>2
        <5>2. start <= p /\ p < f
          BY <1>4, <1>pr, <2>3, <5>1
        <5>. QED
          BY <1>4, <1>5, <1>b, <5>2
      <4>3. CASE i > k
        <5>1. after /\ i = k + 1
          BY <1>cc, <1>kk, <4>1, <4>3
        <5>2. e <= p /\ p < end
          BY <1>5, <2>3, <5>1
        <5>. QED
          BY <1>4, <1>5, <1>b, <5>2
      <4>. QED
        BY <1>kk, <4>2, <4>3
    <3>. QED
      BY <3>1, <3>2
  <2>4. ASSUME NEW i \in (1..a) \cup (c + 1..len) PROVE i \in 1..len
    BY <1>8, <1>9
  <2>. QED
    BY <2>1, <2>2, <2>3, <2>4, Zenon
<1>12. ASSUME NEW p PROVE p \in Covered(Inserted(b)) <=> p \in FreePages \cup PagesOf(b)
  <2>1. p \in FreePages \cup PagesOf(b) <=> p \in FreePages \/ p \in PagesOf(b)
    OBVIOUS
  <2>. QED
    BY <1>10, <1>11, <1>c, <1>p, <2>1, Zenon
<1>. QED
  BY <1>3, <1>10, <1>12

----------------------------------------------------------------------------
(* The invariant *)

\* The place of a thread in its call: an eviction or a release on the way returns to it.
At(c, l) == IF l \in {"advise", "publish"} THEN c.back ELSE l

\* Where a thread has a block of its own, where the block is backed by the system, and
\* where the thread is in a call for a temporary buffer or for a line.
Holding == {"commit", "got", "enter", "hold", "used"}
Solid == {"got", "enter", "hold", "used"}
TempPlaces == {"space", "valve", "shed", "carve", "commit", "failed", "defrag",
               "enter", "hold", "used"}
LinePlaces == {"space", "valve", "shed", "carve", "commit", "failed", "defrag",
               "got", "fill", "undo"}

Kinds == {"none", "timer", "temp", "line"}
Places == {"idle", "unlock", "trim", "sweep"} \cup TempPlaces \cup LinePlaces
Labels == Places \cup {"advise", "publish"}

MaybeBlock == Block \cup {NULL}

Context == [kind : Kinds, req : Nat, blk : MaybeBlock, victim : MaybeBlock,
            back : Places, want : Nat, freed : Nat, retry : BOOLEAN]

\* A size of whole pages that the arena can hold.
WholePages(size) == \E n \in 1..num_pages : size = PageSize * n

\* Thread t may be at label l of the call c.
ThreadOK(t, c, l) ==
    /\ c \in Context /\ l \in Labels
    /\ c.victim # NULL <=> l \in {"advise", "publish"}
    /\ c.blk # NULL <=> At(c, l) \in Holding
    /\ \/ c.kind = "none" /\ At(c, l) \in {"idle", "unlock", "trim"}
       \/ c.kind = "timer" /\ At(c, l) \in {"shed", "sweep"}
       \/ c.kind = "temp" /\ At(c, l) \in TempPlaces /\ t \in Threads
       \/ c.kind = "line" /\ At(c, l) \in LinePlaces /\ t \in Threads
    /\ c.kind = "line" => WholePages(c.req)
    /\ c.kind = "line" /\ c.blk # NULL => BlockSize(c.blk) = c.req

ThreadsOK ==
    /\ pc \in [Everyone -> Labels] /\ ctx \in [Everyone -> Context]
    /\ \A t \in Everyone : ThreadOK(t, ctx[t], pc[t])

\* The caller has a line in the table.
HasLine(c, l) == c.kind = "line" /\ At(c, l) # "space"

Line == [size : Nat, buf : MaybeBlock, user : Threads \cup {NULL}]

\* A line without a user has a buffer; one with a user gets it when the user fills it.
LineOK(x, cs, ls) ==
    /\ x \in Line
    /\ x.buf # NULL => BlockSize(x.buf) = x.size
    /\ x.user = NULL => x.buf # NULL
    /\ x.user # NULL =>
         /\ HasLine(cs[x.user], ls[x.user])
         /\ x.size = cs[x.user].req
         /\ x.buf # NULL <=> At(cs[x.user], ls[x.user]) = "fill"

\* Every writer has exactly one line.
LinesOK ==
    /\ lines \in Seq(Line)
    /\ \A i \in 1..Len(lines) : LineOK(lines[i], ctx, pc)
    /\ \A i, j \in 1..Len(lines) :
         i # j /\ lines[i].user # NULL => lines[i].user # lines[j].user
    /\ \A t \in Everyone :
         HasLine(ctx[t], pc[t]) => \E i \in 1..Len(lines) : lines[i].user = t

\* The pages of a block, if there is one; blocks that share no page with each other, or
\* with the free pages.
Mine(b) == IF b = NULL THEN {} ELSE PagesOf(b)
Off(a, b) == Mine(a) \cap Mine(b) = {}
Clear(b) == Mine(b) \cap FreePages = {}

\* Every page has one owner: it is free, in a block of a thread, or in the buffer of a line.
Apart ==
    /\ \A t \in Everyone : Clear(ctx[t].blk) /\ Clear(ctx[t].victim)
    /\ \A i \in 1..Len(lines) : Clear(lines[i].buf)
    /\ \A t, u \in Everyone : Off(ctx[t].blk, ctx[u].victim)
    /\ \A t, u \in Everyone : t # u => /\ Off(ctx[t].blk, ctx[u].blk)
                                       /\ Off(ctx[t].victim, ctx[u].victim)
    /\ \A t \in Everyone : \A i \in 1..Len(lines) : /\ Off(ctx[t].blk, lines[i].buf)
                                                    /\ Off(ctx[t].victim, lines[i].buf)
    /\ \A i, j \in 1..Len(lines) : i # j => Off(lines[i].buf, lines[j].buf)

\* The kernel may only take pages that are being given back; a block that was handed out is
\* backed, and what was written into it is there.
Backed ==
    /\ UNION {lazy, committed, dirty} \subseteq Pages
    /\ \A p \in lazy : \E t \in Everyone : pc[t] = "publish" /\ p \in Mine(ctx[t].victim)
    /\ build \in {"posix", "windows"} /\ (build = "posix" => committed = Pages)
    /\ \A t \in Everyone : At(ctx[t], pc[t]) \in Solid => Mine(ctx[t].blk) \subseteq committed
    /\ \A t \in Everyone : At(ctx[t], pc[t]) = "used" => Mine(ctx[t].blk) \subseteq dirty
    /\ \A i \in 1..Len(lines) : /\ Mine(lines[i].buf) \subseteq committed
                                /\ lines[i].user = NULL => Mine(lines[i].buf) \subseteq dirty

\* What was let through is off the estimate, and left the floor.
WithinProbe(s) ==
    /\ s \in [est : Nat, probed : Probes \cup {0}, granted : Nat]
    /\ s.est + s.granted <= s.probed
    /\ s.granted > 0 => s.probed >= s.granted + Floor

FloorOK == WithinProbe(sys)

MemInv ==
    /\ Sorted(free_runs)
    /\ ThreadsOK
    /\ LinesOK
    /\ Apart
    /\ Backed

\* The constants' types.
LEMMA Constants ==
    /\ Probes \subseteq Nat /\ LineSizes \subseteq Nat /\ TempSizes \subseteq Nat
    /\ Floor \in Nat /\ Floor > 0 /\ ExemptSize \in Nat
    /\ NULL \notin Threads /\ NULL \notin Everyone /\ Threads \subseteq Everyone
    /\ NULL \notin Block
  BY MemoryAssumption DEF Everyone, Block

----------------------------------------------------------------------------
(* What a step of a thread does to its call *)

\* Thread t is now at label l of the call c; the others are where they were.
Moved(t, c, l) ==
    /\ ThreadOK(t, c, l)
    /\ ctx' = [ctx EXCEPT ![t] = c]
    /\ pc' = [pc EXCEPT ![t] = l]

\* The other threads do not move.
LEMMA MovedMeaning ==
    ASSUME ThreadsOK, NEW t \in Everyone, NEW c, NEW l, Moved(t, c, l)
    PROVE  /\ ThreadsOK'
           /\ ctx'[t] = c /\ pc'[t] = l
           /\ \A u \in Everyone : u # t => ctx'[u] = ctx[u] /\ pc'[u] = pc[u]
<1>1. pc \in [Everyone -> Labels] /\ ctx \in [Everyone -> Context]
  BY DEF ThreadsOK
<1>2. c \in Context /\ l \in Labels
  BY DEF Moved, ThreadOK
<1>3. /\ ctx'[t] = c /\ pc'[t] = l
      /\ \A u \in Everyone : u # t => ctx'[u] = ctx[u] /\ pc'[u] = pc[u]
  BY <1>1 DEF Moved
<1>4. pc' \in [Everyone -> Labels] /\ ctx' \in [Everyone -> Context]
  BY <1>1, <1>2 DEF Moved
<1>5. ASSUME NEW u \in Everyone PROVE ThreadOK(u, ctx'[u], pc'[u])
  <2>1. CASE u = t
    BY <1>3, <2>1 DEF Moved
  <2>2. CASE u # t
    BY <1>3, <2>2 DEF ThreadsOK
  <2>. QED
    BY <2>1, <2>2
<1>6. ThreadsOK'
  BY <1>4, <1>5, Zenon DEF ThreadsOK, ThreadOK, Context, MaybeBlock, Block, WholePages, BlockSize,
                           At, Everyone
<1>. QED
  BY <1>3, <1>6

\* The step leaves the blocks where they are, and the tables of lines and of free runs.
Quiet(t, c, l) ==
    /\ Moved(t, c, l)
    /\ pc[t] # "publish" /\ c.blk = ctx[t].blk /\ c.victim = ctx[t].victim
    /\ HasLine(c, l) <=> HasLine(ctx[t], pc[t])
    /\ HasLine(c, l) => /\ c.req = ctx[t].req
                        /\ At(c, l) = "fill" <=> At(ctx[t], pc[t]) = "fill"
    /\ At(c, l) \in Solid => At(ctx[t], pc[t]) \in Solid
    /\ At(c, l) = "used" => At(ctx[t], pc[t]) = "used"
    /\ lines' = lines /\ free_runs' = free_runs

\* As far as the lines can tell, every thread is where it was.
SameWriters ==
    \A u \in Everyone :
        /\ HasLine(ctx'[u], pc'[u]) <=> HasLine(ctx[u], pc[u])
        /\ HasLine(ctx'[u], pc'[u]) =>
             /\ ctx'[u].req = ctx[u].req
             /\ At(ctx'[u], pc'[u]) = "fill" <=> At(ctx[u], pc[u]) = "fill"

\* A line is as good as it was if its user is where it was, as far as the line can tell.
LEMMA LineStays ==
    ASSUME SameWriters, NEW x, LineOK(x, ctx, pc)
    PROVE  LineOK(x, ctx', pc')
<1>1. x.user \in Everyone \cup {NULL}
  BY Constants DEF LineOK, Line
<1>2. x.user # NULL => HasLine(ctx[x.user], pc[x.user])
  BY DEF LineOK
<1>. QED
  BY <1>1, <1>2 DEF LineOK, SameWriters

\* So are all of them.
LEMMA LinesStay ==
    ASSUME LinesOK, SameWriters, lines' = lines
    PROVE  LinesOK'
<1>1. \A i \in 1..Len(lines) : LineOK(lines[i], ctx', pc')
  BY LineStays DEF LinesOK
<1>2. \A u \in Everyone :
        HasLine(ctx'[u], pc'[u]) => \E i \in 1..Len(lines) : lines[i].user = u
  BY DEF LinesOK, SameWriters
<1>3. Everyone' = Everyone /\ Line' = Line
  BY DEF Everyone, Line, MaybeBlock, Block, num_pages
<1>. QED
  BY <1>1, <1>2, <1>3 DEF LinesOK

\* A quiet step keeps the invariant.
LEMMA QuietKeeps ==
    ASSUME MemInv, NEW t \in Everyone, NEW c, NEW l, Quiet(t, c, l),
           UNCHANGED <<lazy, committed, dirty, build>> \/ Trim
    PROVE  MemInv'
<1>1. Moved(t, c, l) /\ ThreadsOK
  BY DEF MemInv, Quiet
<1>m. /\ ThreadsOK'
      /\ ctx'[t] = c /\ pc'[t] = l
      /\ \A u \in Everyone : u # t => ctx'[u] = ctx[u] /\ pc'[u] = pc[u]
  BY <1>1, MovedMeaning
<1>q. lines' = lines /\ free_runs' = free_runs
  BY DEF Quiet
<1>b. \A u \in Everyone : ctx'[u].blk = ctx[u].blk /\ ctx'[u].victim = ctx[u].victim
  BY <1>m DEF Quiet
<1>h. \A u \in Everyone :
        /\ HasLine(ctx'[u], pc'[u]) <=> HasLine(ctx[u], pc[u])
        /\ HasLine(ctx'[u], pc'[u]) =>
             /\ ctx'[u].req = ctx[u].req
             /\ At(ctx'[u], pc'[u]) = "fill" <=> At(ctx[u], pc[u]) = "fill"
        /\ At(ctx'[u], pc'[u]) \in Solid => At(ctx[u], pc[u]) \in Solid
        /\ At(ctx'[u], pc'[u]) = "used" => At(ctx[u], pc[u]) = "used"
  BY <1>m DEF Quiet
<1>2. Sorted(free_runs)'
  BY <1>q DEF MemInv, Sorted, End, Run, num_pages
<1>3. LinesOK'
  <2>1. SameWriters /\ LinesOK
    BY <1>h DEF SameWriters, MemInv
  <2>. QED
    BY <1>q, <2>1, LinesStay
<1>4. Apart'
  <2>1. FreePages' = FreePages
    BY <1>q DEF FreePages
  <2>. QED
    BY <1>b, <1>q, <2>1 DEF MemInv, Apart, Clear
<1>5. Backed'
  <2>1. Apart /\ Backed
    BY DEF MemInv
  <2>c. CASE UNCHANGED <<lazy, committed, dirty, build>>
    <3>1. ASSUME NEW p \in lazy'
          PROVE  \E u \in Everyone : pc'[u] = "publish" /\ p \in Mine(ctx'[u].victim)
      <4>1. PICK u \in Everyone : pc[u] = "publish" /\ p \in Mine(ctx[u].victim)
        BY <2>1, <2>c DEF Backed
      <4>2. u # t
        BY <4>1 DEF Quiet
      <4>. QED
        BY <1>m, <4>1, <4>2
    <3>. QED
      BY <1>b, <1>h, <1>q, <2>1, <2>c, <3>1 DEF Backed, Pages, num_pages
  <2>d. CASE Trim
    <3>1. ASSUME NEW p \in lazy'
          PROVE  \E u \in Everyone : pc'[u] = "publish" /\ p \in Mine(ctx'[u].victim)
      <4>1. PICK u \in Everyone : pc[u] = "publish" /\ p \in Mine(ctx[u].victim)
        BY <2>1, <2>d DEF Backed, Trim
      <4>2. u # t
        BY <4>1 DEF Quiet
      <4>. QED
        BY <1>m, <4>1, <4>2
    <3>2. /\ build' = build /\ dirty' = dirty \ FreePages /\ lazy' \subseteq lazy
          /\ committed' = IF build = "windows" THEN committed \ FreePages ELSE committed
      BY <2>d DEF Trim
    <3>3. ASSUME NEW b, Clear(b)
          PROVE  /\ Mine(b) \subseteq committed => Mine(b) \subseteq committed'
                 /\ Mine(b) \subseteq dirty => Mine(b) \subseteq dirty'
      BY <3>2, <3>3 DEF Clear
    <3>4. \A u \in Everyone : Clear(ctx[u].blk)
      BY <2>1 DEF Apart
    <3>5. \A i \in 1..Len(lines) : Clear(lines[i].buf)
      BY <2>1 DEF Apart
    <3>6. /\ UNION {lazy', committed', dirty'} \subseteq Pages
          /\ build' \in {"posix", "windows"} /\ (build' = "posix" => committed' = Pages)
      BY <2>1, <3>2 DEF Backed
    <3>7. \A u \in Everyone :
            /\ At(ctx'[u], pc'[u]) \in Solid => Mine(ctx'[u].blk) \subseteq committed'
            /\ At(ctx'[u], pc'[u]) = "used" => Mine(ctx'[u].blk) \subseteq dirty'
      BY <1>b, <1>h, <2>1, <3>3, <3>4 DEF Backed
    <3>8. \A i \in 1..Len(lines) :
            /\ Mine(lines[i].buf) \subseteq committed'
            /\ lines[i].user = NULL => Mine(lines[i].buf) \subseteq dirty'
      BY <2>1, <3>3, <3>5 DEF Backed
    <3>. QED
      BY <1>q, <3>1, <3>6, <3>7, <3>8 DEF Backed, Pages, num_pages
  <2>. QED
    BY <2>c, <2>d
<1>. QED
  BY <1>2, <1>3, <1>4, <1>5, <1>m DEF MemInv

----------------------------------------------------------------------------
(* The quiet steps *)

\* A step within a call, from a place without a block to another.
LEMMA GoesOn ==
    ASSUME ThreadsOK, NEW t \in Threads, NEW c, NEW l, Call(t, c, l),
           lines' = lines, free_runs' = free_runs,
           pc[t] \in {"valve", "shed", "carve", "failed", "defrag"},
           ctx[t].kind \in {"temp", "line"},
           l \in {"shed", "carve", "undo", "defrag"}, l = "undo" => ctx[t].kind = "line",
           c \in Context, c.kind = ctx[t].kind, c.req = ctx[t].req,
           c.blk = ctx[t].blk, c.victim = ctx[t].victim
    PROVE  Quiet(t, c, l)
<1>1. ThreadOK(t, ctx[t], pc[t])
  BY Constants DEF ThreadsOK
<1>2. At(ctx[t], pc[t]) = pc[t] /\ At(c, l) = l
  BY DEF At
<1>3. ctx[t].victim = NULL /\ ctx[t].blk = NULL
  BY <1>1, <1>2 DEF ThreadOK, Holding
<1>4. ThreadOK(t, c, l)
  BY <1>1, <1>2, <1>3 DEF ThreadOK, Holding, TempPlaces, LinePlaces, Places, Labels
<1>. QED
  BY <1>2, <1>4 DEF Quiet, Moved, Call, Goto, HasLine, Solid

\* The call is over, or begins: the thread has no block and no line.
LEMMA Leaves ==
    ASSUME ThreadsOK, NEW t \in Everyone, NEW c, NEW l, Call(t, c, l),
           lines' = lines, free_runs' = free_runs,
           pc[t] \notin {"advise", "publish"} \cup Holding,
           ~ HasLine(ctx[t], pc[t]),
           ThreadOK(t, c, l), l \notin {"advise", "publish"} \cup Holding,
           ~ HasLine(c, l)
    PROVE  Quiet(t, c, l)
<1>1. ThreadOK(t, ctx[t], pc[t])
  BY DEF ThreadsOK
<1>2. At(ctx[t], pc[t]) = pc[t] /\ At(c, l) = l
  BY DEF At
<1>3. ctx[t].victim = NULL /\ ctx[t].blk = NULL /\ c.victim = NULL /\ c.blk = NULL
  BY <1>1, <1>2 DEF ThreadOK
<1>4. l \notin Solid /\ l # "used"
  BY DEF Solid, Holding
<1>. QED
  BY <1>2, <1>3, <1>4 DEF Quiet, Moved, Call, Goto

\* The contexts with which calls begin and end.
LEMMA Contexts ==
    ASSUME NEW t \in Everyone
    PROVE  /\ ThreadOK(t, Idle, "idle") /\ ThreadOK(t, Idle, "trim")
           /\ \A n \in Nat : t \in Threads =>
                ThreadOK(t, [Idle EXCEPT !.kind = "temp", !.req = n], "space")
           /\ \A n \in Nat : t \in Threads /\ WholePages(n) =>
                ThreadOK(t, [Idle EXCEPT !.kind = "line", !.req = n], "space")
           /\ \A n \in Nat : ThreadOK(t, [Idle EXCEPT !.kind = "timer", !.want = n], "shed")
           /\ ThreadOK(t, [Idle EXCEPT !.kind = "timer"], "sweep")
<1>1. Idle \in Context
  BY DEF Idle, Context, MaybeBlock, Kinds, Places
<1>2. ThreadOK(t, Idle, "idle") /\ ThreadOK(t, Idle, "trim")
  BY <1>1 DEF ThreadOK, Idle, At, Holding, Places, Labels
<1>3. ASSUME NEW n \in Nat, t \in Threads
      PROVE  ThreadOK(t, [Idle EXCEPT !.kind = "temp", !.req = n], "space")
  BY <1>3 DEF ThreadOK, Idle, At, Holding, TempPlaces, Context, MaybeBlock, Kinds, Places, Labels
<1>4. ASSUME NEW n \in Nat, t \in Threads, WholePages(n)
      PROVE  ThreadOK(t, [Idle EXCEPT !.kind = "line", !.req = n], "space")
  BY <1>4 DEF ThreadOK, Idle, At, Holding, LinePlaces, Context, MaybeBlock, Kinds, Places, Labels
<1>5. ASSUME NEW n \in Nat
      PROVE  ThreadOK(t, [Idle EXCEPT !.kind = "timer", !.want = n], "shed")
  BY DEF ThreadOK, Idle, At, Holding, TempPlaces, Context, MaybeBlock, Kinds, Places, Labels
<1>6. ThreadOK(t, [Idle EXCEPT !.kind = "timer"], "sweep")
  BY DEF ThreadOK, Idle, At, Holding, Context, MaybeBlock, Kinds, Places, Labels
<1>. QED
  BY <1>2, <1>3, <1>4, <1>5, <1>6, Zenon

\* The pages of a size: at least one, and the size itself when it is a number of whole pages.
LEMMA CalcMeaning ==
    ASSUME NEW size \in Nat, NEW n \in calc(size)
    PROVE  /\ n \in 1..num_pages
           /\ \A k \in Nat : size = PageSize * k => n = k
<1>1. PageSize \in Nat /\ PageSize >= 1 /\ num_pages \in Nat /\ SizeMax \in Nat
  BY ArenaHasPages, ArenaAssumption
<1>2. n = (size + PageSize - 1) \div PageSize /\ n <= num_pages /\ size >= 1
  BY <1>1 DEF calc
<1>3. size + PageSize - 1 \in Nat /\ size + PageSize - 1 >= PageSize
  BY <1>1, <1>2
<1>4. n \in Nat /\ n >= 1
  BY <1>1, <1>2, <1>3
<1>5. ASSUME NEW k \in Nat, size = PageSize * k PROVE n = k
  BY <1>1, <1>2, <1>5
<1>. QED
  BY <1>1, <1>2, <1>4, <1>5

\* A line takes whole pages.
LEMMA RoundedMeaning ==
    ASSUME NEW size \in Nat, calc(size) # {}
    PROVE  Rounded(size) \in Nat /\ WholePages(Rounded(size))
<1>. DEFINE n == CHOOSE k \in calc(size) : TRUE
<1>1. n \in calc(size)
  OBVIOUS
<1>. HIDE DEF n
<1>2. n \in 1..num_pages
  BY <1>1, CalcMeaning
<1>3. Rounded(size) = PageSize * n
  BY DEF Rounded, n
<1>. QED
  BY <1>2, <1>3, ArenaHasPages DEF WholePages

\* The call is over.
LEMMA CallEnds ==
    ASSUME ThreadsOK, NEW t \in Everyone, NEW l \in {"idle", "trim"}, Call(t, Idle, l),
           lines' = lines, free_runs' = free_runs,
           pc[t] \notin {"advise", "publish"} \cup Holding,
           ~ HasLine(ctx[t], pc[t])
    PROVE  Quiet(t, Idle, l)
<1>1. l \notin {"advise", "publish"} \cup Holding /\ ~ HasLine(Idle, l)
  BY DEF Holding, HasLine, Idle
<1>2. ThreadOK(t, Idle, l)
  BY Contexts, Zenon
<1>. QED
  BY <1>1, <1>2, Leaves

\* A call that fails ends, or goes on to take its line out of the table.
LEMMA FailQuiet ==
    ASSUME ThreadsOK, NEW t \in Threads, Fail(t), lines' = lines, free_runs' = free_runs,
           pc[t] \in {"valve", "shed", "carve", "failed"}, ctx[t].kind \in {"temp", "line"}
    PROVE  \E c, l : Quiet(t, c, l)
<1>t. t \in Everyone /\ ctx[t] \in Context
  BY Constants DEF ThreadsOK
<1>1. CASE ctx[t].kind = "line"
  <2>1. Call(t, AfterShed(t), "undo")
    BY <1>1 DEF Fail
  <2>2. /\ AfterShed(t) \in Context /\ AfterShed(t).kind = ctx[t].kind
        /\ AfterShed(t).req = ctx[t].req /\ AfterShed(t).blk = ctx[t].blk
        /\ AfterShed(t).victim = ctx[t].victim
    BY <1>t DEF AfterShed, Context
  <2>3. Quiet(t, AfterShed(t), "undo")
    BY <1>1, <2>1, <2>2, GoesOn
  <2>. QED
    BY <2>3
<1>2. CASE ctx[t].kind # "line"
  <2>1. Call(t, Idle, "idle")
    BY <1>2 DEF Fail, Return
  <2>2. pc[t] \notin {"advise", "publish"} \cup Holding /\ ~ HasLine(ctx[t], pc[t])
    BY <1>2 DEF Holding, HasLine
  <2>3. Quiet(t, Idle, "idle")
    BY <1>t, <2>1, <2>2, CallEnds
  <2>. QED
    BY <2>3
<1>. QED
  BY <1>1, <1>2

\* The verdict of the valve.
LEMMA DecideQuiet ==
    ASSUME ThreadsOK, NEW t \in Threads, NEW s, Decide(t, s), lines' = lines, free_runs' = free_runs,
           pc[t] \in {"valve", "shed"}, ctx[t].kind \in {"temp", "line"}
    PROVE  \E c, l : Quiet(t, c, l)
<1>t. t \in Everyone /\ ctx[t] \in Context
  BY Constants DEF ThreadsOK
<1>1. CASE Allowed(ctx[t].req, s)
  <2>1. Call(t, AfterShed(t), "carve")
    BY <1>1 DEF Decide
  <2>2. /\ AfterShed(t) \in Context /\ AfterShed(t).kind = ctx[t].kind
        /\ AfterShed(t).req = ctx[t].req /\ AfterShed(t).blk = ctx[t].blk
        /\ AfterShed(t).victim = ctx[t].victim
    BY <1>t DEF AfterShed, Context
  <2>3. Quiet(t, AfterShed(t), "carve")
    BY <2>1, <2>2, GoesOn
  <2>. QED
    BY <2>3
<1>2. CASE ~ Allowed(ctx[t].req, s)
  BY <1>2, FailQuiet DEF Decide
<1>. QED
  BY <1>1, <1>2

\* An allocation that failed is tried again, once.
LEMMA AllocFailedQuiet ==
    ASSUME ThreadsOK, NEW t \in Threads, AllocFailed(t), lines' = lines, free_runs' = free_runs,
           pc[t] \in {"carve", "failed"}, ctx[t].kind \in {"temp", "line"}
    PROVE  \E c, l : Quiet(t, c, l)
<1>t. t \in Everyone /\ ctx[t] \in Context
  BY Constants DEF ThreadsOK
<1>1. CASE Fail(t)
  BY <1>1, FailQuiet
<1>2. CASE ~ Fail(t)
  <2>. DEFINE c == [ctx[t] EXCEPT !.retry = TRUE]
  <2>1. Call(t, c, "defrag")
    BY <1>2 DEF AllocFailed
  <2>2. /\ c \in Context /\ c.kind = ctx[t].kind /\ c.req = ctx[t].req
        /\ c.blk = ctx[t].blk /\ c.victim = ctx[t].victim
    BY <1>t DEF Context
  <2>. HIDE DEF c
  <2>3. Quiet(t, c, "defrag")
    BY <2>1, <2>2, GoesOn
  <2>. QED
    BY <2>3
<1>. QED
  BY <1>1, <1>2

\* The kind of call at each place.
LEMMA KindAt ==
    ASSUME ThreadsOK, NEW t \in Everyone, pc[t] \notin {"advise", "publish"}
    PROVE  /\ At(ctx[t], pc[t]) = pc[t] /\ ctx[t].victim = NULL
           /\ ctx[t].blk # NULL <=> pc[t] \in Holding
           /\ pc[t] \in {"valve", "carve", "commit", "failed", "defrag", "space"} =>
                t \in Threads /\ ctx[t].kind \in {"temp", "line"}
           /\ pc[t] = "shed" =>
                ctx[t].kind = "timer" \/ (t \in Threads /\ ctx[t].kind \in {"temp", "line"})
           /\ pc[t] \in {"got", "fill", "undo"} => t \in Threads /\ ctx[t].kind = "line"
           /\ pc[t] \in {"enter", "hold", "used"} => t \in Threads /\ ctx[t].kind = "temp"
           /\ pc[t] \in {"idle", "unlock", "trim"} => ctx[t].kind = "none"
           /\ pc[t] = "sweep" => ctx[t].kind = "timer"
<1>1. ThreadOK(t, ctx[t], pc[t])
  BY DEF ThreadsOK
<1>2. At(ctx[t], pc[t]) = pc[t]
  BY DEF At
<1>. QED
  BY <1>1, <1>2 DEF ThreadOK, TempPlaces, LinePlaces, Holding

\* The steps of a pipeline thread that move no block and change no table.
PipeQuiet(t) ==
    \/ \E size \in TempSizes : AllocAlign(t, size)
    \/ \E size \in LineSizes : CreateEntry(t, size)
    \/ NoSpace(t) \/ (SpaceMade(t) /\ ctx[t].kind # "line")
    \/ Valve(t) \/ ShedTrim(t) \/ ShedNothing(t)
    \/ ArenaFull(t) \/ CommitFailed(t) \/ DefragDone(t) \/ Enter(t) \/ Unlock(t)

TimerQuiet(t) == Shedder(t) \/ ShedderDone(t) \/ FlushOld(t) \/ SweepDone(t) \/ TrimAlone(t)

\* The steps of the timers are quiet.
LEMMA QuietTimer ==
    ASSUME ThreadsOK, NEW t \in Everyone, TimerQuiet(t)
    PROVE  /\ \E c, l : Quiet(t, c, l)
           /\ UNCHANGED <<lazy, committed, dirty, build>> \/ Trim
<1>i. /\ \A n \in Nat : ThreadOK(t, [Idle EXCEPT !.kind = "timer", !.want = n], "shed")
      /\ ThreadOK(t, [Idle EXCEPT !.kind = "timer"], "sweep")
  BY Contexts, Zenon
<1>h. /\ \A n : ~ HasLine([Idle EXCEPT !.kind = "timer", !.want = n], "shed")
      /\ ~ HasLine([Idle EXCEPT !.kind = "timer"], "sweep")
  BY DEF HasLine, Idle
<1>l. {"idle", "trim", "shed", "sweep"} \cap ({"advise", "publish"} \cup Holding) = {}
  BY DEF Holding
<1>1. CASE Shedder(t)
  <2>1. PICK available \in Probes \ {0} :
          /\ available < Floor
          /\ Call(t, [Idle EXCEPT !.kind = "timer", !.want = Floor - available], "shed")
    BY <1>1, Zenon DEF Shedder
  <2>2. Floor - available \in Nat
    BY <2>1, Constants
  <2>3. pc[t] = "idle" /\ lines' = lines /\ free_runs' = free_runs
        /\ UNCHANGED <<lazy, committed, dirty, build>>
    BY <1>1 DEF Shedder, lineVars, arenaVars
  <2>4. ~ HasLine(ctx[t], pc[t])
    BY <2>3, KindAt DEF HasLine
  <2>. DEFINE c == [Idle EXCEPT !.kind = "timer", !.want = Floor - available]
  <2>5. ThreadOK(t, c, "shed") /\ ~ HasLine(c, "shed") /\ Call(t, c, "shed")
    BY <1>h, <1>i, <2>1, <2>2, Zenon
  <2>. HIDE DEF c
  <2>6. Quiet(t, c, "shed")
    BY <1>l, <2>3, <2>4, <2>5, Leaves
  <2>. QED
    BY <2>3, <2>6
<1>2. CASE ShedderDone(t)
  <2>1. /\ pc[t] = "shed" /\ ctx[t].kind = "timer" /\ lines' = lines /\ free_runs' = free_runs /\ Trim
        /\ Call(t, Idle, "idle")
    BY <1>2 DEF ShedderDone, InLock, Return, lineVars, Trim
  <2>2. ~ HasLine(ctx[t], pc[t])
    BY <2>1 DEF HasLine
  <2>3. Quiet(t, Idle, "idle")
    BY <1>l, <2>1, <2>2, CallEnds
  <2>. QED
    BY <2>1, <2>3
<1>3. CASE FlushOld(t)
  <2>1. /\ pc[t] = "idle" /\ lines' = lines /\ free_runs' = free_runs
        /\ UNCHANGED <<lazy, committed, dirty, build>>
        /\ Call(t, [Idle EXCEPT !.kind = "timer"], "sweep")
    BY <1>3 DEF FlushOld, lineVars, arenaVars
  <2>2. ~ HasLine(ctx[t], pc[t])
    BY <2>1, KindAt DEF HasLine
  <2>. DEFINE c == [Idle EXCEPT !.kind = "timer"]
  <2>3. ThreadOK(t, c, "sweep") /\ ~ HasLine(c, "sweep") /\ Call(t, c, "sweep")
    BY <1>h, <1>i, <2>1, Zenon
  <2>. HIDE DEF c
  <2>4. Quiet(t, c, "sweep")
    BY <1>l, <2>1, <2>2, <2>3, Leaves
  <2>. QED
    BY <2>1, <2>4
<1>4. CASE SweepDone(t)
  <2>1. /\ pc[t] = "sweep" /\ lines' = lines /\ free_runs' = free_runs
        /\ UNCHANGED <<lazy, committed, dirty, build>>
    BY <1>4 DEF SweepDone, InLock, lineVars, arenaVars
  <2>2. PICK l \in {"idle", "trim"} : Call(t, Idle, l)
    BY <1>4 DEF SweepDone
  <2>3. ~ HasLine(ctx[t], pc[t])
    BY <2>1, KindAt DEF HasLine
  <2>4. Quiet(t, Idle, l)
    BY <1>l, <2>1, <2>2, <2>3, CallEnds
  <2>. QED
    BY <2>1, <2>4
<1>5. CASE TrimAlone(t)
  <2>1. /\ pc[t] = "trim" /\ lines' = lines /\ free_runs' = free_runs /\ Trim
        /\ Call(t, Idle, "idle")
    BY <1>5 DEF TrimAlone, Return, lineVars, Trim
  <2>2. ~ HasLine(ctx[t], pc[t])
    BY <2>1, KindAt DEF HasLine
  <2>3. Quiet(t, Idle, "idle")
    BY <1>l, <2>1, <2>2, CallEnds
  <2>. QED
    BY <2>1, <2>3
<1>. QED
  BY <1>1, <1>2, <1>3, <1>4, <1>5 DEF TimerQuiet

\* The steps of a pipeline thread are quiet too.
LEMMA QuietPipe ==
    ASSUME ThreadsOK, sys.est \in Nat, NEW t \in Threads, PipeQuiet(t)
    PROVE  /\ \E c, l : Quiet(t, c, l)
           /\ UNCHANGED <<lazy, committed, dirty, build>> \/ Trim
<1>t. t \in Everyone /\ ctx \in [Everyone -> Context] /\ pc \in [Everyone -> Labels]
      /\ ctx[t] \in Context
  BY Constants DEF ThreadsOK
<1>l. {"idle", "space"} \cap ({"advise", "publish"} \cup Holding) = {}
  BY DEF Holding
<1>1. CASE \E size \in TempSizes : AllocAlign(t, size)
  <2>1. PICK size \in TempSizes : AllocAlign(t, size)
    BY <1>1
  <2>. DEFINE c == [Idle EXCEPT !.kind = "temp", !.req = size]
  <2>2. /\ pc[t] = "idle" /\ Call(t, c, "space") /\ lines' = lines /\ free_runs' = free_runs
        /\ UNCHANGED <<lazy, committed, dirty, build>>
    BY <2>1 DEF AllocAlign, lineVars, arenaVars
  <2>3. ThreadOK(t, c, "space")
    <3>1. size \in Nat
      BY Constants
    <3>. QED
      BY <1>t, <3>1, Contexts, Zenon
  <2>4. ~ HasLine(c, "space") /\ ~ HasLine(ctx[t], pc[t])
    BY <1>t, <2>2, KindAt DEF HasLine, At
  <2>. HIDE DEF c
  <2>5. Quiet(t, c, "space")
    BY <1>l, <1>t, <2>2, <2>3, <2>4, Leaves
  <2>. QED
    BY <2>2, <2>5
<1>2. CASE \E size \in LineSizes : CreateEntry(t, size)
  <2>1. PICK size \in LineSizes : CreateEntry(t, size)
    BY <1>2
  <2>r. Rounded(size) \in Nat /\ WholePages(Rounded(size))
    BY <2>1, Constants, RoundedMeaning DEF CreateEntry
  <2>. DEFINE c == [Idle EXCEPT !.kind = "line", !.req = Rounded(size)]
  <2>2. /\ pc[t] = "idle" /\ Call(t, c, "space") /\ lines' = lines /\ free_runs' = free_runs
        /\ UNCHANGED <<lazy, committed, dirty, build>>
    BY <2>1 DEF CreateEntry, lineVars, arenaVars
  <2>3. ThreadOK(t, c, "space")
    BY <1>t, <2>r, Contexts, Zenon
  <2>4. ~ HasLine(c, "space") /\ ~ HasLine(ctx[t], pc[t])
    BY <1>t, <2>2, KindAt DEF HasLine, At
  <2>. HIDE DEF c
  <2>5. Quiet(t, c, "space")
    BY <1>l, <1>t, <2>2, <2>3, <2>4, Leaves
  <2>. QED
    BY <2>2, <2>5
<1>3. CASE NoSpace(t)
  <2>1. /\ pc[t] = "space" /\ Call(t, Idle, "idle") /\ lines' = lines /\ free_runs' = free_runs
        /\ UNCHANGED <<lazy, committed, dirty, build>>
    BY <1>3 DEF NoSpace, InLock, Return, lineVars, arenaVars
  <2>2. ~ HasLine(ctx[t], pc[t])
    BY <2>1 DEF HasLine, At
  <2>3. Quiet(t, Idle, "idle")
    BY <1>l, <1>t, <2>1, <2>2, CallEnds
  <2>. QED
    BY <2>1, <2>3
<1>4. CASE SpaceMade(t) /\ ctx[t].kind # "line"
  <2>1. /\ pc[t] = "space" /\ pc' = [pc EXCEPT ![t] = "valve"] /\ ctx' = ctx
        /\ lines' = lines /\ free_runs' = free_runs
        /\ UNCHANGED <<lazy, committed, dirty, build>>
    BY <1>4 DEF SpaceMade, InLock, Goto, lineVars, arenaVars
  <2>2. ThreadOK(t, ctx[t], pc[t])
    BY <1>t DEF ThreadsOK
  <2>3. ThreadOK(t, ctx[t], "valve")
    BY <1>4, <2>1, <2>2 DEF ThreadOK, At, TempPlaces, LinePlaces, Labels, Places, Holding
  <2>4. ctx' = [ctx EXCEPT ![t] = ctx[t]]
    BY <1>t, <2>1
  <2>5. ~ HasLine(ctx[t], pc[t]) /\ ~ HasLine(ctx[t], "valve")
    BY <1>4 DEF HasLine
  <2>6. "valve" \notin {"advise", "publish"} \cup Holding
    BY DEF Holding
  <2>7. Quiet(t, ctx[t], "valve")
    BY <1>l, <1>t, <2>1, <2>3, <2>4, <2>5, <2>6, Leaves DEF Call, Goto
  <2>. QED
    BY <2>1, <2>7
<1>5. CASE Valve(t)
  <2>1. /\ pc[t] = "valve" /\ lines' = lines /\ free_runs' = free_runs
        /\ UNCHANGED <<lazy, committed, dirty, build>>
    BY <1>5 DEF Valve, InLock, lineVars, arenaVars
  <2>2. ctx[t].kind \in {"temp", "line"}
    BY <1>t, <2>1, KindAt
  <2>3. CASE \E s : Decide(t, s)
    BY <2>1, <2>2, <2>3, DecideQuiet
  <2>4. CASE ~ \E s : Decide(t, s)
    <3>1. PICK s \in {Probed(answer) : answer \in Probes} \cup {sys : p \in {sys.probed} \ {0}} :
            /\ s.probed > 0 /\ s.est < ctx[t].req + Floor
            /\ Call(t, [ctx[t] EXCEPT !.want = ctx[t].req + Floor - s.est], "shed")
      BY <1>5, <2>4 DEF Valve
    <3>. DEFINE c == [ctx[t] EXCEPT !.want = ctx[t].req + Floor - s.est]
    <3>2. s.est \in Nat
      BY Constants DEF Probed
    <3>3. ctx[t].req + Floor - s.est \in Nat
      BY <1>t, <3>1, <3>2, Constants DEF Context
    <3>4. /\ c \in Context /\ c.kind = ctx[t].kind /\ c.req = ctx[t].req
          /\ c.blk = ctx[t].blk /\ c.victim = ctx[t].victim
      BY <1>t, <3>3 DEF Context
    <3>. HIDE DEF c
    <3>5. Quiet(t, c, "shed")
      BY <2>1, <2>2, <3>1, <3>4, GoesOn DEF c
    <3>. QED
      BY <2>1, <3>5
  <2>. QED
    BY <2>3, <2>4, <2>1
<1>6. CASE ShedTrim(t)
  <2>1. pc[t] = "shed" /\ ctx[t].kind # "timer" /\ lines' = lines /\ free_runs' = free_runs /\ Trim
    BY <1>6 DEF ShedTrim, InLock, lineVars, Trim
  <2>2. ctx[t].kind \in {"temp", "line"}
    BY <1>t, <2>1, KindAt
  <2>3. PICK s : Decide(t, s)
    BY <1>6 DEF ShedTrim
  <2>. QED
    BY <2>1, <2>2, <2>3, DecideQuiet
<1>7. CASE ShedNothing(t)
  <2>1. /\ pc[t] = "shed" /\ ctx[t].kind # "timer" /\ lines' = lines /\ free_runs' = free_runs
        /\ UNCHANGED <<lazy, committed, dirty, build>>
    BY <1>7 DEF ShedNothing, InLock, lineVars, arenaVars
  <2>2. ctx[t].kind \in {"temp", "line"}
    BY <1>t, <2>1, KindAt
  <2>3. Decide(t, sys)
    BY <1>7 DEF ShedNothing
  <2>. QED
    BY <2>1, <2>2, <2>3, DecideQuiet
<1>8. CASE ArenaFull(t) \/ CommitFailed(t)
  <2>1. /\ pc[t] \in {"carve", "failed"} /\ lines' = lines /\ free_runs' = free_runs
        /\ UNCHANGED <<lazy, committed, dirty, build>> /\ AllocFailed(t)
    BY <1>8 DEF ArenaFull, CommitFailed, lineVars, arenaVars
  <2>2. ctx[t].kind \in {"temp", "line"}
    BY <1>t, <2>1, KindAt
  <2>. QED
    BY <2>1, <2>2, AllocFailedQuiet
<1>9. CASE DefragDone(t)
  <2>1. /\ pc[t] = "defrag" /\ pc' = [pc EXCEPT ![t] = "carve"] /\ ctx' = ctx
        /\ lines' = lines /\ free_runs' = free_runs
        /\ UNCHANGED <<lazy, committed, dirty, build>>
    BY <1>9 DEF DefragDone, InLock, Goto, lineVars, arenaVars
  <2>2. ctx[t].kind \in {"temp", "line"}
    BY <1>t, <2>1, KindAt
  <2>3. Call(t, ctx[t], "carve")
    BY <1>t, <2>1 DEF Call, Goto
  <2>4. Quiet(t, ctx[t], "carve")
    BY <1>t, <2>1, <2>2, <2>3, GoesOn
  <2>. QED
    BY <2>1, <2>4
<1>10. CASE Enter(t)
  <2>1. /\ pc[t] = "enter" /\ pc' = [pc EXCEPT ![t] = "hold"] /\ ctx' = ctx
        /\ lines' = lines /\ free_runs' = free_runs
        /\ UNCHANGED <<lazy, committed, dirty, build>>
    BY <1>10 DEF Enter, InLock, Goto, arenaVars
  <2>2. ThreadOK(t, ctx[t], pc[t])
    BY <1>t DEF ThreadsOK
  <2>3. ThreadOK(t, ctx[t], "hold")
    BY <2>1, <2>2 DEF ThreadOK, At, TempPlaces, LinePlaces, Labels, Places, Holding
  <2>4. ctx' = [ctx EXCEPT ![t] = ctx[t]]
    BY <1>t, <2>1
  <2>5. ctx[t].kind = "temp"
    BY <1>t, <2>1, KindAt
  <2>6. Quiet(t, ctx[t], "hold")
    BY <2>1, <2>3, <2>4, <2>5 DEF Quiet, Moved, HasLine, At, Solid
  <2>. QED
    BY <2>1, <2>6
<1>11. CASE Unlock(t)
  <2>1. /\ pc[t] = "unlock" /\ Call(t, Idle, "idle") /\ lines' = lines /\ free_runs' = free_runs
        /\ UNCHANGED <<lazy, committed, dirty, build>>
    BY <1>11 DEF Unlock, Return, lineVars, arenaVars
  <2>2. ~ HasLine(ctx[t], pc[t]) /\ pc[t] \notin {"advise", "publish"} \cup Holding
    BY <1>t, <2>1, KindAt DEF HasLine, Holding
  <2>3. Quiet(t, Idle, "idle")
    BY <1>l, <1>t, <2>1, <2>2, CallEnds
  <2>. QED
    BY <2>1, <2>3
<1>. QED
  BY <1>1, <1>2, <1>3, <1>4, <1>5, <1>6, <1>7, <1>8, <1>9, <1>10, <1>11 DEF PipeQuiet

----------------------------------------------------------------------------
(* The steps that move a block or a line *)

\* Sharing no page is symmetric, and what is no block shares none.
LEMMA OffFacts ==
    /\ \A a, b : Off(a, b) => Off(b, a)
    /\ \A a : Off(a, NULL) /\ Off(NULL, a)
    /\ Clear(NULL)
  BY DEF Off, Mine, Clear

\* A line leaves the table: where the others are now.
LEMMA LinesRemoved ==
    ASSUME LinesOK, NEW i \in 1..Len(lines),
           lines' = SubSeq(lines, 1, i - 1) \o SubSeq(lines, i + 1, Len(lines))
    PROVE  /\ lines' \in Seq(Line) /\ Len(lines') = Len(lines) - 1
           /\ \E g : /\ \A j \in 1..Len(lines') : /\ g[j] \in 1..Len(lines) /\ g[j] # i
                                                  /\ lines'[j] = lines[g[j]]
                     /\ \A j, k \in 1..Len(lines') : j # k => g[j] # g[k]
                     /\ \A m \in 1..Len(lines) : m # i => \E j \in 1..Len(lines') : g[j] = m
<1>. DEFINE len == Len(lines)
            g == [j \in 1..len - 1 |-> IF j < i THEN j ELSE j + 1]
<1>t. lines \in Seq(Line) /\ len \in Nat /\ i \in 1..len
  BY DEF LinesOK
<1>1. IsRemoval(lines', Line, lines, i)
  BY <1>t, ListRemoved, Zenon
<1>2. /\ lines' \in Seq(Line) /\ Len(lines') = len - 1
      /\ \A j \in 1..len - 1 : lines'[j] = IF j < i THEN lines[j] ELSE lines[j + 1]
  BY <1>1 DEF IsRemoval
<1>. HIDE DEF len
<1>3. ASSUME NEW j \in 1..len - 1 PROVE g[j] \in 1..len /\ g[j] # i /\ lines'[j] = lines[g[j]]
  <2>1. CASE j < i
    <3>1. g[j] = j /\ j \in 1..len /\ j # i
      BY <1>t, <2>1
    <3>. QED
      BY <1>2, <2>1, <3>1
  <2>2. CASE ~ (j < i)
    <3>1. g[j] = j + 1 /\ j + 1 \in 1..len /\ j + 1 # i
      BY <1>t, <2>2
    <3>. QED
      BY <1>2, <2>2, <3>1
  <2>. QED
    BY <2>1, <2>2
<1>4. ASSUME NEW j \in 1..len - 1, NEW k \in 1..len - 1, j # k PROVE g[j] # g[k]
  BY <1>4, <1>t
<1>5. ASSUME NEW m \in 1..len, m # i PROVE \E j \in 1..len - 1 : g[j] = m
  <2>1. CASE m < i
    <3>1. m \in 1..len - 1 /\ g[m] = m
      BY <1>t, <2>1
    <3>. QED
      BY <3>1
  <2>2. CASE ~ (m < i)
    <3>1. m - 1 \in 1..len - 1 /\ g[m - 1] = m
      BY <1>5, <1>t, <2>2
    <3>. QED
      BY <3>1
  <2>. QED
    BY <2>1, <2>2
<1>. HIDE DEF g
<1>6. /\ \A j \in 1..Len(lines') : g[j] \in 1..len /\ g[j] # i /\ lines'[j] = lines[g[j]]
      /\ \A j, k \in 1..Len(lines') : j # k => g[j] # g[k]
      /\ \A m \in 1..len : m # i => \E j \in 1..Len(lines') : g[j] = m
  BY <1>2, <1>3, <1>4, <1>5
<1>. QED
  BY <1>2, <1>6, Zenon DEF len

\* An eviction, at whatever place of a call: the buffer of the line becomes the block that
\* the thread gives back.
LEMMA EvictKeeps ==
    ASSUME MemInv, NEW t \in Everyone, pc[t] \notin {"advise", "publish"},
           NEW i \in Evictable, Evict(t, i, pc[t])
    PROVE  MemInv'
<1>. DEFINE f == IF pc[t] = "shed" THEN ctx[t].freed + lines[i].size ELSE ctx[t].freed
            v == lines[i].buf
            c == [ctx[t] EXCEPT !.victim = v, !.back = pc[t], !.freed = f]
<1>i. i \in 1..Len(lines) /\ lines[i].user = NULL /\ LineOK(lines[i], ctx, pc) /\ lines[i] \in Line
  BY DEF Evictable, MemInv, LinesOK, LineOK
<1>o. ThreadsOK /\ LinesOK /\ Apart /\ Backed /\ Sorted(free_runs)
  BY DEF MemInv
<1>a. /\ lines' = SubSeq(lines, 1, i - 1) \o SubSeq(lines, i + 1, Len(lines))
      /\ ctx' = [ctx EXCEPT ![t] = c] /\ pc' = [pc EXCEPT ![t] = "advise"]
      /\ UNCHANGED <<free_runs, lazy, committed, dirty, build>>
  BY DEF Evict, Call, Goto, arenaVars
<1>t. ctx[t] \in Context /\ ThreadOK(t, ctx[t], pc[t]) /\ pc[t] \in Places
  BY <1>o DEF ThreadsOK, Labels
<1>v. v \in Block /\ v # NULL /\ lines[i].size \in Nat
  BY <1>i DEF LineOK, Line, MaybeBlock
<1>f. f \in Nat
  BY <1>t, <1>v DEF Context
<1>. HIDE DEF f, v
<1>c. /\ c \in Context /\ c.victim = v /\ c.blk = ctx[t].blk /\ c.kind = ctx[t].kind
      /\ c.req = ctx[t].req /\ c.back = pc[t]
  BY <1>f, <1>t, <1>v DEF Context, MaybeBlock
<1>. HIDE DEF c
<1>at. At(c, "advise") = At(ctx[t], pc[t])
  BY <1>c DEF At
<1>1. Moved(t, c, "advise")
  <2>1. ThreadOK(t, c, "advise")
    BY <1>at, <1>c, <1>t, <1>v DEF ThreadOK, Labels
  <2>. QED
    BY <1>a, <2>1 DEF Moved
<1>m. /\ ThreadsOK'
      /\ ctx'[t] = c /\ pc'[t] = "advise"
      /\ \A u \in Everyone : u # t => ctx'[u] = ctx[u] /\ pc'[u] = pc[u]
  BY <1>1, <1>o, MovedMeaning
<1>h. \A u \in Everyone : /\ At(ctx'[u], pc'[u]) = At(ctx[u], pc[u])
                          /\ ctx'[u].kind = ctx[u].kind /\ ctx'[u].req = ctx[u].req
                          /\ ctx'[u].blk = ctx[u].blk
  BY <1>at, <1>c, <1>m
<1>w. SameWriters
  BY <1>h DEF SameWriters, HasLine
<1>r. lines' \in Seq(Line) /\ Len(lines') = Len(lines) - 1
  BY <1>a, <1>i, <1>o, LinesRemoved, Zenon
<1>g. PICK g :
        /\ \A j \in 1..Len(lines') : /\ g[j] \in 1..Len(lines) /\ g[j] # i
                                     /\ lines'[j] = lines[g[j]]
        /\ \A j, k \in 1..Len(lines') : j # k => g[j] # g[k]
        /\ \A m \in 1..Len(lines) : m # i => \E j \in 1..Len(lines') : g[j] = m
  BY <1>a, <1>i, <1>o, LinesRemoved, Zenon
<1>2. Sorted(free_runs)'
  BY <1>a, <1>o DEF Sorted, End, Run, num_pages
<1>3. LinesOK'
  <2>1. \A j \in 1..Len(lines') : LineOK(lines'[j], ctx', pc')
    BY <1>g, <1>o, <1>w, LineStays DEF LinesOK
  <2>2. ASSUME NEW u \in Everyone, HasLine(ctx'[u], pc'[u])
        PROVE  \E j \in 1..Len(lines') : lines'[j].user = u
    <3>1. PICK m \in 1..Len(lines) : lines[m].user = u
      BY <1>o, <1>w, <2>2 DEF LinesOK, SameWriters
    <3>2. m # i
      BY <1>i, <3>1, Constants
    <3>. QED
      BY <1>g, <3>1, <3>2
  <2>3. \A j, k \in 1..Len(lines') :
          j # k /\ lines'[j].user # NULL => lines'[j].user # lines'[k].user
    <3>1. \A j, k \in 1..Len(lines) :
            j # k /\ lines[j].user # NULL => lines[j].user # lines[k].user
      BY <1>o DEF LinesOK
    <3>. SUFFICES ASSUME NEW j \in 1..Len(lines'), NEW k \in 1..Len(lines'), j # k,
                         lines'[j].user # NULL
                  PROVE  lines'[j].user # lines'[k].user
      BY Zenon
    <3>2. /\ g[j] \in 1..Len(lines) /\ g[k] \in 1..Len(lines) /\ g[j] # g[k]
          /\ lines'[j] = lines[g[j]] /\ lines'[k] = lines[g[k]]
      BY <1>g
    <3>. QED
      BY <3>1, <3>2
  <2>4. Everyone' = Everyone /\ Line' = Line
    BY DEF Everyone, Line, MaybeBlock, Block, num_pages
  <2>. QED
    BY <1>r, <2>1, <2>2, <2>3, <2>4 DEF LinesOK
<1>4. Apart'
  <2>1. FreePages' = FreePages
    BY <1>a DEF FreePages
  <2>2. /\ ctx'[t].victim = v /\ v = lines[i].buf
        /\ \A u \in Everyone : u # t => ctx'[u].victim = ctx[u].victim
    BY <1>c, <1>m DEF v
  <2>3. \A u \in Everyone : Clear(ctx[u].blk) /\ Clear(ctx'[u].victim)
    BY <1>i, <1>o, <2>2 DEF Apart
  <2>4. \A j \in 1..Len(lines') : Clear(lines'[j].buf)
    BY <1>g, <1>o DEF Apart
  <2>5. \A u, w \in Everyone : Off(ctx[u].blk, ctx'[w].victim)
    BY <1>i, <1>o, <2>2 DEF Apart
  <2>6. \A u, w \in Everyone : u # w => /\ Off(ctx[u].blk, ctx[w].blk)
                                        /\ Off(ctx'[u].victim, ctx'[w].victim)
    BY <1>i, <1>o, <2>2, OffFacts DEF Apart
  <2>7. \A u \in Everyone : \A j \in 1..Len(lines') : /\ Off(ctx[u].blk, lines'[j].buf)
                                                      /\ Off(ctx'[u].victim, lines'[j].buf)
    BY <1>g, <1>i, <1>o, <2>2 DEF Apart
  <2>8. \A j, k \in 1..Len(lines') : j # k => Off(lines'[j].buf, lines'[k].buf)
    BY <1>g, <1>o DEF Apart
  <2>. QED
    BY <1>h, <2>1, <2>3, <2>4, <2>5, <2>6, <2>7, <2>8 DEF Apart, Clear
<1>5. Backed'
  <2>1. ASSUME NEW p \in lazy
        PROVE  \E u \in Everyone : pc'[u] = "publish" /\ p \in Mine(ctx'[u].victim)
    <3>1. PICK u \in Everyone : pc[u] = "publish" /\ p \in Mine(ctx[u].victim)
      BY <1>o DEF Backed
    <3>. QED
      BY <1>m, <3>1
  <2>2. \A j \in 1..Len(lines') :
          /\ Mine(lines'[j].buf) \subseteq committed
          /\ lines'[j].user = NULL => Mine(lines'[j].buf) \subseteq dirty
    BY <1>g, <1>o DEF Backed
  <2>. QED
    BY <1>a, <1>h, <1>o, <2>1, <2>2 DEF Backed, Pages, num_pages
<1>. QED
  BY <1>2, <1>3, <1>4, <1>5, <1>m DEF MemInv

\* A block that the thread has, it gives back: after a failure, or when it is done with it.
LEMMA GiveUpKeeps ==
    ASSUME MemInv, NEW t \in Everyone, NEW c, Moved(t, c, "advise"),
           ctx[t].victim = NULL, c.victim = ctx[t].blk, c.blk = NULL,
           HasLine(c, "advise") <=> HasLine(ctx[t], pc[t]),
           HasLine(c, "advise") => /\ c.req = ctx[t].req
                                   /\ At(c, "advise") = "fill" <=> At(ctx[t], pc[t]) = "fill",
           lines' = lines, UNCHANGED <<free_runs, lazy, committed, dirty, build>>
    PROVE  MemInv'
<1>o. ThreadsOK /\ LinesOK /\ Apart /\ Backed /\ Sorted(free_runs)
  BY DEF MemInv
<1>m. /\ ThreadsOK'
      /\ ctx'[t] = c /\ pc'[t] = "advise"
      /\ \A u \in Everyone : u # t => ctx'[u] = ctx[u] /\ pc'[u] = pc[u]
  BY <1>o, MovedMeaning
<1>2. Sorted(free_runs)'
  BY <1>o DEF Sorted, End, Run, num_pages
<1>3. LinesOK'
  <2>1. SameWriters
    BY <1>m DEF SameWriters
  <2>. QED
    BY <1>o, <2>1, LinesStay
<1>4. Apart'
  <2>1. FreePages' = FreePages
    BY DEF FreePages
  <2>2. /\ ctx'[t].victim = ctx[t].blk /\ ctx'[t].blk = NULL
        /\ \A u \in Everyone : u # t => /\ ctx'[u].victim = ctx[u].victim
                                        /\ ctx'[u].blk = ctx[u].blk
    BY <1>m
  <2>3. \A u \in Everyone : Clear(ctx'[u].blk) /\ Clear(ctx'[u].victim)
    BY <1>o, <2>2, OffFacts DEF Apart
  <2>4. \A i \in 1..Len(lines) : Clear(lines[i].buf)
    BY <1>o DEF Apart
  <2>5. \A u, w \in Everyone : Off(ctx'[u].blk, ctx'[w].victim)
    BY <1>o, <2>2, OffFacts DEF Apart
  <2>6. \A u, w \in Everyone : u # w => /\ Off(ctx'[u].blk, ctx'[w].blk)
                                        /\ Off(ctx'[u].victim, ctx'[w].victim)
    BY <1>o, <2>2, OffFacts DEF Apart
  <2>7. \A u \in Everyone : \A j \in 1..Len(lines) : /\ Off(ctx'[u].blk, lines[j].buf)
                                                     /\ Off(ctx'[u].victim, lines[j].buf)
    BY <1>o, <2>2, OffFacts DEF Apart
  <2>8. \A j, k \in 1..Len(lines) : j # k => Off(lines[j].buf, lines[k].buf)
    BY <1>o DEF Apart
  <2>. QED
    BY <2>1, <2>3, <2>4, <2>5, <2>6, <2>7, <2>8 DEF Apart, Clear
<1>5. Backed'
  <2>1. ASSUME NEW p \in lazy
        PROVE  \E u \in Everyone : pc'[u] = "publish" /\ p \in Mine(ctx'[u].victim)
    <3>1. PICK u \in Everyone : pc[u] = "publish" /\ p \in Mine(ctx[u].victim)
      BY <1>o DEF Backed
    <3>2. u # t
      BY <3>1 DEF Mine
    <3>. QED
      BY <1>m, <3>1, <3>2
  <2>2. \A u \in Everyone :
          /\ At(ctx'[u], pc'[u]) \in Solid => Mine(ctx'[u].blk) \subseteq committed
          /\ At(ctx'[u], pc'[u]) = "used" => Mine(ctx'[u].blk) \subseteq dirty
    <3>1. Mine(NULL) = {}
      BY DEF Mine
    <3>. QED
      BY <1>m, <1>o, <3>1 DEF Backed
  <2>. QED
    BY <1>o, <2>1, <2>2 DEF Backed, Pages, num_pages
<1>. QED
  BY <1>2, <1>3, <1>4, <1>5, <1>m DEF MemInv

\* dt_cache_arena_free, first half: the kernel may take the pages from now on.
LEMMA AdviseKeeps ==
    ASSUME MemInv, NEW t \in Everyone, AdvisePages(t)
    PROVE  MemInv'
<1>o. ThreadsOK /\ LinesOK /\ Apart /\ Backed /\ Sorted(free_runs)
  BY DEF MemInv
<1>a. /\ pc[t] = "advise" /\ lines' = lines /\ ctx' = ctx /\ pc' = [pc EXCEPT ![t] = "publish"]
      /\ UNCHANGED <<free_runs, committed, dirty, build>>
      /\ lazy' = IF build = "posix" THEN lazy \cup (PagesOf(ctx[t].victim) \cap dirty) ELSE lazy
  BY DEF AdvisePages, FreeStep, Advise, Goto, lineVars
<1>t. /\ ctx \in [Everyone -> Context] /\ ThreadOK(t, ctx[t], pc[t]) /\ ctx[t].victim # NULL
  BY <1>a, <1>o DEF ThreadsOK, ThreadOK
<1>1. Moved(t, ctx[t], "publish")
  <2>1. ThreadOK(t, ctx[t], "publish")
    BY <1>a, <1>t DEF ThreadOK, At, Labels
  <2>. QED
    BY <1>a, <1>t, <2>1 DEF Moved
<1>m. /\ ThreadsOK' /\ pc'[t] = "publish"
      /\ \A u \in Everyone : u # t => pc'[u] = pc[u]
  BY <1>1, <1>o, MovedMeaning
<1>h. \A u \in Everyone : At(ctx[u], pc'[u]) = At(ctx[u], pc[u])
  BY <1>a, <1>m DEF At
<1>2. Sorted(free_runs)'
  BY <1>a, <1>o DEF Sorted, End, Run, num_pages
<1>3. LinesOK'
  <2>1. SameWriters
    BY <1>a, <1>h DEF SameWriters, HasLine
  <2>. QED
    BY <1>a, <1>o, <2>1, LinesStay
<1>4. Apart'
  <2>1. FreePages' = FreePages
    BY <1>a DEF FreePages
  <2>. QED
    BY <1>a, <1>o, <2>1 DEF Apart, Clear
<1>5. Backed'
  <2>1. ASSUME NEW p \in lazy'
        PROVE  \E u \in Everyone : pc'[u] = "publish" /\ p \in Mine(ctx[u].victim)
    <3>1. CASE p \in lazy
      <4>1. PICK u \in Everyone : pc[u] = "publish" /\ p \in Mine(ctx[u].victim)
        BY <1>o, <3>1 DEF Backed
      <4>. QED
        BY <1>m, <4>1
    <3>2. CASE p \notin lazy
      <4>1. p \in Mine(ctx[t].victim)
        BY <1>a, <1>t, <3>2 DEF Mine
      <4>. QED
        BY <1>m, <4>1
    <3>. QED
      BY <3>1, <3>2
  <2>2. lazy' \subseteq Pages
    BY <1>a, <1>o DEF Backed
  <2>. QED
    BY <1>a, <1>h, <1>o, <2>1, <2>2 DEF Backed, Pages, num_pages
<1>. QED
  BY <1>2, <1>3, <1>4, <1>5, <1>m DEF MemInv

\* Second half: the pages are in the list again, and nobody's.
LEMMA PublishKeeps ==
    ASSUME MemInv, NEW t \in Everyone, PublishPages(t)
    PROVE  /\ MemInv'
           /\ ctx[t].victim \in Block
           /\ FreePages' = FreePages \cup PagesOf(ctx[t].victim)
<1>. DEFINE v == ctx[t].victim
            c == [ctx[t] EXCEPT !.victim = NULL, !.back = "idle"]
            l == ctx[t].back
<1>o. ThreadsOK /\ LinesOK /\ Apart /\ Backed /\ Sorted(free_runs)
  BY DEF MemInv
<1>a. /\ pc[t] = "publish" /\ lines' = lines
      /\ ctx' = [ctx EXCEPT ![t] = c] /\ pc' = [pc EXCEPT ![t] = l]
      /\ free_runs' = IF Overlaps(v) THEN free_runs ELSE Inserted(v)
      /\ dirty' = dirty \ PagesOf(v) /\ lazy' = lazy \ PagesOf(v) /\ build' = build
      /\ committed' = IF build = "windows" THEN committed \ PagesOf(v) ELSE committed
  BY DEF PublishPages, FreeStep, Publish, Call, Goto, lineVars
<1>t. ctx[t] \in Context /\ ThreadOK(t, ctx[t], pc[t])
  BY <1>o DEF ThreadsOK
<1>v. v \in Block /\ v # NULL /\ Mine(v) = PagesOf(v)
  BY <1>a, <1>t DEF ThreadOK, Context, MaybeBlock, Mine
<1>c. /\ c \in Context /\ c.victim = NULL /\ c.blk = ctx[t].blk /\ c.kind = ctx[t].kind
      /\ c.req = ctx[t].req
  BY <1>t DEF Context, MaybeBlock, Places
<1>l. l \in Places /\ l \notin {"advise", "publish"}
  BY <1>t DEF Context, Places, TempPlaces, LinePlaces
<1>. HIDE DEF c
<1>at. At(c, l) = l /\ At(ctx[t], pc[t]) = l
  BY <1>a, <1>l DEF At
<1>1. Moved(t, c, l)
  <2>1. ThreadOK(t, c, l)
    BY <1>at, <1>c, <1>l, <1>t DEF ThreadOK, Labels
  <2>. QED
    BY <1>a, <2>1 DEF Moved
<1>. HIDE DEF l, v
<1>m. /\ ThreadsOK' /\ ctx'[t] = c /\ pc'[t] = l
      /\ \A u \in Everyone : u # t => ctx'[u] = ctx[u] /\ pc'[u] = pc[u]
  BY <1>1, <1>o, MovedMeaning
<1>h. \A u \in Everyone : /\ At(ctx'[u], pc'[u]) = At(ctx[u], pc[u])
                          /\ ctx'[u].kind = ctx[u].kind /\ ctx'[u].req = ctx[u].req
                          /\ ctx'[u].blk = ctx[u].blk
  BY <1>at, <1>c, <1>m
<1>f. PagesOf(v) \cap FreePages = {}
  BY <1>o, <1>v DEF Apart, Clear, v
<1>i. ~ Overlaps(v) /\ Sorted(Inserted(v)) /\ Covered(Inserted(v)) = FreePages \cup PagesOf(v)
  BY <1>f, <1>o, <1>v, InsertedKeeps
<1>r. free_runs' = Inserted(v)
  BY <1>a, <1>i
<1>2. Sorted(free_runs)' /\ FreePages' = FreePages \cup PagesOf(v)
  <2>1. Sorted(free_runs')
    BY <1>i, <1>r
  <2>2. FreePages' = Covered(free_runs')
    BY DEF FreePages, Covered
  <2>. QED
    BY <1>i, <1>r, <2>1, <2>2 DEF Sorted, End, Run, num_pages
<1>3. LinesOK'
  <2>1. SameWriters
    BY <1>h DEF SameWriters, HasLine
  <2>. QED
    BY <1>a, <1>o, <2>1, LinesStay
<1>c2. ASSUME NEW b, Clear(b), Off(b, v) PROVE Mine(b) \cap FreePages' = {}
  BY <1>2, <1>c2, <1>v DEF Clear, Off
<1>w. /\ ctx'[t].victim = NULL
      /\ \A u \in Everyone : u # t => ctx'[u].victim = ctx[u].victim
  BY <1>c, <1>m
<1>b. \A u \in Everyone : Off(ctx[u].blk, v)
  BY <1>o DEF Apart, v
<1>bl. \A i \in 1..Len(lines) : Off(lines[i].buf, v)
  BY <1>o, OffFacts DEF Apart, v
<1>4. Apart'
  <2>3. \A u \in Everyone : /\ Mine(ctx[u].blk) \cap FreePages' = {}
                            /\ Mine(ctx'[u].victim) \cap FreePages' = {}
    <3>1. \A u \in Everyone : Mine(ctx[u].blk) \cap FreePages' = {}
      BY <1>b, <1>c2, <1>o DEF Apart
    <3>2. ASSUME NEW u \in Everyone PROVE Mine(ctx'[u].victim) \cap FreePages' = {}
      <4>1. CASE u = t
        BY <1>w, <4>1 DEF Mine
      <4>2. CASE u # t
        <5>1. Clear(ctx[u].victim) /\ Off(ctx[u].victim, v)
          BY <1>o, <4>2 DEF Apart, v
        <5>. QED
          BY <1>c2, <1>w, <4>2, <5>1
      <4>. QED
        BY <4>1, <4>2
    <3>. QED
      BY <3>1, <3>2
  <2>4. \A i \in 1..Len(lines) : Mine(lines[i].buf) \cap FreePages' = {}
    BY <1>bl, <1>c2, <1>o DEF Apart
  <2>5. \A u, w \in Everyone : Off(ctx[u].blk, ctx'[w].victim)
    BY <1>o, <1>w, OffFacts DEF Apart
  <2>6. \A u, w \in Everyone : u # w => /\ Off(ctx[u].blk, ctx[w].blk)
                                        /\ Off(ctx'[u].victim, ctx'[w].victim)
    BY <1>o, <1>w, OffFacts DEF Apart
  <2>7. \A u \in Everyone : \A j \in 1..Len(lines) : /\ Off(ctx[u].blk, lines[j].buf)
                                                     /\ Off(ctx'[u].victim, lines[j].buf)
    BY <1>o, <1>w, OffFacts DEF Apart
  <2>8. \A j, k \in 1..Len(lines) : j # k => Off(lines[j].buf, lines[k].buf)
    BY <1>o DEF Apart
  <2>. QED
    BY <1>a, <1>h, <2>3, <2>4, <2>5, <2>6, <2>7, <2>8 DEF Apart, Clear
<1>5. Backed'
  <2>1. ASSUME NEW p \in lazy'
        PROVE  \E u \in Everyone : pc'[u] = "publish" /\ p \in Mine(ctx'[u].victim)
    <3>1. PICK u \in Everyone : pc[u] = "publish" /\ p \in Mine(ctx[u].victim)
      BY <1>a, <1>o DEF Backed
    <3>2. u # t
      BY <1>a, <1>v, <3>1 DEF v
    <3>. QED
      BY <1>m, <3>1, <3>2
  <2>2. ASSUME NEW b, Off(b, v)
        PROVE  /\ Mine(b) \subseteq committed => Mine(b) \subseteq committed'
               /\ Mine(b) \subseteq dirty => Mine(b) \subseteq dirty'
    BY <1>a, <1>v, <2>2 DEF Off
  <2>3. \A u \in Everyone :
          /\ At(ctx'[u], pc'[u]) \in Solid => Mine(ctx'[u].blk) \subseteq committed'
          /\ At(ctx'[u], pc'[u]) = "used" => Mine(ctx'[u].blk) \subseteq dirty'
    BY <1>b, <1>h, <1>o, <2>2 DEF Backed
  <2>4. \A i \in 1..Len(lines) :
          /\ Mine(lines[i].buf) \subseteq committed'
          /\ lines[i].user = NULL => Mine(lines[i].buf) \subseteq dirty'
    BY <1>bl, <1>o, <2>2 DEF Backed
  <2>5. /\ UNION {lazy', committed', dirty'} \subseteq Pages
        /\ build' \in {"posix", "windows"} /\ (build' = "posix" => committed' = Pages)
    BY <1>a, <1>o DEF Backed
  <2>. QED
    BY <1>a, <2>1, <2>3, <2>4, <2>5 DEF Backed, Pages, num_pages
<1>. QED
  BY <1>2, <1>3, <1>4, <1>5, <1>m, <1>v DEF MemInv, v

\* dt_cache_arena_alloc: the block is made of pages that were nobody's.
LEMMA ArenaAllocKeeps ==
    ASSUME MemInv, NEW t \in Threads, ArenaAlloc(t)
    PROVE  /\ MemInv'
           /\ \E b \in Block :
                /\ ctx[t].blk = NULL /\ PagesOf(b) \subseteq FreePages
                /\ FreePages' = FreePages \ PagesOf(b)
                /\ ctx'[t].blk = b /\ ctx'[t].victim = ctx[t].victim
                /\ \A u \in Everyone : u # t => ctx'[u] = ctx[u]
<1>o. ThreadsOK /\ LinesOK /\ Apart /\ Backed /\ Sorted(free_runs) /\ t \in Everyone
  BY Constants DEF MemInv
<1>t. ctx[t] \in Context /\ ThreadOK(t, ctx[t], pc[t]) /\ pc[t] = "carve"
  BY <1>o DEF ThreadsOK, ArenaAlloc
<1>k. /\ At(ctx[t], pc[t]) = pc[t] /\ ctx[t].victim = NULL /\ ctx[t].blk = NULL
      /\ ctx[t].kind \in {"temp", "line"}
  BY <1>o, <1>t, KindAt DEF Holding
<1>n. PICK n \in calc(ctx[t].req) :
        /\ Fits(n) # {} /\ Carve(n)
        /\ Call(t, [ctx[t] EXCEPT !.blk = [first |-> free_runs[BestFit(n)].start, pages |-> n]],
                IF build = "windows" THEN "commit" ELSE Got(t))
  BY DEF ArenaAlloc
<1>. DEFINE b == [first |-> free_runs[BestFit(n)].start, pages |-> n]
            c == [ctx[t] EXCEPT !.blk = b]
            l == IF build = "windows" THEN "commit" ELSE Got(t)
<1>p. n \in 1..num_pages /\ n \in Nat \ {0} /\ ctx[t].req \in Nat
      /\ \A k \in Nat : ctx[t].req = PageSize * k => n = k
  <2>1. ctx[t].req \in Nat
    BY <1>t DEF Context
  <2>. QED
    BY <2>1, CalcMeaning, ArenaHasPages
<1>b. /\ Sorted(free_runs') /\ b \in Block /\ PagesOf(b) \subseteq FreePages
      /\ FreePages' = FreePages \ PagesOf(b)
  BY <1>n, <1>o, <1>p, CarveKeeps
<1>bp. b.pages = n
  OBVIOUS
<1>a. /\ lines' = lines /\ UNCHANGED <<lazy, committed, dirty, build>>
      /\ ctx' = [ctx EXCEPT ![t] = c] /\ pc' = [pc EXCEPT ![t] = l]
  BY <1>n DEF ArenaAlloc, Call, Goto, lineVars
<1>. HIDE DEF b
<1>bn. b # NULL /\ Mine(b) = PagesOf(b)
  BY <1>b, Constants DEF Mine
<1>c. /\ c \in Context /\ c.victim = NULL /\ c.blk = b /\ c.kind = ctx[t].kind
      /\ c.req = ctx[t].req
  BY <1>b, <1>k, <1>t DEF Context, MaybeBlock
<1>. HIDE DEF c
<1>l. /\ l \in {"commit", "enter", "got"} /\ (l = "enter" => c.kind = "temp")
      /\ (l = "got" => c.kind = "line") /\ (build = "windows" => l = "commit")
  BY <1>c, <1>k DEF Got
<1>. HIDE DEF l
<1>at. At(c, l) = l
  BY <1>l DEF At
<1>s. c.kind = "line" => BlockSize(b) = c.req
  <2>. SUFFICES ASSUME c.kind = "line" PROVE BlockSize(b) = c.req
    OBVIOUS
  <2>1. PICK k \in 1..num_pages : ctx[t].req = PageSize * k
    BY <1>c, <1>t DEF ThreadOK, WholePages
  <2>2. n = k
    BY <1>p, <2>1, ArenaHasPages
  <2>. QED
    BY <1>bp, <1>c, <2>1, <2>2 DEF BlockSize
<1>1. Moved(t, c, l)
  <2>1. ThreadOK(t, c, l)
    BY <1>at, <1>bn, <1>c, <1>k, <1>l, <1>s, <1>t
       DEF ThreadOK, Labels, Places, TempPlaces, LinePlaces, Holding
  <2>. QED
    BY <1>a, <2>1 DEF Moved
<1>m. /\ ThreadsOK' /\ ctx'[t] = c /\ pc'[t] = l
      /\ \A u \in Everyone : u # t => ctx'[u] = ctx[u] /\ pc'[u] = pc[u]
  BY <1>1, <1>o, MovedMeaning
<1>2. Sorted(free_runs)'
  BY <1>b DEF Sorted, End, Run, num_pages
<1>3. LinesOK'
  <2>1. SameWriters
    BY <1>at, <1>c, <1>k, <1>l, <1>m, <1>t DEF SameWriters, HasLine
  <2>. QED
    BY <1>a, <1>o, <2>1, LinesStay
<1>f. ASSUME NEW x, Clear(x) PROVE Mine(x) \cap FreePages' = {} /\ Off(x, b) /\ Off(b, x)
  BY <1>b, <1>bn, <1>f DEF Clear, Off
<1>fb. Mine(b) \cap FreePages' = {}
  BY <1>b, <1>bn
<1>w. /\ ctx'[t].blk = b /\ ctx'[t].victim = ctx[t].victim
      /\ \A u \in Everyone : u # t => ctx'[u].blk = ctx[u].blk /\ ctx'[u].victim = ctx[u].victim
  BY <1>c, <1>k, <1>m
<1>v. \A u \in Everyone : ctx'[u].victim = ctx[u].victim
  BY <1>w
<1>x. /\ \A u \in Everyone : /\ Mine(ctx[u].victim) \cap FreePages' = {}
                             /\ Off(b, ctx[u].victim)
      /\ \A u \in Everyone : /\ Mine(ctx[u].blk) \cap FreePages' = {}
                             /\ Off(b, ctx[u].blk) /\ Off(ctx[u].blk, b)
      /\ \A i \in 1..Len(lines) : Mine(lines[i].buf) \cap FreePages' = {} /\ Off(b, lines[i].buf)
  BY <1>f, <1>o DEF Apart
<1>4. Apart'
  <2>1. \A u \in Everyone : /\ Mine(ctx'[u].blk) \cap FreePages' = {}
                            /\ Mine(ctx[u].victim) \cap FreePages' = {}
    BY <1>fb, <1>w, <1>x
  <2>2. \A u, w \in Everyone : Off(ctx'[u].blk, ctx[w].victim)
    BY <1>o, <1>w, <1>x DEF Apart
  <2>3. \A u, w \in Everyone : u # w => /\ Off(ctx'[u].blk, ctx'[w].blk)
                                        /\ Off(ctx[u].victim, ctx[w].victim)
    BY <1>o, <1>w, <1>x DEF Apart
  <2>4. \A u \in Everyone : \A j \in 1..Len(lines) : /\ Off(ctx'[u].blk, lines[j].buf)
                                                     /\ Off(ctx[u].victim, lines[j].buf)
    BY <1>o, <1>w, <1>x DEF Apart
  <2>5. \A j, k \in 1..Len(lines) : j # k => Off(lines[j].buf, lines[k].buf)
    BY <1>o DEF Apart
  <2>. QED
    BY <1>a, <1>v, <1>x, <2>1, <2>2, <2>3, <2>4, <2>5 DEF Apart, Clear
<1>5. Backed'
  <2>1. ASSUME NEW p \in lazy
        PROVE  \E u \in Everyone : pc'[u] = "publish" /\ p \in Mine(ctx'[u].victim)
    <3>1. PICK u \in Everyone : pc[u] = "publish" /\ p \in Mine(ctx[u].victim)
      BY <1>o DEF Backed
    <3>2. u # t
      BY <1>t, <3>1
    <3>. QED
      BY <1>m, <3>1, <3>2
  <2>2. build # "windows" => PagesOf(b) \subseteq committed
    <3>1. build # "windows" => committed = Pages
      BY <1>o DEF Backed
    <3>2. PagesOf(b) \subseteq Pages
      BY <1>b, PagesMeaning, ArenaHasPages DEF Pages, Block
    <3>. QED
      BY <3>1, <3>2
  <2>3. ASSUME NEW u \in Everyone
        PROVE  /\ At(ctx'[u], pc'[u]) \in Solid => Mine(ctx'[u].blk) \subseteq committed
               /\ At(ctx'[u], pc'[u]) = "used" => Mine(ctx'[u].blk) \subseteq dirty
    <3>1. CASE u = t
      BY <1>at, <1>bn, <1>c, <1>l, <1>m, <2>2, <3>1 DEF Solid
    <3>2. CASE u # t
      BY <1>m, <1>o, <3>2 DEF Backed
    <3>. QED
      BY <3>1, <3>2
  <2>. QED
    BY <1>a, <1>o, <2>1, <2>3 DEF Backed, Pages, num_pages
<1>6. MemInv'
  BY <1>2, <1>3, <1>4, <1>5, <1>m DEF MemInv
<1>. QED
  BY <1>6, <1>b, <1>c, <1>k, <1>m

\* VirtualAlloc backs the pages of the block.
LEMMA CommitKeeps ==
    ASSUME MemInv, NEW t \in Threads, CommitBlock(t)
    PROVE  MemInv'
<1>o. ThreadsOK /\ LinesOK /\ Apart /\ Backed /\ Sorted(free_runs) /\ t \in Everyone
  BY Constants DEF MemInv
<1>a. /\ pc[t] = "commit" /\ lines' = lines /\ ctx' = ctx /\ pc' = [pc EXCEPT ![t] = Got(t)]
      /\ UNCHANGED <<free_runs, lazy, dirty, build>>
      /\ committed' = committed \cup PagesOf(ctx[t].blk)
  BY DEF CommitBlock, Commit, Goto, lineVars
<1>t. ctx \in [Everyone -> Context] /\ ctx[t] \in Context /\ ThreadOK(t, ctx[t], pc[t])
  BY <1>o DEF ThreadsOK
<1>k. /\ ctx[t].blk # NULL /\ ctx[t].kind \in {"temp", "line"}
  BY <1>a, <1>o, KindAt DEF Holding
<1>. DEFINE l == Got(t)
<1>l. /\ l \in {"enter", "got"} /\ (l = "enter" => ctx[t].kind = "temp")
      /\ (l = "got" => ctx[t].kind = "line")
  BY <1>k DEF Got
<1>1. Moved(t, ctx[t], l)
  <2>. HIDE DEF l
  <2>1. ThreadOK(t, ctx[t], l)
    BY <1>a, <1>k, <1>l, <1>t DEF ThreadOK, At, Labels, Places, TempPlaces, LinePlaces, Holding
  <2>. QED
    BY <1>a, <1>t, <2>1 DEF Moved, l
<1>. HIDE DEF l
<1>m. /\ ThreadsOK' /\ pc'[t] = l
      /\ \A u \in Everyone : u # t => pc'[u] = pc[u]
  BY <1>1, <1>o, MovedMeaning
<1>2. Sorted(free_runs)'
  BY <1>a, <1>o DEF Sorted, End, Run, num_pages
<1>3. LinesOK'
  <2>1. SameWriters
    BY <1>a, <1>l, <1>m DEF SameWriters, HasLine, At
  <2>. QED
    BY <1>a, <1>o, <2>1, LinesStay
<1>4. Apart'
  <2>1. FreePages' = FreePages
    BY <1>a DEF FreePages
  <2>. QED
    BY <1>a, <1>o, <2>1 DEF Apart, Clear
<1>5. Backed'
  <2>0. PagesOf(ctx[t].blk) \subseteq Pages
    <3>1. ctx[t].blk \in Block
      BY <1>k, <1>t DEF Context, MaybeBlock
    <3>. QED
      BY <3>1, PagesMeaning, ArenaHasPages DEF Pages, Block
  <2>1. ASSUME NEW p \in lazy
        PROVE  \E u \in Everyone : pc'[u] = "publish" /\ p \in Mine(ctx[u].victim)
    <3>1. PICK u \in Everyone : pc[u] = "publish" /\ p \in Mine(ctx[u].victim)
      BY <1>o DEF Backed
    <3>2. u # t
      BY <1>a, <3>1
    <3>. QED
      BY <1>m, <3>1, <3>2
  <2>2. Mine(ctx[t].blk) \subseteq committed' /\ committed \subseteq committed'
    BY <1>a DEF Mine
  <2>3. ASSUME NEW u \in Everyone
        PROVE  /\ At(ctx[u], pc'[u]) \in Solid => Mine(ctx[u].blk) \subseteq committed'
               /\ At(ctx[u], pc'[u]) = "used" => Mine(ctx[u].blk) \subseteq dirty
    <3>1. CASE u = t
      BY <1>l, <1>m, <2>2, <3>1 DEF At
    <3>2. CASE u # t
      BY <1>m, <1>o, <2>2, <3>2 DEF Backed
    <3>. QED
      BY <3>1, <3>2
  <2>4. \A i \in 1..Len(lines) : /\ Mine(lines[i].buf) \subseteq committed'
                                 /\ lines[i].user = NULL => Mine(lines[i].buf) \subseteq dirty
    BY <1>o, <2>2 DEF Backed
  <2>5. /\ UNION {lazy, committed', dirty} \subseteq Pages
        /\ build \in {"posix", "windows"} /\ (build = "posix" => committed' = Pages)
    BY <1>a, <1>o, <2>0 DEF Backed
  <2>. QED
    BY <1>a, <2>1, <2>3, <2>4, <2>5 DEF Backed, Pages, num_pages
<1>. QED
  BY <1>2, <1>3, <1>4, <1>5, <1>m DEF MemInv

\* The thread writes its temporary buffer.
LEMMA UseTempKeeps ==
    ASSUME MemInv, NEW t \in Threads, UseTemp(t)
    PROVE  MemInv'
<1>o. ThreadsOK /\ LinesOK /\ Apart /\ Backed /\ Sorted(free_runs) /\ t \in Everyone
  BY Constants DEF MemInv
<1>a. /\ pc[t] = "hold" /\ lines' = lines /\ ctx' = ctx /\ pc' = [pc EXCEPT ![t] = "used"]
      /\ UNCHANGED <<free_runs, committed, build>>
      /\ dirty' = dirty \cup PagesOf(ctx[t].blk) /\ lazy' = lazy \ PagesOf(ctx[t].blk)
  BY DEF UseTemp, Write, Goto, lineVars
<1>t. ctx \in [Everyone -> Context] /\ ctx[t] \in Context /\ ThreadOK(t, ctx[t], pc[t])
  BY <1>o DEF ThreadsOK
<1>k. ctx[t].blk # NULL /\ ctx[t].kind = "temp"
  BY <1>a, <1>o, KindAt DEF Holding
<1>1. Moved(t, ctx[t], "used")
  <2>1. ThreadOK(t, ctx[t], "used")
    BY <1>a, <1>k, <1>t DEF ThreadOK, At, Labels, Places, TempPlaces, LinePlaces, Holding
  <2>. QED
    BY <1>a, <1>t, <2>1 DEF Moved
<1>m. /\ ThreadsOK' /\ pc'[t] = "used"
      /\ \A u \in Everyone : u # t => pc'[u] = pc[u]
  BY <1>1, <1>o, MovedMeaning
<1>2. Sorted(free_runs)'
  BY <1>a, <1>o DEF Sorted, End, Run, num_pages
<1>3. LinesOK'
  <2>1. SameWriters
    BY <1>a, <1>k, <1>m DEF SameWriters, HasLine
  <2>. QED
    BY <1>a, <1>o, <2>1, LinesStay
<1>4. Apart'
  <2>1. FreePages' = FreePages
    BY <1>a DEF FreePages
  <2>. QED
    BY <1>a, <1>o, <2>1 DEF Apart, Clear
<1>5. Backed'
  <2>0. PagesOf(ctx[t].blk) \subseteq Pages
    <3>1. ctx[t].blk \in Block
      BY <1>k, <1>t DEF Context, MaybeBlock
    <3>. QED
      BY <3>1, PagesMeaning, ArenaHasPages DEF Pages, Block
  <2>1. ASSUME NEW p \in lazy'
        PROVE  \E u \in Everyone : pc'[u] = "publish" /\ p \in Mine(ctx[u].victim)
    <3>1. PICK u \in Everyone : pc[u] = "publish" /\ p \in Mine(ctx[u].victim)
      BY <1>a, <1>o DEF Backed
    <3>2. u # t
      BY <1>a, <3>1
    <3>. QED
      BY <1>m, <3>1, <3>2
  <2>2. Mine(ctx[t].blk) \subseteq dirty' /\ dirty \subseteq dirty'
    BY <1>a DEF Mine
  <2>3. ASSUME NEW u \in Everyone
        PROVE  /\ At(ctx[u], pc'[u]) \in Solid => Mine(ctx[u].blk) \subseteq committed
               /\ At(ctx[u], pc'[u]) = "used" => Mine(ctx[u].blk) \subseteq dirty'
    <3>1. CASE u = t
      BY <1>a, <1>m, <1>o, <2>2, <3>1 DEF At, Backed, Solid
    <3>2. CASE u # t
      BY <1>m, <1>o, <2>2, <3>2 DEF Backed
    <3>. QED
      BY <3>1, <3>2
  <2>4. \A i \in 1..Len(lines) : /\ Mine(lines[i].buf) \subseteq committed
                                 /\ lines[i].user = NULL => Mine(lines[i].buf) \subseteq dirty'
    BY <1>o, <2>2 DEF Backed
  <2>5. UNION {lazy', committed, dirty'} \subseteq Pages
    BY <1>a, <1>o, <2>0 DEF Backed
  <2>6. build \in {"posix", "windows"} /\ (build = "posix" => committed = Pages)
    BY <1>o DEF Backed
  <2>. QED
    BY <1>a, <2>1, <2>3, <2>4, <2>5, <2>6 DEF Backed, Pages, num_pages
<1>. QED
  BY <1>2, <1>3, <1>4, <1>5, <1>m DEF MemInv

\* The kernel takes a page: it is one that is being given back, so nobody's pixels.
LEMMA ReclaimKeeps ==
    ASSUME MemInv, Reclaim, UNCHANGED <<lineVars, threadVars>>
    PROVE  MemInv'
<1>o. ThreadsOK /\ LinesOK /\ Apart /\ Backed /\ Sorted(free_runs)
  BY DEF MemInv
<1>a. /\ lines' = lines /\ ctx' = ctx /\ pc' = pc
      /\ UNCHANGED <<free_runs, committed, build>>
  BY DEF Reclaim, lineVars, threadVars
<1>p. PICK p \in lazy : lazy' = lazy \ {p} /\ dirty' = dirty \ {p}
  BY DEF Reclaim
<1>u. PICK u \in Everyone : pc[u] = "publish" /\ p \in Mine(ctx[u].victim)
  BY <1>o DEF Backed
<1>1. ThreadsOK'
  BY <1>a, <1>o DEF ThreadsOK, ThreadOK, Everyone, Context, MaybeBlock, Block, num_pages,
                    WholePages, BlockSize, At
<1>2. Sorted(free_runs)'
  BY <1>a, <1>o DEF Sorted, End, Run, num_pages
<1>3. LinesOK'
  <2>1. SameWriters
    BY <1>a DEF SameWriters
  <2>. QED
    BY <1>a, <1>o, <2>1, LinesStay
<1>4. Apart'
  <2>1. FreePages' = FreePages
    BY <1>a DEF FreePages
  <2>. QED
    BY <1>a, <1>o, <2>1 DEF Apart, Clear
<1>5. Backed'
  <2>1. ASSUME NEW b, Off(b, ctx[u].victim), Mine(b) \subseteq dirty
        PROVE  Mine(b) \subseteq dirty'
    BY <1>p, <1>u, <2>1 DEF Off
  <2>2. \A t \in Everyone : Off(ctx[t].blk, ctx[u].victim)
    BY <1>o DEF Apart
  <2>3. \A i \in 1..Len(lines) : Off(lines[i].buf, ctx[u].victim)
    BY <1>o, OffFacts DEF Apart
  <2>4. /\ UNION {lazy', committed, dirty'} \subseteq Pages /\ lazy' \subseteq lazy
    BY <1>o, <1>p DEF Backed
  <2>5. \A t \in Everyone : At(ctx[t], pc[t]) = "used" => Mine(ctx[t].blk) \subseteq dirty'
    BY <1>o, <2>1, <2>2 DEF Backed
  <2>6. \A i \in 1..Len(lines) : lines[i].user = NULL => Mine(lines[i].buf) \subseteq dirty'
    BY <1>o, <2>1, <2>3 DEF Backed
  <2>. QED
    BY <1>a, <1>o, <2>4, <2>5, <2>6 DEF Backed, Pages, num_pages
<1>. QED
  BY <1>1, <1>2, <1>3, <1>4, <1>5 DEF MemInv

\* The steps that give a block back.
LEMMA GivingUpKeeps ==
    ASSUME MemInv, NEW t \in Threads, CommitFails(t) \/ EnterFails(t) \/ FreeAlign(t)
    PROVE  MemInv'
<1>o. ThreadsOK /\ t \in Everyone
  BY Constants DEF MemInv
<1>t. ctx[t] \in Context /\ ThreadOK(t, ctx[t], pc[t])
  BY <1>o DEF ThreadsOK
<1>1. CASE CommitFails(t)
  <2>. DEFINE c == [ctx[t] EXCEPT !.blk = NULL, !.victim = ctx[t].blk, !.back = "failed"]
  <2>1. /\ pc[t] = "commit" /\ ctx' = [ctx EXCEPT ![t] = c] /\ pc' = [pc EXCEPT ![t] = "advise"]
        /\ lines' = lines /\ UNCHANGED <<free_runs, lazy, committed, dirty, build>>
    BY <1>1 DEF CommitFails, Call, Goto, lineVars, arenaVars
  <2>2. /\ ctx[t].victim = NULL /\ ctx[t].blk # NULL /\ ctx[t].kind \in {"temp", "line"}
        /\ At(ctx[t], pc[t]) = "commit"
    BY <1>o, <2>1, KindAt DEF Holding
  <2>3. /\ c \in Context /\ c.victim = ctx[t].blk /\ c.blk = NULL /\ c.kind = ctx[t].kind
        /\ c.req = ctx[t].req /\ c.back = "failed"
    BY <1>t DEF Context, MaybeBlock, Places, TempPlaces
  <2>. HIDE DEF c
  <2>4. At(c, "advise") = "failed"
    BY <2>3 DEF At
  <2>5. ThreadOK(t, c, "advise")
    BY <1>t, <2>2, <2>3, <2>4 DEF ThreadOK, Labels, TempPlaces, LinePlaces, Holding
  <2>6. Moved(t, c, "advise")
    BY <2>1, <2>5 DEF Moved
  <2>. QED
    BY <1>o, <2>1, <2>2, <2>3, <2>4, <2>6, GiveUpKeeps DEF HasLine
<1>2. CASE EnterFails(t) \/ FreeAlign(t)
  <2>1. PICK k \in {"idle", "unlock"} :
          /\ pc[t] \in {"enter", "used"}
          /\ ctx' = [ctx EXCEPT ![t] = [Idle EXCEPT !.victim = ctx[t].blk, !.back = k]]
          /\ pc' = [pc EXCEPT ![t] = "advise"]
          /\ lines' = lines /\ UNCHANGED <<free_runs, lazy, committed, dirty, build>>
    <3>1. CASE EnterFails(t)
      BY <3>1 DEF EnterFails, InLock, Call, Goto, lineVars, arenaVars
    <3>2. CASE FreeAlign(t)
      BY <3>2 DEF FreeAlign, InLock, Call, Goto, arenaVars
    <3>. QED
      BY <1>2, <3>1, <3>2
  <2>. DEFINE c == [Idle EXCEPT !.victim = ctx[t].blk, !.back = k]
  <2>2. /\ ctx[t].victim = NULL /\ ctx[t].blk # NULL /\ ctx[t].kind = "temp"
    BY <1>o, <2>1, KindAt DEF Holding
  <2>3. /\ c \in Context /\ c.victim = ctx[t].blk /\ c.blk = NULL /\ c.kind = "none"
        /\ c.back = k
    BY <1>t DEF Context, MaybeBlock, Places, Kinds, Idle
  <2>4. At(c, "advise") = k
    BY <2>3 DEF At
  <2>c. ctx' = [ctx EXCEPT ![t] = c]
    BY <2>1
  <2>. HIDE DEF c
  <2>5. ThreadOK(t, c, "advise")
    BY <1>t, <2>2, <2>3, <2>4 DEF ThreadOK, Labels, Holding
  <2>6. Moved(t, c, "advise")
    BY <2>1, <2>5, <2>c DEF Moved
  <2>7. ~ HasLine(c, "advise") /\ ~ HasLine(ctx[t], pc[t])
    BY <2>2, <2>3 DEF HasLine
  <2>. QED
    BY <1>o, <2>1, <2>2, <2>3, <2>6, <2>7, GiveUpKeeps
<1>. QED
  BY <1>1, <1>2

\* The entry of a line is made before it has a buffer.
LEMMA SpaceMadeKeeps ==
    ASSUME MemInv, NEW t \in Threads, SpaceMade(t), ctx[t].kind = "line"
    PROVE  MemInv'
<1>. DEFINE x == [size |-> ctx[t].req, buf |-> NULL, user |-> t]
            n == Len(lines)
<1>o. ThreadsOK /\ LinesOK /\ Apart /\ Backed /\ Sorted(free_runs) /\ t \in Everyone
  BY Constants DEF MemInv
<1>a. /\ pc[t] = "space" /\ lines' = Append(lines, x) /\ ctx' = ctx
      /\ pc' = [pc EXCEPT ![t] = "valve"]
      /\ UNCHANGED <<free_runs, lazy, committed, dirty, build>>
  BY DEF SpaceMade, InLock, Goto, arenaVars
<1>t. ctx \in [Everyone -> Context] /\ ctx[t] \in Context /\ ThreadOK(t, ctx[t], pc[t])
  BY <1>o DEF ThreadsOK
<1>x. x \in Line /\ x.size = ctx[t].req /\ x.buf = NULL /\ x.user = t /\ t # NULL
  BY <1>t, Constants DEF Line, MaybeBlock, Context
<1>. HIDE DEF x
<1>1. Moved(t, ctx[t], "valve")
  <2>1. ThreadOK(t, ctx[t], "valve")
    BY <1>a, <1>t DEF ThreadOK, At, Labels, Places, TempPlaces, LinePlaces, Holding
  <2>. QED
    BY <1>a, <1>t, <2>1 DEF Moved
<1>m. /\ ThreadsOK' /\ pc'[t] = "valve"
      /\ \A u \in Everyone : u # t => pc'[u] = pc[u]
  BY <1>1, <1>o, MovedMeaning
<1>s. /\ lines \in Seq(Line) /\ n \in Nat
      /\ lines' \in Seq(Line) /\ Len(lines') = n + 1
      /\ \A i \in 1..n : lines'[i] = lines[i]
      /\ lines'[n + 1] = x
  <2>1. lines \in Seq(Line) /\ n \in Nat
    BY <1>o DEF LinesOK
  <2>. QED
    BY <1>a, <1>x, <2>1, AppendProperties
<1>. HIDE DEF n
<1>i. 1..n + 1 = (1..n) \cup {n + 1}
  BY <1>s
<1>w. ~ HasLine(ctx[t], pc[t]) /\ HasLine(ctx[t], pc'[t]) /\ At(ctx[t], pc'[t]) # "fill"
  BY <1>a, <1>m DEF HasLine, At
<1>u. \A i \in 1..n : lines[i].user # t /\ LineOK(lines[i], ctx, pc)
                      /\ lines[i].user \in Everyone \cup {NULL}
  BY <1>o, <1>w, <1>x, Constants DEF LinesOK, LineOK, Line, n
<1>2. Sorted(free_runs)'
  BY <1>a, <1>o DEF Sorted, End, Run, num_pages
<1>3. LinesOK'
  <2>1. ASSUME NEW i \in 1..n + 1 PROVE LineOK(lines'[i], ctx, pc')
    <3>1. CASE i \in 1..n
      <4>1. lines[i].user # NULL => pc'[lines[i].user] = pc[lines[i].user]
        BY <1>m, <1>u, <3>1
      <4>. QED
        BY <1>s, <1>u, <3>1, <4>1 DEF LineOK
    <3>2. CASE i = n + 1
      BY <1>s, <1>w, <1>x, <3>2 DEF LineOK
    <3>. QED
      BY <1>i, <3>1, <3>2
  <2>2. ASSUME NEW i \in 1..n + 1, NEW j \in 1..n + 1, i # j, lines'[i].user # NULL
        PROVE  lines'[i].user # lines'[j].user
    <3>1. CASE i \in 1..n /\ j \in 1..n
      BY <1>o, <1>s, <2>2, <3>1 DEF LinesOK, n
    <3>2. CASE i \in 1..n /\ j = n + 1
      BY <1>s, <1>u, <1>x, <3>2
    <3>3. CASE i = n + 1 /\ j \in 1..n
      BY <1>s, <1>u, <1>x, <3>3
    <3>. QED
      BY <1>i, <2>2, <3>1, <3>2, <3>3
  <2>3. ASSUME NEW u \in Everyone, HasLine(ctx[u], pc'[u])
        PROVE  \E i \in 1..n + 1 : lines'[i].user = u
    <3>1. CASE u = t
      BY <1>i, <1>s, <1>x, <3>1
    <3>2. CASE u # t
      <4>1. PICK i \in 1..n : lines[i].user = u
        BY <1>m, <1>o, <2>3, <3>2 DEF LinesOK, n
      <4>. QED
        BY <1>i, <1>s, <4>1
    <3>. QED
      BY <3>1, <3>2
  <2>4. Everyone' = Everyone /\ Line' = Line
    BY DEF Everyone, Line, MaybeBlock, Block, num_pages
  <2>5. ctx' = ctx /\ lines' \in Seq(Line) /\ Len(lines') = n + 1
    BY <1>a, <1>s
  <2>6. \A i \in 1..Len(lines') : LineOK(lines'[i], ctx', pc')
    BY <2>1, <2>5
  <2>7. \A i, j \in 1..Len(lines') :
          i # j /\ lines'[i].user # NULL => lines'[i].user # lines'[j].user
    BY <2>2, <2>5
  <2>8. \A u \in Everyone :
          HasLine(ctx'[u], pc'[u]) => \E i \in 1..Len(lines') : lines'[i].user = u
    BY <2>3, <2>5
  <2>. QED
    BY <2>4, <2>5, <2>6, <2>7, <2>8 DEF LinesOK
<1>b. /\ \A i \in 1..n : lines'[i].buf = lines[i].buf
      /\ lines'[n + 1].buf = NULL
  BY <1>s, <1>x
<1>4. Apart'
  <2>1. FreePages' = FreePages
    BY <1>a DEF FreePages
  <2>2. \A i \in 1..n + 1 : Clear(lines'[i].buf)
    BY <1>b, <1>i, <1>o, OffFacts DEF Apart, n
  <2>3. \A u \in Everyone : \A i \in 1..n + 1 : /\ Off(ctx[u].blk, lines'[i].buf)
                                                /\ Off(ctx[u].victim, lines'[i].buf)
    BY <1>b, <1>i, <1>o, OffFacts DEF Apart, n
  <2>4. \A i, j \in 1..n + 1 : i # j => Off(lines'[i].buf, lines'[j].buf)
    BY <1>b, <1>i, <1>o, OffFacts DEF Apart, n
  <2>5. /\ \A u \in Everyone : Clear(ctx[u].blk) /\ Clear(ctx[u].victim)
        /\ \A u, w \in Everyone : Off(ctx[u].blk, ctx[w].victim)
        /\ \A u, w \in Everyone : u # w => /\ Off(ctx[u].blk, ctx[w].blk)
                                           /\ Off(ctx[u].victim, ctx[w].victim)
    BY <1>o DEF Apart
  <2>. QED
    BY <1>a, <1>s, <2>1, <2>2, <2>3, <2>4, <2>5 DEF Apart, Clear
<1>5. Backed'
  <2>1. ASSUME NEW p \in lazy
        PROVE  \E u \in Everyone : pc'[u] = "publish" /\ p \in Mine(ctx[u].victim)
    <3>1. PICK u \in Everyone : pc[u] = "publish" /\ p \in Mine(ctx[u].victim)
      BY <1>o DEF Backed
    <3>2. u # t
      BY <1>a, <3>1
    <3>. QED
      BY <1>m, <3>1, <3>2
  <2>2. \A i \in 1..n + 1 : /\ Mine(lines'[i].buf) \subseteq committed
                            /\ lines'[i].user = NULL => Mine(lines'[i].buf) \subseteq dirty
    <3>1. Mine(NULL) = {}
      BY DEF Mine
    <3>. QED
      BY <1>b, <1>i, <1>o, <1>s, <3>1 DEF Backed, n
  <2>3. \A u \in Everyone :
          /\ At(ctx[u], pc'[u]) \in Solid => Mine(ctx[u].blk) \subseteq committed
          /\ At(ctx[u], pc'[u]) = "used" => Mine(ctx[u].blk) \subseteq dirty
    BY <1>m, <1>o DEF Backed, At, Solid
  <2>. QED
    BY <1>a, <1>o, <1>s, <2>1, <2>2, <2>3 DEF Backed, Pages, num_pages
<1>. QED
  BY <1>2, <1>3, <1>4, <1>5, <1>m DEF MemInv

\* The line of a thread: there is one, and it is the only one of this user.
LEMMA WriterHasLine ==
    ASSUME LinesOK, NEW t \in Everyone, HasLine(ctx[t], pc[t])
    PROVE  \E i \in 1..Len(lines) :
             /\ lines[i].user = t
             /\ \A j \in 1..Len(lines) : j # i => lines[j].user # t
<1>1. PICK i \in 1..Len(lines) : lines[i].user = t
  BY DEF LinesOK
<1>2. \A j \in 1..Len(lines) : j # i => lines[j].user # t
  BY <1>1, Constants DEF LinesOK
<1>. QED
  BY <1>1, <1>2

\* dt_pixel_cache_alloc: the block of the thread becomes the buffer of its line.
LEMMA LineGotKeeps ==
    ASSUME MemInv, NEW t \in Threads, LineGot(t)
    PROVE  MemInv'
<1>. DEFINE c == [ctx[t] EXCEPT !.blk = NULL]
            v == ctx[t].blk
            n == Len(lines)
<1>o. ThreadsOK /\ LinesOK /\ Apart /\ Backed /\ Sorted(free_runs) /\ t \in Everyone
  BY Constants DEF MemInv
<1>a. /\ pc[t] = "got" /\ ctx' = [ctx EXCEPT ![t] = c] /\ pc' = [pc EXCEPT ![t] = "fill"]
      /\ lines' = [i \in DOMAIN lines |->
                     IF lines[i].user = t THEN [lines[i] EXCEPT !.buf = v] ELSE lines[i]]
      /\ UNCHANGED <<free_runs, lazy, committed, dirty, build>>
  BY DEF LineGot, Call, Goto, arenaVars
<1>t. ctx[t] \in Context /\ ThreadOK(t, ctx[t], pc[t])
  BY <1>o DEF ThreadsOK
<1>k. /\ ctx[t].victim = NULL /\ v # NULL /\ ctx[t].kind = "line" /\ At(ctx[t], pc[t]) = "got"
  BY <1>a, <1>o, KindAt DEF Holding
<1>c. /\ c \in Context /\ c.victim = NULL /\ c.blk = NULL /\ c.kind = "line"
      /\ c.req = ctx[t].req
  BY <1>k, <1>t DEF Context, MaybeBlock
<1>v. v \in MaybeBlock /\ BlockSize(v) = c.req
  BY <1>c, <1>k, <1>t DEF ThreadOK, Context
<1>. HIDE DEF c, v
<1>at. At(c, "fill") = "fill"
  BY DEF At
<1>1. Moved(t, c, "fill")
  <2>0. WholePages(ctx[t].req)
    BY <1>k, <1>t DEF ThreadOK
  <2>2. WholePages(c.req)
    BY <1>c, <2>0
  <2>1. ThreadOK(t, c, "fill")
    BY <1>at, <1>c, <2>2 DEF ThreadOK, Labels, Places, TempPlaces, LinePlaces, Holding
  <2>. QED
    BY <1>a, <2>1 DEF Moved
<1>m. /\ ThreadsOK' /\ ctx'[t] = c /\ pc'[t] = "fill"
      /\ \A u \in Everyone : u # t => ctx'[u] = ctx[u] /\ pc'[u] = pc[u]
  BY <1>1, <1>o, MovedMeaning
<1>h. PICK i \in 1..n : /\ lines[i].user = t
                        /\ \A j \in 1..n : j # i => lines[j].user # t
  BY <1>k, <1>o, WriterHasLine DEF HasLine
<1>s. /\ lines \in Seq(Line) /\ n \in Nat /\ DOMAIN lines = 1..n
      /\ \A j \in 1..n : lines[j] \in Line /\ LineOK(lines[j], ctx, pc)
  BY <1>o DEF LinesOK
<1>x. /\ lines'[i] = [lines[i] EXCEPT !.buf = v]
      /\ \A j \in 1..n : j # i => lines'[j] = lines[j]
  BY <1>a, <1>h, <1>s
<1>y. /\ lines'[i] \in Line /\ lines'[i].buf = v /\ lines'[i].user = t
      /\ lines'[i].size = lines[i].size
  BY <1>h, <1>s, <1>v, <1>x DEF Line
<1>z. lines' \in Seq(Line) /\ Len(lines') = n
  <2>1. \A j \in 1..n : lines'[j] \in Line
    BY <1>s, <1>x, <1>y
  <2>2. lines' = [j \in 1..n |-> lines'[j]]
    BY <1>a, <1>s
  <2>3. lines' \in [1..n -> Line]
    BY <2>1, <2>2, Zenon
  <2>. QED
    BY <1>s, <2>3
<1>u. \A j \in 1..n : lines'[j].user = lines[j].user /\ lines'[j].size = lines[j].size
  BY <1>h, <1>x, <1>y
<1>b. /\ lines'[i].buf = v /\ \A j \in 1..n : j # i => lines'[j].buf = lines[j].buf
      /\ lines[i].buf = NULL /\ lines[i].size = ctx[t].req
  BY <1>h, <1>k, <1>s, <1>x, <1>y, Constants DEF LineOK
<1>. HIDE DEF n
<1>2. Sorted(free_runs)'
  BY <1>a, <1>o DEF Sorted, End, Run, num_pages
<1>3. LinesOK'
  <2>1. ASSUME NEW j \in 1..n PROVE LineOK(lines'[j], ctx', pc')
    <3>1. CASE j = i
      BY <1>at, <1>b, <1>c, <1>k, <1>m, <1>v, <1>y, <3>1, Constants DEF LineOK, HasLine, v
    <3>2. CASE j # i
      <4>1. LineOK(lines[j], ctx, pc) /\ lines[j].user # t /\ lines[j].user \in Everyone \cup {NULL}
        BY <1>h, <1>s, <3>2, Constants DEF Line
      <4>2. lines[j].user # NULL => /\ pc'[lines[j].user] = pc[lines[j].user]
                                    /\ ctx'[lines[j].user] = ctx[lines[j].user]
        BY <1>m, <4>1
      <4>. QED
        BY <1>x, <3>2, <4>1, <4>2 DEF LineOK
    <3>. QED
      BY <3>1, <3>2
  <2>2. \A j, k \in 1..n :
          j # k /\ lines'[j].user # NULL => lines'[j].user # lines'[k].user
    <3>1. \A j, k \in 1..n : j # k /\ lines[j].user # NULL => lines[j].user # lines[k].user
      BY <1>o DEF LinesOK, n
    <3>. QED
      BY <1>u, <3>1
  <2>3. ASSUME NEW u \in Everyone, HasLine(ctx'[u], pc'[u])
        PROVE  \E j \in 1..n : lines'[j].user = u
    <3>1. CASE u = t
      BY <1>y, <3>1
    <3>2. CASE u # t
      <4>1. PICK j \in 1..n : lines[j].user = u
        BY <1>m, <1>o, <2>3, <3>2 DEF LinesOK, n
      <4>. QED
        BY <1>u, <4>1
    <3>. QED
      BY <3>1, <3>2
  <2>4. Everyone' = Everyone /\ Line' = Line
    BY DEF Everyone, Line, MaybeBlock, Block, num_pages
  <2>. QED
    BY <1>z, <2>1, <2>2, <2>3, <2>4 DEF LinesOK
<1>w. /\ ctx'[t].blk = NULL /\ \A u \in Everyone : u # t => ctx'[u].blk = ctx[u].blk
      /\ \A u \in Everyone : ctx'[u].victim = ctx[u].victim
  BY <1>c, <1>k, <1>m
<1>q. /\ Clear(v) /\ \A u \in Everyone : Off(v, ctx[u].victim)
      /\ \A u \in Everyone : u # t => Off(v, ctx[u].blk)
      /\ \A j \in 1..n : Off(v, lines[j].buf)
  BY <1>o DEF Apart, v, n
<1>4. Apart'
  <2>1. FreePages' = FreePages
    BY <1>a DEF FreePages
  <2>2. \A u \in Everyone : Clear(ctx'[u].blk) /\ Clear(ctx'[u].victim)
    BY <1>o, <1>w, OffFacts DEF Apart
  <2>3. \A j \in 1..n : Clear(lines'[j].buf)
    BY <1>b, <1>o, <1>q DEF Apart, n
  <2>4. \A u, w \in Everyone : Off(ctx'[u].blk, ctx'[w].victim)
    BY <1>o, <1>w, OffFacts DEF Apart
  <2>5. \A u, w \in Everyone : u # w => /\ Off(ctx'[u].blk, ctx'[w].blk)
                                        /\ Off(ctx'[u].victim, ctx'[w].victim)
    BY <1>o, <1>w, OffFacts DEF Apart
  <2>6. \A u \in Everyone : \A j \in 1..n : /\ Off(ctx'[u].blk, lines'[j].buf)
                                            /\ Off(ctx'[u].victim, lines'[j].buf)
    BY <1>b, <1>o, <1>q, <1>w, OffFacts DEF Apart, n
  <2>7. \A j, k \in 1..n : j # k => Off(lines'[j].buf, lines'[k].buf)
    BY <1>b, <1>o, <1>q, OffFacts DEF Apart, n
  <2>. QED
    BY <1>z, <2>1, <2>2, <2>3, <2>4, <2>5, <2>6, <2>7 DEF Apart, Clear
<1>5. Backed'
  <2>1. ASSUME NEW p \in lazy
        PROVE  \E u \in Everyone : pc'[u] = "publish" /\ p \in Mine(ctx'[u].victim)
    <3>1. PICK u \in Everyone : pc[u] = "publish" /\ p \in Mine(ctx[u].victim)
      BY <1>o DEF Backed
    <3>2. u # t
      BY <1>a, <3>1
    <3>. QED
      BY <1>m, <3>1, <3>2
  <2>2. Mine(v) \subseteq committed
    BY <1>k, <1>o DEF Backed, Solid, v
  <2>3. \A j \in 1..n : /\ Mine(lines'[j].buf) \subseteq committed
                        /\ lines'[j].user = NULL => Mine(lines'[j].buf) \subseteq dirty
    BY <1>b, <1>h, <1>o, <1>u, <2>2, Constants DEF Backed, n
  <2>4. \A u \in Everyone :
          /\ At(ctx'[u], pc'[u]) \in Solid => Mine(ctx'[u].blk) \subseteq committed
          /\ At(ctx'[u], pc'[u]) = "used" => Mine(ctx'[u].blk) \subseteq dirty
    BY <1>at, <1>m, <1>o DEF Backed, Solid
  <2>. QED
    BY <1>a, <1>o, <1>z, <2>1, <2>3, <2>4 DEF Backed, Pages, num_pages
<1>. QED
  BY <1>2, <1>3, <1>4, <1>5, <1>m DEF MemInv

\* The writer fills its line and lets it go.
LEMMA FillLineKeeps ==
    ASSUME MemInv, NEW t \in Threads, FillLine(t)
    PROVE  MemInv'
<1>. DEFINE n == Len(lines)
<1>o. ThreadsOK /\ LinesOK /\ Apart /\ Backed /\ Sorted(free_runs) /\ t \in Everyone
  BY Constants DEF MemInv
<1>a. /\ pc[t] = "fill" /\ ctx' = [ctx EXCEPT ![t] = Idle] /\ pc' = [pc EXCEPT ![t] = "idle"]
  BY DEF FillLine, Return, Call, Goto
<1>s. /\ lines \in Seq(Line) /\ n \in Nat /\ DOMAIN lines = 1..n
      /\ \A j \in 1..n : lines[j] \in Line /\ LineOK(lines[j], ctx, pc)
  BY <1>o DEF LinesOK
<1>i. PICK i \in 1..n : /\ lines[i].user = t
                        /\ Write(lines[i].buf)
                        /\ lines' = [lines EXCEPT ![i].user = NULL]
  BY <1>s DEF FillLine
<1>w. /\ UNCHANGED <<free_runs, committed, build>>
      /\ dirty' = dirty \cup PagesOf(lines[i].buf) /\ lazy' = lazy \ PagesOf(lines[i].buf)
  BY <1>i DEF Write
<1>k. ctx[t].victim = NULL /\ ctx[t].blk = NULL /\ ctx[t].kind = "line"
      /\ At(ctx[t], pc[t]) = "fill"
  BY <1>a, <1>o, KindAt DEF Holding
<1>1. Moved(t, Idle, "idle")
  <2>1. ThreadOK(t, Idle, "idle")
    BY <1>o, Contexts, Zenon
  <2>. QED
    BY <1>a, <2>1 DEF Moved
<1>m. /\ ThreadsOK' /\ ctx'[t] = Idle /\ pc'[t] = "idle"
      /\ \A u \in Everyone : u # t => ctx'[u] = ctx[u] /\ pc'[u] = pc[u]
  BY <1>1, <1>o, MovedMeaning
<1>x. /\ lines'[i] = [lines[i] EXCEPT !.user = NULL]
      /\ \A j \in 1..n : j # i => lines'[j] = lines[j]
  BY <1>i, <1>s
<1>b. lines[i].buf # NULL /\ lines[i].buf \in Block /\ Mine(lines[i].buf) = PagesOf(lines[i].buf)
  BY <1>i, <1>k, <1>s, Constants DEF LineOK, Line, MaybeBlock, Mine
<1>y. /\ lines'[i] \in Line /\ lines'[i].buf = lines[i].buf /\ lines'[i].user = NULL
      /\ lines'[i].size = lines[i].size
  BY <1>i, <1>s, <1>x DEF Line
<1>z. lines' \in Seq(Line) /\ Len(lines') = n
  <2>1. \A j \in 1..n : lines'[j] \in Line
    BY <1>s, <1>x, <1>y
  <2>2. lines' = [j \in 1..n |-> lines'[j]]
    BY <1>i, <1>s
  <2>3. lines' \in [1..n -> Line]
    BY <2>1, <2>2, Zenon
  <2>. QED
    BY <1>s, <2>3
<1>u. \A j \in 1..n : j # i => lines[j].user # t
  BY <1>i, <1>o, Constants DEF LinesOK
<1>. HIDE DEF n
<1>2. Sorted(free_runs)'
  BY <1>o, <1>w DEF Sorted, End, Run, num_pages
<1>3. LinesOK'
  <2>1. ASSUME NEW j \in 1..n PROVE LineOK(lines'[j], ctx', pc')
    <3>1. CASE j = i
      BY <1>b, <1>s, <1>y, <3>1 DEF LineOK
    <3>2. CASE j # i
      <4>1. LineOK(lines[j], ctx, pc) /\ lines[j].user # t /\ lines[j].user \in Everyone \cup {NULL}
        BY <1>s, <1>u, <3>2, Constants DEF Line
      <4>2. lines[j].user # NULL => /\ pc'[lines[j].user] = pc[lines[j].user]
                                    /\ ctx'[lines[j].user] = ctx[lines[j].user]
        BY <1>m, <4>1
      <4>. QED
        BY <1>x, <3>2, <4>1, <4>2 DEF LineOK
    <3>. QED
      BY <3>1, <3>2
  <2>2. \A j, k \in 1..n :
          j # k /\ lines'[j].user # NULL => lines'[j].user # lines'[k].user
    <3>1. \A j, k \in 1..n : j # k /\ lines[j].user # NULL => lines[j].user # lines[k].user
      BY <1>o DEF LinesOK, n
    <3>. SUFFICES ASSUME NEW j \in 1..n, NEW k \in 1..n, j # k, lines'[j].user # NULL
                  PROVE  lines'[j].user # lines'[k].user
      BY Zenon
    <3>2. j # i /\ lines'[j].user = lines[j].user
      BY <1>x, <1>y
    <3>3. CASE k = i
      BY <1>y, <3>2, <3>3
    <3>4. CASE k # i
      BY <1>x, <3>1, <3>2, <3>4
    <3>. QED
      BY <3>3, <3>4
  <2>3. ASSUME NEW u \in Everyone, HasLine(ctx'[u], pc'[u])
        PROVE  \E j \in 1..n : lines'[j].user = u
    <3>1. u # t
      BY <1>m, <2>3 DEF HasLine, Idle
    <3>2. PICK j \in 1..n : lines[j].user = u
      BY <1>m, <1>o, <2>3, <3>1 DEF LinesOK, n
    <3>3. j # i
      BY <1>i, <3>1, <3>2
    <3>. QED
      BY <1>x, <3>2, <3>3
  <2>4. Everyone' = Everyone /\ Line' = Line
    BY DEF Everyone, Line, MaybeBlock, Block, num_pages
  <2>. QED
    BY <1>z, <2>1, <2>2, <2>3, <2>4 DEF LinesOK
<1>c. /\ \A u \in Everyone : ctx'[u].blk = ctx[u].blk /\ ctx'[u].victim = ctx[u].victim
      /\ \A j \in 1..n : lines'[j].buf = lines[j].buf
  <2>1. Idle.blk = NULL /\ Idle.victim = NULL
    BY DEF Idle
  <2>2. ctx'[t].blk = ctx[t].blk /\ ctx'[t].victim = ctx[t].victim
    BY <1>k, <1>m, <2>1
  <2>3. \A j \in 1..n : lines'[j].buf = lines[j].buf
    BY <1>x, <1>y
  <2>. QED
    BY <1>m, <2>2, <2>3
<1>4. Apart'
  <2>1. FreePages' = FreePages
    BY <1>w DEF FreePages
  <2>2. n = Len(lines)
    BY DEF n
  <2>. QED
    BY <1>c, <1>o, <1>z, <2>1, <2>2 DEF Apart, Clear
<1>5. Backed'
  <2>0. PagesOf(lines[i].buf) \subseteq Pages
    BY <1>b, PagesMeaning, ArenaHasPages DEF Pages, Block
  <2>1. ASSUME NEW p \in lazy'
        PROVE  \E u \in Everyone : pc'[u] = "publish" /\ p \in Mine(ctx'[u].victim)
    <3>1. PICK u \in Everyone : pc[u] = "publish" /\ p \in Mine(ctx[u].victim)
      BY <1>o, <1>w DEF Backed
    <3>2. u # t
      BY <1>a, <3>1
    <3>. QED
      BY <1>m, <3>1, <3>2
  <2>2. Mine(lines[i].buf) \subseteq dirty' /\ dirty \subseteq dirty'
    BY <1>b, <1>w
  <2>3. \A j \in 1..n : /\ Mine(lines'[j].buf) \subseteq committed
                        /\ lines'[j].user = NULL => Mine(lines'[j].buf) \subseteq dirty'
    BY <1>c, <1>o, <1>x, <2>2 DEF Backed, n
  <2>4. \A u \in Everyone :
          /\ At(ctx'[u], pc'[u]) \in Solid => Mine(ctx'[u].blk) \subseteq committed
          /\ At(ctx'[u], pc'[u]) = "used" => Mine(ctx'[u].blk) \subseteq dirty'
    BY <1>m, <1>o, <2>2 DEF Backed, Solid, At
  <2>5. UNION {lazy', committed, dirty'} \subseteq Pages
    BY <1>o, <1>w, <2>0 DEF Backed
  <2>6. build \in {"posix", "windows"} /\ (build = "posix" => committed = Pages)
    BY <1>o DEF Backed
  <2>. QED
    BY <1>w, <1>z, <2>1, <2>3, <2>4, <2>5, <2>6 DEF Backed, Pages, num_pages
<1>. QED
  BY <1>2, <1>3, <1>4, <1>5, <1>m DEF MemInv

\* The writer takes its line, which has no buffer, out of the table.
LEMMA UndoLineKeeps ==
    ASSUME MemInv, NEW t \in Threads, UndoLine(t)
    PROVE  MemInv'
<1>o. ThreadsOK /\ LinesOK /\ Apart /\ Backed /\ Sorted(free_runs) /\ t \in Everyone
  BY Constants DEF MemInv
<1>a. /\ pc[t] = "undo" /\ ctx' = [ctx EXCEPT ![t] = Idle] /\ pc' = [pc EXCEPT ![t] = "idle"]
      /\ UNCHANGED <<free_runs, lazy, committed, dirty, build>>
  BY DEF UndoLine, InLock, Return, Call, Goto, arenaVars
<1>i. PICK i \in 1..Len(lines) :
        /\ lines[i].user = t
        /\ lines' = SubSeq(lines, 1, i - 1) \o SubSeq(lines, i + 1, Len(lines))
  <2>1. DOMAIN lines = 1..Len(lines)
    BY <1>o DEF LinesOK
  <2>. QED
    BY <2>1, Zenon DEF UndoLine
<1>k. ctx[t].victim = NULL /\ ctx[t].blk = NULL /\ ctx[t].kind = "line"
  BY <1>a, <1>o, KindAt DEF Holding
<1>1. Moved(t, Idle, "idle")
  <2>1. ThreadOK(t, Idle, "idle")
    BY <1>o, Contexts, Zenon
  <2>. QED
    BY <1>a, <2>1 DEF Moved
<1>m. /\ ThreadsOK' /\ ctx'[t] = Idle /\ pc'[t] = "idle"
      /\ \A u \in Everyone : u # t => ctx'[u] = ctx[u] /\ pc'[u] = pc[u]
  BY <1>1, <1>o, MovedMeaning
<1>r. lines' \in Seq(Line) /\ Len(lines') = Len(lines) - 1
  BY <1>i, <1>o, LinesRemoved, Zenon
<1>g. PICK g :
        /\ \A j \in 1..Len(lines') : /\ g[j] \in 1..Len(lines) /\ g[j] # i
                                     /\ lines'[j] = lines[g[j]]
        /\ \A j, k \in 1..Len(lines') : j # k => g[j] # g[k]
        /\ \A m \in 1..Len(lines) : m # i => \E j \in 1..Len(lines') : g[j] = m
  BY <1>i, <1>o, LinesRemoved, Zenon
<1>u. \A j \in 1..Len(lines) : j # i => lines[j].user # t
  BY <1>i, <1>o, Constants DEF LinesOK
<1>2. Sorted(free_runs)'
  BY <1>a, <1>o DEF Sorted, End, Run, num_pages
<1>3. LinesOK'
  <2>1. ASSUME NEW j \in 1..Len(lines') PROVE LineOK(lines'[j], ctx', pc')
    <3>0. g[j] \in 1..Len(lines) /\ g[j] # i /\ lines'[j] = lines[g[j]]
      BY <1>g
    <3>1. /\ LineOK(lines[g[j]], ctx, pc) /\ lines[g[j]].user # t
          /\ lines[g[j]].user \in Everyone \cup {NULL}
      BY <1>o, <1>u, <3>0, Constants DEF LinesOK, LineOK, Line
    <3>2. lines[g[j]].user # NULL => /\ pc'[lines[g[j]].user] = pc[lines[g[j]].user]
                                     /\ ctx'[lines[g[j]].user] = ctx[lines[g[j]].user]
      BY <1>m, <3>1
    <3>. QED
      BY <3>0, <3>1, <3>2 DEF LineOK
  <2>2. ASSUME NEW u \in Everyone, HasLine(ctx'[u], pc'[u])
        PROVE  \E j \in 1..Len(lines') : lines'[j].user = u
    <3>0. u # t
      BY <1>m, <2>2 DEF HasLine, Idle
    <3>1. PICK m \in 1..Len(lines) : lines[m].user = u
      BY <1>m, <1>o, <2>2, <3>0 DEF LinesOK
    <3>2. m # i
      BY <1>i, <3>0, <3>1
    <3>. QED
      BY <1>g, <3>1, <3>2
  <2>3. \A j, k \in 1..Len(lines') :
          j # k /\ lines'[j].user # NULL => lines'[j].user # lines'[k].user
    <3>1. \A j, k \in 1..Len(lines) :
            j # k /\ lines[j].user # NULL => lines[j].user # lines[k].user
      BY <1>o DEF LinesOK
    <3>. SUFFICES ASSUME NEW j \in 1..Len(lines'), NEW k \in 1..Len(lines'), j # k,
                         lines'[j].user # NULL
                  PROVE  lines'[j].user # lines'[k].user
      BY Zenon
    <3>2. /\ g[j] \in 1..Len(lines) /\ g[k] \in 1..Len(lines) /\ g[j] # g[k]
          /\ lines'[j] = lines[g[j]] /\ lines'[k] = lines[g[k]]
      BY <1>g
    <3>. QED
      BY <3>1, <3>2
  <2>4. Everyone' = Everyone /\ Line' = Line
    BY DEF Everyone, Line, MaybeBlock, Block, num_pages
  <2>. QED
    BY <1>r, <2>1, <2>2, <2>3, <2>4 DEF LinesOK
<1>c. \A u \in Everyone : ctx'[u].blk = ctx[u].blk /\ ctx'[u].victim = ctx[u].victim
  BY <1>k, <1>m DEF Idle
<1>4. Apart'
  <2>1. FreePages' = FreePages
    BY <1>a DEF FreePages
  <2>2. \A j \in 1..Len(lines') : Clear(lines'[j].buf)
    BY <1>g, <1>o DEF Apart
  <2>3. \A u \in Everyone : \A j \in 1..Len(lines') : /\ Off(ctx[u].blk, lines'[j].buf)
                                                      /\ Off(ctx[u].victim, lines'[j].buf)
    BY <1>g, <1>o DEF Apart
  <2>4. \A j, k \in 1..Len(lines') : j # k => Off(lines'[j].buf, lines'[k].buf)
    BY <1>g, <1>o DEF Apart
  <2>5. /\ \A u \in Everyone : Clear(ctx[u].blk) /\ Clear(ctx[u].victim)
        /\ \A u, w \in Everyone : Off(ctx[u].blk, ctx[w].victim)
        /\ \A u, w \in Everyone : u # w => /\ Off(ctx[u].blk, ctx[w].blk)
                                           /\ Off(ctx[u].victim, ctx[w].victim)
    BY <1>o DEF Apart
  <2>. QED
    BY <1>c, <2>1, <2>2, <2>3, <2>4, <2>5 DEF Apart, Clear
<1>5. Backed'
  <2>1. ASSUME NEW p \in lazy
        PROVE  \E u \in Everyone : pc'[u] = "publish" /\ p \in Mine(ctx'[u].victim)
    <3>1. PICK u \in Everyone : pc[u] = "publish" /\ p \in Mine(ctx[u].victim)
      BY <1>o DEF Backed
    <3>2. u # t
      BY <1>a, <3>1
    <3>. QED
      BY <1>m, <3>1, <3>2
  <2>2. \A j \in 1..Len(lines') :
          /\ Mine(lines'[j].buf) \subseteq committed
          /\ lines'[j].user = NULL => Mine(lines'[j].buf) \subseteq dirty
    BY <1>g, <1>o DEF Backed
  <2>3. \A u \in Everyone :
          /\ At(ctx'[u], pc'[u]) \in Solid => Mine(ctx'[u].blk) \subseteq committed
          /\ At(ctx'[u], pc'[u]) = "used" => Mine(ctx'[u].blk) \subseteq dirty
    BY <1>m, <1>o DEF Backed, Solid, At
  <2>. QED
    BY <1>a, <1>o, <2>1, <2>2, <2>3 DEF Backed, Pages, num_pages
<1>. QED
  BY <1>2, <1>3, <1>4, <1>5, <1>m DEF MemInv

----------------------------------------------------------------------------
(* Every step *)

\* The oldest unused line is one of the unused lines.
LEMMA RemoveLruKeeps ==
    ASSUME MemInv, NEW t \in Everyone, NEW back, pc[t] = back, back \notin {"advise", "publish"},
           RemoveLru(t, back)
    PROVE  MemInv'
<1>1. PICK i \in Evictable : Evict(t, i, back)
  BY Zenon DEF RemoveLru
<1>. QED
  BY <1>1, EvictKeeps

\* A step of a pipeline thread.
LEMMA PipeStepKeeps ==
    ASSUME MemInv, FloorOK, NEW t \in Threads, PipeStep(t)
    PROVE  MemInv'
<1>0. ThreadsOK /\ t \in Everyone /\ sys.est \in Nat
  BY Constants DEF MemInv, FloorOK, WithinProbe
<1>1. CASE PipeQuiet(t)
  <2>1. /\ \E c, l : Quiet(t, c, l)
        /\ UNCHANGED <<lazy, committed, dirty, build>> \/ Trim
    BY <1>0, <1>1, QuietPipe, Zenon
  <2>. QED
    BY <1>0, <2>1, QuietKeeps, Zenon
<1>2. CASE SpaceMade(t) /\ ctx[t].kind = "line"
  BY <1>2, SpaceMadeKeeps
<1>3. CASE MakeSpace(t)
  BY <1>0, <1>3, RemoveLruKeeps DEF MakeSpace, InLock
<1>4. CASE Defrag(t)
  BY <1>0, <1>4, RemoveLruKeeps DEF Defrag, InLock
<1>5. CASE EnterMakeSpace(t)
  BY <1>0, <1>5, RemoveLruKeeps DEF EnterMakeSpace, InLock
<1>6. CASE ArenaAlloc(t)
  BY <1>6, ArenaAllocKeeps
<1>7. CASE CommitBlock(t)
  BY <1>7, CommitKeeps
<1>8. CASE CommitFails(t) \/ EnterFails(t) \/ FreeAlign(t)
  BY <1>8, GivingUpKeeps
<1>9. CASE LineGot(t)
  BY <1>9, LineGotKeeps
<1>10. CASE FillLine(t)
  BY <1>10, FillLineKeeps
<1>11. CASE UndoLine(t)
  BY <1>11, UndoLineKeeps
<1>12. CASE UseTemp(t)
  BY <1>12, UseTempKeeps
<1>. QED
  BY <1>1, <1>2, <1>3, <1>4, <1>5, <1>6, <1>7, <1>8, <1>9, <1>10, <1>11, <1>12, Zenon
  DEF PipeStep, AllocStep, PipeQuiet

\* A step of a timer.
LEMMA TimerStepKeeps ==
    ASSUME MemInv, NEW t \in Everyone, TimerStep(t)
    PROVE  MemInv'
<1>0. ThreadsOK
  BY DEF MemInv
<1>1. CASE TimerQuiet(t)
  <2>1. /\ \E c, l : Quiet(t, c, l)
        /\ UNCHANGED <<lazy, committed, dirty, build>> \/ Trim
    BY <1>0, <1>1, QuietTimer, Zenon
  <2>. QED
    BY <2>1, QuietKeeps, Zenon
<1>2. CASE Sweep(t)
  <2>1. PICK i \in Evictable : Evict(t, i, "sweep")
    BY <1>2, Zenon DEF Sweep
  <2>2. pc[t] = "sweep"
    BY <1>2 DEF Sweep, InLock
  <2>. QED
    BY <2>1, <2>2, EvictKeeps
<1>. QED
  BY <1>1, <1>2 DEF TimerStep, TimerQuiet

\* A step that pipeline threads and timers take.
LEMMA AnyStepKeeps ==
    ASSUME MemInv, NEW t \in Everyone, AnyStep(t)
    PROVE  MemInv'
<1>1. CASE Shed(t)
  BY <1>1, RemoveLruKeeps DEF Shed, InLock
<1>2. CASE AdvisePages(t)
  BY <1>2, AdviseKeeps
<1>3. CASE PublishPages(t)
  BY <1>3, PublishKeeps
<1>. QED
  BY <1>1, <1>2, <1>3 DEF AnyStep

\* No step, if nothing changes.
LEMMA StutterKeeps ==
    ASSUME MemInv, UNCHANGED vars
    PROVE  MemInv'
<1>a. /\ UNCHANGED <<free_runs, lazy, committed, dirty, build>>
      /\ UNCHANGED <<lines, current_memory, lock, sys, pc, ctx>>
  BY DEF vars, arenaVars, lineVars, threadVars
<1>1. Sorted(free_runs)'
  BY <1>a DEF MemInv, Sorted, End, Run, num_pages
<1>2. ThreadsOK'
  BY <1>a DEF MemInv, ThreadsOK, ThreadOK, Everyone, Context, MaybeBlock, Block, WholePages,
              num_pages, At, BlockSize
<1>3. LinesOK'
  <2>1. SameWriters
    BY <1>a DEF SameWriters
  <2>2. LinesOK /\ lines' = lines
    BY <1>a DEF MemInv
  <2>. QED
    BY <2>1, <2>2, LinesStay, Zenon
<1>4. Apart'
  <2>1. FreePages' = FreePages
    BY <1>a DEF FreePages
  <2>2. Apart /\ Everyone' = Everyone
    BY DEF MemInv, Everyone
  <2>. QED
    BY <1>a, <2>1, <2>2 DEF Apart, Clear
<1>5. Backed'
  BY <1>a DEF MemInv, Backed, Mine, Everyone, Pages, num_pages, At
<1>. QED
  BY <1>1, <1>2, <1>3, <1>4, <1>5 DEF MemInv

\* Every step keeps the invariant.
LEMMA NextKeeps ==
    ASSUME MemInv, FloorOK, [Next]_vars
    PROVE  MemInv'
<1>1. CASE \E t \in Threads : PipeStep(t)
  BY <1>1, PipeStepKeeps
<1>2. CASE \E t \in Everyone : AnyStep(t)
  BY <1>2, AnyStepKeeps
<1>3. CASE Gui # NULL /\ TimerStep(Gui)
  <2>1. Gui \in Everyone
    BY <1>3 DEF Everyone
  <2>. QED
    BY <1>3, <2>1, TimerStepKeeps
<1>4. CASE Reclaim /\ UNCHANGED <<lineVars, lock, sys, threadVars>>
  BY <1>4, ReclaimKeeps
<1>5. CASE UNCHANGED vars
  BY <1>5, StutterKeeps
<1>. QED
  BY <1>1, <1>2, <1>3, <1>4, <1>5 DEF Next

----------------------------------------------------------------------------
(* The valve *)

\* A request that is let through is taken off the estimate, and leaves the floor.
LEMMA DebitedWithin ==
    ASSUME NEW s, WithinProbe(s), NEW size \in Nat, Allowed(size, s)
    PROVE  WithinProbe(Debited(size, s))
<1>. DEFINE d == Debited(size, s)
<1>1. /\ s.est \in Nat /\ s.probed \in Nat /\ s.granted \in Nat /\ Floor \in Nat
      /\ ExemptSize \in Nat
  <2>1. Probes \cup {0} \subseteq Nat /\ Floor \in Nat /\ ExemptSize \in Nat
    BY Constants
  <2>2. s.est \in Nat /\ s.probed \in Probes \cup {0} /\ s.granted \in Nat
    BY DEF WithinProbe
  <2>. QED
    BY <2>1, <2>2
<1>2. /\ d.est = IF s.est > size THEN s.est - size ELSE 0
      /\ d.probed = s.probed
      /\ d.granted = IF size <= ExemptSize \/ s.probed = 0 THEN s.granted ELSE s.granted + size
  BY DEF WithinProbe, Debited
<1>3. d.est \in Nat /\ d.granted \in Nat
  BY <1>1, <1>2
<1>4. d \in [est : Nat, probed : Probes \cup {0}, granted : Nat]
  BY <1>2, <1>3 DEF Debited, WithinProbe
<1>. HIDE DEF d
<1>5. s.est + s.granted <= s.probed /\ (s.granted > 0 => s.probed >= s.granted + Floor)
  BY DEF WithinProbe
<1>6. CASE size <= ExemptSize \/ s.probed = 0
  BY <1>1, <1>2, <1>4, <1>5, <1>6 DEF WithinProbe, d
<1>7. CASE ~ (size <= ExemptSize \/ s.probed = 0)
  <2>1. s.est >= size + Floor
    BY <1>7 DEF Allowed
  <2>2. d.granted = s.granted + size /\ d.est <= s.est - size
    BY <1>1, <1>2, <1>7, <2>1
  <2>. QED
    BY <1>1, <1>2, <1>3, <1>4, <1>5, <2>1, <2>2 DEF WithinProbe, d
<1>. QED
  BY <1>6, <1>7

\* A new probe has let nothing through.
LEMMA ProbedWithin ==
    ASSUME NEW answer \in Probes \cup {0}
    PROVE  WithinProbe(Probed(answer))
  BY Constants DEF WithinProbe, Probed

\* The verdict keeps to the probe it is based on.
LEMMA DecideWithin ==
    ASSUME ThreadsOK, NEW t \in Everyone, NEW s, WithinProbe(s), Decide(t, s)
    PROVE  FloorOK'
<1>1. ctx[t].req \in Nat
  BY DEF ThreadsOK, ThreadOK, Context
<1>2. WithinProbe(sys')
  <2>1. CASE Allowed(ctx[t].req, s)
    BY <1>1, <2>1, DebitedWithin DEF Decide
  <2>2. CASE ~ Allowed(ctx[t].req, s)
    BY <2>2 DEF Decide
  <2>. QED
    BY <2>1, <2>2
<1>. QED
  BY <1>2 DEF FloorOK, WithinProbe

\* Every step keeps to the last probe.
LEMMA FloorStep ==
    ASSUME ThreadsOK, FloorOK, [Next]_vars
    PROVE  FloorOK'
<1>1. CASE UNCHANGED sys
  BY <1>1 DEF FloorOK, WithinProbe
<1>2. ASSUME NEW t \in Threads, Valve(t)
      PROVE  FloorOK'
  <2>1. PICK s \in {Probed(answer) : answer \in Probes} \cup {sys : p \in {sys.probed} \ {0}} :
          IF s.probed > 0 /\ s.est < ctx[t].req + Floor
          THEN sys' = s
          ELSE Decide(t, s)
    BY <1>2 DEF Valve
  <2>2. WithinProbe(s)
    BY <2>1, ProbedWithin DEF FloorOK
  <2>3. CASE s.probed > 0 /\ s.est < ctx[t].req + Floor
    BY <2>1, <2>2, <2>3 DEF FloorOK, WithinProbe
  <2>4. CASE ~ (s.probed > 0 /\ s.est < ctx[t].req + Floor)
    BY <2>1, <2>2, <2>4, DecideWithin, Constants
  <2>. QED
    BY <2>3, <2>4
<1>3. ASSUME NEW t \in Threads, ShedTrim(t)
      PROVE  FloorOK'
  <2>1. PICK answer \in Probes : Decide(t, Probed(answer))
    BY <1>3 DEF ShedTrim
  <2>. QED
    BY <2>1, ProbedWithin, DecideWithin, Constants
<1>4. ASSUME NEW t \in Threads, ShedNothing(t)
      PROVE  FloorOK'
  BY <1>4, DecideWithin, Constants DEF ShedNothing, FloorOK
<1>5. ASSUME ShedderDone(Gui)
      PROVE  FloorOK'
  <2>1. PICK answer \in Probes : sys' = Probed(answer)
    BY <1>5 DEF ShedderDone
  <2>2. WithinProbe(sys')
    BY <2>1, ProbedWithin
  <2>. QED
    BY <2>2 DEF FloorOK, WithinProbe
<1>6. \A t, back : RemoveLru(t, back) => UNCHANGED sys
  BY Zenon DEF RemoveLru, Evict
<1>s. \A t : Sweep(t) => UNCHANGED sys
  BY Zenon DEF Sweep, Evict
<1>7. ASSUME NEW t \in Threads, PipeStep(t), ~ Valve(t), ~ ShedTrim(t), ~ ShedNothing(t)
      PROVE  UNCHANGED sys
  <2>1. CASE AllocStep(t)
    <3>1. CASE ArenaAlloc(t)
      BY <3>1 DEF ArenaAlloc
    <3>2. CASE Defrag(t)
      BY <1>6, <3>2, Zenon DEF Defrag
    <3>3. CASE ~ ArenaAlloc(t) /\ ~ Defrag(t)
      BY <2>1, <3>3 DEF AllocStep, ArenaFull, CommitBlock, CommitFails, CommitFailed, DefragDone
    <3>. QED
      BY <3>1, <3>2, <3>3
  <2>2. CASE \/ \E size \in TempSizes : AllocAlign(t, size)
             \/ \E size \in LineSizes : CreateEntry(t, size)
    <3>1. \A size : AllocAlign(t, size) => UNCHANGED sys
      BY DEF AllocAlign
    <3>2. \A size : CreateEntry(t, size) => UNCHANGED sys
      BY DEF CreateEntry
    <3>. QED
      BY <2>2, <3>1, <3>2, Zenon
  <2>3. CASE MakeSpace(t) \/ NoSpace(t) \/ SpaceMade(t) \/ EnterMakeSpace(t)
    BY <1>6, <2>3, Zenon DEF MakeSpace, NoSpace, SpaceMade, EnterMakeSpace
  <2>4. CASE \/ LineGot(t) \/ FillLine(t) \/ UndoLine(t) \/ EnterFails(t) \/ Enter(t)
             \/ UseTemp(t) \/ FreeAlign(t) \/ Unlock(t)
    BY <2>4 DEF LineGot, FillLine, UndoLine, EnterFails, Enter, UseTemp, FreeAlign, Unlock
  <2>. QED
    BY <1>7, <2>1, <2>2, <2>3, <2>4 DEF PipeStep
<1>8. ASSUME NEW t \in Everyone, AnyStep(t)
      PROVE  UNCHANGED sys
  BY <1>6, <1>8, Zenon DEF AnyStep, Shed, AdvisePages, PublishPages
<1>9. ASSUME TimerStep(Gui), ~ ShedderDone(Gui)
      PROVE  UNCHANGED sys
  BY <1>9, <1>s, Zenon DEF TimerStep, Shedder, FlushOld, SweepDone, TrimAlone
<1>. QED
  BY <1>1, <1>2, <1>3, <1>4, <1>5, <1>7, <1>8, <1>9 DEF Next, vars

----------------------------------------------------------------------------
(* The initial states *)

\* One run of all pages, no line, and every thread idle.
LEMMA InitInv ==
    ASSUME Init
    PROVE  MemInv /\ FloorOK
<1>0. num_pages \in Nat /\ num_pages > 0
  BY ArenaHasPages
<1>a. /\ free_runs = <<[start |-> 0, length |-> num_pages]>> /\ build \in Builds
      /\ lazy = {} /\ committed = (IF build = "windows" THEN {} ELSE Pages) /\ dirty = {}
      /\ lines = <<>> /\ sys = Probed(0)
      /\ pc = [t \in Everyone |-> "idle"] /\ ctx = [t \in Everyone |-> Idle]
  BY DEF Init, ArenaInit
<1>1. Sorted(free_runs)
  BY <1>0, <1>a DEF Sorted, End, Run
<1>i. /\ \A t \in Everyone : ctx[t] = Idle /\ pc[t] = "idle" /\ At(ctx[t], pc[t]) = "idle"
      /\ Idle.blk = NULL /\ Idle.victim = NULL /\ Idle.kind = "none"
  BY <1>a DEF Idle, At
<1>2. ThreadsOK
  <2>1. \A t \in Everyone : ThreadOK(t, Idle, "idle")
    BY Contexts, Zenon
  <2>2. \A t \in Everyone : Idle \in Context /\ "idle" \in Labels
    BY <2>1 DEF ThreadOK
  <2>. QED
    BY <1>a, <2>1, <2>2 DEF ThreadsOK
<1>3. LinesOK
  BY <1>a, <1>i DEF LinesOK, HasLine
<1>4. Apart
  BY <1>a, <1>i, OffFacts DEF Apart
<1>5. Backed
  <2>1. build \in {"posix", "windows"}
    BY <1>a, ArenaAssumption
  <2>2. UNION {lazy, committed, dirty} \subseteq Pages
    BY <1>a
  <2>. QED
    BY <1>a, <1>i, <2>1, <2>2 DEF Backed, Solid
<1>6. FloorOK
  BY <1>a, ProbedWithin DEF FloorOK
<1>. QED
  BY <1>1, <1>2, <1>3, <1>4, <1>5, <1>6 DEF MemInv

----------------------------------------------------------------------------
(* The theorems *)

\* Whatever the threads, the timers and the kernel do: the free runs are in order and never
\* touch, every page has one owner, every writer has one line, what was handed out is backed,
\* and the valve keeps to its last probe.
THEOREM MemoryKeepsInvariant == Spec => [](MemInv /\ FloorOK)
<1>1. Init => MemInv /\ FloorOK
  BY InitInv
<1>2. MemInv /\ FloorOK /\ [Next]_vars => MemInv' /\ FloorOK'
  BY NextKeeps, FloorStep DEF MemInv
<1>. QED
  BY <1>1, <1>2, PTL DEF Spec

\* dt_cache_arena_alloc refuses a request only when there is no hole of that many pages: two
\* free runs never lie side by side unmerged.
THEOREM ArenaNeverSplitsHoles == Spec => []HolesWhole
<1>1. MemInv => HolesWhole
  BY SortedHolesWhole DEF MemInv
<1>. QED
  BY <1>1, MemoryKeepsInvariant, PTL

\* Pixels of a line that nobody uses, and of a temporary buffer in use, are there and backed:
\* neither a trim by a timer nor the kernel takes them, as it is given only pages that are
\* on their way back to the arena.
THEOREM WrittenPixelsSurvive == Spec => []PixelsSurvive
<1>1. MemInv => PixelsSurvive
  <2>. SUFFICES ASSUME MemInv, NEW b \in WrittenBlocks
                PROVE  PagesOf(b) \subseteq dirty \cap committed
    BY DEF PixelsSurvive
  <2>0. ThreadsOK /\ LinesOK /\ Backed /\ Threads \subseteq Everyone
    BY Constants DEF MemInv
  <2>1. ASSUME NEW t \in Threads, pc[t] = "used", b = ctx[t].blk
        PROVE  PagesOf(b) \subseteq dirty \cap committed
    <3>1. At(ctx[t], pc[t]) = "used" /\ ctx[t].blk # NULL /\ t \in Everyone
      BY <2>0, <2>1, KindAt DEF Holding
    <3>2. Mine(b) = PagesOf(b)
      BY <2>1, <3>1 DEF Mine
    <3>. QED
      BY <2>0, <2>1, <3>1, <3>2 DEF Backed, Solid
  <2>2. ASSUME NEW i \in Evictable, b = lines[i].buf
        PROVE  PagesOf(b) \subseteq dirty \cap committed
    <3>1. i \in 1..Len(lines) /\ lines[i].user = NULL /\ LineOK(lines[i], ctx, pc)
      BY <2>0 DEF Evictable, LinesOK
    <3>2. Mine(b) = PagesOf(b)
      BY <2>2, <3>1 DEF Mine, LineOK
    <3>. QED
      BY <2>0, <2>2, <3>1, <3>2 DEF Backed
  <2>. QED
    BY <2>1, <2>2 DEF WrittenBlocks
<1>. QED
  BY <1>1, MemoryKeepsInvariant, PTL

\* The large requests that _system_memory_pressure_valve lets through between two probes add
\* up to no more than the probe less the floor, however many threads ask.
THEOREM ValveKeepsFloor == Spec => []FloorKept
<1>1. FloorOK => FloorKept
  BY DEF FloorOK, WithinProbe, FloorKept
<1>. QED
  BY <1>1, MemoryKeepsInvariant, PTL

----------------------------------------------------------------------------
(* The abstract store of pages *)

\* Some thread, or a line of the table, has the block b.
Owns(cs, ls, b) ==
    \/ \E t \in Everyone : b = cs[t].blk \/ b = cs[t].victim
    \/ \E i \in 1..Len(ls) : b = ls[i].buf

\* The blocks handed out are those that somebody has.
LEMMA BlocksMeaning ==
    ASSUME LinesOK, LinesOK'
    PROVE  /\ \A b : b \in Blocks <=> b # NULL /\ Owns(ctx, lines, b)
           /\ \A b : b \in Blocks' <=> b # NULL /\ Owns(ctx', lines', b)
<1>1. DOMAIN lines = 1..Len(lines) /\ DOMAIN lines' = 1..Len(lines')
  BY DEF LinesOK
<1>2. \A b : b \in Blocks <=> b # NULL /\ Owns(ctx, lines, b)
  <2>1. \A b : b \in Blocks <=> /\ b # NULL
                               /\ \/ b \in {ctx[t].blk : t \in Everyone}
                                  \/ b \in {ctx[t].victim : t \in Everyone}
                                  \/ b \in {lines[i].buf : i \in DOMAIN lines}
    BY Zenon DEF Blocks
  <2>. QED
    BY <1>1, <2>1, Zenon DEF Owns
<1>3. \A b : b \in Blocks' <=> b # NULL /\ Owns(ctx', lines', b)
  <2>0. Everyone' = Everyone
    BY DEF Everyone
  <2>1. \A b : b \in Blocks' <=> /\ b # NULL
                                /\ \/ b \in {ctx'[t].blk : t \in Everyone}
                                   \/ b \in {ctx'[t].victim : t \in Everyone}
                                   \/ b \in {lines'[i].buf : i \in DOMAIN lines'}
    BY <2>0, Zenon DEF Blocks
  <2>. QED
    BY <1>1, <2>1, Zenon DEF Owns
<1>. QED
  BY <1>2, <1>3

\* No block is taken or given back.
StoreRests == FreePages' = FreePages /\ Blocks' = Blocks

\* The free runs stay, and every block still has an owner.
LEMMA StoreStays ==
    ASSUME LinesOK, LinesOK', free_runs' = free_runs,
           \A b : b # NULL => (Owns(ctx', lines', b) <=> Owns(ctx, lines, b))
    PROVE  StoreRests
<1>1. FreePages' = FreePages
  BY DEF FreePages
<1>2. Blocks' = Blocks
  <2>1. \A b : b \in Blocks' <=> b \in Blocks
    BY BlocksMeaning
  <2>. QED
    BY <2>1
<1>. QED
  BY <1>1, <1>2 DEF StoreRests

\* A quiet step.
LEMMA QuietStore ==
    ASSUME MemInv, MemInv', NEW t \in Everyone, NEW c, NEW l, Quiet(t, c, l)
    PROVE  StoreRests
<1>1. ThreadsOK /\ LinesOK /\ LinesOK' /\ Moved(t, c, l) /\ lines' = lines /\ free_runs' = free_runs
      /\ c.blk = ctx[t].blk /\ c.victim = ctx[t].victim
  BY DEF MemInv, Quiet
<1>2. /\ ctx'[t] = c
      /\ \A u \in Everyone : u # t => ctx'[u] = ctx[u] /\ pc'[u] = pc[u]
  BY <1>1, MovedMeaning
<1>3. \A u \in Everyone : ctx'[u].blk = ctx[u].blk /\ ctx'[u].victim = ctx[u].victim
  BY <1>1, <1>2
<1>. QED
  BY <1>1, <1>3, StoreStays DEF Owns

\* What an eviction changes.
LEMMA EvictMeaning ==
    ASSUME ThreadsOK, LinesOK, NEW t \in Everyone, pc[t] \notin {"advise", "publish"},
           NEW i \in Evictable, NEW back, Evict(t, i, back)
    PROVE  /\ i \in 1..Len(lines) /\ lines[i].user = NULL
           /\ lines' = SubSeq(lines, 1, i - 1) \o SubSeq(lines, i + 1, Len(lines))
           /\ current_memory' = current_memory - lines[i].size
           /\ free_runs' = free_runs /\ lock' = t
           /\ ctx[t].victim = NULL
           /\ ctx'[t].blk = ctx[t].blk /\ ctx'[t].victim = lines[i].buf
           /\ ctx'[t].back = back /\ pc'[t] = "advise"
           /\ \A u \in Everyone : u # t => ctx'[u] = ctx[u] /\ pc'[u] = pc[u]
<1>0. i \in 1..Len(lines) /\ lines[i].user = NULL
  BY DEF Evictable, LinesOK
<1>. DEFINE f == IF back = "shed" THEN ctx[t].freed + lines[i].size ELSE ctx[t].freed
<1>1. ctx' = [ctx EXCEPT ![t] = [ctx[t] EXCEPT !.victim = lines[i].buf, !.back = back, !.freed = f]]
  BY DEF Evict, Call
<1>. HIDE DEF f
<1>2. /\ pc' = [pc EXCEPT ![t] = "advise"] /\ current_memory' = current_memory - lines[i].size
      /\ free_runs' = free_runs /\ lock' = t
      /\ lines' = SubSeq(lines, 1, i - 1) \o SubSeq(lines, i + 1, Len(lines))
  BY DEF Evict, Call, Goto, arenaVars
<1>3. ctx \in [Everyone -> Context] /\ pc \in [Everyone -> Labels] /\ ctx[t] \in Context
  BY DEF ThreadsOK
<1>4. ctx'[t] = [ctx[t] EXCEPT !.victim = lines[i].buf, !.back = back, !.freed = f]
  BY <1>1, <1>3
<1>5. ctx'[t].blk = ctx[t].blk /\ ctx'[t].victim = lines[i].buf /\ ctx'[t].back = back
  BY <1>3, <1>4 DEF Context
<1>6. ctx[t].victim = NULL
  BY KindAt
<1>. QED
  BY <1>0, <1>1, <1>2, <1>3, <1>5, <1>6

\* An eviction: the thread has the block now.
LEMMA EvictStore ==
    ASSUME MemInv, MemInv', NEW t \in Everyone, pc[t] \notin {"advise", "publish"},
           NEW i \in Evictable, NEW back, Evict(t, i, back)
    PROVE  StoreRests
<1>0. ThreadsOK /\ LinesOK /\ LinesOK'
  BY DEF MemInv
<1>1. /\ i \in 1..Len(lines)
      /\ lines' = SubSeq(lines, 1, i - 1) \o SubSeq(lines, i + 1, Len(lines))
      /\ free_runs' = free_runs /\ ctx[t].victim = NULL
      /\ ctx'[t].blk = ctx[t].blk /\ ctx'[t].victim = lines[i].buf
      /\ \A u \in Everyone : u # t => ctx'[u] = ctx[u]
  BY <1>0, EvictMeaning
<1>2. PICK g :
        /\ \A j \in 1..Len(lines') : /\ g[j] \in 1..Len(lines) /\ g[j] # i
                                     /\ lines'[j] = lines[g[j]]
        /\ \A j, k \in 1..Len(lines') : j # k => g[j] # g[k]
        /\ \A m \in 1..Len(lines) : m # i => \E j \in 1..Len(lines') : g[j] = m
  BY <1>0, <1>1, LinesRemoved, Zenon
<1>3. ASSUME NEW b, b # NULL, Owns(ctx', lines', b)
      PROVE  Owns(ctx, lines, b)
  <2>1. CASE \E u \in Everyone : b = ctx'[u].blk \/ b = ctx'[u].victim
    BY <1>1, <2>1 DEF Owns
  <2>2. CASE \E j \in 1..Len(lines') : b = lines'[j].buf
    BY <1>2, <2>2 DEF Owns
  <2>. QED
    BY <1>3, <2>1, <2>2 DEF Owns
<1>4. ASSUME NEW b, b # NULL, Owns(ctx, lines, b)
      PROVE  Owns(ctx', lines', b)
  <2>1. CASE \E u \in Everyone : b = ctx[u].blk \/ b = ctx[u].victim
    BY <1>1, <1>4, <2>1 DEF Owns
  <2>2. CASE \E m \in 1..Len(lines) : b = lines[m].buf
    <3>1. PICK m \in 1..Len(lines) : b = lines[m].buf
      BY <2>2
    <3>2. CASE m = i
      BY <1>1, <3>1, <3>2 DEF Owns
    <3>3. CASE m # i
      <4>1. PICK j \in 1..Len(lines') : g[j] = m
        BY <1>2, <3>3
      <4>. QED
        BY <1>2, <3>1, <4>1 DEF Owns
    <3>. QED
      BY <3>2, <3>3
  <2>. QED
    BY <1>4, <2>1, <2>2 DEF Owns
<1>. QED
  BY <1>0, <1>1, <1>3, <1>4, StoreStays

\* What the steps change that give a block back.
LEMMA GivingUpMeaning ==
    ASSUME ThreadsOK, NEW t \in Threads, CommitFails(t) \/ EnterFails(t) \/ FreeAlign(t)
    PROVE  /\ lines' = lines /\ free_runs' = free_runs
           /\ pc[t] \in {"commit", "enter", "used"} /\ pc'[t] = "advise"
           /\ ctx[t].victim = NULL /\ ctx'[t].blk = NULL /\ ctx'[t].victim = ctx[t].blk
           /\ ctx'[t].back \in {"failed", "idle", "unlock"}
           /\ \A u \in Everyone : u # t => ctx'[u] = ctx[u] /\ pc'[u] = pc[u]
<1>0. /\ t \in Everyone /\ ctx \in [Everyone -> Context] /\ pc \in [Everyone -> Labels]
      /\ ctx[t] \in Context
  BY Constants DEF ThreadsOK
<1>1. PICK c :
        /\ pc[t] \in {"commit", "enter", "used"} /\ ctx' = [ctx EXCEPT ![t] = c]
        /\ pc' = [pc EXCEPT ![t] = "advise"] /\ lines' = lines /\ free_runs' = free_runs
        /\ c.blk = NULL /\ c.victim = ctx[t].blk /\ c.back \in {"failed", "idle", "unlock"}
  <2>1. CASE CommitFails(t)
    <3>. DEFINE c == [ctx[t] EXCEPT !.blk = NULL, !.victim = ctx[t].blk, !.back = "failed"]
    <3>1. /\ pc[t] = "commit" /\ ctx' = [ctx EXCEPT ![t] = c]
          /\ pc' = [pc EXCEPT ![t] = "advise"] /\ lines' = lines /\ free_runs' = free_runs
      BY <2>1 DEF CommitFails, Call, Goto, lineVars, arenaVars
    <3>2. c.blk = NULL /\ c.victim = ctx[t].blk /\ c.back = "failed"
      BY <1>0 DEF Context
    <3>. HIDE DEF c
    <3>. QED
      BY <3>1, <3>2
  <2>2. CASE EnterFails(t)
    <3>. DEFINE c == [Idle EXCEPT !.victim = ctx[t].blk, !.back = "idle"]
    <3>1. /\ pc[t] = "enter" /\ ctx' = [ctx EXCEPT ![t] = c]
          /\ pc' = [pc EXCEPT ![t] = "advise"] /\ lines' = lines /\ free_runs' = free_runs
      BY <2>2 DEF EnterFails, InLock, Call, Goto, lineVars, arenaVars
    <3>2. c.blk = NULL /\ c.victim = ctx[t].blk /\ c.back = "idle"
      BY DEF Idle
    <3>. HIDE DEF c
    <3>. QED
      BY <3>1, <3>2
  <2>3. CASE FreeAlign(t)
    <3>. DEFINE c == [Idle EXCEPT !.victim = ctx[t].blk, !.back = "unlock"]
    <3>1. /\ pc[t] = "used" /\ ctx' = [ctx EXCEPT ![t] = c]
          /\ pc' = [pc EXCEPT ![t] = "advise"] /\ lines' = lines /\ free_runs' = free_runs
      BY <2>3 DEF FreeAlign, InLock, Call, Goto, arenaVars
    <3>2. c.blk = NULL /\ c.victim = ctx[t].blk /\ c.back = "unlock"
      BY DEF Idle
    <3>. HIDE DEF c
    <3>. QED
      BY <3>1, <3>2
  <2>. QED
    BY <2>1, <2>2, <2>3
<1>2. ctx[t].victim = NULL
  BY <1>0, <1>1, KindAt
<1>. QED
  BY <1>0, <1>1, <1>2

\* A block that is given back is still the thread's.
LEMMA GivingUpStore ==
    ASSUME MemInv, MemInv', NEW t \in Threads, CommitFails(t) \/ EnterFails(t) \/ FreeAlign(t)
    PROVE  StoreRests
<1>0. ThreadsOK /\ LinesOK /\ LinesOK' /\ t \in Everyone
  BY Constants DEF MemInv
<1>1. /\ lines' = lines /\ free_runs' = free_runs
      /\ ctx[t].victim = NULL /\ ctx'[t].blk = NULL /\ ctx'[t].victim = ctx[t].blk
      /\ \A u \in Everyone : u # t => ctx'[u] = ctx[u] /\ pc'[u] = pc[u]
  BY <1>0, GivingUpMeaning
<1>2. \A b : b # NULL => (Owns(ctx', lines', b) <=> Owns(ctx, lines, b))
  BY <1>0, <1>1 DEF Owns
<1>. QED
  BY <1>0, <1>1, <1>2, StoreStays

\* A line gets its buffer: it was the thread's before.
LEMMA LineGotStore ==
    ASSUME MemInv, MemInv', NEW t \in Threads, LineGot(t)
    PROVE  StoreRests
<1>. DEFINE n == Len(lines)
<1>0. ThreadsOK /\ LinesOK /\ LinesOK' /\ t \in Everyone
  BY Constants DEF MemInv
<1>a. /\ pc[t] = "got" /\ ctx' = [ctx EXCEPT ![t] = [ctx[t] EXCEPT !.blk = NULL]]
      /\ lines' = [i \in DOMAIN lines |->
                     IF lines[i].user = t THEN [lines[i] EXCEPT !.buf = ctx[t].blk] ELSE lines[i]]
      /\ free_runs' = free_runs
  BY DEF LineGot, Call, arenaVars
<1>k. ctx[t].kind = "line" /\ At(ctx[t], pc[t]) = "got"
  BY <1>0, <1>a, KindAt
<1>b. PICK i \in 1..n : /\ lines[i].user = t
                        /\ \A j \in 1..n : j # i => lines[j].user # t
  BY <1>0, <1>k, WriterHasLine DEF HasLine
<1>c. /\ ctx'[t].blk = NULL /\ ctx'[t].victim = ctx[t].victim
      /\ \A u \in Everyone : u # t => ctx'[u] = ctx[u]
  BY <1>0, <1>a DEF ThreadsOK, Context
<1>d. /\ n \in Nat /\ DOMAIN lines = 1..n /\ Len(lines') = n
      /\ lines[i] \in Line /\ LineOK(lines[i], ctx, pc)
  <2>1. n \in Nat /\ DOMAIN lines = 1..n /\ lines[i] \in Line /\ LineOK(lines[i], ctx, pc)
    BY <1>0 DEF LinesOK
  <2>2. DOMAIN lines' = 1..n
    BY <1>a, <2>1
  <2>. QED
    BY <1>0, <2>1, <2>2 DEF LinesOK
<1>e. /\ lines'[i].buf = ctx[t].blk /\ \A j \in 1..n : j # i => lines'[j].buf = lines[j].buf
  BY <1>a, <1>b, <1>d DEF Line
<1>f. lines[i].buf = NULL
  BY <1>b, <1>d, <1>k, Constants DEF LineOK
<1>. HIDE DEF n
<1>1. ASSUME NEW b, b # NULL, Owns(ctx', lines', b)
      PROVE  Owns(ctx, lines, b)
  <2>1. CASE \E u \in Everyone : b = ctx'[u].blk \/ b = ctx'[u].victim
    BY <1>1, <1>c, <2>1 DEF Owns
  <2>2. CASE \E j \in 1..n : b = lines'[j].buf
    BY <1>0, <1>e, <2>2 DEF Owns, n
  <2>. QED
    BY <1>1, <1>d, <2>1, <2>2 DEF Owns
<1>2. ASSUME NEW b, b # NULL, Owns(ctx, lines, b)
      PROVE  Owns(ctx', lines', b)
  <2>1. CASE \E u \in Everyone : b = ctx[u].blk \/ b = ctx[u].victim
    BY <1>2, <1>c, <1>d, <1>e, <2>1 DEF Owns
  <2>2. CASE \E j \in 1..n : b = lines[j].buf
    BY <1>2, <1>d, <1>e, <1>f, <2>2 DEF Owns
  <2>. QED
    BY <1>2, <2>1, <2>2 DEF Owns, n
<1>. QED
  BY <1>0, <1>1, <1>2, <1>a, StoreStays

\* The buffers stay where they are when a line is filled.
LEMMA FillLineStore ==
    ASSUME MemInv, MemInv', NEW t \in Threads, FillLine(t)
    PROVE  StoreRests
<1>. DEFINE n == Len(lines)
<1>0. ThreadsOK /\ LinesOK /\ LinesOK' /\ t \in Everyone
  BY Constants DEF MemInv
<1>a. pc[t] = "fill" /\ ctx' = [ctx EXCEPT ![t] = Idle]
  BY DEF FillLine, Return, Call
<1>s. n \in Nat /\ DOMAIN lines = 1..n /\ \A j \in 1..n : lines[j] \in Line
  BY <1>0 DEF LinesOK
<1>i. PICK i \in 1..n : Write(lines[i].buf) /\ lines' = [lines EXCEPT ![i].user = NULL]
  BY <1>s DEF FillLine
<1>k. ctx[t].victim = NULL /\ ctx[t].blk = NULL
  BY <1>0, <1>a, KindAt DEF Holding
<1>c. \A u \in Everyone : ctx'[u].blk = ctx[u].blk /\ ctx'[u].victim = ctx[u].victim
  <2>1. ctx'[t] = Idle /\ \A u \in Everyone : u # t => ctx'[u] = ctx[u]
    BY <1>0, <1>a DEF ThreadsOK
  <2>2. Idle.blk = NULL /\ Idle.victim = NULL
    BY DEF Idle
  <2>. QED
    BY <1>k, <2>1, <2>2
<1>d. Len(lines') = n
  <2>1. DOMAIN lines' = 1..n
    BY <1>i, <1>s
  <2>. QED
    BY <1>0, <1>s, <2>1 DEF LinesOK
<1>e. \A j \in 1..n : lines'[j].buf = lines[j].buf
  BY <1>i, <1>s DEF Line
<1>f. free_runs' = free_runs
  BY <1>i DEF Write
<1>. QED
  BY <1>0, <1>c, <1>d, <1>e, <1>f, StoreStays DEF Owns

\* A line without a buffer leaves the table.
LEMMA UndoLineStore ==
    ASSUME MemInv, MemInv', NEW t \in Threads, UndoLine(t)
    PROVE  StoreRests
<1>0. ThreadsOK /\ LinesOK /\ LinesOK' /\ t \in Everyone /\ t # NULL
  BY Constants DEF MemInv
<1>a. /\ pc[t] = "undo" /\ ctx' = [ctx EXCEPT ![t] = Idle] /\ free_runs' = free_runs
  BY DEF UndoLine, InLock, Return, Call, arenaVars
<1>i. PICK i \in 1..Len(lines) :
        /\ lines[i].user = t
        /\ lines' = SubSeq(lines, 1, i - 1) \o SubSeq(lines, i + 1, Len(lines))
  <2>1. DOMAIN lines = 1..Len(lines)
    BY <1>0 DEF LinesOK
  <2>. QED
    BY <2>1, Zenon DEF UndoLine
<1>k. ctx[t].victim = NULL /\ ctx[t].blk = NULL /\ At(ctx[t], pc[t]) = "undo"
  BY <1>0, <1>a, KindAt DEF Holding
<1>b. lines[i].buf = NULL
  BY <1>0, <1>i, <1>k DEF LinesOK, LineOK
<1>c. \A u \in Everyone : ctx'[u].blk = ctx[u].blk /\ ctx'[u].victim = ctx[u].victim
  <2>1. ctx'[t] = Idle /\ \A u \in Everyone : u # t => ctx'[u] = ctx[u]
    BY <1>0, <1>a DEF ThreadsOK
  <2>2. Idle.blk = NULL /\ Idle.victim = NULL
    BY DEF Idle
  <2>. QED
    BY <1>k, <2>1, <2>2
<1>g. PICK g :
        /\ \A j \in 1..Len(lines') : /\ g[j] \in 1..Len(lines) /\ g[j] # i
                                     /\ lines'[j] = lines[g[j]]
        /\ \A j, k \in 1..Len(lines') : j # k => g[j] # g[k]
        /\ \A m \in 1..Len(lines) : m # i => \E j \in 1..Len(lines') : g[j] = m
  BY <1>0, <1>i, LinesRemoved, Zenon
<1>1. ASSUME NEW b, b # NULL, Owns(ctx', lines', b)
      PROVE  Owns(ctx, lines, b)
  BY <1>1, <1>c, <1>g DEF Owns
<1>2. ASSUME NEW b, b # NULL, Owns(ctx, lines, b)
      PROVE  Owns(ctx', lines', b)
  <2>1. CASE \E u \in Everyone : b = ctx[u].blk \/ b = ctx[u].victim
    BY <1>c, <2>1 DEF Owns
  <2>2. CASE \E m \in 1..Len(lines) : b = lines[m].buf
    <3>1. PICK m \in 1..Len(lines) : b = lines[m].buf
      BY <2>2
    <3>2. m # i
      BY <1>2, <1>b, <3>1
    <3>3. PICK j \in 1..Len(lines') : g[j] = m
      BY <1>g, <3>2
    <3>. QED
      BY <1>g, <3>1, <3>3 DEF Owns
  <2>. QED
    BY <1>2, <2>1, <2>2 DEF Owns
<1>. QED
  BY <1>0, <1>1, <1>2, <1>a, StoreStays

\* A line without a buffer enters the table.
LEMMA SpaceMadeStore ==
    ASSUME MemInv, MemInv', NEW t \in Threads, SpaceMade(t), ctx[t].kind = "line"
    PROVE  StoreRests
<1>. DEFINE x == [size |-> ctx[t].req, buf |-> NULL, user |-> t]
            n == Len(lines)
<1>0. LinesOK /\ LinesOK'
  BY DEF MemInv
<1>a. lines' = Append(lines, x) /\ ctx' = ctx /\ free_runs' = free_runs
  BY DEF SpaceMade, arenaVars
<1>1. lines \in Seq(Line) /\ n \in Nat /\ x.buf = NULL
  BY <1>0 DEF LinesOK
<1>. HIDE DEF x
<1>2. Len(lines') = n + 1 /\ lines'[n + 1] = x /\ \A i \in 1..n : lines'[i] = lines[i]
  BY <1>1, <1>a
<1>. HIDE DEF n
<1>3. \A i \in 1..n + 1 : i = n + 1 \/ i \in 1..n
  BY <1>1
<1>4. \A i \in 1..n : i \in 1..n + 1
  BY <1>1
<1>5. ASSUME NEW b, b # NULL, Owns(ctx', lines', b)
      PROVE  Owns(ctx, lines, b)
  <2>1. CASE \E u \in Everyone : b = ctx'[u].blk \/ b = ctx'[u].victim
    BY <1>a, <2>1 DEF Owns
  <2>2. ASSUME NEW i \in 1..n + 1, b = lines'[i].buf
        PROVE  \E j \in 1..n : b = lines[j].buf
    BY <1>1, <1>2, <1>3, <1>5, <2>2
  <2>3. (\E i \in 1..n + 1 : b = lines'[i].buf) => Owns(ctx, lines, b)
    BY <2>2 DEF Owns, n
  <2>. QED
    BY <1>2, <1>5, <2>1, <2>3 DEF Owns
<1>6. ASSUME NEW b, b # NULL, Owns(ctx, lines, b)
      PROVE  Owns(ctx', lines', b)
  <2>1. CASE \E u \in Everyone : b = ctx[u].blk \/ b = ctx[u].victim
    BY <1>a, <2>1 DEF Owns
  <2>2. ASSUME NEW i \in 1..n, b = lines[i].buf
        PROVE  \E j \in 1..n + 1 : b = lines'[j].buf
    BY <1>2, <1>4, <2>2
  <2>3. (\E i \in 1..n : b = lines[i].buf) => Owns(ctx', lines', b)
    BY <1>2, <2>2 DEF Owns
  <2>. QED
    BY <1>6, <2>1, <2>3 DEF Owns, n
<1>. QED
  BY <1>0, <1>5, <1>6, <1>a, StoreStays

\* The steps that move no block at all.
LEMMA StillStore ==
    ASSUME LinesOK, LinesOK', ctx' = ctx, lines' = lines, free_runs' = free_runs
    PROVE  StoreRests
  BY StoreStays

\* A block has a page.
LEMMA BlockHasPage ==
    ASSUME NEW b \in Block
    PROVE  b.first \in PagesOf(b) /\ Mine(b) = PagesOf(b) /\ b # NULL
<1>1. b.first \in Nat /\ b.pages \in Nat /\ b.pages > 0
  BY DEF Block
<1>2. b.first \in PagesOf(b)
  BY <1>1, PagesMeaning
<1>. QED
  BY <1>2, Constants DEF Mine

\* dt_cache_arena_free is the step Give of the store: nobody else has the block.
LEMMA PublishStore ==
    ASSUME MemInv, MemInv', NEW t \in Everyone, PublishPages(t)
    PROVE  \E b \in Blocks : FreePages' = FreePages \cup PagesOf(b) /\ Blocks' = Blocks \ {b}
<1>. DEFINE v == ctx[t].victim
<1>0. ThreadsOK /\ LinesOK /\ LinesOK' /\ Apart
  BY DEF MemInv
<1>1. v \in Block /\ FreePages' = FreePages \cup PagesOf(v)
  BY PublishKeeps
<1>a. /\ ctx' = [ctx EXCEPT ![t] = [ctx[t] EXCEPT !.victim = NULL, !.back = "idle"]]
      /\ lines' = lines
  BY DEF PublishPages, Call, lineVars
<1>c. /\ ctx'[t].blk = ctx[t].blk /\ ctx'[t].victim = NULL
      /\ \A u \in Everyone : u # t => ctx'[u] = ctx[u]
  BY <1>0, <1>a DEF ThreadsOK, Context
<1>2. v # NULL /\ Mine(v) # {}
  BY <1>1, BlockHasPage
<1>3. /\ \A u \in Everyone : ctx[u].blk # v
      /\ \A u \in Everyone : u # t => ctx[u].victim # v
      /\ \A i \in 1..Len(lines) : lines[i].buf # v
  <2>1. \A b : Off(b, v) \/ Off(v, b) => b # v
    BY <1>2 DEF Off
  <2>2. /\ \A u \in Everyone : Off(ctx[u].blk, v)
        /\ \A u \in Everyone : u # t => Off(ctx[u].victim, v)
        /\ \A i \in 1..Len(lines) : Off(v, lines[i].buf)
    BY <1>0 DEF Apart
  <2>. QED
    BY <2>1, <2>2
<1>4. Owns(ctx, lines, v) /\ \A b : b # NULL => (Owns(ctx', lines', b) <=> Owns(ctx, lines, b) /\ b # v)
  BY <1>2, <1>3, <1>a, <1>c DEF Owns
<1>5. v \in Blocks /\ \A b : b \in Blocks' <=> b \in Blocks /\ b # v
  BY <1>0, <1>2, <1>4, BlocksMeaning
<1>. QED
  BY <1>1, <1>5

\* dt_cache_arena_alloc is the step Take of the store.
LEMMA ArenaAllocStore ==
    ASSUME MemInv, MemInv', NEW t \in Threads, ArenaAlloc(t)
    PROVE  \E b \in Block : /\ PagesOf(b) \subseteq FreePages
                            /\ FreePages' = FreePages \ PagesOf(b)
                            /\ Blocks' = Blocks \cup {b}
<1>0. LinesOK /\ LinesOK' /\ t \in Everyone
  BY Constants DEF MemInv
<1>1. PICK b \in Block :
        /\ ctx[t].blk = NULL /\ PagesOf(b) \subseteq FreePages
        /\ FreePages' = FreePages \ PagesOf(b)
        /\ ctx'[t].blk = b /\ ctx'[t].victim = ctx[t].victim
        /\ \A u \in Everyone : u # t => ctx'[u] = ctx[u]
  BY ArenaAllocKeeps
<1>2. lines' = lines /\ b # NULL
  BY BlockHasPage DEF ArenaAlloc, lineVars
<1>3. \A x : x # NULL => (Owns(ctx', lines', x) <=> Owns(ctx, lines, x) \/ x = b)
  BY <1>0, <1>1, <1>2 DEF Owns
<1>4. \A x : x \in Blocks' <=> x \in Blocks \/ x = b
  BY <1>0, <1>2, <1>3, BlocksMeaning
<1>. QED
  BY <1>1, <1>4

\* Every step takes one block, gives one back, or does neither.
LEMMA StepOfStore ==
    ASSUME MemInv, FloorOK, MemInv', [Next]_vars
    PROVE  \/ StoreRests
           \/ \E b \in Blocks : FreePages' = FreePages \cup PagesOf(b) /\ Blocks' = Blocks \ {b}
           \/ \E b \in Block : /\ PagesOf(b) \subseteq FreePages
                               /\ FreePages' = FreePages \ PagesOf(b)
                               /\ Blocks' = Blocks \cup {b}
<1>0. ThreadsOK /\ LinesOK /\ LinesOK' /\ sys.est \in Nat
  BY DEF MemInv, FloorOK, WithinProbe
<1>l. ASSUME NEW t \in Everyone, NEW back, pc[t] = back, back \notin {"advise", "publish"},
             RemoveLru(t, back)
      PROVE  StoreRests
  <2>1. PICK i \in Evictable : Evict(t, i, back)
    BY <1>l, Zenon DEF RemoveLru
  <2>. QED
    BY <1>l, <2>1, EvictStore
<1>1. ASSUME NEW t \in Threads, PipeStep(t), ~ ArenaAlloc(t)
      PROVE  StoreRests
  <2>0. t \in Everyone
    BY Constants
  <2>1. CASE PipeQuiet(t)
    <3>1. PICK c, l : Quiet(t, c, l)
      BY <1>0, <2>1, QuietPipe, Zenon
    <3>. QED
      BY <2>0, <3>1, QuietStore
  <2>2. CASE SpaceMade(t) /\ ctx[t].kind = "line"
    BY <2>2, SpaceMadeStore
  <2>3. CASE MakeSpace(t)
    BY <1>l, <2>0, <2>3 DEF MakeSpace, InLock
  <2>4. CASE Defrag(t)
    BY <1>l, <2>0, <2>4 DEF Defrag, InLock
  <2>5. CASE EnterMakeSpace(t)
    BY <1>l, <2>0, <2>5 DEF EnterMakeSpace, InLock
  <2>7. CASE CommitBlock(t)
    BY <1>0, <2>7, StillStore DEF CommitBlock, Commit, lineVars
  <2>8. CASE CommitFails(t) \/ EnterFails(t) \/ FreeAlign(t)
    BY <2>8, GivingUpStore
  <2>9. CASE LineGot(t)
    BY <2>9, LineGotStore
  <2>10. CASE FillLine(t)
    BY <2>10, FillLineStore
  <2>11. CASE UndoLine(t)
    BY <2>11, UndoLineStore
  <2>12. CASE UseTemp(t)
    BY <1>0, <2>12, StillStore DEF UseTemp, Write, lineVars
  <2>. QED
    BY <1>1, <2>1, <2>2, <2>3, <2>4, <2>5, <2>7, <2>8, <2>9, <2>10, <2>11, <2>12, Zenon
    DEF PipeStep, AllocStep, PipeQuiet
<1>2. ASSUME NEW t \in Everyone, AnyStep(t), ~ PublishPages(t)
      PROVE  StoreRests
  <2>1. CASE Shed(t)
    BY <1>l, <2>1 DEF Shed, InLock
  <2>2. CASE AdvisePages(t)
    BY <1>0, <2>2, StillStore DEF AdvisePages, FreeStep, Advise, lineVars
  <2>. QED
    BY <1>2, <2>1, <2>2 DEF AnyStep
<1>3. ASSUME Gui # NULL, TimerStep(Gui)
      PROVE  StoreRests
  <2>0. Gui \in Everyone
    BY <1>3 DEF Everyone
  <2>1. CASE TimerQuiet(Gui)
    <3>1. PICK c, l : Quiet(Gui, c, l)
      BY <1>0, <2>0, <2>1, QuietTimer, Zenon
    <3>. QED
      BY <2>0, <3>1, QuietStore
  <2>2. CASE Sweep(Gui)
    <3>1. PICK i \in Evictable : Evict(Gui, i, "sweep")
      BY <2>2, Zenon DEF Sweep
    <3>2. pc[Gui] = "sweep"
      BY <2>2 DEF Sweep, InLock
    <3>. QED
      BY <2>0, <3>1, <3>2, EvictStore
  <2>. QED
    BY <1>3, <2>1, <2>2 DEF TimerStep, TimerQuiet
<1>4. CASE Reclaim /\ UNCHANGED <<lineVars, lock, sys, threadVars>>
  BY <1>0, <1>4, StillStore DEF Reclaim, lineVars, threadVars
<1>5. CASE UNCHANGED vars
  BY <1>0, <1>5, StillStore DEF vars, arenaVars, lineVars, threadVars
<1>6. ASSUME NEW t \in Threads, ArenaAlloc(t)
      PROVE  \E b \in Block : /\ PagesOf(b) \subseteq FreePages
                              /\ FreePages' = FreePages \ PagesOf(b)
                              /\ Blocks' = Blocks \cup {b}
  BY <1>6, ArenaAllocStore
<1>7. ASSUME NEW t \in Everyone, PublishPages(t)
      PROVE  \E b \in Blocks : FreePages' = FreePages \cup PagesOf(b) /\ Blocks' = Blocks \ {b}
  BY <1>7, PublishStore
<1>. QED
  BY <1>1, <1>2, <1>3, <1>4, <1>5, <1>6, <1>7, Zenon DEF Next

\* The same as steps of the abstract specification.
LEMMA StepIsStoreStep ==
    ASSUME MemInv, FloorOK, MemInv', [Next]_vars
    PROVE  [Store!Next]_<<FreePages, Blocks>>
<1>1. CASE StoreRests
  BY <1>1 DEF StoreRests
<1>2. CASE \E b \in Blocks : FreePages' = FreePages \cup PagesOf(b) /\ Blocks' = Blocks \ {b}
  <2>1. Store!Give
    BY <1>2 DEF Store!Give, Store!PagesOf, PagesOf
  <2>. QED
    BY <2>1 DEF Store!Next
<1>3. ASSUME NEW b \in Block, PagesOf(b) \subseteq FreePages, FreePages' = FreePages \ PagesOf(b),
             Blocks' = Blocks \cup {b}
      PROVE  Store!Take
  <2>1. /\ b = [first |-> b.first, pages |-> b.pages]
        /\ b.first \in Nat /\ b.pages \in Nat /\ b.pages > 0 /\ b.first + b.pages <= num_pages
    BY DEF Block
  <2>2. b.first \in Store!Pages /\ b.pages \in 1..num_pages - b.first
    BY <2>1, ArenaHasPages DEF Store!Pages
  <2>3. Store!PagesOf(b) = PagesOf(b)
    BY DEF Store!PagesOf, PagesOf
  <2>. QED
    BY <1>3, <2>1, <2>2, <2>3 DEF Store!Take
<1>. QED
  BY <1>1, <1>2, <1>3, StepOfStore, Zenon DEF Store!Next

\* At first all pages are free.
LEMMA InitIsStoreInit ==
    ASSUME Init
    PROVE  Store!Init
<1>0. num_pages \in Nat /\ num_pages >= 1
  BY ArenaHasPages
<1>1. FreePages = Store!Pages
  <2>1. free_runs = <<[start |-> 0, length |-> num_pages]>>
    BY DEF Init, ArenaInit
  <2>2. FreePages = RunPages([start |-> 0, length |-> num_pages])
    BY <2>1 DEF FreePages
  <2>. QED
    BY <1>0, <2>2 DEF RunPages, Store!Pages
<1>2. Blocks = {}
  <2>1. /\ lines = <<>> /\ \A t \in Everyone : ctx[t].blk = NULL /\ ctx[t].victim = NULL
    BY DEF Init, Idle
  <2>2. DOMAIN lines = {}
    BY <2>1
  <2>3. \A b \in Blocks : FALSE
    BY <2>1, <2>2, Zenon DEF Blocks
  <2>. QED
    BY <2>3
<1>. QED
  BY <1>1, <1>2 DEF Store!Init

\* The arena, whoever allocates and frees meanwhile, implements the abstract store: a block is
\* made of free pages only, it comes back once and whole, and the overlap test of
\* dt_cache_arena_free never refuses, and so leaks, a block.
THEOREM ArenaImplementsStore == Spec => ImplementsPageStore
<1>1. Init => Store!Init
  BY InitIsStoreInit
<1>2. (MemInv /\ FloorOK) /\ (MemInv /\ FloorOK)' /\ [Next]_vars
        => [Store!Next]_<<FreePages, Blocks>>
  BY StepIsStoreStep
<1>. QED
  BY <1>1, <1>2, MemoryKeepsInvariant, PTL DEF Spec, ImplementsPageStore, Store!Spec

\* The blocks lie inside the arena.
BlocksInside == \A b \in Blocks : Store!PagesOf(b) \subseteq Store!Pages

\* What the steps of the abstract store keep, whatever the blocks are: a block is made of free
\* pages, which belong to no other block, and giving a block back frees no page of another.
LEMMA StoreKeepsPartition == Store!Spec => [](Store!Partition /\ BlocksInside)
<1>1. Store!Init => Store!Partition /\ BlocksInside
  BY DEF Store!Init, Store!Partition, BlocksInside
<1>2. Store!Partition /\ BlocksInside /\ [Store!Next]_<<FreePages, Blocks>>
        => Store!Partition' /\ BlocksInside'
  <2>. SUFFICES ASSUME Store!Partition, BlocksInside, [Store!Next]_<<FreePages, Blocks>>
                PROVE  Store!Partition' /\ BlocksInside'
    OBVIOUS
  <2>1. CASE Store!Take
    <3>1. PICK c : /\ Store!PagesOf(c) \subseteq FreePages
                   /\ FreePages' = FreePages \ Store!PagesOf(c)
                   /\ Blocks' = Blocks \cup {c}
      BY <2>1 DEF Store!Take
    <3>2. FreePages \subseteq Store!Pages
      BY DEF Store!Partition
    <3>3. \A b \in Blocks : Store!PagesOf(b) \cap Store!PagesOf(c) = {}
      BY <3>1 DEF Store!Partition
    <3>4. BlocksInside'
      BY <3>1, <3>2 DEF BlocksInside, Store!PagesOf, Store!Pages
    <3>5. \A a, b \in Blocks' : a = b \/ Store!PagesOf(a) \cap Store!PagesOf(b) = {}
      BY <3>1, <3>3 DEF Store!Partition
    <3>6. UNION {Store!PagesOf(b) : b \in Blocks'}
            = (UNION {Store!PagesOf(b) : b \in Blocks}) \cup Store!PagesOf(c)
      BY <3>1
    <3>7. FreePages' = Store!Pages \ UNION {Store!PagesOf(b) : b \in Blocks'}
      BY <3>1, <3>6 DEF Store!Partition
    <3>. QED BY <3>4, <3>5, <3>7 DEF Store!Partition, Store!PagesOf, Store!Pages
  <2>2. CASE Store!Give
    <3>1. PICK c \in Blocks : FreePages' = FreePages \cup Store!PagesOf(c) /\ Blocks' = Blocks \ {c}
      BY <2>2 DEF Store!Give
    <3>2. BlocksInside'
      BY <3>1 DEF BlocksInside, Store!PagesOf, Store!Pages
    <3>3. \A a, b \in Blocks' : a = b \/ Store!PagesOf(a) \cap Store!PagesOf(b) = {}
      BY <3>1 DEF Store!Partition
    <3>4. ASSUME NEW p \in Store!Pages
          PROVE  p \in UNION {Store!PagesOf(b) : b \in Blocks'}
                   <=> p \in UNION {Store!PagesOf(b) : b \in Blocks} /\ p \notin Store!PagesOf(c)
      BY <3>1 DEF Store!Partition
    <3>5. Store!PagesOf(c) \subseteq Store!Pages
      BY <3>1 DEF BlocksInside
    <3>6. FreePages' = Store!Pages \ UNION {Store!PagesOf(b) : b \in Blocks'}
      BY <3>1, <3>4, <3>5 DEF Store!Partition
    <3>. QED BY <3>2, <3>3, <3>6 DEF Store!Partition, Store!PagesOf, Store!Pages
  <2>3. CASE UNCHANGED <<FreePages, Blocks>>
    BY <2>3 DEF Store!Partition, BlocksInside, Store!PagesOf, Store!Pages
  <2>. QED BY <2>1, <2>2, <2>3 DEF Store!Next
<1>. QED BY <1>1, <1>2, PTL DEF Store!Spec

\* Therefore a page of the arena is free or in exactly one of the blocks of lines, of temporary
\* buffers and of those on their way.
THEOREM EveryPageHasOneOwner == Spec => []Store!Partition
<1>1. Spec => Store!Spec
  BY ArenaImplementsStore DEF ImplementsPageStore
<1>. QED
  BY <1>1, StoreKeepsPartition, PTL

----------------------------------------------------------------------------
(* The account *)

\* The sizes of lines, and what they add up to.
SizesOf(ls) == [i \in 1..Len(ls) |-> ls[i].size]
LineSum(ls) == SumOver(SizesOf(ls), 1..Len(ls))

\* The threads that have entered a temporary buffer, and what their buffers add up to.
Entered == {"hold", "used"}
Temps(ps) == {u \in Threads : ps[u] \in Entered}
TempsOf(cs, ps) == [u \in Temps(ps) |-> BlockSize(cs[u].blk)]
TempSum(cs, ps) == SumOver(TempsOf(cs, ps), Temps(ps))

\* The account in these words; no thread gives up a block while it has one entered.
Account(m, cs, ps, ls) == m = LineSum(ls) + TempSum(cs, ps)
BackOK(cs, ps) == \A t \in Everyone : ps[t] \in {"advise", "publish"} => cs[t].back \notin Entered
Books == Account(current_memory, ctx, pc, lines) /\ BackOK(ctx, pc)

\* The account is exact.
LEMMA AccountMeaning ==
    ASSUME LinesOK, Account(current_memory, ctx, pc, lines)
    PROVE  AccountExact
<1>1. DOMAIN lines = 1..Len(lines)
  BY DEF LinesOK
<1>2. LineSize = SizesOf(lines) /\ DOMAIN LineSize = 1..Len(lines)
  BY <1>1 DEF LineSize, SizesOf
<1>3. TempSize = TempsOf(ctx, pc) /\ DOMAIN TempSize = Temps(pc)
  BY DEF TempSize, TempsOf, Temps, Entered
<1>4. \A f : Total(f) = SumOver(f, DOMAIN f)
  BY Zenon DEF Total, SumOver
<1>5. Total(LineSize) = LineSum(lines)
  BY <1>2, <1>4 DEF LineSum
<1>6. Total(TempSize) = TempSum(ctx, pc)
  BY <1>3, <1>4 DEF TempSum
<1>. QED
  BY <1>5, <1>6 DEF AccountExact, Account

\* The lines add up to a natural number.
LEMMA LineSumType ==
    ASSUME NEW ls \in Seq(Line)
    PROVE  /\ LineSum(ls) \in Nat /\ IsFiniteSet(1..Len(ls)) /\ Len(ls) \in Nat
           /\ \A i \in 1..Len(ls) : SizesOf(ls)[i] = ls[i].size /\ SizesOf(ls)[i] \in Nat
<1>1. Len(ls) \in Nat /\ \A i \in 1..Len(ls) : ls[i] \in Line
  OBVIOUS
<1>2. \A i \in 1..Len(ls) : SizesOf(ls)[i] = ls[i].size /\ SizesOf(ls)[i] \in Nat
  BY <1>1 DEF SizesOf, Line
<1>3. IsFiniteSet(1..Len(ls))
  BY <1>1, FS_Interval
<1>. QED
  BY <1>1, <1>2, <1>3, SumType DEF LineSum

\* The lines r are the lines ls without line i; g says which line each of them was.
Without(g, ls, i, r) ==
    /\ \A j \in 1..Len(r) : g[j] \in 1..Len(ls) /\ g[j] # i /\ r[j] = ls[g[j]]
    /\ \A j, k \in 1..Len(r) : j # k => g[j] # g[k]
    /\ \A m \in 1..Len(ls) : m # i => \E j \in 1..Len(r) : g[j] = m

\* A line leaves the table.
LEMMA LineSumRemoved ==
    ASSUME NEW ls \in Seq(Line), NEW r \in Seq(Line), NEW i \in 1..Len(ls), NEW g,
           Without(g, ls, i, r)
    PROVE  LineSum(ls) = ls[i].size + LineSum(r) /\ LineSum(r) \in Nat /\ ls[i].size \in Nat
<1>. DEFINE S == 1..Len(ls)
            R == 1..Len(r)
            f == SizesOf(ls)
            h == SizesOf(r)
<1>1. /\ IsFiniteSet(S) /\ IsFiniteSet(R)
      /\ \A j \in S : f[j] = ls[j].size /\ f[j] \in Nat
      /\ \A j \in R : h[j] = r[j].size /\ h[j] \in Nat
  BY LineSumType
<1>2. LineSum(ls) = SumOver(f, S) /\ LineSum(r) = SumOver(h, R) /\ LineSum(r) \in Nat
  BY LineSumType DEF LineSum
<1>3. /\ i \in S
      /\ \A j \in R : g[j] \in S /\ g[j] # i /\ r[j] = ls[g[j]]
      /\ \A j, k \in R : j # k => g[j] # g[k]
      /\ \A m \in S : m # i => \E j \in R : g[j] = m
  BY Zenon DEF Without
<1>. HIDE DEF S, R, f, h
<1>4. \A j \in S : f[j] \in Nat
  BY <1>1, Zenon
<1>5. ASSUME NEW j \in R PROVE h[j] \in Nat /\ g[j] \in S /\ g[j] # i /\ h[j] = f[g[j]]
  <2>1. g[j] \in S /\ g[j] # i /\ r[j] = ls[g[j]]
    BY <1>3, Zenon
  <2>2. f[g[j]] = ls[g[j]].size
    BY <1>1, <2>1, Zenon
  <2>3. h[j] \in Nat /\ h[j] = r[j].size
    BY <1>1, Zenon
  <2>. QED
    BY <2>1, <2>2, <2>3
<1>6. SumOver(f, S) = f[i] + SumOver(h, R)
  <2>1. IsFiniteSet(S) /\ IsFiniteSet(R)
    BY <1>1
  <2>2. Renames(g, f, S, i, h, R)
    BY <1>3, <1>4, <1>5, Zenon DEF Renames
  <2>. QED
    BY <2>1, <2>2, SumWithout
<1>. QED
  BY <1>1, <1>2, <1>3, <1>6, Zenon

\* A line is appended to the table.
LEMMA LineSumAppended ==
    ASSUME NEW ls \in Seq(Line), NEW x \in Line
    PROVE  LineSum(Append(ls, x)) = LineSum(ls) + x.size
<1>. DEFINE n == Len(ls)
            r == Append(ls, x)
            f == SizesOf(r)
            h == SizesOf(ls)
<1>1. n \in Nat /\ r \in Seq(Line) /\ Len(r) = n + 1 /\ r[n + 1] = x /\ \A i \in 1..n : r[i] = ls[i]
  OBVIOUS
<1>. HIDE DEF r
<1>2. /\ IsFiniteSet(1..n + 1) /\ \A i \in 1..n + 1 : f[i] = r[i].size /\ f[i] \in Nat
  BY <1>1, LineSumType
<1>3. IsFiniteSet(1..n) /\ \A i \in 1..n : h[i] = ls[i].size /\ h[i] \in Nat
  BY LineSumType
<1>0. LineSum(r) = SumOver(f, 1..n + 1) /\ LineSum(ls) = SumOver(h, 1..n)
  BY <1>1 DEF LineSum
<1>4. (1..n + 1) \ {n + 1} = 1..n /\ n + 1 \in 1..n + 1
  BY <1>1
<1>t. LineSum(ls) \in Nat /\ x.size \in Nat
  BY LineSumType DEF Line
<1>. HIDE DEF n, f, h
<1>5. SumOver(f, 1..n + 1) = f[n + 1] + SumOver(f, (1..n + 1) \ {n + 1})
  <2>1. IsFiniteSet(1..n + 1) /\ \A i \in 1..n + 1 : f[i] \in Nat
    BY <1>2
  <2>. QED
    BY <1>4, <2>1, SumTakes
<1>6. \A i \in 1..n : f[i] = h[i]
  <2>1. \A i \in 1..n : i \in 1..n + 1
    BY <1>1
  <2>. QED
    BY <1>1, <1>2, <1>3, <2>1 DEF n
<1>7. SumOver(f, 1..n) = SumOver(h, 1..n)
  BY <1>3, <1>6, SumSame, Zenon
<1>8. f[n + 1] = x.size
  BY <1>1, <1>2, <1>4
<1>9. LineSum(r) = x.size + LineSum(ls)
  BY <1>0, <1>4, <1>5, <1>7, <1>8, Zenon
<1>10. LineSum(r) = LineSum(ls) + x.size
  BY <1>9, <1>t
<1>. QED
  BY <1>10 DEF r

\* The temporary buffers add up to a natural number.
LEMMA TempSumType ==
    ASSUME ThreadsOK
    PROVE  /\ IsFiniteSet(Temps(pc)) /\ TempSum(ctx, pc) \in Nat
           /\ \A u \in Temps(pc) : /\ ctx[u].blk \in Block
                                   /\ TempsOf(ctx, pc)[u] = BlockSize(ctx[u].blk)
                                   /\ TempsOf(ctx, pc)[u] \in Nat
<1>1. IsFiniteSet(Temps(pc))
  BY MemoryAssumption, FS_Subset DEF Temps
<1>2. ASSUME NEW u \in Temps(pc)
      PROVE  /\ ctx[u].blk \in Block /\ TempsOf(ctx, pc)[u] = BlockSize(ctx[u].blk)
             /\ TempsOf(ctx, pc)[u] \in Nat
  <2>1. u \in Everyone /\ pc[u] \in {"hold", "used"}
    BY Constants DEF Temps, Entered
  <2>2. ctx[u].blk # NULL /\ ctx[u] \in Context
    BY <2>1, KindAt DEF Holding, ThreadsOK
  <2>3. ctx[u].blk \in Block /\ ctx[u].blk.pages \in Nat
    BY <2>2 DEF Context, MaybeBlock, Block
  <2>4. BlockSize(ctx[u].blk) \in Nat
    BY <2>3, ArenaHasPages DEF BlockSize
  <2>. QED
    BY <2>3, <2>4 DEF TempsOf
<1>3. TempSum(ctx, pc) \in Nat
  BY <1>1, <1>2, SumType DEF TempSum
<1>. QED
  BY <1>1, <1>2, <1>3

\* A step of a thread that neither had a buffer entered nor has one now.
LEMMA TempsStay ==
    ASSUME NEW t, \A u \in Everyone : u # t => ctx'[u] = ctx[u] /\ pc'[u] = pc[u],
           pc[t] \notin Entered, pc'[t] \notin Entered
    PROVE  TempSum(ctx', pc') = TempSum(ctx, pc)
<1>1. Temps(pc') = Temps(pc)
  BY Constants DEF Temps
<1>2. \A u \in Temps(pc) : ctx'[u] = ctx[u]
  BY Constants DEF Temps
<1>3. TempsOf(ctx', pc') = TempsOf(ctx, pc)
  BY <1>1, <1>2 DEF TempsOf
<1>. QED
  BY <1>1, <1>3 DEF TempSum


\* A thread enters its buffer.
LEMMA TempsGain ==
    ASSUME ThreadsOK, NEW t \in Threads,
           \A u \in Everyone : u # t => ctx'[u] = ctx[u] /\ pc'[u] = pc[u],
           pc[t] \notin Entered, pc'[t] \in Entered, BlockSize(ctx'[t].blk) \in Nat
    PROVE  TempSum(ctx', pc') = BlockSize(ctx'[t].blk) + TempSum(ctx, pc)
<1>. DEFINE S == Temps(pc)
            f == TempsOf(ctx, pc)
            h == TempsOf(ctx', pc')
<1>1. Temps(pc') = S \cup {t} /\ t \notin S
  BY Constants DEF Temps
<1>2. \A u \in S : ctx'[u] = ctx[u] /\ u # t
  BY <1>1, Constants DEF Temps
<1>3. IsFiniteSet(S) /\ \A u \in S : f[u] = BlockSize(ctx[u].blk) /\ f[u] \in Nat
  BY TempSumType
<1>4. \A u \in S \cup {t} : h[u] = BlockSize(ctx'[u].blk)
  BY <1>1 DEF TempsOf
<1>5. /\ \A u \in S : f[u] \in Nat /\ h[u] = f[u]
      /\ h[t] = BlockSize(ctx'[t].blk) /\ h[t] \in Nat
  BY <1>2, <1>3, <1>4
<1>6. TempSum(ctx', pc') = SumOver(h, S \cup {t}) /\ TempSum(ctx, pc) = SumOver(f, S)
  BY <1>1 DEF TempSum
<1>. HIDE DEF S, f, h
<1>7. SumOver(h, S \cup {t}) = h[t] + SumOver(f, S)
  BY <1>1, <1>3, <1>5, SumWith
<1>. QED
  BY <1>5, <1>6, <1>7

\* A thread takes its buffer out.
LEMMA TempsLose ==
    ASSUME ThreadsOK, NEW t \in Threads,
           \A u \in Everyone : u # t => ctx'[u] = ctx[u] /\ pc'[u] = pc[u],
           pc[t] \in Entered, pc'[t] \notin Entered
    PROVE  /\ TempSum(ctx, pc) = BlockSize(ctx[t].blk) + TempSum(ctx', pc')
           /\ TempSum(ctx', pc') \in Nat /\ BlockSize(ctx[t].blk) \in Nat
<1>. DEFINE S == Temps(pc')
            f == TempsOf(ctx', pc')
            h == TempsOf(ctx, pc)
<1>1. Temps(pc) = S \cup {t} /\ t \notin S
  BY Constants DEF Temps
<1>2. \A u \in S : ctx'[u] = ctx[u] /\ u # t
  BY <1>1, Constants DEF Temps
<1>3. /\ IsFiniteSet(Temps(pc))
      /\ \A u \in S \cup {t} : h[u] = BlockSize(ctx[u].blk) /\ h[u] \in Nat
  BY <1>1, TempSumType
<1>f. IsFiniteSet(S)
  BY <1>1, <1>3, FS_Subset
<1>4. \A u \in S : f[u] = BlockSize(ctx'[u].blk)
  BY DEF TempsOf
<1>5. /\ \A u \in S : f[u] \in Nat /\ h[u] = f[u]
      /\ h[t] = BlockSize(ctx[t].blk) /\ h[t] \in Nat
  BY <1>2, <1>3, <1>4
<1>6. TempSum(ctx, pc) = SumOver(h, S \cup {t}) /\ TempSum(ctx', pc') = SumOver(f, S)
  BY <1>1 DEF TempSum
<1>. HIDE DEF S, f, h
<1>7. SumOver(h, S \cup {t}) = h[t] + SumOver(f, S)
  <2>1. t \notin S /\ h[t] \in Nat
    BY <1>1, <1>5, Zenon
  <2>2. \A u \in S : f[u] \in Nat /\ h[u] = f[u]
    BY <1>5, Zenon
  <2>. QED
    BY <1>f, <2>1, <2>2, SumWith
<1>8. SumOver(f, S) \in Nat
  BY <1>5, <1>f, SumType
<1>. QED
  BY <1>5, <1>6, <1>7, <1>8

\* The account of one step: a line leaves, a line comes, a buffer comes or goes, or nothing.
LineLeaves ==
    /\ TempSum(ctx', pc') = TempSum(ctx, pc)
    /\ \E i \in 1..Len(lines) :
         /\ lines' = SubSeq(lines, 1, i - 1) \o SubSeq(lines, i + 1, Len(lines))
         /\ current_memory' = current_memory - lines[i].size

LineComes(x) ==
    /\ TempSum(ctx', pc') = TempSum(ctx, pc)
    /\ x \in Line /\ x.buf = NULL /\ lines' = Append(lines, x) /\ ~ OverBudget(x.size)
    /\ current_memory' = current_memory + x.size

BufferComes(n) ==
    /\ TempSum(ctx', pc') = n + TempSum(ctx, pc)
    /\ n \in Nat /\ lines' = lines /\ ~ OverBudget(n)
    /\ current_memory' = current_memory + n

BufferGoes(n) ==
    /\ TempSum(ctx, pc) = n + TempSum(ctx', pc') /\ TempSum(ctx', pc') \in Nat
    /\ n \in Nat /\ lines' = lines
    /\ current_memory' = current_memory - n

AccountRests ==
    /\ TempSum(ctx', pc') = TempSum(ctx, pc)
    /\ LineSum(lines') = LineSum(lines) /\ Len(lines') = Len(lines)
    /\ current_memory' = current_memory

\* A sum of three, and one of them off or on again.
LEMMA OffAndOn ==
    ASSUME NEW a \in Nat, NEW b \in Nat, NEW c \in Nat
    PROVE  /\ ((c + a) + b) - c = a + b
           /\ (a + (c + b)) - c = a + b
           /\ (a + b) + c = a + (c + b)
  OBVIOUS

\* Each of them keeps the account.
LEMMA AccountKept ==
    ASSUME ThreadsOK, LinesOK, Account(current_memory, ctx, pc, lines),
           \/ LineLeaves \/ (\E x : LineComes(x)) \/ (\E n : BufferComes(n))
           \/ (\E n : BufferGoes(n)) \/ AccountRests
    PROVE  Account(current_memory', ctx', pc', lines')
<1>0. TempSum(ctx, pc) \in Nat /\ lines \in Seq(Line) /\ LineSum(lines) \in Nat
  BY LineSumType, TempSumType DEF LinesOK
<1>1. CASE LineLeaves
  <2>1. PICK i \in 1..Len(lines) :
          /\ lines' = SubSeq(lines, 1, i - 1) \o SubSeq(lines, i + 1, Len(lines))
          /\ current_memory' = current_memory - lines[i].size
    BY <1>1 DEF LineLeaves
  <2>2. lines' \in Seq(Line) /\ \E g : Without(g, lines, i, lines')
    BY <2>1, LinesRemoved, Zenon DEF Without
  <2>3. /\ LineSum(lines) = lines[i].size + LineSum(lines') /\ LineSum(lines') \in Nat
        /\ lines[i].size \in Nat
    BY <1>0, <2>2, LineSumRemoved, Zenon
  <2>4. current_memory = LineSum(lines) + TempSum(ctx, pc) /\ TempSum(ctx', pc') = TempSum(ctx, pc)
    BY <1>1 DEF Account, LineLeaves
  <2>5. current_memory' = current_memory - lines[i].size
    BY <2>1
  <2>6. current_memory' = LineSum(lines') + TempSum(ctx, pc)
    <3>1. ((lines[i].size + LineSum(lines')) + TempSum(ctx, pc)) - lines[i].size
            = LineSum(lines') + TempSum(ctx, pc)
      BY <1>0, <2>3, OffAndOn, Zenon
    <3>. QED
      BY <2>3, <2>4, <2>5, <3>1, Zenon
  <2>. QED
    BY <2>4, <2>6 DEF Account
<1>2. ASSUME NEW x, LineComes(x) PROVE Account(current_memory', ctx', pc', lines')
  <2>1. LineSum(lines') = LineSum(lines) + x.size /\ x.size \in Nat
    BY <1>0, <1>2, LineSumAppended DEF LineComes, Line
  <2>2. /\ current_memory = LineSum(lines) + TempSum(ctx, pc)
        /\ TempSum(ctx', pc') = TempSum(ctx, pc) /\ current_memory' = current_memory + x.size
    BY <1>2 DEF Account, LineComes
  <2>3. current_memory' = LineSum(lines') + TempSum(ctx', pc')
    BY <1>0, <2>1, <2>2
  <2>. QED
    BY <2>3 DEF Account
<1>3. ASSUME NEW n, BufferComes(n)
      PROVE  Account(current_memory', ctx', pc', lines')
  <2>1. /\ current_memory = LineSum(lines) + TempSum(ctx, pc) /\ lines' = lines /\ n \in Nat
        /\ TempSum(ctx', pc') = n + TempSum(ctx, pc) /\ current_memory' = current_memory + n
    BY <1>3 DEF Account, BufferComes
  <2>2. (LineSum(lines) + TempSum(ctx, pc)) + n = LineSum(lines) + (n + TempSum(ctx, pc))
    BY <1>0, <2>1, OffAndOn, Zenon
  <2>. QED
    BY <2>1, <2>2, Zenon DEF Account
<1>5. ASSUME NEW n, BufferGoes(n)
      PROVE  Account(current_memory', ctx', pc', lines')
  <2>1. /\ current_memory = LineSum(lines) + TempSum(ctx, pc) /\ lines' = lines /\ n \in Nat
        /\ TempSum(ctx, pc) = n + TempSum(ctx', pc') /\ current_memory' = current_memory - n
        /\ TempSum(ctx', pc') \in Nat
    BY <1>5 DEF Account, BufferGoes
  <2>2. (LineSum(lines) + (n + TempSum(ctx', pc'))) - n = LineSum(lines) + TempSum(ctx', pc')
    BY <1>0, <2>1, OffAndOn, Zenon
  <2>. QED
    BY <2>1, <2>2, Zenon DEF Account
<1>4. CASE AccountRests
  BY <1>4 DEF Account, AccountRests
<1>. QED
  BY <1>1, <1>2, <1>3, <1>4, <1>5

\* The thread that takes the step gives up no block that it has entered.
LEMMA BackStays ==
    ASSUME BackOK(ctx, pc), NEW t,
           \A u \in Everyone : u # t => ctx'[u] = ctx[u] /\ pc'[u] = pc[u],
           pc'[t] \in {"advise", "publish"} => ctx'[t].back \notin Entered
    PROVE  BackOK(ctx', pc')
  BY DEF BackOK

\* One of the five kinds of step.
Counted ==
    \/ LineLeaves \/ (\E x : LineComes(x)) \/ (\E n : BufferComes(n))
    \/ (\E n : BufferGoes(n)) \/ AccountRests

\* A quiet step of a thread without a block.
LEMMA QuietCounted ==
    ASSUME ThreadsOK, BackOK(ctx, pc), NEW t \in Everyone, NEW c, NEW l, Quiet(t, c, l),
           pc[t] \notin Holding \cup {"advise", "publish"}, current_memory' = current_memory
    PROVE  Counted /\ BackOK(ctx', pc')
<1>1. Moved(t, c, l) /\ lines' = lines /\ c.blk = ctx[t].blk /\ c.victim = ctx[t].victim
  BY DEF Quiet
<1>2. /\ ctx'[t] = c /\ pc'[t] = l /\ ThreadOK(t, c, l)
      /\ \A u \in Everyone : u # t => ctx'[u] = ctx[u] /\ pc'[u] = pc[u]
  <2>1. ThreadOK(t, c, l)
    BY <1>1 DEF Moved
  <2>. QED
    BY <1>1, <2>1, MovedMeaning
<1>3. c.blk = NULL /\ c.victim = NULL
  BY <1>1, KindAt
<1>4. l \notin {"advise", "publish"} /\ l \notin Holding
  BY <1>2, <1>3 DEF ThreadOK, At
<1>5. pc[t] \notin Entered /\ pc'[t] \notin Entered /\ pc'[t] \notin {"advise", "publish"}
  BY <1>2, <1>4 DEF Entered, Holding
<1>6. TempSum(ctx', pc') = TempSum(ctx, pc)
  BY <1>2, <1>5, TempsStay
<1>7. BackOK(ctx', pc')
  BY <1>2, <1>5, BackStays
<1>. QED
  BY <1>1, <1>6, <1>7 DEF Counted, AccountRests

\* The quiet steps but Enter are such steps.
LEMMA QuietPlaces ==
    /\ \A t : PipeQuiet(t) /\ ~ Enter(t) =>
         /\ pc[t] \notin Holding \cup {"advise", "publish"} /\ current_memory' = current_memory
    /\ \A t : TimerQuiet(t) =>
         /\ pc[t] \notin Holding \cup {"advise", "publish"} /\ current_memory' = current_memory
<1>1. ASSUME NEW t, NEW size, AllocAlign(t, size) \/ CreateEntry(t, size)
      PROVE  pc[t] = "idle" /\ current_memory' = current_memory
  BY <1>1 DEF AllocAlign, CreateEntry, lineVars
<1>2. ASSUME NEW t, NoSpace(t) \/ (SpaceMade(t) /\ ctx[t].kind # "line")
      PROVE  pc[t] = "space" /\ current_memory' = current_memory
  BY <1>2 DEF NoSpace, SpaceMade, InLock, lineVars
<1>3. ASSUME NEW t, Valve(t) \/ ShedTrim(t) \/ ShedNothing(t) \/ ShedderDone(t)
      PROVE  pc[t] \in {"valve", "shed"} /\ current_memory' = current_memory
  BY <1>3 DEF Valve, ShedTrim, ShedNothing, ShedderDone, InLock, lineVars
<1>4. ASSUME NEW t, ArenaFull(t) \/ CommitFailed(t) \/ DefragDone(t) \/ Unlock(t)
      PROVE  pc[t] \in {"carve", "failed", "defrag", "unlock"} /\ current_memory' = current_memory
  BY <1>4 DEF ArenaFull, CommitFailed, DefragDone, Unlock, InLock, lineVars
<1>5. ASSUME NEW t, Shedder(t) \/ FlushOld(t) \/ SweepDone(t) \/ TrimAlone(t)
      PROVE  pc[t] \in {"idle", "sweep", "trim"} /\ current_memory' = current_memory
  <2>1. CASE Shedder(t)
    BY <2>1 DEF Shedder, lineVars
  <2>2. CASE FlushOld(t)
    BY <2>2 DEF FlushOld, lineVars
  <2>3. CASE SweepDone(t) \/ TrimAlone(t)
    BY <2>3 DEF SweepDone, TrimAlone, InLock, lineVars
  <2>. QED
    BY <1>5, <2>1, <2>2, <2>3
<1>6. ASSUME NEW t, PipeQuiet(t), ~ Enter(t)
      PROVE  /\ pc[t] \in {"idle", "space", "valve", "shed", "carve", "failed", "defrag", "unlock"}
             /\ current_memory' = current_memory
  BY <1>1, <1>2, <1>3, <1>4, <1>6 DEF PipeQuiet
<1>7. ASSUME NEW t, TimerQuiet(t)
      PROVE  /\ pc[t] \in {"idle", "sweep", "trim", "valve", "shed"}
             /\ current_memory' = current_memory
  BY <1>3, <1>5, <1>7 DEF TimerQuiet
<1>. QED
  BY <1>6, <1>7 DEF Holding

\* A temporary buffer is entered.
LEMMA EnterCounted ==
    ASSUME ThreadsOK, BackOK(ctx, pc), NEW t \in Threads, Enter(t)
    PROVE  Counted /\ BackOK(ctx', pc')
<1>0. t \in Everyone /\ pc \in [Everyone -> Labels] /\ ctx[t] \in Context
  BY Constants DEF ThreadsOK
<1>a. /\ pc[t] = "enter" /\ pc' = [pc EXCEPT ![t] = "hold"] /\ ctx' = ctx /\ lines' = lines
      /\ current_memory' = current_memory + BlockSize(ctx[t].blk)
      /\ ~ OverBudget(BlockSize(ctx[t].blk))
  BY DEF Enter, InLock, Goto
<1>1. pc'[t] = "hold" /\ \A u \in Everyone : u # t => ctx'[u] = ctx[u] /\ pc'[u] = pc[u]
  BY <1>0, <1>a
<1>2. BlockSize(ctx[t].blk) \in Nat
  <2>1. ctx[t].blk # NULL
    BY <1>0, <1>a, KindAt DEF Holding
  <2>2. ctx[t].blk.pages \in Nat
    BY <1>0, <2>1 DEF Context, MaybeBlock, Block
  <2>. QED
    BY <2>2, ArenaHasPages DEF BlockSize
<1>3. TempSum(ctx', pc') = BlockSize(ctx'[t].blk) + TempSum(ctx, pc)
  BY <1>1, <1>2, <1>a, TempsGain DEF Entered
<1>4. BufferComes(BlockSize(ctx[t].blk))
  BY <1>2, <1>3, <1>a DEF BufferComes
<1>5. BackOK(ctx', pc')
  BY <1>1, BackStays
<1>. QED
  BY <1>4, <1>5, Zenon DEF Counted

\* An eviction.
LEMMA EvictCounted ==
    ASSUME ThreadsOK, LinesOK, BackOK(ctx, pc), NEW t \in Everyone,
           pc[t] \notin {"advise", "publish"} \cup Entered,
           NEW i \in Evictable, NEW back, back \notin Entered, Evict(t, i, back)
    PROVE  Counted /\ BackOK(ctx', pc')
<1>1. /\ i \in 1..Len(lines)
      /\ lines' = SubSeq(lines, 1, i - 1) \o SubSeq(lines, i + 1, Len(lines))
      /\ current_memory' = current_memory - lines[i].size
      /\ ctx'[t].back = back /\ pc'[t] = "advise"
      /\ \A u \in Everyone : u # t => ctx'[u] = ctx[u] /\ pc'[u] = pc[u]
  BY EvictMeaning
<1>2. TempSum(ctx', pc') = TempSum(ctx, pc)
  BY <1>1, TempsStay DEF Entered
<1>3. LineLeaves
  BY <1>1, <1>2, Zenon DEF LineLeaves
<1>4. BackOK(ctx', pc')
  BY <1>1, BackStays
<1>. QED
  BY <1>3, <1>4 DEF Counted

\* The steps that give a block back; a temporary buffer is taken off the account.
LEMMA GivingUpCounted ==
    ASSUME ThreadsOK, BackOK(ctx, pc), NEW t \in Threads,
           CommitFails(t) \/ EnterFails(t) \/ FreeAlign(t)
    PROVE  Counted /\ BackOK(ctx', pc')
<1>1. /\ lines' = lines /\ pc'[t] = "advise" /\ ctx'[t].back \in {"failed", "idle", "unlock"}
      /\ \A u \in Everyone : u # t => ctx'[u] = ctx[u] /\ pc'[u] = pc[u]
  BY GivingUpMeaning
<1>2. BackOK(ctx', pc')
  BY <1>1, BackStays DEF Entered
<1>3. CASE CommitFails(t) \/ EnterFails(t)
  <2>1. pc[t] \in {"commit", "enter"} /\ current_memory' = current_memory
    BY <1>3 DEF CommitFails, EnterFails, InLock, lineVars
  <2>2. TempSum(ctx', pc') = TempSum(ctx, pc)
    BY <1>1, <2>1, TempsStay DEF Entered
  <2>. QED
    BY <1>1, <1>2, <2>1, <2>2 DEF Counted, AccountRests
<1>4. CASE FreeAlign(t)
  <2>1. pc[t] = "used" /\ current_memory' = current_memory - BlockSize(ctx[t].blk)
    BY <1>4 DEF FreeAlign, InLock
  <2>2. /\ TempSum(ctx, pc) = BlockSize(ctx[t].blk) + TempSum(ctx', pc')
        /\ TempSum(ctx', pc') \in Nat /\ BlockSize(ctx[t].blk) \in Nat
    BY <1>1, <2>1, TempsLose DEF Entered
  <2>3. BufferGoes(BlockSize(ctx[t].blk))
    BY <1>1, <2>1, <2>2 DEF BufferGoes
  <2>. QED
    BY <1>2, <2>3, Zenon DEF Counted
<1>. QED
  BY <1>3, <1>4

\* The steps of a writer on its line.
LEMMA WriterCounted ==
    ASSUME MemInv, MemInv', BackOK(ctx, pc), NEW t \in Threads,
           LineGot(t) \/ FillLine(t) \/ UndoLine(t) \/ (SpaceMade(t) /\ ctx[t].kind = "line")
    PROVE  Counted /\ BackOK(ctx', pc')
<1>0. /\ ThreadsOK /\ LinesOK /\ LinesOK' /\ t \in Everyone /\ pc \in [Everyone -> Labels]
      /\ ctx \in [Everyone -> Context] /\ DOMAIN lines = 1..Len(lines)
  <2>1. ThreadsOK /\ LinesOK /\ LinesOK'
    BY Zenon DEF MemInv
  <2>2. t \in Everyone
    BY Constants
  <2>3. pc \in [Everyone -> Labels] /\ ctx \in [Everyone -> Context]
    BY <2>1, Zenon DEF ThreadsOK
  <2>4. DOMAIN lines = 1..Len(lines)
    BY <2>1 DEF LinesOK
  <2>. QED
    BY <2>1, <2>2, <2>3, <2>4
<1>1. /\ pc[t] \in {"got", "fill", "undo", "space"} /\ pc'[t] \in {"fill", "idle", "valve"}
      /\ \A u \in Everyone : u # t => ctx'[u] = ctx[u] /\ pc'[u] = pc[u]
  <2>1. CASE LineGot(t)
    BY <1>0, <2>1 DEF LineGot, Call, Goto
  <2>2. CASE FillLine(t)
    BY <1>0, <2>2 DEF FillLine, Return, Call, Goto
  <2>3. CASE UndoLine(t)
    BY <1>0, <2>3 DEF UndoLine, InLock, Return, Call, Goto
  <2>4. CASE SpaceMade(t)
    BY <1>0, <2>4 DEF SpaceMade, InLock, Goto
  <2>. QED
    BY <2>1, <2>2, <2>3, <2>4
<1>2. TempSum(ctx', pc') = TempSum(ctx, pc)
  BY <1>1, TempsStay DEF Entered
<1>3. BackOK(ctx', pc')
  BY <1>1, BackStays
<1>4. CASE LineGot(t) \/ FillLine(t)
  <2>1. /\ DOMAIN lines' = 1..Len(lines) /\ current_memory' = current_memory
        /\ \A i \in 1..Len(lines) : lines'[i].size = lines[i].size
    <3>1. \A i \in 1..Len(lines) : lines[i] \in Line
      BY <1>0 DEF LinesOK
    <3>2. CASE LineGot(t)
      BY <1>0, <3>1, <3>2 DEF LineGot, Line
    <3>3. CASE FillLine(t)
      <4>1. PICK i \in 1..Len(lines) : lines' = [lines EXCEPT ![i].user = NULL]
        BY <1>0, <3>3, Zenon DEF FillLine
      <4>2. current_memory' = current_memory
        BY <3>3 DEF FillLine
      <4>. QED
        BY <1>0, <3>1, <4>1, <4>2 DEF Line
    <3>. QED
      BY <1>4, <3>2, <3>3
  <2>2. Len(lines') = Len(lines)
    BY <1>0, <2>1 DEF LinesOK
  <2>3. SizesOf(lines') = SizesOf(lines)
    BY <2>1, <2>2 DEF SizesOf
  <2>4. LineSum(lines') = LineSum(lines)
    BY <2>2, <2>3 DEF LineSum
  <2>. QED
    BY <1>2, <1>3, <2>1, <2>2, <2>4 DEF Counted, AccountRests
<1>5. CASE UndoLine(t)
  <2>1. PICK i \in 1..Len(lines) :
          /\ lines' = SubSeq(lines, 1, i - 1) \o SubSeq(lines, i + 1, Len(lines))
          /\ current_memory' = current_memory - lines[i].size
    BY <1>0, <1>5, Zenon DEF UndoLine
  <2>2. LineLeaves
    BY <1>2, <2>1, Zenon DEF LineLeaves
  <2>. QED
    BY <1>3, <2>2 DEF Counted
<1>6. CASE SpaceMade(t) /\ ctx[t].kind = "line"
  <2>. DEFINE x == [size |-> ctx[t].req, buf |-> NULL, user |-> t]
  <2>1. /\ lines' = Append(lines, x) /\ current_memory' = current_memory + ctx[t].req
        /\ ~ OverBudget(ctx[t].req)
    BY <1>6 DEF SpaceMade
  <2>2. x \in Line /\ x.size = ctx[t].req /\ x.buf = NULL
    BY <1>0 DEF Line, MaybeBlock, Context
  <2>. HIDE DEF x
  <2>3. LineComes(x)
    BY <1>2, <2>1, <2>2 DEF LineComes
  <2>. QED
    BY <1>3, <2>3, Zenon DEF Counted
<1>. QED
  BY <1>4, <1>5, <1>6

\* The steps of an allocation or a release in the arena, and of the use of a buffer.
LEMMA ArenaCounted ==
    ASSUME ThreadsOK, BackOK(ctx, pc), NEW t \in Everyone,
           \/ ArenaAlloc(t) \/ CommitBlock(t) \/ UseTemp(t) \/ AdvisePages(t) \/ PublishPages(t)
    PROVE  Counted /\ BackOK(ctx', pc')
<1>0. pc \in [Everyone -> Labels] /\ ctx \in [Everyone -> Context]
  BY DEF ThreadsOK
<1>1. lines' = lines /\ current_memory' = current_memory
  BY DEF ArenaAlloc, CommitBlock, UseTemp, AdvisePages, PublishPages, lineVars
<1>2. CASE UseTemp(t)
  <2>1. pc[t] = "hold" /\ pc' = [pc EXCEPT ![t] = "used"] /\ ctx' = ctx
    BY <1>2 DEF UseTemp, Goto
  <2>2. Temps(pc') = Temps(pc)
    BY <1>0, <2>1, Constants DEF Temps, Entered
  <2>3. TempSum(ctx', pc') = TempSum(ctx, pc)
    BY <2>1, <2>2 DEF TempSum, TempsOf
  <2>4. BackOK(ctx', pc')
    BY <1>0, <2>1 DEF BackOK
  <2>. QED
    BY <1>1, <2>3, <2>4 DEF Counted, AccountRests
<1>3. CASE ~ UseTemp(t)
  <2>1. /\ pc[t] \notin Entered /\ pc'[t] \notin Entered
        /\ pc'[t] \in {"advise", "publish"} => ctx'[t].back \notin Entered
        /\ \A u \in Everyone : u # t => ctx'[u] = ctx[u] /\ pc'[u] = pc[u]
    <3>1. CASE ArenaAlloc(t)
      <4>1. PICK c, l : /\ ctx' = [ctx EXCEPT ![t] = c] /\ pc' = [pc EXCEPT ![t] = l]
                        /\ l \in {"commit", "enter", "got"}
        BY <3>1 DEF ArenaAlloc, Call, Goto, Got
      <4>2. pc[t] = "carve"
        BY <3>1 DEF ArenaAlloc
      <4>. QED
        BY <1>0, <4>1, <4>2 DEF Entered
    <3>2. CASE CommitBlock(t)
      BY <1>0, <3>2 DEF CommitBlock, Goto, Got, Entered
    <3>3. CASE AdvisePages(t)
      BY <1>0, <3>3 DEF AdvisePages, Goto, Entered, BackOK
    <3>4. CASE PublishPages(t)
      <4>1. /\ pc[t] = "publish" /\ pc' = [pc EXCEPT ![t] = ctx[t].back]
            /\ ctx' = [ctx EXCEPT ![t] = [ctx[t] EXCEPT !.victim = NULL, !.back = "idle"]]
        BY <3>4 DEF PublishPages, Call, Goto
      <4>2. ctx[t].back \notin Entered /\ ctx'[t].back = "idle"
        BY <1>0, <4>1 DEF BackOK, Context
      <4>. QED
        BY <1>0, <4>1, <4>2 DEF Entered
    <3>. QED
      BY <1>3, <3>1, <3>2, <3>3, <3>4
  <2>2. TempSum(ctx', pc') = TempSum(ctx, pc)
    BY <2>1, TempsStay
  <2>3. BackOK(ctx', pc')
    BY <2>1, BackStays
  <2>. QED
    BY <1>1, <2>2, <2>3 DEF Counted, AccountRests
<1>. QED
  BY <1>2, <1>3

\* Every step is of one of the five kinds.
LEMMA StepCounted ==
    ASSUME MemInv, FloorOK, MemInv', BackOK(ctx, pc), [Next]_vars
    PROVE  Counted /\ BackOK(ctx', pc')
<1>0. ThreadsOK /\ LinesOK /\ sys.est \in Nat
  BY DEF MemInv, FloorOK, WithinProbe
<1>l. ASSUME NEW t \in Everyone, NEW back, pc[t] = back,
             back \notin {"advise", "publish"} \cup Entered, RemoveLru(t, back)
      PROVE  Counted /\ BackOK(ctx', pc')
  <2>1. PICK i \in Evictable : Evict(t, i, back)
    BY <1>l, Zenon DEF RemoveLru
  <2>. QED
    BY <1>0, <1>l, <2>1, EvictCounted
<1>1. ASSUME NEW t \in Threads, PipeStep(t)
      PROVE  Counted /\ BackOK(ctx', pc')
  <2>0. t \in Everyone
    BY Constants
  <2>1. CASE PipeQuiet(t) /\ ~ Enter(t)
    <3>1. PICK c, l : Quiet(t, c, l)
      BY <1>0, <2>1, QuietPipe, Zenon
    <3>2. pc[t] \notin Holding \cup {"advise", "publish"} /\ current_memory' = current_memory
      BY <2>1, QuietPlaces, Zenon
    <3>. QED
      BY <1>0, <2>0, <3>1, <3>2, QuietCounted
  <2>2. CASE Enter(t)
    BY <1>0, <2>2, EnterCounted
  <2>3. CASE MakeSpace(t)
    BY <1>l, <2>0, <2>3 DEF MakeSpace, InLock, Entered
  <2>4. CASE Defrag(t)
    BY <1>l, <2>0, <2>4 DEF Defrag, InLock, Entered
  <2>5. CASE EnterMakeSpace(t)
    BY <1>l, <2>0, <2>5 DEF EnterMakeSpace, InLock, Entered
  <2>6. CASE ArenaAlloc(t) \/ CommitBlock(t) \/ UseTemp(t)
    BY <1>0, <2>0, <2>6, ArenaCounted
  <2>7. CASE CommitFails(t) \/ EnterFails(t) \/ FreeAlign(t)
    BY <1>0, <2>7, GivingUpCounted
  <2>8. CASE LineGot(t) \/ FillLine(t) \/ UndoLine(t) \/ (SpaceMade(t) /\ ctx[t].kind = "line")
    BY <2>8, WriterCounted
  <2>. QED
    BY <1>1, <2>1, <2>2, <2>3, <2>4, <2>5, <2>6, <2>7, <2>8, Zenon
    DEF PipeStep, AllocStep, PipeQuiet
<1>2. ASSUME NEW t \in Everyone, AnyStep(t)
      PROVE  Counted /\ BackOK(ctx', pc')
  <2>1. CASE Shed(t)
    BY <1>l, <2>1 DEF Shed, InLock, Entered
  <2>2. CASE AdvisePages(t) \/ PublishPages(t)
    BY <1>0, <2>2, ArenaCounted
  <2>. QED
    BY <1>2, <2>1, <2>2 DEF AnyStep
<1>3. ASSUME Gui # NULL, TimerStep(Gui)
      PROVE  Counted /\ BackOK(ctx', pc')
  <2>0. Gui \in Everyone
    BY <1>3 DEF Everyone
  <2>1. CASE TimerQuiet(Gui)
    <3>1. PICK c, l : Quiet(Gui, c, l)
      BY <1>0, <2>0, <2>1, QuietTimer, Zenon
    <3>2. pc[Gui] \notin Holding \cup {"advise", "publish"} /\ current_memory' = current_memory
      BY <2>1, QuietPlaces, Zenon
    <3>. QED
      BY <1>0, <2>0, <3>1, <3>2, QuietCounted
  <2>2. CASE Sweep(Gui)
    <3>1. PICK i \in Evictable : Evict(Gui, i, "sweep")
      BY <2>2, Zenon DEF Sweep
    <3>2. pc[Gui] = "sweep" /\ "sweep" \notin Entered
      BY <2>2 DEF Sweep, InLock, Entered
    <3>. QED
      BY <1>0, <2>0, <3>1, <3>2, EvictCounted
  <2>. QED
    BY <1>3, <2>1, <2>2 DEF TimerStep, TimerQuiet
<1>4. CASE UNCHANGED <<lines, current_memory, pc, ctx>>
  BY <1>4 DEF Counted, AccountRests
<1>5. CASE Reclaim /\ UNCHANGED <<lineVars, lock, sys, threadVars>>
  BY <1>4, <1>5 DEF lineVars, threadVars
<1>6. CASE UNCHANGED vars
  BY <1>4, <1>6 DEF vars, lineVars, threadVars
<1>. QED
  BY <1>1, <1>2, <1>3, <1>5, <1>6, Zenon DEF Next

\* At first nothing is taken.
LEMMA InitBooks ==
    ASSUME Init
    PROVE  Books
<1>1. current_memory = 0 /\ lines = <<>> /\ \A t \in Everyone : pc[t] = "idle"
  BY DEF Init
<1>2. 1..Len(lines) = {} /\ Temps(pc) = {}
  BY <1>1, Constants DEF Temps, Entered
<1>3. LineSum(lines) = 0 /\ TempSum(ctx, pc) = 0
  BY <1>2, FS_EmptySet, SumUnfolds DEF LineSum, TempSum
<1>4. BackOK(ctx, pc)
  BY <1>1 DEF BackOK
<1>. QED
  BY <1>1, <1>3, <1>4 DEF Books, Account

\* The account goes with the invariant.
THEOREM BooksKept == Spec => []Books
<1>1. Init => Books
  BY InitBooks
<1>2. (MemInv /\ FloorOK) /\ (MemInv /\ FloorOK)' /\ Books /\ [Next]_vars => Books'
  <2>. SUFFICES ASSUME MemInv, FloorOK, MemInv', Books, [Next]_vars
                PROVE  Books'
    OBVIOUS
  <2>1. ThreadsOK /\ LinesOK /\ Account(current_memory, ctx, pc, lines) /\ BackOK(ctx, pc)
    BY DEF MemInv, Books
  <2>2. Counted /\ BackOK(ctx', pc')
    BY <2>1, StepCounted
  <2>3. Account(current_memory', ctx', pc', lines')
    BY <2>1, <2>2, AccountKept DEF Counted
  <2>4. Everyone' = Everyone
    BY DEF Everyone
  <2>. QED
    BY <2>2, <2>3, <2>4, Zenon DEF Books, Account, BackOK, LineSum, SizesOf, TempSum, TempsOf, Temps
<1>. QED
  BY <1>1, <1>2, MemoryKeepsInvariant, PTL DEF Spec

\* cache->current_memory is what the lines and the entered temporary buffers take, whichever
\* thread evicts, fails, or enters a buffer meanwhile.
THEOREM AccountStaysExact == Spec => []AccountExact
<1>1. MemInv /\ Books => AccountExact
  BY AccountMeaning DEF MemInv, Books
<1>. QED
  BY <1>1, BooksKept, MemoryKeepsInvariant, PTL

----------------------------------------------------------------------------
(* The budget *)

\* A product grows with its second factor.
LEMMA TimesMore ==
    ASSUME NEW c \in Nat, NEW a \in Nat, NEW b \in Nat, NEW n \in Nat, a + b <= n
    PROVE  c * a + c * b <= c * n
<1>1. PICK d \in Nat : n = (a + b) + d
  <2>1. n - (a + b) \in Nat /\ n = (a + b) + (n - (a + b))
    OBVIOUS
  <2>. QED
    BY <2>1
<1>2. c * n = c * a + c * b + c * d /\ c * a \in Nat /\ c * b \in Nat /\ c * d \in Nat
  BY <1>1
<1>. QED
  BY <1>2

\* The number of pages of a block, and its size.
LEMMA BlockPages ==
    ASSUME NEW b \in Block
    PROVE  /\ PagesOf(b) \subseteq Pages
           /\ BlockSize(b) = PageSize * Cardinality(PagesOf(b))
<1>1. b.first \in Nat /\ b.pages \in Nat /\ b.pages > 0 /\ b.first + b.pages <= num_pages
  BY DEF Block
<1>2. PagesOf(b) \subseteq Pages
  BY <1>1, PagesMeaning, ArenaHasPages DEF Pages
<1>3. Cardinality(PagesOf(b)) = b.pages
  <2>1. /\ b.first \in Int /\ b.first + b.pages - 1 \in Int
        /\ ~ (b.first > b.first + b.pages - 1)
        /\ (b.first + b.pages - 1) - b.first + 1 = b.pages
    BY <1>1
  <2>. QED
    BY <2>1, FS_Interval DEF PagesOf
<1>. QED
  BY <1>2, <1>3 DEF BlockSize

\* When every line has its buffer, the account is no more than the arena: the buffers share
\* no page.
LEMMA BufferedFits ==
    ASSUME MemInv, Books, \A i \in 1..Len(lines) : lines[i].buf # NULL
    PROVE  current_memory <= max_memory
<1>. DEFINE S == 1..Len(lines)
            T == Temps(pc)
            f == SizesOf(lines)
            g == TempsOf(ctx, pc)
            P == [i \in S |-> PagesOf(lines[i].buf)]
            Q == [u \in T |-> PagesOf(ctx[u].blk)]
            A == UNION {P[i] : i \in S}
            B == UNION {Q[u] : u \in T}
<1>0. /\ ThreadsOK /\ LinesOK /\ Apart /\ lines \in Seq(Line)
      /\ current_memory = LineSum(lines) + TempSum(ctx, pc)
  BY DEF MemInv, LinesOK, Books, Account
<1>1. /\ IsFiniteSet(S) /\ IsFiniteSet(T) /\ LineSum(lines) \in Nat /\ TempSum(ctx, pc) \in Nat
      /\ \A i \in S : f[i] = lines[i].size
      /\ \A u \in T : ctx[u].blk \in Block /\ g[u] = BlockSize(ctx[u].blk)
  BY <1>0, LineSumType, TempSumType
<1>2. \A i \in S : /\ lines[i].buf \in Block /\ BlockSize(lines[i].buf) = lines[i].size
                   /\ Mine(lines[i].buf) = PagesOf(lines[i].buf)
  BY <1>0 DEF LinesOK, LineOK, Line, MaybeBlock, Mine
<1>3. \A u \in T : u \in Everyone /\ Mine(ctx[u].blk) = PagesOf(ctx[u].blk)
  BY <1>1, Constants DEF Temps, Mine
<1>4. /\ \A i \in S : P[i] \subseteq Pages /\ f[i] = PageSize * Cardinality(P[i])
      /\ \A u \in T : Q[u] \subseteq Pages /\ g[u] = PageSize * Cardinality(Q[u])
  BY <1>1, <1>2, BlockPages
<1>5. \A i, j \in S : i # j => P[i] \cap P[j] = {}
  BY <1>0, <1>2 DEF Apart, Off
<1>6. \A u, w \in T : u # w => Q[u] \cap Q[w] = {}
  BY <1>0, <1>3 DEF Apart, Off
<1>7. \A i \in S : \A u \in T : P[i] \cap Q[u] = {}
  BY <1>0, <1>2, <1>3 DEF Apart, Off
<1>8. LineSum(lines) = SumOver(f, S) /\ TempSum(ctx, pc) = SumOver(g, T)
  BY DEF LineSum, TempSum
<1>. HIDE DEF S, T, f, g, P, Q
<1>9. /\ A \subseteq Pages /\ B \subseteq Pages /\ A \cap B = {}
      /\ \A i \in S : P[i] \subseteq A
      /\ \A u \in T : Q[u] \subseteq B
  BY <1>4, <1>7
<1>. HIDE DEF A, B
<1>10. IsFiniteSet(Pages) /\ Cardinality(Pages) = num_pages
  <2>1. num_pages \in Nat /\ 0 \in Int /\ num_pages - 1 \in Int /\ ~ (0 > num_pages - 1)
        /\ (num_pages - 1) - 0 + 1 = num_pages
    BY ArenaHasPages
  <2>. QED
    BY <2>1, FS_Interval DEF Pages
<1>11. /\ IsFiniteSet(A) /\ IsFiniteSet(B) /\ Cardinality(A) \in Nat /\ Cardinality(B) \in Nat
       /\ Cardinality(A) + Cardinality(B) <= num_pages
  <2>1. IsFiniteSet(A) /\ IsFiniteSet(B) /\ A \cup B \subseteq Pages
    BY <1>9, <1>10, FS_Subset
  <2>2. IsFiniteSet(A \cup B) /\ Cardinality(A \cup B) <= Cardinality(Pages)
    BY <1>10, <2>1, FS_Subset
  <2>3. Cardinality(A \cup B) = Cardinality(A) + Cardinality(B) - Cardinality(A \cap B)
    BY <2>1, FS_Union
  <2>4. Cardinality(A \cap B) = 0 /\ Cardinality(A) \in Nat /\ Cardinality(B) \in Nat
    BY <1>9, <2>1, FS_EmptySet, FS_CardinalityType
  <2>. QED
    BY <1>10, <2>1, <2>2, <2>3, <2>4
<1>12. SumOver(f, S) <= PageSize * Cardinality(A)
  <2>1. \A i \in S : P[i] \subseteq A /\ f[i] = PageSize * Cardinality(P[i])
    BY <1>4, <1>9
  <2>2. PageSize \in Nat /\ IsFiniteSet(S) /\ IsFiniteSet(A)
    BY <1>1, <1>11, ArenaHasPages
  <2>. QED
    BY <1>5, <2>1, <2>2, SumBounded
<1>13. SumOver(g, T) <= PageSize * Cardinality(B)
  <2>1. \A u \in T : Q[u] \subseteq B /\ g[u] = PageSize * Cardinality(Q[u])
    BY <1>4, <1>9
  <2>2. PageSize \in Nat /\ IsFiniteSet(T) /\ IsFiniteSet(B)
    BY <1>1, <1>11, ArenaHasPages
  <2>. QED
    BY <1>6, <2>1, <2>2, SumBounded
<1>14. PageSize * Cardinality(A) + PageSize * Cardinality(B) <= PageSize * num_pages
  <2>1. PageSize \in Nat /\ num_pages \in Nat
    BY ArenaHasPages
  <2>. QED
    BY <1>11, <2>1, TimesMore
<1>15. /\ PageSize * num_pages <= TotalSize /\ PageSize * num_pages \in Nat /\ TotalSize \in Nat
       /\ PageSize * Cardinality(A) \in Nat /\ PageSize * Cardinality(B) \in Nat
  BY <1>11, ArenaHasPages
<1>. QED
  BY <1>0, <1>1, <1>8, <1>12, <1>13, <1>14, <1>15 DEF max_memory

\* Every line has its buffer.
Buffered == \A i \in 1..Len(lines) : lines[i].buf # NULL

\* A single line either has its buffer or is the one line over the budget.
LEMMA OneLine ==
    ASSUME Len(lines') \in Nat, Len(lines') <= 1
    PROVE  Buffered' \/ BudgetKept'
<1>1. CASE Len(lines') = 0
  BY <1>1 DEF Buffered
<1>2. CASE Len(lines') = 1
  <2>1. \A i \in 1..Len(lines') : i = 1
    BY <1>2
  <2>2. CASE lines'[1].buf = NULL
    BY <1>2, <2>2 DEF BudgetKept
  <2>3. CASE lines'[1].buf # NULL
    BY <2>1, <2>3 DEF Buffered
  <2>. QED
    BY <2>2, <2>3
<1>3. Len(lines') = 0 \/ Len(lines') = 1
  <2>. DEFINE n == Len(lines')
  <2>1. n \in Nat /\ n <= 1
    OBVIOUS
  <2>. HIDE DEF n
  <2>2. n = 0 \/ n = 1
    BY <2>1
  <2>. QED
    BY <2>2 DEF n
<1>. QED
  BY <1>1, <1>2, <1>3

\* After any step the budget is kept, or every line has its buffer.
LEMMA BudgetStep ==
    ASSUME LinesOK, ThreadsOK, Account(current_memory, ctx, pc, lines), BudgetKept, Counted
    PROVE  Buffered' \/ BudgetKept'
<1>0. /\ TempSum(ctx, pc) \in Nat /\ lines \in Seq(Line) /\ LineSum(lines) \in Nat
      /\ Len(lines) \in Nat /\ \A i \in 1..Len(lines) : lines[i].size \in Nat
  BY LineSumType, TempSumType DEF LinesOK
<1>1. current_memory \in Nat /\ max_memory \in Nat /\ max_memory' = max_memory
  BY <1>0, ArenaHasPages DEF Account, max_memory
<1>2. ASSUME current_memory' \in Int, current_memory' <= current_memory,
             current_memory <= max_memory
      PROVE  BudgetKept'
  BY <1>1, <1>2 DEF BudgetKept
<1>3. CASE LineLeaves
  <2>1. PICK i \in 1..Len(lines) :
          /\ lines' = SubSeq(lines, 1, i - 1) \o SubSeq(lines, i + 1, Len(lines))
          /\ current_memory' = current_memory - lines[i].size
    BY <1>3 DEF LineLeaves
  <2>2. CASE current_memory <= max_memory
    <3>1. lines[i].size \in Nat /\ current_memory' = current_memory - lines[i].size
      BY <1>0, <2>1
    <3>2. current_memory' \in Int /\ current_memory' <= current_memory
      BY <1>1, <3>1
    <3>. QED
      BY <1>2, <2>2, <3>2
  <2>3. CASE Len(lines) = 1
    <3>1. Len(lines') = 0
      BY <1>0, <2>1, <2>3
    <3>. QED
      BY <3>1, OneLine
  <2>. QED
    BY <2>2, <2>3 DEF BudgetKept
<1>4. ASSUME NEW x, LineComes(x) PROVE Buffered' \/ BudgetKept'
  <2>1. /\ x \in Line /\ x.size \in Nat /\ lines' = Append(lines, x) /\ ~ OverBudget(x.size)
        /\ current_memory' = current_memory + x.size
    BY <1>4 DEF LineComes, Line
  <2>2. CASE lines = <<>>
    <3>1. Len(lines') = 1
      BY <2>1, <2>2
    <3>. QED
      BY <3>1, OneLine
  <2>3. CASE current_memory + x.size <= max_memory
    BY <1>1, <2>1, <2>3 DEF BudgetKept
  <2>. QED
    BY <1>1, <2>1, <2>2, <2>3 DEF OverBudget
<1>5. ASSUME NEW n, BufferComes(n) PROVE Buffered' \/ BudgetKept'
  <2>1. /\ n \in Nat /\ lines' = lines /\ ~ OverBudget(n)
        /\ current_memory' = current_memory + n
    BY <1>5 DEF BufferComes
  <2>2. CASE lines = <<>>
    <3>1. Len(lines') = 0
      BY <2>1, <2>2
    <3>. QED
      BY <3>1, OneLine
  <2>3. CASE current_memory + n <= max_memory
    BY <1>1, <2>1, <2>3 DEF BudgetKept
  <2>. QED
    BY <1>1, <2>1, <2>2, <2>3 DEF OverBudget
<1>6. ASSUME NEW n, BufferGoes(n) PROVE Buffered' \/ BudgetKept'
  <2>1. n \in Nat /\ lines' = lines /\ current_memory' = current_memory - n
    BY <1>6 DEF BufferGoes
  <2>2. CASE current_memory <= max_memory
    BY <1>1, <1>2, <2>1, <2>2
  <2>3. CASE Len(lines) = 1 /\ lines[1].buf = NULL
    BY <2>1, <2>3 DEF BudgetKept
  <2>. QED
    BY <2>2, <2>3 DEF BudgetKept
<1>7. CASE AccountRests
  <2>1. Len(lines') = Len(lines) /\ current_memory' = current_memory
    BY <1>7 DEF AccountRests
  <2>2. CASE current_memory <= max_memory
    BY <1>1, <1>2, <2>1, <2>2
  <2>3. CASE Len(lines) = 1
    BY <2>1, <2>3, OneLine
  <2>. QED
    BY <2>2, <2>3 DEF BudgetKept
<1>. QED
  BY <1>3, <1>4, <1>5, <1>6, <1>7 DEF Counted

\* The memory on the account is over the budget only while a single line waits for its
\* buffer: _free_space_to_alloc ends with no line left, and the arena holds no more than the
\* budget, so a line that got its buffer fits.
THEOREM BudgetStaysKept == Spec => []BudgetKept
<1>1. Init => BudgetKept
  BY ArenaHasPages DEF Init, BudgetKept, max_memory
<1>2. MemInv /\ Books /\ Buffered => BudgetKept
  BY BufferedFits DEF Buffered, BudgetKept
<1>3. MemInv /\ FloorOK /\ MemInv' /\ Books /\ BudgetKept /\ [Next]_vars
        => Buffered' \/ BudgetKept'
  <2>. SUFFICES ASSUME MemInv, FloorOK, MemInv', Books, BudgetKept, [Next]_vars
                PROVE  Buffered' \/ BudgetKept'
    OBVIOUS
  <2>1. ThreadsOK /\ LinesOK /\ Account(current_memory, ctx, pc, lines) /\ BackOK(ctx, pc)
    BY DEF MemInv, Books
  <2>2. Counted
    BY <2>1, StepCounted
  <2>. QED
    BY <2>1, <2>2, BudgetStep
<1>. QED
  BY <1>1, <1>2, <1>3, BooksKept, MemoryKeepsInvariant, PTL DEF Spec
============================================================================
