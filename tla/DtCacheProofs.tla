--------------------------- MODULE DtCacheProofs ---------------------------
(***************************************************************************)
(* DtCache implements CacheContract: whatever the list and the costs make  *)
(* the collector choose, it only takes entries that nobody uses.  So what  *)
(* CacheContractProofs shows of the contract holds of cache.c.  And the    *)
(* books of the collector are kept: list, table and entries agree, the     *)
(* cost is the sum of the costs, and what goes is the oldest unused, only  *)
(* as long as the cost is too high.                                        *)
(***************************************************************************)
EXTENDS DtCache, TLAPS, FiniteSetTheorems, WellFoundedInduction, SequenceTheorems

----------------------------------------------------------------------------
(***************************************************************************)
(* What two folds of the community modules compute, for every finite set   *)
(* and every list: the sum over a set (MapThenSumSet) and the walk through *)
(* a list that drops some elements (FoldLeft).                             *)
(*                                                                         *)
(* The folds are recursive functions on the subsets of a finite set, and   *)
(* the induction theorems of the library take an operator as a parameter.  *)
(* The lemmas argue instead with the smallest element of a set of          *)
(* naturals, the sizes of the counterexamples.                             *)
(***************************************************************************)

\* Every nonempty set of naturals has a smallest element.
LEMMA Smallest ==
    ASSUME NEW B \in SUBSET Nat, B # {}
    PROVE  \E m \in B : \A k \in B : m <= k
<1>1. \E R : IsWellFoundedOn(R, Nat) /\ \A x, y \in Nat : <<y, x>> \in R <=> y < x
  <2>1. \A x, y \in Nat : <<y, x>> \in OpToRel(<, Nat) <=> y < x
    BY DEF OpToRel
  <2>. QED
    BY <2>1, NatLessThanWellFounded, Zenon
<1>2. PICK R : IsWellFoundedOn(R, Nat) /\ \A x, y \in Nat : <<y, x>> \in R <=> y < x
  BY <1>1, Zenon
<1>3. PICK m \in B : \A k \in B : ~ (<<k, m>> \in R)
  BY <1>2, WFMin, Zenon
<1>4. m \in Nat /\ \A k \in B : k \in Nat /\ ~(k < m)
  BY <1>2, <1>3, Zenon
<1>. QED
  BY <1>3, <1>4

----------------------------------------------------------------------------
(* Sums *)

\* The sum of f[x] over the x in S.
SumOver(f, S) == MapThenSumSet(LAMBDA x : f[x], S)

\* The element that the recursion takes first, and its equation.
First(s) == CHOOSE x \in s : TRUE

IsSum(g, f, S) ==
    g = [s \in SUBSET S |-> IF s = {} THEN 0 ELSE f[First(s)] + g[s \ {First(s)}]]

\* SumOver is what the recursion equation of MapThenSumSet defines.
LEMMA SumIsChosen == \A f, S : SumOver(f, S) = (CHOOSE g : IsSum(g, f, S))[S]
BY Zenon DEF SumOver, MapThenSumSet, MapThenFoldSet, IsSum, First

\* The subsets of a finite set, without the element taken first.
LEMMA FirstTaken ==
    ASSUME NEW S, IsFiniteSet(S), NEW s \in SUBSET S, s # {}
    PROVE  /\ First(s) \in s
           /\ s \ {First(s)} \in SUBSET S
           /\ IsFiniteSet(s) /\ IsFiniteSet(s \ {First(s)})
           /\ Cardinality(s) \in Nat /\ Cardinality(s) > 0
           /\ Cardinality(s \ {First(s)}) = Cardinality(s) - 1
<1>1. First(s) \in s
  BY DEF First
<1>2. IsFiniteSet(s)
  BY FS_Subset
<1>3. IsFiniteSet(s \ {First(s)}) /\ Cardinality(s \ {First(s)}) = Cardinality(s) - 1
  BY <1>1, <1>2, FS_RemoveElement
<1>4. Cardinality(s) \in Nat /\ Cardinality(s) # 0
  BY <1>2, FS_CardinalityType, FS_EmptySet
<1>. QED
  BY <1>1, <1>2, <1>3, <1>4

\* The recursion has a solution on a finite set.
LEMMA SumExists ==
    ASSUME NEW f, NEW S, IsFiniteSet(S)
    PROVE  \E g : IsSum(g, f, S)
<1>. DEFINE Body(g, s) == IF s = {} THEN 0 ELSE f[First(s)] + g[s \ {First(s)}]
            Upto(g, n) == \A s \in SUBSET S : Cardinality(s) <= n => g[s] = Body(g, s)
            Bad == {n \in Nat : ~ \E g : Upto(g, n)}
<1>1. Bad = {}
  <2>. SUFFICES ASSUME Bad # {} PROVE FALSE
    OBVIOUS
  <2>1. PICK m \in Bad : \A k \in Bad : m <= k
    BY Smallest
  <2>2. ASSUME m = 0 PROVE FALSE
    <3>. DEFINE z == [s \in SUBSET S |-> 0]
    <3>1. ASSUME NEW s \in SUBSET S, Cardinality(s) <= 0 PROVE s = {}
      BY <3>1, FS_Subset, FS_EmptySet, FS_CardinalityType
    <3>2. Upto(z, 0)
      BY <3>1
    <3>. QED
      BY <2>1, <2>2, <3>2
  <2>3. ASSUME m # 0 PROVE FALSE
    <3>1. m - 1 \in Nat /\ m - 1 \notin Bad
      <4>. HIDE DEF Bad
      <4>1. m \in Nat
        BY <2>1 DEF Bad
      <4>. QED
        BY <2>1, <2>3, <4>1
    <3>2. PICK g : Upto(g, m - 1)
      BY <3>1
    <3>. DEFINE h == [s \in SUBSET S |-> Body(g, s)]
    <3>3. ASSUME NEW s \in SUBSET S, Cardinality(s) <= m PROVE h[s] = Body(h, s)
      <4>1. CASE s = {}
        BY <4>1
      <4>2. CASE s # {}
        <5>. DEFINE r == s \ {First(s)}
        <5>1. r \in SUBSET S /\ Cardinality(r) <= m - 1
          <6>1. m \in Nat
            BY <2>1
          <6>2. /\ Cardinality(s) \in Nat
                /\ Cardinality(s \ {First(s)}) = Cardinality(s) - 1
            BY <4>2, FirstTaken, Zenon
          <6>. QED
            BY <3>3, <6>1, <6>2
        <5>2. g[r] = Body(g, r)
          BY <5>1, <3>2
        <5>3. h[r] = Body(g, r)
          BY <5>1
        <5>. QED
          BY <4>2, <5>2, <5>3
      <4>. QED
        BY <4>1, <4>2
    <3>4. Upto(h, m)
      BY <3>3
    <3>. QED
      BY <3>4, <2>1
  <2>. QED
    BY <2>2, <2>3
<1>2. PICK g : Upto(g, Cardinality(S))
  <2>1. Cardinality(S) \in Nat
    BY FS_CardinalityType
  <2>. QED
    BY <1>1, <2>1
<1>. DEFINE h == [s \in SUBSET S |-> g[s]]
<1>3. \A s \in SUBSET S : Cardinality(s) <= Cardinality(S)
  BY FS_Subset
<1>4. ASSUME NEW s \in SUBSET S PROVE g[s] = Body(h, s)
  <2>1. g[s] = Body(g, s)
    BY <1>2, <1>3
  <2>2. s \ {First(s)} \in SUBSET S
    OBVIOUS
  <2>3. h[s \ {First(s)}] = g[s \ {First(s)}]
    BY <2>2
  <2>. QED
    BY <2>1, <2>3
<1>5. h = [s \in SUBSET S |-> Body(h, s)]
  BY <1>4
<1>6. IsSum(h, f, S)
  BY <1>5 DEF IsSum
<1>. QED
  BY <1>6

\* A solution on a set agrees with the solution on a subset.
LEMMA SumLocal ==
    ASSUME NEW f, NEW S, IsFiniteSet(S), NEW T \in SUBSET S, NEW g, NEW h,
           IsSum(g, f, S), IsSum(h, f, T)
    PROVE  g[T] = h[T]
<1>. DEFINE Bad == {n \in Nat : \E s \in SUBSET T : Cardinality(s) = n /\ g[s] # h[s]}
<1>1. \A s \in SUBSET S : g[s] = IF s = {} THEN 0 ELSE f[First(s)] + g[s \ {First(s)}]
  BY DEF IsSum
<1>2. \A s \in SUBSET T : h[s] = IF s = {} THEN 0 ELSE f[First(s)] + h[s \ {First(s)}]
  BY DEF IsSum
<1>3. IsFiniteSet(T)
  BY FS_Subset
<1>4. Bad = {}
  <2>. SUFFICES ASSUME Bad # {} PROVE FALSE
    OBVIOUS
  <2>1. PICK m \in Bad : \A k \in Bad : m <= k
    BY Smallest
  <2>2. PICK s \in SUBSET T : Cardinality(s) = m /\ g[s] # h[s]
    BY <2>1
  <2>3. s # {} /\ s \in SUBSET S
    BY <1>1, <1>2, <2>2
  <2>. DEFINE r == s \ {First(s)}
  <2>4. r \in SUBSET T /\ Cardinality(r) = m - 1 /\ m - 1 \in Nat
    <3>1. /\ Cardinality(s) \in Nat /\ Cardinality(s) > 0
          /\ Cardinality(s \ {First(s)}) = Cardinality(s) - 1
      BY <1>3, <2>3, FirstTaken, Zenon
    <3>. QED
      BY <2>2, <3>1
  <2>5. g[r] # h[r]
    BY <1>1, <1>2, <2>2, <2>3
  <2>6. m - 1 \in Bad
    BY <2>4, <2>5
  <2>. QED
    BY <2>1, <2>6, <2>4
<1>5. Cardinality(T) \in Nat
  BY <1>3, FS_CardinalityType
<1>. QED
  BY <1>4, <1>5

\* The empty sum, and the first step of any other.
LEMMA SumUnfolds ==
    ASSUME NEW f, NEW S, IsFiniteSet(S)
    PROVE  SumOver(f, S) = IF S = {} THEN 0 ELSE f[First(S)] + SumOver(f, S \ {First(S)})
<1>. DEFINE G(T) == CHOOSE g : IsSum(g, f, T)
            r == S \ {First(S)}
<1>1. IsFiniteSet(r) /\ r \in SUBSET S
  BY FS_Subset
<1>2. IsSum(G(S), f, S) /\ IsSum(G(r), f, r)
  BY <1>1, SumExists
<1>3. G(S)[r] = G(r)[r]
  BY <1>1, <1>2, SumLocal
<1>4. G(S)[S] = IF S = {} THEN 0 ELSE f[First(S)] + G(S)[r]
  BY <1>2 DEF IsSum
<1>5. SumOver(f, S) = G(S)[S] /\ SumOver(f, r) = G(r)[r]
  BY SumIsChosen, Zenon
<1>. QED
  BY <1>3, <1>4, <1>5

\* A sum of naturals is a natural.
LEMMA SumType ==
    ASSUME NEW f, NEW S, IsFiniteSet(S), \A x \in S : f[x] \in Nat
    PROVE  SumOver(f, S) \in Nat
<1>. DEFINE Bad == {n \in Nat : \E s \in SUBSET S : Cardinality(s) = n /\ SumOver(f, s) \notin Nat}
<1>1. Bad = {}
  <2>. SUFFICES ASSUME Bad # {} PROVE FALSE
    OBVIOUS
  <2>1. PICK m \in Bad : \A k \in Bad : m <= k
    BY Smallest
  <2>2. PICK s \in SUBSET S : Cardinality(s) = m /\ SumOver(f, s) \notin Nat
    BY <2>1
  <2>3. IsFiniteSet(s)
    BY FS_Subset
  <2>4. s # {}
    <3>1. s = {} => SumOver(f, s) = 0
      BY <2>3, SumUnfolds
    <3>. QED
      BY <2>2, <3>1
  <2>. DEFINE r == s \ {First(s)}
  <2>5. /\ First(s) \in S /\ r \in SUBSET S
        /\ Cardinality(r) = m - 1 /\ m - 1 \in Nat
    <3>1. /\ First(s) \in s
          /\ Cardinality(s) \in Nat /\ Cardinality(s) > 0
          /\ Cardinality(s \ {First(s)}) = Cardinality(s) - 1
      BY <2>4, FirstTaken, Zenon
    <3>. QED
      BY <2>2, <3>1
  <2>6. SumOver(f, r) \notin Nat
    <3>1. SumOver(f, s) = f[First(s)] + SumOver(f, r)
      BY <2>3, <2>4, SumUnfolds
    <3>. QED
      BY <3>1, <2>2, <2>5
  <2>7. m - 1 \in Bad
    BY <2>5, <2>6
  <2>. QED
    BY <2>1, <2>7, <2>5
<1>2. Cardinality(S) \in Nat
  BY FS_CardinalityType
<1>. QED
  BY <1>1, <1>2

\* Any element of the set may be taken first.
LEMMA SumTakes ==
    ASSUME NEW f, NEW S, IsFiniteSet(S), \A x \in S : f[x] \in Nat, NEW a \in S
    PROVE  SumOver(f, S) = f[a] + SumOver(f, S \ {a})
<1>. DEFINE Bad == {n \in Nat : \E s \in SUBSET S : Cardinality(s) = n
                                  /\ \E x \in s : SumOver(f, s) # f[x] + SumOver(f, s \ {x})}
<1>1. Bad = {}
  <2>. SUFFICES ASSUME Bad # {} PROVE FALSE
    OBVIOUS
  <2>1. PICK m \in Bad : \A k \in Bad : m <= k
    BY Smallest
  <2>2. PICK s \in SUBSET S : Cardinality(s) = m
                              /\ \E x \in s : SumOver(f, s) # f[x] + SumOver(f, s \ {x})
    BY <2>1
  <2>3. PICK x \in s : SumOver(f, s) # f[x] + SumOver(f, s \ {x})
    BY <2>2
  <2>4. s # {} /\ IsFiniteSet(s) /\ IsFiniteSet(s \ {x})
    BY <2>3, FS_Subset
  <2>. DEFINE c == First(s)
              r == s \ {c}
              d == s \ {x}
              both == (s \ {c}) \ {x}
  <2>5. /\ c \in s /\ r \in SUBSET S /\ IsFiniteSet(r)
        /\ Cardinality(r) = m - 1 /\ m - 1 \in Nat
    BY <2>2, <2>4, FirstTaken
  <2>6. SumOver(f, s) = f[c] + SumOver(f, r)
    BY <2>4, SumUnfolds
  <2>7. c # x
    BY <2>3, <2>6
  <2>8. x \in r /\ c \in d /\ d \in SUBSET S
    BY <2>3, <2>5, <2>7
  <2>9. Cardinality(d) = m - 1
    BY <2>2, <2>3, <2>4, FS_Subset, FS_RemoveElement
  <2>10. m - 1 \notin Bad
    BY <2>1, <2>5
  <2>11. SumOver(f, r) = f[x] + SumOver(f, both)
    BY <2>5, <2>8, <2>10
  <2>12. d \ {c} = both
    OBVIOUS
  <2>13. SumOver(f, d) = f[c] + SumOver(f, both)
    <3>1. SumOver(f, d) = f[c] + SumOver(f, d \ {c})
      BY <2>5, <2>8, <2>9, <2>10
    <3>. QED
      BY <3>1, <2>12
  <2>14. SumOver(f, both) \in Nat
    <3>1. both \in SUBSET S /\ IsFiniteSet(both)
      BY FS_Subset, <2>2
    <3>2. \A y \in both : f[y] \in Nat
      BY <3>1
    <3>. QED
      BY <3>1, <3>2, SumType
  <2>15. f[c] \in Nat /\ f[x] \in Nat
    BY <2>3, <2>5
  <2>. QED
    BY <2>3, <2>6, <2>11, <2>13, <2>14, <2>15
<1>2. Cardinality(S) \in Nat
  BY FS_CardinalityType
<1>. QED
  BY <1>1, <1>2

\* A sum splits into the sum over a part and the sum over the rest.
LEMMA SumSplits ==
    ASSUME NEW f, NEW S, IsFiniteSet(S), \A x \in S : f[x] \in Nat, NEW T \in SUBSET S
    PROVE  SumOver(f, S) = SumOver(f, T) + SumOver(f, S \ T)
<1>. DEFINE Bad == {n \in Nat : \E s \in SUBSET S : Cardinality(s) = n
                                  /\ SumOver(f, S) # SumOver(f, s) + SumOver(f, S \ s)}
<1>t. \A s \in SUBSET S : IsFiniteSet(s) /\ SumOver(f, s) \in Nat
  <2>1. ASSUME NEW s \in SUBSET S PROVE IsFiniteSet(s) /\ SumOver(f, s) \in Nat
    <3>1. IsFiniteSet(s)
      BY FS_Subset
    <3>2. \A x \in s : f[x] \in Nat
      OBVIOUS
    <3>. QED
      BY <3>1, <3>2, SumType
  <2>. QED
    BY <2>1
<1>1. Bad = {}
  <2>. SUFFICES ASSUME Bad # {} PROVE FALSE
    OBVIOUS
  <2>1. PICK m \in Bad : \A k \in Bad : m <= k
    BY Smallest
  <2>2. PICK s \in SUBSET S : Cardinality(s) = m
                              /\ SumOver(f, S) # SumOver(f, s) + SumOver(f, S \ s)
    BY <2>1
  <2>3. s # {}
    <3>1. SumOver(f, {}) = 0
      BY FS_EmptySet, SumUnfolds
    <3>2. SumOver(f, S) \in Nat
      BY <1>t
    <3>3. s = {} => S \ s = S
      OBVIOUS
    <3>4. s = {} => SumOver(f, s) = 0 /\ SumOver(f, S \ s) = SumOver(f, S)
      BY <3>1, <3>3
    <3>. QED
      BY <2>2, <3>2, <3>4
  <2>. DEFINE c == First(s)
              r == s \ {c}
  <2>4. c \in s /\ Cardinality(r) = m - 1 /\ m - 1 \in Nat /\ r \in SUBSET S
    <3>1. /\ First(s) \in s
          /\ Cardinality(s) \in Nat /\ Cardinality(s) > 0
          /\ Cardinality(s \ {First(s)}) = Cardinality(s) - 1
      BY <2>3, FirstTaken, Zenon
    <3>. QED
      BY <2>2, <3>1
  <2>5. SumOver(f, S) = SumOver(f, r) + SumOver(f, S \ r)
    <3>1. m - 1 \notin Bad
      <4>. HIDE DEF Bad
      <4>1. m \in Nat
        BY <2>1 DEF Bad
      <4>. QED
        BY <2>1, <2>4, <4>1
    <3>. QED
      BY <2>4, <3>1
  <2>6. SumOver(f, s) = f[c] + SumOver(f, r)
    BY <1>t, <2>3, SumUnfolds
  <2>7. SumOver(f, S \ r) = f[c] + SumOver(f, S \ s)
    <3>1. c \in S \ r /\ (S \ r) \ {c} = S \ s /\ S \ r \in SUBSET S
      BY <2>4
    <3>2. \A x \in S \ r : f[x] \in Nat
      OBVIOUS
    <3>3. IsFiniteSet(S \ r)
      BY <1>t, <3>1
    <3>4. SumOver(f, S \ r) = f[c] + SumOver(f, (S \ r) \ {c})
      BY <3>1, <3>2, <3>3, SumTakes
    <3>. QED
      BY <3>1, <3>4
  <2>8. f[c] \in Nat /\ SumOver(f, r) \in Nat /\ SumOver(f, S \ s) \in Nat
    BY <1>t, <2>4
  <2>. QED
    BY <2>2, <2>5, <2>6, <2>7, <2>8
<1>2. Cardinality(T) \in Nat
  BY <1>t, FS_CardinalityType
<1>. QED
  BY <1>1, <1>2

\* A sum depends on the values on its set only.
LEMMA SumSame ==
    ASSUME NEW f, NEW g, NEW S, IsFiniteSet(S), \A x \in S : f[x] = g[x]
    PROVE  SumOver(f, S) = SumOver(g, S)
<1>. DEFINE Bad == {n \in Nat : \E s \in SUBSET S : Cardinality(s) = n
                                  /\ SumOver(f, s) # SumOver(g, s)}
<1>1. Bad = {}
  <2>. SUFFICES ASSUME Bad # {} PROVE FALSE
    OBVIOUS
  <2>1. PICK m \in Bad : \A k \in Bad : m <= k
    BY Smallest
  <2>2. PICK s \in SUBSET S : Cardinality(s) = m /\ SumOver(f, s) # SumOver(g, s)
    BY <2>1
  <2>3. IsFiniteSet(s)
    BY FS_Subset
  <2>. DEFINE c == First(s)
              r == s \ {c}
  <2>4. /\ SumOver(f, s) = IF s = {} THEN 0 ELSE f[c] + SumOver(f, r)
        /\ SumOver(g, s) = IF s = {} THEN 0 ELSE g[c] + SumOver(g, r)
    BY <2>3, SumUnfolds
  <2>5. s # {}
    BY <2>2, <2>4
  <2>6. c \in s /\ Cardinality(r) = m - 1 /\ m - 1 \in Nat /\ r \in SUBSET S
    <3>1. /\ First(s) \in s
          /\ Cardinality(s) \in Nat /\ Cardinality(s) > 0
          /\ Cardinality(s \ {First(s)}) = Cardinality(s) - 1
      BY <2>5, FirstTaken, Zenon
    <3>. QED
      BY <2>2, <3>1
  <2>7. f[c] = g[c]
    BY <2>6
  <2>8. SumOver(f, r) # SumOver(g, r)
    BY <2>2, <2>4, <2>5, <2>7
  <2>9. m - 1 \in Bad
    BY <2>6, <2>8
  <2>. QED
    BY <2>1, <2>6, <2>9
<1>2. Cardinality(S) \in Nat
  BY FS_CardinalityType
<1>. QED
  BY <1>1, <1>2

----------------------------------------------------------------------------
(* Walks through a list *)

\* The list q without the elements of D, in the order of q.
Dropped(q, D) == FoldLeft(LAMBDA kept, x : IF x \in D THEN kept ELSE Append(kept, x), <<>>, q)

\* What the walk makes of an element, and its equation: the last index comes last.
Keep(kept, x, D) == IF x \in D THEN kept ELSE Append(kept, x)

IsWalk(g, q, D) ==
    g = [s \in SUBSET DOMAIN q |->
            IF s = {} THEN <<>> ELSE Keep(g[s \ {Max(s)}], q[Max(s)], D)]

\* Dropped is what the recursion equation of FoldLeft defines.
LEMMA DroppedIsChosen == \A q, D : Dropped(q, D) = (CHOOSE g : IsWalk(g, q, D))[DOMAIN q]
BY Zenon DEF Dropped, FoldLeft, MapThenFoldSet, IsWalk, Keep

\* The largest index of a set of indices, and what is left without it.
LEMMA LastTaken ==
    ASSUME NEW n \in Nat, NEW s \in SUBSET (1..n), s # {}
    PROVE  /\ Max(s) \in s
           /\ \A i \in s : i <= Max(s)
           /\ s \ {Max(s)} \in SUBSET (1..n)
           /\ Cardinality(s) \in Nat /\ Cardinality(s) > 0
           /\ Cardinality(s \ {Max(s)}) = Cardinality(s) - 1
<1>1. \E m \in s : \A i \in s : m >= i
  <2>. DEFINE B == {n - i : i \in s}
  <2>1. B \in SUBSET Nat /\ B # {}
    <3>1. \A i \in s : n - i \in Nat
      OBVIOUS
    <3>. QED
      BY <3>1
  <2>2. PICK b \in B : \A k \in B : b <= k
    <3>. HIDE DEF B
    <3>. QED
      BY <2>1, Smallest
  <2>3. PICK m \in s : b = n - m
    BY <2>2
  <2>4. \A i \in s : n - m <= n - i
    BY <2>2, <2>3
  <2>5. \A i \in s : m >= i
    <3>1. m \in 1..n /\ \A i \in s : i \in 1..n
      OBVIOUS
    <3>. QED
      BY <2>4, <3>1
  <2>. QED
    BY <2>5
<1>2. Max(s) \in s /\ \A i \in s : Max(s) >= i
  BY <1>1 DEF Max
<1>3. IsFiniteSet(s)
  <2>1. IsFiniteSet(1..n)
    BY FS_Interval
  <2>. QED
    BY <2>1, FS_Subset
<1>4. Cardinality(s \ {Max(s)}) = Cardinality(s) - 1
  BY <1>2, <1>3, FS_RemoveElement
<1>5. Cardinality(s) \in Nat /\ Cardinality(s) # 0
  BY <1>3, FS_CardinalityType, FS_EmptySet
<1>6. \A i \in s : i <= Max(s)
  <2>1. \A i \in s : i \in Nat
    OBVIOUS
  <2>. QED
    BY <1>2, <2>1
<1>7. s \ {Max(s)} \in SUBSET (1..n)
  OBVIOUS
<1>8. Cardinality(s) > 0
  BY <1>5
<1>. QED
  BY <1>2, <1>4, <1>5, <1>6, <1>7, <1>8, Zenon

\* The walk has a solution.
LEMMA WalkExists ==
    ASSUME NEW A, NEW q \in Seq(A), NEW D
    PROVE  \E g : IsWalk(g, q, D)
<1>. DEFINE S == DOMAIN q
            Body(g, s) == IF s = {} THEN <<>> ELSE Keep(g[s \ {Max(s)}], q[Max(s)], D)
            Upto(g, n) == \A s \in SUBSET S : Cardinality(s) <= n => g[s] = Body(g, s)
            Bad == {n \in Nat : ~ \E g : Upto(g, n)}
<1>s. S = 1..Len(q) /\ Len(q) \in Nat /\ IsFiniteSet(S) /\ Cardinality(S) \in Nat
  BY FS_Interval, FS_CardinalityType
<1>. HIDE DEF S
<1>1. Bad = {}
  <2>. SUFFICES ASSUME Bad # {} PROVE FALSE
    OBVIOUS
  <2>1. PICK m \in Bad : \A k \in Bad : m <= k
    BY Smallest
  <2>2. ASSUME m = 0 PROVE FALSE
    <3>. DEFINE z == [s \in SUBSET S |-> <<>>]
    <3>1. ASSUME NEW s \in SUBSET S, Cardinality(s) <= 0 PROVE s = {}
      <4>1. IsFiniteSet(s)
        BY <1>s, FS_Subset
      <4>2. Cardinality(s) \in Nat
        BY <4>1, FS_CardinalityType
      <4>3. Cardinality(s) = 0
        BY <3>1, <4>2
      <4>. QED
        BY <4>1, <4>3, FS_EmptySet
    <3>2. Upto(z, 0)
      BY <3>1
    <3>. QED
      BY <2>1, <2>2, <3>2
  <2>3. ASSUME m # 0 PROVE FALSE
    <3>1. m - 1 \in Nat /\ m - 1 \notin Bad
      <4>. HIDE DEF Bad
      <4>1. m \in Nat
        BY <2>1 DEF Bad
      <4>. QED
        BY <2>1, <2>3, <4>1
    <3>2. PICK g : Upto(g, m - 1)
      BY <3>1
    <3>. DEFINE h == [s \in SUBSET S |-> Body(g, s)]
    <3>3. ASSUME NEW s \in SUBSET S, Cardinality(s) <= m PROVE h[s] = Body(h, s)
      <4>1. CASE s = {}
        BY <4>1
      <4>2. CASE s # {}
        <5>. DEFINE r == s \ {Max(s)}
        <5>1. r \in SUBSET S /\ Cardinality(r) <= m - 1
          <6>1. m \in Nat
            BY <2>1
          <6>2. /\ Cardinality(s) \in Nat
                /\ Cardinality(s \ {Max(s)}) = Cardinality(s) - 1
            BY <1>s, <4>2, LastTaken
          <6>. QED
            BY <3>3, <6>1, <6>2
        <5>2. g[r] = Body(g, r)
          BY <5>1, <3>2
        <5>3. h[r] = Body(g, r)
          BY <5>1
        <5>. QED
          BY <4>2, <5>2, <5>3
      <4>. QED
        BY <4>1, <4>2
    <3>4. Upto(h, m)
      BY <3>3
    <3>. QED
      BY <3>4, <2>1
  <2>. QED
    BY <2>2, <2>3
<1>2. PICK g : Upto(g, Cardinality(S))
  BY <1>1, <1>s
<1>. DEFINE h == [s \in SUBSET S |-> g[s]]
<1>3. \A s \in SUBSET S : Cardinality(s) <= Cardinality(S)
  BY <1>s, FS_Subset
<1>4. ASSUME NEW s \in SUBSET S PROVE g[s] = Body(h, s)
  <2>1. g[s] = Body(g, s)
    BY <1>2, <1>3
  <2>2. s \ {Max(s)} \in SUBSET S
    OBVIOUS
  <2>3. h[s \ {Max(s)}] = g[s \ {Max(s)}]
    BY <2>2
  <2>. QED
    BY <2>1, <2>3
<1>5. h = [s \in SUBSET S |-> Body(h, s)]
  BY <1>4
<1>6. IsWalk(h, q, D)
  BY <1>5 DEF IsWalk, S
<1>. QED
  BY <1>6

\* What is left of a list keeps to its elements, loses exactly those dropped, and has each
\* of the others once if the list had.
LEMMA DroppedMeaning ==
    ASSUME NEW A, NEW q \in Seq(A), NEW D
    PROVE  /\ Dropped(q, D) \in Seq(A)
           /\ ToSet(Dropped(q, D)) = ToSet(q) \ D
           /\ IsInjective(q) => IsInjective(Dropped(q, D))
<1>. DEFINE g == CHOOSE h : IsWalk(h, q, D)
            W(k) == g[1..k]
            Good(k) == /\ W(k) \in Seq(A)
                       /\ ToSet(W(k)) = {q[i] : i \in 1..k} \ D
                       /\ IsInjective(q) => IsInjective(W(k))
            Bad == {k \in 0..Len(q) : ~ Good(k)}
<1>s. DOMAIN q = 1..Len(q) /\ Len(q) \in Nat
  OBVIOUS
<1>1. IsWalk(g, q, D)
  BY WalkExists
<1>2. Dropped(q, D) = W(Len(q))
  BY <1>s, DroppedIsChosen, Zenon
<1>. HIDE DEF g
<1>3. W(0) = <<>>
  BY <1>1, <1>s DEF IsWalk
<1>4. ASSUME NEW k \in 1..Len(q) PROVE W(k) = Keep(W(k-1), q[k], D)
  <2>1. Max(1..k) = k
    <3>1. k \in 1..k /\ \A i \in 1..k : k >= i
      OBVIOUS
    <3>2. Max(1..k) \in 1..k /\ \A i \in 1..k : Max(1..k) >= i
      BY <3>1 DEF Max
    <3>. QED
      BY <3>1, <3>2
  <2>2. (1..k) \ {k} = 1..(k-1)
    OBVIOUS
  <2>3. k \in 1..k /\ 1..k \in SUBSET DOMAIN q
    BY <1>s
  <2>. QED
    BY <1>1, <2>1, <2>2, <2>3 DEF IsWalk
<1>. HIDE DEF W
<1>5. Good(0)
  <2>1. DOMAIN <<>> = {} /\ <<>> \in Seq(A)
    OBVIOUS
  <2>2. ToSet(<<>>) = {} /\ IsInjective(<<>>)
    BY <2>1 DEF ToSet, IsInjective
  <2>3. {q[i] : i \in 1..0} = {}
    OBVIOUS
  <2>. QED
    BY <1>3, <2>1, <2>2, <2>3
<1>6. ASSUME NEW k \in 1..Len(q), Good(k-1) PROVE Good(k)
  <2>1. q[k] \in A
    OBVIOUS
  <2>2. {q[i] : i \in 1..k} = {q[i] : i \in 1..(k-1)} \cup {q[k]}
    OBVIOUS
  <2>3. CASE q[k] \in D
    <3>1. W(k) = W(k-1)
      BY <1>4, <2>3 DEF Keep
    <3>. QED
      BY <1>6, <2>2, <2>3, <3>1
  <2>4. CASE q[k] \notin D
    <3>1. W(k) = Append(W(k-1), q[k])
      BY <1>4, <2>4 DEF Keep
    <3>. DEFINE w == W(k-1)
    <3>2. w \in Seq(A) /\ W(k) = Append(w, q[k])
      BY <1>6, <3>1
    <3>3. /\ W(k) \in Seq(A) /\ DOMAIN W(k) = 1..(Len(w) + 1) /\ DOMAIN w = 1..Len(w)
          /\ Len(w) \in Nat
          /\ \A i \in 1..Len(w) : W(k)[i] = w[i]
          /\ W(k)[Len(w) + 1] = q[k]
      BY <2>1, <3>2
    <3>. HIDE DEF w
    <3>4. ToSet(W(k)) = ToSet(w) \cup {q[k]}
      BY <3>3 DEF ToSet
    <3>5. ASSUME IsInjective(q) PROVE IsInjective(W(k))
      <4>1. q[k] \notin {q[i] : i \in 1..(k-1)}
        BY <1>s, <3>5 DEF IsInjective
      <4>2. q[k] \notin ToSet(w)
        BY <1>6, <4>1 DEF w
      <4>3. IsInjective(w)
        BY <1>6, <3>5 DEF w
      <4>. QED
        BY <3>3, <4>2, <4>3 DEF ToSet, IsInjective
    <3>. QED
      BY <1>6, <2>2, <2>4, <3>3, <3>4, <3>5 DEF w
  <2>. QED
    BY <2>3, <2>4
<1>7. Bad = {}
  <2>. SUFFICES ASSUME Bad # {} PROVE FALSE
    OBVIOUS
  <2>. HIDE DEF Good
  <2>1. Bad \in SUBSET Nat
    OBVIOUS
  <2>2. PICK m \in Bad : \A k \in Bad : m <= k
    <3>. HIDE DEF Bad
    <3>. QED
      BY <2>1, Smallest
  <2>3. m \in 1..Len(q)
    BY <2>2, <1>5
  <2>4. m - 1 \notin Bad /\ m - 1 \in 0..Len(q)
    <3>. HIDE DEF Bad
    <3>. QED
      BY <2>2, <2>3
  <2>. QED
    BY <1>6, <2>2, <2>3, <2>4
<1>8. Good(Len(q))
  BY <1>7, <1>s
<1>. QED
  BY <1>2, <1>8, <1>s DEF ToSet

\* A list without repetitions is as long as the set of its elements.
LEMMA InjectiveLength ==
    ASSUME NEW A, NEW q \in Seq(A), IsInjective(q)
    PROVE  IsFiniteSet(ToSet(q)) /\ Cardinality(ToSet(q)) = Len(q)
<1>1. DOMAIN q = 1..Len(q) /\ Len(q) \in Nat
  OBVIOUS
<1>2. /\ q \in [1..Len(q) -> ToSet(q)]
      /\ \A t \in ToSet(q) : \E i \in 1..Len(q) : q[i] = t
  BY <1>1 DEF ToSet
<1>3. q \in Surjection(1..Len(q), ToSet(q))
  BY <1>2 DEF Surjection
<1>4. \A i, j \in 1..Len(q) : q[i] = q[j] => i = j
  BY <1>1 DEF IsInjective
<1>5. q \in Injection(1..Len(q), ToSet(q))
  BY <1>2, <1>4 DEF Injection
<1>6. IsFiniteSet(1..Len(q)) /\ Cardinality(1..Len(q)) = Len(q)
  BY <1>1, FS_Interval
<1>7. IsFiniteSet(ToSet(q))
  BY <1>3, <1>6, FS_Surjection
<1>8. Cardinality(1..Len(q)) = Cardinality(ToSet(q))
  BY <1>3, <1>5, <1>7, FS_Injection
<1>. QED
  BY <1>6, <1>7, <1>8

----------------------------------------------------------------------------
(* The contract *)

\* What a miss collects is unused.
LEMMA VictimsUnused == MissVictims \in SUBSET Contract!Unused
<1>1. MissVictims \subseteq {e \in alive : Deletable(e)}
  BY DEF MissVictims, GcVictims
<1>. QED
  BY <1>1 DEF Deletable, Free, Contract!Unused

\* Granting a lock means the same in both.
LEMMA SameLocks ==
    /\ \A e, mode : Lockable(e, mode) => Contract!Lockable(e, mode)
    /\ \A t, e, mode : Lock(t, e, mode) => Contract!Lock(t, e, mode)
    /\ \A t, e : Unlock(t, e) => Contract!Unlock(t, e)
    /\ \A t, label, e : Goto(t, label, e) => Contract!Goto(t, label, e)
BY DEF Lockable, Free, Lock, Unlock, Goto,
       Contract!Lockable, Contract!Lock, Contract!Unlock, Contract!Goto

\* A hit is that of the contract.
LEMMA HitIsHit ==
    ASSUME NEW t, NEW k, NEW mode, Hit(t, k, mode)
    PROVE  Contract!Hit(t, k, mode)
BY SameLocks DEF Hit, Contract!Hit, Contract!tableVars, entryVars

\* A new entry comes as in the contract: what is collected for it is unused.
LEMMA InsertIsInsert ==
    ASSUME NEW e, NEW k, NEW c, Insert(e, k, c)
    PROVE  Contract!Insert(e, k)
BY VictimsUnused DEF Insert, TableWithout, Contract!Insert

\* A miss is that of the contract.
LEMMA MissIsMiss ==
    ASSUME NEW t, NEW k, NEW mode, Miss(t, k, mode)
    PROVE  Contract!Miss(t, k, mode)
<1>1. PICK e \in Entries \ born, c \in IF HasAllocate THEN Costs ELSE {1} :
        Insert(e, k, c) /\ Lock(t, e, IF HasAllocate THEN "w" ELSE mode) /\ Goto(t, "hold", e)
  BY DEF Miss
<1>2. hashtable[k] = NULL
  BY DEF Miss
<1>. QED
  BY <1>1, <1>2, InsertIsInsert, SameLocks DEF Contract!Miss

\* A collection that no new entry follows makes unused entries vanish.
LEMMA FailIsEvict ==
    ASSUME NEW t, NEW k, MissFails(k), pc[t] = "idle", ~closed,
           UNCHANGED <<demoting, closed>>
    PROVE  Contract!Evict(t)
<1>1. Contract!Vanish(MissVictims)
  BY DEF MissFails, TableWithout, Contract!Vanish
<1>. QED
  BY <1>1, VictimsUnused
  DEF MissFails, entryVars, lockVars, Contract!Evict, Contract!Idle, Contract!lockVars,
      Contract!callVars

\* What is in the table is allocated: dt_cache_remove looks an entry up before it deletes
\* it, so the refinement needs this of the states it starts from.
InTable ==
    /\ hashtable \in [Keys -> Entries \cup {NULL}]
    /\ \A k \in Keys : hashtable[k] # NULL => hashtable[k] \in alive

\* Every step keeps it.
LEMMA StepKeepsTable ==
    ASSUME InTable, [Next]_vars
    PROVE  InTable'
<1>. USE CacheAssumption
<1>1. ASSUME NEW k \in Keys, NEW e \in Entries, NEW c, Insert(e, k, c) PROVE InTable'
  <2>1. /\ hashtable' = [[j \in Keys |-> IF hashtable[j] \in MissVictims THEN NULL
                                        ELSE hashtable[j]] EXCEPT ![k] = e]
        /\ alive' = (alive \ MissVictims) \cup {e}
    BY <1>1 DEF Insert, TableWithout
  <2>. QED
    BY <2>1 DEF InTable
<1>2. ASSUME NEW S, hashtable' = TableWithout(S), alive' = alive \ S PROVE InTable'
  BY <1>2 DEF InTable, TableWithout
<1>3. ASSUME hashtable' = hashtable, alive' = alive PROVE InTable'
  BY <1>3 DEF InTable
<1>4. ASSUME NEW t, NEW k \in Keys, NEW mode, Miss(t, k, mode) PROVE InTable'
  BY <1>1, <1>4 DEF Miss
<1>5. ASSUME NEW k, MissFails(k) PROVE InTable'
  BY <1>2, <1>5 DEF MissFails
<1>6. ASSUME NEW t, NEW k, NEW mode, Hit(t, k, mode) PROVE InTable'
  BY <1>3, <1>6 DEF Hit
<1>7. ASSUME NEW t \in Threads, dt_cache_get(t) \/ dt_cache_testget(t) PROVE InTable'
  BY <1>4, <1>5, <1>6, <1>7 DEF dt_cache_get, dt_cache_testget
<1>8. ASSUME NEW t \in Threads, DemoteGet(t) PROVE InTable'
  <2>1. CASE ekey[ptr[t]] \in Keys
    BY <2>1, <1>4, <1>6, <1>8 DEF DemoteGet
  <2>2. CASE ekey[ptr[t]] \notin Keys
    <3>1. ASSUME NEW e, NEW c, Insert(e, ekey[ptr[t]], c), e \in Entries PROVE InTable'
      <4>1. /\ hashtable' = [j \in Keys |-> IF hashtable[j] \in MissVictims THEN NULL
                                           ELSE hashtable[j]]
            /\ alive' = (alive \ MissVictims) \cup {e}
        BY <2>2, <3>1 DEF Insert, TableWithout
      <4>. QED
        BY <4>1 DEF InTable
    <3>. QED
      BY <3>1, <1>6, <1>8 DEF DemoteGet, Miss
  <2>. QED
    BY <2>1, <2>2
<1>9. ASSUME NEW t \in Threads,
             dt_cache_release(t) \/ ReleaseTail(t) \/ Demote(t) \/ DemoteTail(t)
      PROVE  InTable'
  BY <1>3, <1>9 DEF dt_cache_release, ReleaseTail, Demote, DemoteTail, tableVars
<1>10. ASSUME NEW t \in Threads, dt_cache_remove(t) PROVE InTable'
  BY <1>2, <1>10 DEF dt_cache_remove, Delete
<1>11. ASSUME NEW t \in Threads, dt_cache_seed(t) PROVE InTable'
  BY <1>1, <1>5, <1>11 DEF dt_cache_seed, Seed
<1>12. ASSUME dt_cache_cleanup PROVE InTable'
  BY <1>12 DEF dt_cache_cleanup, InTable
<1>13. ASSUME UNCHANGED vars PROVE InTable'
  BY <1>3, <1>13 DEF vars, tableVars
<1>. QED
  BY <1>7, <1>8, <1>9, <1>10, <1>11, <1>12, <1>13 DEF Next

\* Each step of cache.c is a step of the contract.
LEMMA StepImplements ==
    ASSUME InTable, [Next]_vars
    PROVE  [Contract!Next]_(Contract!vars)
<1>1. ASSUME NEW t \in Threads, dt_cache_get(t) PROVE Contract!Get(t) \/ Contract!Evict(t)
  <2>1. PICK k \in Keys, mode \in {"r", "w"} :
           Hit(t, k, mode) \/ Miss(t, k, mode) \/ MissFails(k)
    BY <1>1 DEF dt_cache_get
  <2>2. pc[t] = "idle" /\ ~closed /\ UNCHANGED <<demoting, closed>>
    BY <1>1 DEF dt_cache_get
  <2>. QED
    BY <2>1, <2>2, HitIsHit, MissIsMiss, FailIsEvict DEF Contract!Get, Contract!Idle
<1>2. ASSUME NEW t \in Threads, dt_cache_testget(t) PROVE Contract!Get(t)
  BY <1>2, HitIsHit DEF dt_cache_testget, Contract!Get, Contract!Idle
<1>3. ASSUME NEW t \in Threads, dt_cache_release(t) PROVE Contract!Release(t)
  BY <1>3, SameLocks
  DEF dt_cache_release, Contract!Release, tableVars, entryVars, Contract!tableVars
<1>4. ASSUME NEW t \in Threads, ReleaseTail(t) PROVE Contract!ReleaseTail(t)
  BY <1>4, SameLocks
  DEF ReleaseTail, Contract!ReleaseTail, tableVars, entryVars, lockVars, Contract!tableVars,
      Contract!lockVars
<1>5. ASSUME NEW t \in Threads, Demote(t) PROVE Contract!Demote(t)
  BY <1>5, SameLocks DEF Demote, Contract!Demote, tableVars, entryVars, Contract!tableVars
<1>6. ASSUME NEW t \in Threads, DemoteTail(t) PROVE Contract!DemoteTail(t)
  BY <1>6, SameLocks
  DEF DemoteTail, Contract!DemoteTail, tableVars, entryVars, lockVars, Contract!tableVars,
      Contract!lockVars
<1>7. ASSUME NEW t \in Threads, DemoteGet(t) PROVE Contract!DemoteGet(t)
  BY <1>7, HitIsHit, MissIsMiss DEF DemoteGet, Contract!DemoteGet
<1>8. ASSUME NEW t \in Threads, dt_cache_remove(t) PROVE Contract!Evict(t)
  <2>1. PICK e \in {hashtable[k] : k \in Keys} \ {NULL} : Deletable(e) /\ Delete(e)
    BY <1>8 DEF dt_cache_remove
  <2>2. Contract!Vanish({e})
    BY <2>1 DEF Delete, TableWithout, Contract!Vanish
  <2>3. {e} \in SUBSET Contract!Unused
    BY <2>1 DEF InTable, Deletable, Free, Contract!Unused
  <2>. QED
    BY <1>8, <2>2, <2>3
    DEF dt_cache_remove, entryVars, lockVars, Contract!Evict, Contract!Idle,
        Contract!lockVars, Contract!callVars
<1>9. ASSUME NEW t \in Threads, dt_cache_seed(t) PROVE Contract!Seed(t) \/ Contract!Evict(t)
  <2>1. PICK k \in Keys : Seed(k) \/ MissFails(k)
    BY <1>9 DEF dt_cache_seed
  <2>2. pc[t] = "idle" /\ ~closed /\ UNCHANGED <<demoting, closed>>
    BY <1>9 DEF dt_cache_seed
  <2>3. CASE Seed(k)
    BY <2>2, <2>3, InsertIsInsert
    DEF Seed, Contract!Seed, Contract!Idle, lockVars, Contract!lockVars, Contract!callVars
  <2>. QED
    BY <2>1, <2>2, <2>3, FailIsEvict
<1>10. ASSUME dt_cache_cleanup PROVE Contract!Cleanup
  BY <1>10
  DEF dt_cache_cleanup, Contract!Cleanup, entryVars, lockVars, Contract!lockVars,
      Contract!callVars
<1>11. ASSUME UNCHANGED vars PROVE UNCHANGED Contract!vars
  BY <1>11
  DEF vars, entryVars, tableVars, lockVars, Contract!vars, Contract!tableVars,
      Contract!lockVars, Contract!callVars
<1>. QED
  BY <1>1, <1>2, <1>3, <1>4, <1>5, <1>6, <1>7, <1>8, <1>9, <1>10, <1>11
  DEF Next, Contract!Next

\* dt_cache_init, and every function of cache.c, behave as the contract allows, for every
\* quota, every cost of an entry and any number of threads, keys and entries.
THEOREM ImplementsContract == Spec => KeepsContract
<1>1. Init => Contract!Init
  BY DEF Init, Contract!Init
<1>2. Init => InTable
  BY DEF Init, InTable
<1>3. InTable /\ [Next]_vars => InTable'
  BY StepKeepsTable
<1>4. InTable /\ [Next]_vars => [Contract!Next]_(Contract!vars)
  BY StepImplements
<1>. QED
  BY <1>1, <1>2, <1>3, <1>4, PTL DEF Spec, KeepsContract, Contract!Spec

----------------------------------------------------------------------------
(* What the contract's proofs say of cache.c *)

Proved == INSTANCE CacheContractProofs

\* The two instances of the contract are the same specification.
LEMMA SameContract ==
    /\ Contract!Init => Proved!Init
    /\ [Contract!Next]_(Contract!vars) => [Proved!Next]_(Proved!vars)
    /\ Proved!HeldIsLocked => HeldIsLocked
<1>1. Contract!Init => Proved!Init
  BY DEF Contract!Init, Proved!Init
<1>2. [Contract!Next]_(Contract!vars) => [Proved!Next]_(Proved!vars)
  BY DEF Contract!Next, Contract!Get, Contract!Release, Contract!ReleaseTail, Contract!Demote,
      Contract!DemoteTail, Contract!DemoteGet, Contract!Evict, Contract!Seed, Contract!Cleanup,
      Contract!Idle, Contract!Hit, Contract!Miss, Contract!Insert, Contract!Vanish,
      Contract!Unused, Contract!Goto, Contract!Unlock, Contract!Lock, Contract!Lockable,
      Contract!vars, Contract!tableVars, Contract!lockVars, Contract!callVars, Proved!Next,
      Proved!Get, Proved!Release, Proved!ReleaseTail, Proved!Demote, Proved!DemoteTail,
      Proved!DemoteGet, Proved!Evict, Proved!Seed, Proved!Cleanup, Proved!Idle, Proved!Hit,
      Proved!Miss, Proved!Insert, Proved!Vanish, Proved!Unused, Proved!Goto, Proved!Unlock,
      Proved!Lock, Proved!Lockable, Proved!vars, Proved!tableVars, Proved!lockVars,
      Proved!callVars
<1>3. Proved!HeldIsLocked => HeldIsLocked
  BY DEF HeldIsLocked, Proved!HeldIsLocked
<1>. QED
  BY <1>1, <1>2, <1>3

\* An entry of cache.c is never freed under a thread that holds it, and its lock is held by
\* exactly the threads that were given it, alone if for writing.
THEOREM CacheHoldsLocks == Spec => []HeldIsLocked
<1>1. Contract!Spec => Proved!Spec
  BY SameContract, PTL DEF Contract!Spec, Proved!Spec
<1>2. Spec => Contract!Spec
  BY ImplementsContract DEF KeepsContract
<1>3. Proved!Spec => []Proved!HeldIsLocked
  BY CacheAssumption, Proved!HeldStaysLocked
<1>. QED
  BY <1>1, <1>2, <1>3, SameContract, PTL

----------------------------------------------------------------------------
(* The list, the table, the heap and the account *)

\* What the contract's invariant says holds of cache.c.
LEMMA ContractInvariant == Spec => []Proved!IInv
<1>1. Contract!Spec => Proved!Spec
  BY SameContract, PTL DEF Contract!Spec, Proved!Spec
<1>2. Spec => Contract!Spec
  BY ImplementsContract DEF KeepsContract
<1>3. Proved!Spec => []Proved!IInv
  BY CacheAssumption, Proved!AlwaysIInv
<1>. QED
  BY <1>1, <1>2, <1>3, PTL

\* The list has each living entry once.
ListOK == lru \in Seq(Entries) /\ IsInjective(lru) /\ ToSet(lru) = alive

\* The table leads to the living entries, each under its own key.
TableOK ==
    /\ hashtable \in [Keys -> Entries \cup {NULL}]
    /\ \A k \in Keys : hashtable[k] # NULL => hashtable[k] \in alive /\ ekey[hashtable[k]] = k
    /\ \A e \in alive : ekey[e] \in Keys /\ hashtable[ekey[e]] = e

\* The account is the cost of the living entries.
AccountOK ==
    /\ ecost \in [Entries -> Nat]
    /\ cost \in Nat
    /\ closed \/ cost = SumOver(ecost, alive)

Books == ListOK /\ TableOK /\ AccountOK

\* dt_cache_cleanup comes when no thread is in a call, and none begins after it.
QuietWhenClosed == closed => \A t \in Threads : pc[t] = "idle"

\* What the steps rely on: types, keys of entries in use, and that a new entry is new.
Given ==
    /\ ekey \in [Entries -> Keys \cup {NULL}]
    /\ ptr \in [Threads -> Entries \cup {NULL}]
    /\ alive \subseteq Entries /\ alive \subseteq born
    /\ \A t \in Threads : pc[t] # "idle" => ptr[t] \in Entries /\ ekey[ptr[t]] \in Keys

\* The invariant of the contract says so.
LEMMA GivenHolds == Proved!IInv => Given
BY DEF Proved!IInv, Proved!TypeOK, Proved!AliveWasBorn, Proved!PointsToKey, Given

\* CostOf is such a sum.
LEMMA CostIsSum == \A S : CostOf(S) = SumOver(ecost, S)
BY Zenon DEF CostOf, SumOver, MapThenSumSet, MapThenFoldSet

\* Without is such a walk.
LEMMA WithoutIsDropped == \A S : Without(S) = Dropped(lru, S)
BY Zenon DEF Without, Dropped, FoldLeft, MapThenFoldSet

\* A living entry is one of finitely many, and a sum of costs is a natural.
LEMMA LivingFinite ==
    ASSUME ListOK, AccountOK, NEW S \in SUBSET alive
    PROVE  /\ IsFiniteSet(alive) /\ IsFiniteSet(S)
           /\ \A e \in alive : ecost[e] \in Nat
           /\ SumOver(ecost, S) \in Nat
           /\ SumOver(ecost, alive) = SumOver(ecost, S) + SumOver(ecost, alive \ S)
<1>1. IsFiniteSet(alive)
  BY InjectiveLength DEF ListOK
<1>2. alive \subseteq Entries
  BY DEF ListOK, ToSet
<1>3. \A e \in alive : ecost[e] \in Nat
  BY <1>2 DEF AccountOK
<1>4. IsFiniteSet(S)
  BY <1>1, FS_Subset
<1>5. SumOver(ecost, S) \in Nat
  BY <1>3, <1>4, SumType
<1>6. SumOver(ecost, alive) = SumOver(ecost, S) + SumOver(ecost, alive \ S)
  BY <1>1, <1>3, SumSplits
<1>. QED
  BY <1>1, <1>3, <1>4, <1>5, <1>6

\* Entries vanish from the list, the table, the heap and the account.
LEMMA VanishKeepsBooks ==
    ASSUME Books, NEW V \in SUBSET alive, ~closed,
           hashtable' = TableWithout(V), lru' = Without(V), cost' = cost - CostOf(V),
           alive' = alive \ V, UNCHANGED <<ekey, ecost>>
    PROVE  Books'
<1>. USE CacheAssumption DEF Books
<1>1. ListOK'
  BY WithoutIsDropped, DroppedMeaning DEF ListOK
<1>2. TableOK'
  BY DEF TableOK, TableWithout
<1>3. AccountOK'
  <2>1. /\ SumOver(ecost, V) \in Nat /\ SumOver(ecost, alive \ V) \in Nat
        /\ SumOver(ecost, alive) = SumOver(ecost, V) + SumOver(ecost, alive \ V)
    BY LivingFinite
  <2>2. cost' = SumOver(ecost, alive \ V)
    BY <2>1, CostIsSum DEF AccountOK
  <2>. QED
    BY <2>1, <2>2 DEF AccountOK
<1>. QED
  BY <1>1, <1>2, <1>3

\* An entry goes to the end of a list in which it is not.
LEMMA AppendKeepsList ==
    ASSUME NEW q \in Seq(Entries), IsInjective(q), NEW e \in Entries, e \notin ToSet(q)
    PROVE  /\ Append(q, e) \in Seq(Entries)
           /\ IsInjective(Append(q, e))
           /\ ToSet(Append(q, e)) = ToSet(q) \cup {e}
<1>1. /\ Append(q, e) \in Seq(Entries) /\ Len(q) \in Nat
      /\ DOMAIN Append(q, e) = 1..(Len(q) + 1) /\ DOMAIN q = 1..Len(q)
      /\ \A i \in 1..Len(q) : Append(q, e)[i] = q[i]
      /\ Append(q, e)[Len(q) + 1] = e
  OBVIOUS
<1>2. \A i \in 1..Len(q) : q[i] # e
  BY <1>1 DEF ToSet
<1>. QED
  BY <1>1, <1>2 DEF ToSet, IsInjective

\* A new entry is entered in all four, after the collection.
LEMMA InsertKeepsBooks ==
    ASSUME Books, Given, ~closed, NEW e \in Entries \ born, NEW k \in Keys, NEW c \in Nat,
           hashtable[k] = NULL, Insert(e, k, c), UNCHANGED closed
    PROVE  Books'
<1>. USE CacheAssumption
<1>. DEFINE V == MissVictims
            left == alive \ V
<1>1. V \in SUBSET alive
  BY VictimsUnused DEF Contract!Unused
<1>2. e \notin alive
  BY DEF Given
<1>3. /\ hashtable' = [TableWithout(V) EXCEPT ![k] = e]
      /\ lru' = Append(Without(V), e)
      /\ cost' = (cost - CostOf(V)) + c
      /\ alive' = left \cup {e}
      /\ ekey' = [ekey EXCEPT ![e] = k]
      /\ ecost' = [ecost EXCEPT ![e] = c]
  BY DEF Insert
<1>. HIDE DEF V
<1>4. ListOK'
  <2>1. /\ Without(V) \in Seq(Entries) /\ IsInjective(Without(V))
        /\ ToSet(Without(V)) = left
    BY WithoutIsDropped, DroppedMeaning DEF Books, ListOK
  <2>2. e \notin ToSet(Without(V))
    BY <1>2, <2>1
  <2>. QED
    BY <1>3, <2>1, <2>2, AppendKeepsList DEF ListOK
<1>5. TableOK'
  <2>1. /\ hashtable' \in [Keys -> Entries \cup {NULL}]
        /\ hashtable'[k] = e
        /\ \A j \in Keys : j # k =>
             hashtable'[j] = IF hashtable[j] \in V THEN NULL ELSE hashtable[j]
    BY <1>3 DEF TableWithout, Books, TableOK
  <2>2. ekey'[e] = k /\ \A f \in alive : ekey'[f] = ekey[f]
    BY <1>2, <1>3 DEF Given
  <2>3. \A f \in left : ekey[f] \in Keys /\ ekey[f] # k /\ hashtable[ekey[f]] = f
    BY <1>1, <1>2 DEF Books, TableOK, Given
  <2>4. \A j \in Keys : hashtable[j] # NULL => hashtable[j] \in alive /\ ekey[hashtable[j]] = j
    BY DEF Books, TableOK
  <2>5. ASSUME NEW j \in Keys, hashtable'[j] # NULL
        PROVE  hashtable'[j] \in alive' /\ ekey'[hashtable'[j]] = j
    <3>1. CASE j = k
      BY <1>3, <2>1, <2>2, <3>1
    <3>2. CASE j # k
      <4>1. hashtable'[j] = hashtable[j] /\ hashtable[j] \notin V /\ hashtable[j] # NULL
        BY <2>1, <2>5, <3>2
      <4>2. hashtable[j] \in alive /\ ekey[hashtable[j]] = j
        BY <2>4, <4>1
      <4>. QED
        BY <1>3, <2>2, <4>1, <4>2
    <3>. QED
      BY <3>1, <3>2
  <2>6. ASSUME NEW f \in alive' PROVE ekey'[f] \in Keys /\ hashtable'[ekey'[f]] = f
    BY <1>3, <2>1, <2>2, <2>3
  <2>. QED
    BY <2>1, <2>5, <2>6 DEF TableOK
<1>6. AccountOK'
  <2>. DEFINE new == ecost'
  <2>1. new \in [Entries -> Nat] /\ new[e] = c /\ \A f \in alive : new[f] = ecost[f]
    BY <1>2, <1>3 DEF Books, AccountOK, Given
  <2>2. /\ IsFiniteSet(left) /\ SumOver(ecost, V) \in Nat /\ SumOver(ecost, left) \in Nat
        /\ SumOver(ecost, alive) = SumOver(ecost, V) + SumOver(ecost, left)
    <3>1. left \in SUBSET alive
      OBVIOUS
    <3>. QED
      BY <1>1, <3>1, LivingFinite DEF Books
  <2>. HIDE DEF new
  <2>3. SumOver(new, left) = SumOver(ecost, left)
    BY <2>1, <2>2, SumSame
  <2>4. SumOver(new, left \cup {e}) = c + SumOver(new, left)
    <3>1. IsFiniteSet(left \cup {e}) /\ (left \cup {e}) \ {e} = left
      BY <1>2, <2>2, FS_AddElement
    <3>2. \A f \in left \cup {e} : new[f] \in Nat
      BY <2>1 DEF Given
    <3>3. e \in left \cup {e}
      OBVIOUS
    <3>4. SumOver(new, left \cup {e}) = new[e] + SumOver(new, (left \cup {e}) \ {e})
      BY <3>1, <3>2, <3>3, SumTakes
    <3>. QED
      BY <2>1, <3>1, <3>4
  <2>5. cost = SumOver(ecost, alive) /\ CostOf(V) = SumOver(ecost, V)
    BY CostIsSum DEF Books, AccountOK
  <2>6. cost' = SumOver(new, left \cup {e}) /\ cost' \in Nat
    BY <1>3, <2>2, <2>3, <2>4, <2>5
  <2>. QED
    BY <1>3, <2>1, <2>6 DEF AccountOK, new
<1>. QED
  BY <1>4, <1>5, <1>6 DEF Books

\* A hit moves its entry to the end of the list.
LEMMA HitKeepsBooks ==
    ASSUME Books, NEW t, NEW k \in Keys, NEW mode, Hit(t, k, mode), UNCHANGED closed
    PROVE  Books'
<1>. DEFINE e == hashtable[k]
<1>1. /\ e # NULL /\ lru' = Append(Without({e}), e)
      /\ UNCHANGED <<hashtable, cost, alive, ekey, ecost, closed>>
  BY DEF Hit, entryVars
<1>2. e \in alive /\ e \in Entries
  BY <1>1 DEF Books, TableOK
<1>3. /\ Without({e}) \in Seq(Entries) /\ IsInjective(Without({e}))
      /\ ToSet(Without({e})) = alive \ {e}
  BY WithoutIsDropped, DroppedMeaning DEF Books, ListOK
<1>4. ListOK'
  <2>1. /\ lru' \in Seq(Entries) /\ IsInjective(lru')
        /\ ToSet(lru') = (alive \ {e}) \cup {e}
    BY <1>1, <1>2, <1>3, AppendKeepsList
  <2>. QED
    BY <1>1, <1>2, <2>1 DEF ListOK
<1>5. TableOK' /\ AccountOK'
  BY <1>1 DEF Books, TableOK, AccountOK
<1>. QED
  BY <1>4, <1>5 DEF Books

\* Every step keeps the books.
LEMMA StepKeepsBooks ==
    ASSUME Given, Books, QuietWhenClosed, [Next]_vars
    PROVE  Books'
<1>. USE CacheAssumption
<1>1. ASSUME NEW t, NEW k \in Keys, NEW mode, Miss(t, k, mode), ~closed, UNCHANGED closed
      PROVE  Books'
  <2>1. PICK e \in Entries \ born, c \in IF HasAllocate THEN Costs ELSE {1} : Insert(e, k, c)
    BY <1>1 DEF Miss
  <2>2. c \in Nat
    <3>1. c \in Costs \/ c = 1
      BY <2>1
    <3>. QED
      BY <3>1
  <2>. QED
    BY <1>1, <2>1, <2>2, InsertKeepsBooks DEF Miss
<1>2. ASSUME NEW k \in Keys, MissFails(k), ~closed PROVE Books'
  <2>1. MissVictims \in SUBSET alive
    BY VictimsUnused DEF Contract!Unused
  <2>. QED
    BY <1>2, <2>1, VanishKeepsBooks DEF MissFails, entryVars
<1>3. ASSUME UNCHANGED <<tableVars, entryVars, closed>> PROVE Books'
  BY <1>3 DEF tableVars, entryVars, Books, ListOK, TableOK, AccountOK
<1>4. ASSUME NEW t \in Threads, dt_cache_get(t) \/ dt_cache_testget(t) PROVE Books'
  <2>1. PICK k \in Keys, mode \in {"r", "w"} :
           Hit(t, k, mode) \/ Miss(t, k, mode) \/ MissFails(k)
    BY <1>4 DEF dt_cache_get, dt_cache_testget
  <2>2. ~closed /\ UNCHANGED closed
    BY <1>4 DEF dt_cache_get, dt_cache_testget
  <2>. QED
    BY <2>1, <2>2, <1>1, <1>2, HitKeepsBooks
<1>5. ASSUME NEW t \in Threads,
             dt_cache_release(t) \/ ReleaseTail(t) \/ Demote(t) \/ DemoteTail(t)
      PROVE  Books'
  BY <1>3, <1>5 DEF dt_cache_release, ReleaseTail, Demote, DemoteTail
<1>6. ASSUME NEW t \in Threads, DemoteGet(t) PROVE Books'
  <2>c. ~closed
    BY <1>6 DEF DemoteGet, QuietWhenClosed
  <2>1. ekey[ptr[t]] \in Keys
    BY <1>6 DEF DemoteGet, Given
  <2>2. /\ Hit(t, ekey[ptr[t]], "r") \/ Miss(t, ekey[ptr[t]], "r")
        /\ UNCHANGED closed
    BY <1>6 DEF DemoteGet
  <2>. QED
    BY <1>1, <2>c, <2>1, <2>2, HitKeepsBooks
<1>7. ASSUME NEW t \in Threads, dt_cache_remove(t) PROVE Books'
  <2>1. PICK e \in {hashtable[k] : k \in Keys} \ {NULL} : Delete(e)
    BY <1>7 DEF dt_cache_remove
  <2>2. e \in alive
    BY <2>1 DEF Books, TableOK
  <2>3. CostOf({e}) = ecost[e]
    <3>1. IsFiniteSet({e}) /\ {e} \ {e} = {} /\ IsFiniteSet({})
      BY FS_Singleton, FS_EmptySet
    <3>2. \A f \in {e} : ecost[f] \in Nat
      BY <2>2 DEF Given, Books, AccountOK
    <3>3. SumOver(ecost, {e}) = ecost[e] + SumOver(ecost, {e} \ {e})
      BY <3>1, <3>2, SumTakes
    <3>4. SumOver(ecost, {}) = 0
      BY <3>1, SumUnfolds
    <3>. QED
      BY <3>1, <3>2, <3>3, <3>4, CostIsSum
  <2>. QED
    BY <1>7, <2>1, <2>2, <2>3, VanishKeepsBooks DEF Delete, dt_cache_remove, entryVars
<1>8. ASSUME NEW t \in Threads, dt_cache_seed(t) PROVE Books'
  <2>1. PICK k \in Keys : Seed(k) \/ MissFails(k)
    BY <1>8 DEF dt_cache_seed
  <2>2. ~closed /\ UNCHANGED closed
    BY <1>8 DEF dt_cache_seed
  <2>. QED
    BY <2>1, <2>2, <1>2, InsertKeepsBooks DEF Seed
<1>9. ASSUME dt_cache_cleanup PROVE Books'
  <2>1. alive' = {}
    BY <1>9 DEF dt_cache_cleanup, Books, ListOK
  <2>2. lru' = <<>> /\ hashtable' = [k \in Keys |-> NULL] /\ closed' /\ UNCHANGED <<cost, ecost>>
    BY <1>9 DEF dt_cache_cleanup, entryVars
  <2>3. <<>> \in Seq(Entries) /\ DOMAIN <<>> = {}
    OBVIOUS
  <2>. QED
    BY <2>1, <2>2, <2>3 DEF Books, ListOK, TableOK, AccountOK, ToSet, IsInjective
<1>10. ASSUME UNCHANGED vars PROVE Books'
  BY <1>3, <1>10 DEF vars
<1>. QED
  BY <1>4, <1>5, <1>6, <1>7, <1>8, <1>9, <1>10 DEF Next

\* A thread enters no call of a cache that is cleaned up.
LEMMA StepKeepsQuiet ==
    ASSUME QuietWhenClosed, [Next]_vars
    PROVE  QuietWhenClosed'
<1>1. ASSUME NEW t \in Threads,
             dt_cache_get(t) \/ dt_cache_testget(t) \/ dt_cache_remove(t) \/ dt_cache_seed(t)
      PROVE  ~closed'
  BY <1>1 DEF dt_cache_get, dt_cache_testget, dt_cache_remove, dt_cache_seed
<1>2. ASSUME NEW t \in Threads,
             \/ dt_cache_release(t) \/ ReleaseTail(t)
             \/ Demote(t) \/ DemoteTail(t) \/ DemoteGet(t)
      PROVE  ~closed'
  BY <1>2
  DEF dt_cache_release, ReleaseTail, Demote, DemoteTail, DemoteGet, QuietWhenClosed
<1>3. ASSUME dt_cache_cleanup PROVE QuietWhenClosed'
  BY <1>3 DEF dt_cache_cleanup, QuietWhenClosed
<1>4. ASSUME UNCHANGED vars PROVE QuietWhenClosed'
  BY <1>4 DEF vars, QuietWhenClosed
<1>. QED
  BY <1>1, <1>2, <1>3, <1>4 DEF Next, QuietWhenClosed

\* The books of cache.c are kept for every quota and all costs.
THEOREM BooksAreKept == Spec => [](Given /\ Books /\ QuietWhenClosed)
<1>1. Init => Books /\ QuietWhenClosed
  <2>1. <<>> \in Seq(Entries) /\ DOMAIN <<>> = {}
    OBVIOUS
  <2>2. SumOver(ecost, {}) = 0
    BY FS_EmptySet, SumUnfolds
  <2>. QED
    BY <2>1, <2>2
    DEF Init, Books, ListOK, TableOK, AccountOK, QuietWhenClosed, ToSet, IsInjective
<1>2. Given /\ Books /\ QuietWhenClosed /\ [Next]_vars => Books' /\ QuietWhenClosed'
  BY StepKeepsBooks, StepKeepsQuiet
<1>3. Spec => []Given
  BY ContractInvariant, GivenHolds, PTL
<1>. QED
  BY <1>1, <1>2, <1>3, PTL DEF Spec

\* The table, the list and the heap agree, and nothing leaks at exit.
THEOREM IndexStaysConsistent == Spec => []IndexConsistent
<1>1. Books => IndexConsistent
  BY InjectiveLength DEF Books, ListOK, TableOK, IndexConsistent
<1>. QED
  BY <1>1, BooksAreKept, PTL

\* cache->cost is the sum of the costs of the entries that are in the cache.
THEOREM CostStaysExact == Spec => []CostExact
<1>1. Books => CostExact
  BY CostIsSum DEF Books, AccountOK, CostExact
<1>. QED
  BY <1>1, BooksAreKept, PTL

\* While a thread demotes an entry, nothing that the others request, remove, collect or insert
\* takes the protection of the flag away, but the end of another demotion of the same entry.
THEOREM DemotionStaysProtected == Spec => DemotionProtected
<1>. DEFINE Body(t) ==
        Demotes(t)' =>
          \/ Protected(ptr[t])'
          \/ Demotes(t) /\ ~Protected(ptr[t])
          \/ \E u \in Threads \ {t} : Demotes(u) /\ ~Demotes(u)' /\ ptr'[u] = ptr[t]
<1>1. ASSUME Proved!IInv, [Proved!Next]_(Proved!vars), NEW t \in Threads PROVE Body(t)
  <2>1. Proved!KeepsProtection(t)
    BY <1>1, CacheAssumption, Proved!StepProtects
  <2>. QED
    BY <2>1 DEF Proved!KeepsProtection, Proved!Demotes, Proved!Protected, Demotes, Protected
<1>. HIDE DEF Body
<1>2. Proved!IInv /\ [Proved!Next]_(Proved!vars) => [\A t \in Threads : Body(t)]_vars
  BY <1>1
<1>3. Spec => [][Proved!Next]_(Proved!vars)
  BY ImplementsContract, SameContract, PTL DEF KeepsContract, Contract!Spec
<1>4. DemotionProtected <=> [][\A t \in Threads : Body(t)]_vars
  BY DEF DemotionProtected, Body
<1>. QED
  BY <1>2, <1>3, <1>4, ContractInvariant, PTL

----------------------------------------------------------------------------
(* What the collector takes *)

\* The entries before e in the list.
Older(e) ==
    {lru[i] : i \in {i \in DOMAIN lru : \E k \in DOMAIN lru : i < k /\ lru[k] = e}}

\* What dt_cache_gc has deleted when it comes to e.
TakenBefore(e) == {f \in Older(e) : Deletable(f)}

\* Fewer entries cost less.
LEMMA FewerCostLess ==
    ASSUME ListOK, AccountOK, NEW T \in SUBSET alive, NEW S \in SUBSET T
    PROVE  /\ CostOf(S) \in Nat /\ CostOf(T) \in Nat
           /\ CostOf(S) <= CostOf(T)
<1>1. S \in SUBSET alive /\ T \ S \in SUBSET alive
  OBVIOUS
<1>2. /\ SumOver(ecost, S) \in Nat /\ SumOver(ecost, T) \in Nat
      /\ SumOver(ecost, T \ S) \in Nat
  BY <1>1, LivingFinite
<1>3. IsFiniteSet(T) /\ \A e \in T : ecost[e] \in Nat
  BY LivingFinite
<1>4. SumOver(ecost, T) = SumOver(ecost, S) + SumOver(ecost, T \ S)
  BY <1>3, SumSplits
<1>. QED
  BY <1>2, <1>4, CostIsSum

\* What the list of living entries says of those before an entry.
LEMMA OlderMeaning ==
    ASSUME ListOK, NEW k \in DOMAIN lru
    PROVE  /\ Older(lru[k]) = {lru[i] : i \in {i \in DOMAIN lru : i < k}}
           /\ TakenBefore(lru[k]) \in SUBSET alive
           /\ lru[k] \in alive
<1>1. Older(lru[k]) = {lru[i] : i \in {i \in DOMAIN lru : i < k}}
  BY DEF Older, ListOK, IsInjective
<1>2. Older(lru[k]) \subseteq ToSet(lru) /\ lru[k] \in ToSet(lru)
  BY <1>1 DEF ToSet
<1>. QED
  BY <1>1, <1>2 DEF TakenBefore, ListOK

\* The collector takes an unused entry if the ones it took before left the cost too high.
LEMMA VictimsMeaning ==
    \A e : e \in GcVictims <=>
        /\ e \in alive
        /\ Deletable(e)
        /\ (cost - CostOf(TakenBefore(e))) * 5 >= cost_quota * 4
BY DEF GcVictims, TakenBefore, Older

\* It takes no entry while it leaves an older unused one.
LEMMA OldestFirst ==
    ASSUME ListOK, AccountOK, NEW i \in DOMAIN lru, NEW k \in DOMAIN lru, i < k,
           lru[k] \in MissVictims, Deletable(lru[i])
    PROVE  lru[i] \in MissVictims
<1>1. MissVictims = GcVictims
  BY DEF MissVictims
<1>2. i \in Nat /\ k \in Nat /\ \A j \in DOMAIN lru : j \in Nat
  BY DEF ListOK
<1>3. TakenBefore(lru[i]) \subseteq TakenBefore(lru[k])
  BY <1>2, OlderMeaning DEF TakenBefore
<1>4. /\ CostOf(TakenBefore(lru[i])) \in Nat /\ CostOf(TakenBefore(lru[k])) \in Nat
      /\ CostOf(TakenBefore(lru[i])) <= CostOf(TakenBefore(lru[k]))
  BY <1>3, OlderMeaning, FewerCostLess
<1>5. (cost - CostOf(TakenBefore(lru[k]))) * 5 >= cost_quota * 4
  BY <1>1, VictimsMeaning
<1>6. (cost - CostOf(TakenBefore(lru[i]))) * 5 >= cost_quota * 4
  BY <1>4, <1>5, CacheAssumption DEF AccountOK
<1>. QED
  BY <1>1, <1>6, OlderMeaning, VictimsMeaning

\* It stops below 80 % of the quota, or when it has taken all it may.
LEMMA UntilBelow ==
    ASSUME ListOK, AccountOK, cost * 5 > cost_quota * 4,
           NEW e \in alive \ MissVictims, Deletable(e)
    PROVE  (cost - CostOf(MissVictims)) * 5 < cost_quota * 4
<1>. DEFINE Left == {k \in DOMAIN lru : Deletable(lru[k]) /\ lru[k] \notin MissVictims}
<1>1. MissVictims = GcVictims
  BY DEF MissVictims
<1>2. Left # {} /\ Left \in SUBSET Nat
  <2>1. PICK k \in DOMAIN lru : lru[k] = e
    BY DEF ListOK, ToSet
  <2>. QED
    BY <2>1 DEF ListOK
<1>3. PICK k \in Left : \A i \in Left : k <= i
  <2>. HIDE DEF Left
  <2>. QED
    BY <1>2, Smallest
<1>4. TakenBefore(lru[k]) \subseteq MissVictims
  <2>1. ASSUME NEW i \in DOMAIN lru, i < k, Deletable(lru[i]) PROVE lru[i] \in MissVictims
    <3>1. i \notin Left
      BY <1>2, <1>3, <2>1 DEF ListOK
    <3>. QED
      BY <2>1, <3>1
  <2>. QED
    BY <1>3, <2>1, OlderMeaning DEF TakenBefore
<1>5. MissVictims \in SUBSET alive
  BY VictimsUnused DEF Contract!Unused
<1>6. /\ CostOf(TakenBefore(lru[k])) \in Nat /\ CostOf(MissVictims) \in Nat
      /\ CostOf(TakenBefore(lru[k])) <= CostOf(MissVictims)
  BY <1>4, <1>5, FewerCostLess
<1>7. ~((cost - CostOf(TakenBefore(lru[k]))) * 5 >= cost_quota * 4)
  BY <1>1, <1>3, OlderMeaning, VictimsMeaning
<1>. QED
  BY <1>6, <1>7, CacheAssumption DEF AccountOK

\* What one step of dt_cache_get or dt_cache_seed evicts: gone of the living entries, to
\* make room for new ones.
EvictsWell(gone, new) ==
    /\ cost * 5 <= cost_quota * 4 => gone = {}
    /\ cost * 5 > cost_quota * 4 /\ new # {} =>
         \/ (cost' - SumOver(ecost', new)) * 5 < cost_quota * 4
         \/ \A e \in alive \cap alive' : ~Deletable(e)
    /\ \A i, k \in DOMAIN lru :
         i < k /\ lru[k] \in gone => lru[i] \in gone \/ ~Deletable(lru[i])

\* A get or a seed collects like that.
LEMMA StepEvictsWell ==
    ASSUME Given, Books, NEW t \in Threads, dt_cache_get(t) \/ dt_cache_seed(t)
    PROVE  EvictsWell(alive \ alive', alive' \ alive)
<1>. DEFINE V == MissVictims
<1>1. V \in SUBSET alive
  BY VictimsUnused DEF Contract!Unused
<1>2. cost * 5 <= cost_quota * 4 => V = {}
  BY CacheAssumption DEF MissVictims, Books, AccountOK
<1>3. \A i, k \in DOMAIN lru : i < k /\ lru[k] \in V => lru[i] \in V \/ ~Deletable(lru[i])
  BY OldestFirst DEF Books
<1>4. ASSUME alive' = alive PROVE EvictsWell(alive \ alive', alive' \ alive)
  BY <1>4 DEF EvictsWell
<1>5. ASSUME alive' = alive \ V PROVE EvictsWell(alive \ alive', alive' \ alive)
  <2>1. alive \ alive' = V /\ alive' \ alive = {}
    BY <1>1, <1>5
  <2>. QED
    BY <1>2, <1>3, <2>1 DEF EvictsWell
<1>6. ASSUME NEW e \in Entries \ born, NEW k \in Keys, NEW c \in Nat, Insert(e, k, c)
      PROVE  EvictsWell(alive \ alive', alive' \ alive)
  <2>1. e \notin alive
    BY DEF Given
  <2>2. /\ alive' = (alive \ V) \cup {e} /\ cost' = (cost - CostOf(V)) + c
        /\ ecost' = [ecost EXCEPT ![e] = c]
    BY <1>6 DEF Insert
  <2>. HIDE DEF V
  <2>3. alive \ alive' = V /\ alive' \ alive = {e} /\ alive \cap alive' = alive \ V
    BY <1>1, <2>1, <2>2
  <2>4. SumOver(ecost', {e}) = c
    <3>1. ecost'[e] = c
      BY <2>2 DEF Books, AccountOK
    <3>. DEFINE f == ecost'
    <3>2. IsFiniteSet({e}) /\ {e} \ {e} = {} /\ IsFiniteSet({})
      BY FS_Singleton, FS_EmptySet
    <3>3. f[e] = c /\ \A x \in {e} : f[x] \in Nat
      BY <3>1
    <3>. HIDE DEF f
    <3>4. SumOver(f, {e}) = f[e] + SumOver(f, {e} \ {e})
      BY <3>2, <3>3, SumTakes
    <3>6. SumOver(f, {}) = 0
      BY <3>2, SumUnfolds
    <3>5. SumOver(f, {e}) = c
      BY <3>2, <3>3, <3>4, <3>6
    <3>. QED
      BY <3>5 DEF f
  <2>5. cost' - SumOver(ecost', {e}) = cost - CostOf(V)
    <3>1. CostOf(V) \in Nat /\ cost \in Nat
      BY <1>1, FewerCostLess DEF Books, AccountOK
    <3>. QED
      BY <2>2, <2>4, <3>1
  <2>6. cost * 5 > cost_quota * 4 =>
          (cost - CostOf(V)) * 5 < cost_quota * 4 \/ \A x \in alive \ V : ~Deletable(x)
    BY UntilBelow DEF Books, V
  <2>. QED
    BY <1>2, <1>3, <2>3, <2>5, <2>6 DEF EvictsWell
<1>. HIDE DEF V
<1>7. ASSUME NEW k \in Keys, MissFails(k) PROVE EvictsWell(alive \ alive', alive' \ alive)
  BY <1>5, <1>7 DEF MissFails, V
<1>8. ASSUME NEW k \in Keys, Seed(k) PROVE EvictsWell(alive \ alive', alive' \ alive)
  BY <1>6, <1>8, CacheAssumption DEF Seed
<1>9. ASSUME NEW k \in Keys, NEW mode, Miss(t, k, mode)
      PROVE  EvictsWell(alive \ alive', alive' \ alive)
  <2>1. PICK e \in Entries \ born, c \in IF HasAllocate THEN Costs ELSE {1} : Insert(e, k, c)
    BY <1>9 DEF Miss
  <2>2. c \in Costs \/ c = 1
    BY <2>1
  <2>. QED
    BY <1>6, <2>1, <2>2, CacheAssumption
<1>10. ASSUME NEW k \in Keys, NEW mode, Hit(t, k, mode)
       PROVE  EvictsWell(alive \ alive', alive' \ alive)
  BY <1>4, <1>10 DEF Hit
<1>. QED
  BY <1>7, <1>8, <1>9, <1>10 DEF dt_cache_get, dt_cache_seed

\* A miss leaves the cache below 80 % of its quota or keeps only what somebody uses, and it
\* evicts no entry while an older unused one stays: for every quota, all costs and any list.
THEOREM MissEvictsOldest == Spec => EvictsOldestUntilBelow
<1>. DEFINE Body(t) ==
        dt_cache_get(t) \/ dt_cache_seed(t) =>
          LET gone == alive \ alive'
              new == alive' \ alive
              kept == (cost' - MapThenSumSet(LAMBDA e : ecost'[e], new)) * 5
          IN  /\ cost * 5 <= cost_quota * 4 => gone = {}
              /\ cost * 5 > cost_quota * 4 /\ new # {} =>
                   kept < cost_quota * 4 \/ \A e \in alive \cap alive' : ~Deletable(e)
              /\ \A i, k \in DOMAIN lru :
                   i < k /\ lru[k] \in gone => lru[i] \in gone \/ ~Deletable(lru[i])
<1>1. \A S : SumOver(ecost', S) = MapThenSumSet(LAMBDA e : ecost'[e], S)
  BY Zenon DEF SumOver, MapThenSumSet, MapThenFoldSet
<1>2. EvictsOldestUntilBelow <=> [][\A t \in Threads : Body(t)]_vars
  BY DEF EvictsOldestUntilBelow
<1>3. ASSUME Given, Books, NEW t \in Threads PROVE Body(t)
  <2>1. SUFFICES ASSUME dt_cache_get(t) \/ dt_cache_seed(t) PROVE Body(t)
    OBVIOUS
  <2>2. EvictsWell(alive \ alive', alive' \ alive)
    BY <1>3, <2>1, StepEvictsWell
  <2>3. SumOver(ecost', alive' \ alive) = MapThenSumSet(LAMBDA e : ecost'[e], alive' \ alive)
    BY <1>1, Zenon
  <2>. QED
    BY <2>2, <2>3, Zenon DEF EvictsWell
<1>. HIDE DEF Body
<1>4. Given /\ Books => [\A t \in Threads : Body(t)]_vars
  BY <1>3
<1>. QED
  BY <1>2, <1>4, BooksAreKept, PTL
============================================================================
