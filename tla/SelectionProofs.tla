----------------------------- MODULE SelectionProofs -----------------------------
(***************************************************************************)
(* A stable sort moves elements and does nothing else, and puts them in      *)
(* order: under any strict total order of its places, the ranks of a        *)
(* sequence are a permutation, and rank what comes first lower.             *)
(***************************************************************************)
EXTENDS Selection, FiniteSetTheorems, FunctionTheorems, SequenceTheorems, TLAPS

\* R is a strict total order on D.
Orders(R, D) ==
    /\ \A i \in D : <<i, i>> \notin R
    /\ \A i, j, k \in D : <<i, j>> \in R /\ <<j, k>> \in R => <<i, k>> \in R
    /\ \A i, j \in D : i = j \/ <<i, j>> \in R \/ <<j, i>> \in R

\* What ranks before i.
Before(R, D, i) == {j \in D : <<j, i>> \in R}

\* t is s with its elements in other places.
Rearranges(t, s) ==
    \E f \in [DOMAIN s -> DOMAIN s] :
        /\ \A i, j \in DOMAIN s : f[i] = f[j] => i = j
        /\ \A k \in DOMAIN s : \E i \in DOMAIN s : f[i] = k
        /\ DOMAIN t = DOMAIN s
        /\ \A i \in DOMAIN s : t[i] = s[f[i]]

\* An element of t comes from a place of s that R has before that of any later one.
Follows(t, s, R) ==
    \A i, k \in DOMAIN s : i < k =>
        \E a, b \in DOMAIN s : t[i] = s[a] /\ t[k] = s[b] /\ <<a, b>> \in R

--------------------------------------------------------------------------------

\* A place has at most the others before it, and earlier places have fewer.
LEMMA RanksInRange ==
    ASSUME NEW n \in Nat, NEW R, Orders(R, 1..n), NEW i \in 1..n
    PROVE  Rank(R, 1..n, i) \in 1..n
<1>1. IsFiniteSet(1..n) /\ Cardinality(1..n) = n
  BY FS_Interval
<1>2. IsFiniteSet((1..n) \ {i}) /\ Cardinality((1..n) \ {i}) = n - 1
  BY <1>1, FS_RemoveElement
<1>3. Before(R, 1..n, i) \in SUBSET ((1..n) \ {i})
  BY DEF Before, Orders
<1>4. IsFiniteSet(Before(R, 1..n, i)) /\ Cardinality(Before(R, 1..n, i)) <= n - 1
  BY <1>2, <1>3, FS_Subset
<1>5. Cardinality(Before(R, 1..n, i)) \in Nat
  BY <1>4, FS_CardinalityType
<1>6. Rank(R, 1..n, i) = 1 + Cardinality(Before(R, 1..n, i))
  BY DEF Rank, Before
<1> QED
  BY <1>4, <1>5, <1>6

\* Of two places, the one before the other has the lower rank.
LEMMA RanksGrow ==
    ASSUME NEW n \in Nat, NEW R, Orders(R, 1..n), NEW i \in 1..n, NEW j \in 1..n,
           <<i, j>> \in R
    PROVE  Rank(R, 1..n, i) < Rank(R, 1..n, j)
<1>1. IsFiniteSet(1..n)
  BY FS_Interval
<1>2. Before(R, 1..n, j) \in SUBSET (1..n)
  BY DEF Before
<1>3. IsFiniteSet(Before(R, 1..n, j))
  BY <1>1, <1>2, FS_Subset
<1>4. Before(R, 1..n, i) \in SUBSET Before(R, 1..n, j)
  BY DEF Before, Orders
<1>5. i \in Before(R, 1..n, j) /\ i \notin Before(R, 1..n, i)
  BY DEF Before, Orders
<1>6. /\ Cardinality(Before(R, 1..n, i)) <= Cardinality(Before(R, 1..n, j))
      /\ Cardinality(Before(R, 1..n, i)) # Cardinality(Before(R, 1..n, j))
  BY <1>3, <1>4, <1>5, FS_Subset
<1>7. IsFiniteSet(Before(R, 1..n, i))
  BY <1>3, <1>4, FS_Subset
<1>8. Cardinality(Before(R, 1..n, i)) \in Nat /\ Cardinality(Before(R, 1..n, j)) \in Nat
  BY <1>3, <1>7, FS_CardinalityType
<1>9. /\ Rank(R, 1..n, i) = 1 + Cardinality(Before(R, 1..n, i))
      /\ Rank(R, 1..n, j) = 1 + Cardinality(Before(R, 1..n, j))
  BY DEF Rank, Before
<1> QED
  BY <1>6, <1>8, <1>9

\* So every rank is taken, by one place.
LEMMA RanksAreAPermutation ==
    ASSUME NEW n \in Nat, NEW R, Orders(R, 1..n)
    PROVE  /\ \A i, j \in 1..n : Rank(R, 1..n, i) = Rank(R, 1..n, j) => i = j
           /\ \A k \in 1..n : \E i \in 1..n : Rank(R, 1..n, i) = k
<1> DEFINE rank == [i \in 1..n |-> Rank(R, 1..n, i)]
<1>1. \A i, j \in 1..n : Rank(R, 1..n, i) = Rank(R, 1..n, j) => i = j
  <2> SUFFICES ASSUME NEW i \in 1..n, NEW j \in 1..n, i # j
               PROVE  Rank(R, 1..n, i) # Rank(R, 1..n, j)
    OBVIOUS
  <2>1. Rank(R, 1..n, i) \in 1..n /\ Rank(R, 1..n, j) \in 1..n
    BY RanksInRange
  <2>2. <<i, j>> \in R \/ <<j, i>> \in R
    BY DEF Orders
  <2>3. Rank(R, 1..n, i) < Rank(R, 1..n, j) \/ Rank(R, 1..n, j) < Rank(R, 1..n, i)
    BY <2>2, RanksGrow
  <2> QED
    BY <2>1, <2>3
<1>2. rank \in [1..n -> 1..n]
  BY RanksInRange
<1>3. \A i, j \in 1..n : rank[i] = rank[j] => i = j
  BY <1>1
<1> HIDE DEF rank
<1>4. rank \in Injection(1..n, 1..n)
  BY <1>2, <1>3, Fun_IsInj
<1>5. IsFiniteSet(1..n)
  BY FS_Interval
<1>6. rank \in Surjection(1..n, 1..n)
  BY <1>4, <1>5, FS_Injection
<1>7. \A k \in 1..n : \E i \in 1..n : rank[i] = k
  BY <1>6 DEF Surjection
<1> QED
  BY <1>1, <1>7 DEF rank

\* Some of the places ranked by R have a first one.
LEMMA FirstOfSome ==
    ASSUME NEW n \in Nat, NEW R, Orders(R, 1..n), NEW P \in SUBSET (1..n), P # {}
    PROVE  \E i \in P : \A j \in P \ {i} : <<i, j>> \in R
<1> DEFINE Q == {p \in (1..n) \X (1..n) :
                    \/ p[1] \in P /\ p[2] \notin P
                    \/ (p[1] \in P <=> p[2] \in P) /\ p \in R}
<1>1. \A i, j \in 1..n : <<i, j>> \in Q <=>
         (i \in P /\ j \notin P) \/ ((i \in P <=> j \in P) /\ <<i, j>> \in R)
  OBVIOUS
<1> HIDE DEF Q
<1>2. Orders(Q, 1..n)
  BY <1>1 DEF Orders
<1>3. PICK s \in P : s \in 1..n
  OBVIOUS
<1>4. 1 \in 1..n
  BY <1>3
<1>5. PICK i \in 1..n : Rank(Q, 1..n, i) = 1
  BY <1>2, <1>4, RanksAreAPermutation
<1>6. IsFiniteSet(1..n) /\ Before(Q, 1..n, i) \in SUBSET (1..n)
  BY FS_Interval DEF Before
<1>7. IsFiniteSet(Before(Q, 1..n, i)) /\ Cardinality(Before(Q, 1..n, i)) \in Nat
  BY <1>6, FS_Subset, FS_CardinalityType
<1>8. Cardinality(Before(Q, 1..n, i)) = 0
  BY <1>5, <1>7 DEF Rank, Before
<1>9. Before(Q, 1..n, i) = {}
  BY <1>7, <1>8, FS_EmptySet
<1>10. \A j \in 1..n : <<j, i>> \notin Q
  BY <1>9 DEF Before
<1>11. i \in P
  BY <1>1, <1>3, <1>10
<1>12. \A j \in P \ {i} : <<i, j>> \in R
  BY <1>1, <1>2, <1>10, <1>11 DEF Orders
<1> QED
  BY <1>11, <1>12

\* Sorting neither loses nor doubles an element, whatever the order.
THEOREM SortedRearranges ==
    ASSUME NEW S, NEW s \in Seq(S), NEW R, Orders(R, DOMAIN s)
    PROVE  /\ Sorted(s, R) \in Seq(S) /\ Len(Sorted(s, R)) = Len(s)
           /\ Rearranges(Sorted(s, R), s)
<1> DEFINE D == DOMAIN s
           At(k) == CHOOSE i \in D : Rank(R, D, i) = k
           f == [k \in D |-> At(k)]
<1>1. PICK n \in Nat : D = 1..n /\ Len(s) = n
  BY LenProperties
<1>2. /\ \A i, j \in D : Rank(R, D, i) = Rank(R, D, j) => i = j
      /\ \A k \in D : \E i \in D : Rank(R, D, i) = k
  <2>1. Orders(R, 1..n)
    BY <1>1
  <2>2. /\ \A i, j \in 1..n : Rank(R, 1..n, i) = Rank(R, 1..n, j) => i = j
        /\ \A k \in 1..n : \E i \in 1..n : Rank(R, 1..n, i) = k
    BY <2>1, RanksAreAPermutation
  <2> HIDE DEF D
  <2> QED
    BY <1>1, <2>2
<1>3. \A k \in D : At(k) \in D /\ Rank(R, D, At(k)) = k
  BY <1>2
<1>4. \A i \in D : Rank(R, D, i) \in D
  BY <1>1, RanksInRange
<1>5. \A i \in D : At(Rank(R, D, i)) = i
  BY <1>2, <1>3, <1>4
<1>6. f \in [D -> D] /\ \A k \in D : f[k] = At(k)
  BY <1>3
<1>7. \A i, j \in D : f[i] = f[j] => i = j
  BY <1>3, <1>6
<1>8. \A k \in D : \E i \in D : f[i] = k
  BY <1>4, <1>5, <1>6
<1>9. Sorted(s, R) = [k \in D |-> s[At(k)]]
  BY DEF Sorted
<1>10. DOMAIN Sorted(s, R) = D /\ \A k \in D : Sorted(s, R)[k] = s[f[k]]
  BY <1>6, <1>9
<1> HIDE DEF At, f
<1>11. Rearranges(Sorted(s, R), s)
  BY <1>6, <1>7, <1>8, <1>10 DEF Rearranges
<1>12. \A k \in D : s[At(k)] \in S
  BY <1>3, ElementOfSeq, <1>1
<1>13. Sorted(s, R) \in [1..n -> S]
  BY <1>1, <1>9, <1>12
<1>14. Sorted(s, R) \in Seq(S) /\ Len(Sorted(s, R)) = n
  BY <1>13, SeqDef, LenProperties, <1>1
<1> QED
  BY <1>1, <1>11, <1>14

\* What ranks earlier comes earlier, which for an order that goes by place among equals
\* is what sort.SliceStable promises.
THEOREM SortedInOrder ==
    ASSUME NEW S, NEW s \in Seq(S), NEW R, Orders(R, DOMAIN s)
    PROVE  Follows(Sorted(s, R), s, R)
<1> SUFFICES ASSUME NEW i \in DOMAIN s, NEW k \in DOMAIN s, i < k
             PROVE  \E a, b \in DOMAIN s :
                       Sorted(s, R)[i] = s[a] /\ Sorted(s, R)[k] = s[b] /\ <<a, b>> \in R
  BY DEF Follows
<1> DEFINE At(m) == CHOOSE x \in DOMAIN s : Rank(R, DOMAIN s, x) = m
<1>1. PICK n \in Nat : DOMAIN s = 1..n
  BY LenProperties
<1>2. Orders(R, 1..n) /\ i \in 1..n /\ k \in 1..n
  BY <1>1
<1>3. \A m \in 1..n : \E x \in 1..n : Rank(R, 1..n, x) = m
  BY <1>2, RanksAreAPermutation
<1>4. \A m \in 1..n : At(m) \in 1..n /\ Rank(R, 1..n, At(m)) = m
  BY <1>1, <1>3
<1>5. Sorted(s, R)[i] = s[At(i)] /\ Sorted(s, R)[k] = s[At(k)]
  BY DEF Sorted
<1> HIDE DEF At
<1>6. PICK a \in 1..n, b \in 1..n : /\ a = At(i) /\ Rank(R, 1..n, a) = i
                                    /\ b = At(k) /\ Rank(R, 1..n, b) = k
  BY <1>2, <1>4
<1>7. a # b /\ ~ (<<b, a>> \in R)
  <2>1. <<b, a>> \in R => k < i
    BY <1>2, <1>6, RanksGrow
  <2> QED
    BY <1>2, <1>6, <2>1
<1>8. <<a, b>> \in R
  BY <1>2, <1>7 DEF Orders
<1> QED
  BY <1>1, <1>5, <1>6, <1>8

\* The order of runIndexExperiments is one.
LEMMA LargestFirstOrders ==
    ASSUME NEW s, NEW n \in Nat, DOMAIN s = 1..n, \A i \in 1..n : s[i].gain \in Int
    PROVE  Orders(LargestFirst(s), DOMAIN s)
<1>1. \A i, j \in 1..n : <<i, j>> \in LargestFirst(s) <=>
         s[i].gain > s[j].gain \/ (s[i].gain = s[j].gain /\ i < j)
  BY DEF LargestFirst
<1> QED
  BY <1>1 DEF Orders

\* Where gains are numbers, the larger come first.
LEMMA RankedByGain ==
    ASSUME NEW S, NEW s \in Seq(S), \A x \in S : x.gain \in Int,
           NEW i \in DOMAIN s, NEW k \in DOMAIN s, i < k
    PROVE  Ranked(s)[i].gain >= Ranked(s)[k].gain
<1> DEFINE R == LargestFirst(s)
<1>1. PICK n \in Nat : DOMAIN s = 1..n
  OBVIOUS
<1>2. \A j \in 1..n : s[j] \in S
  BY <1>1
<1>3. \A j \in 1..n : s[j].gain \in Int
  BY <1>2
<1>4. Orders(R, DOMAIN s)
  BY <1>1, <1>3, LargestFirstOrders
<1>5. Follows(Ranked(s), s, R)
  BY <1>4, SortedInOrder DEF Ranked
<1>6. PICK a \in DOMAIN s, b \in DOMAIN s :
         Ranked(s)[i] = s[a] /\ Ranked(s)[k] = s[b] /\ <<a, b>> \in R
  BY <1>5 DEF Follows
<1>7. s[a].gain >= s[b].gain
  BY <1>1, <1>3, <1>6 DEF LargestFirst
<1> QED
  BY <1>6, <1>7
================================================================================
