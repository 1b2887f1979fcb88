---------------------------- MODULE ListingProofs -----------------------------
(***************************************************************************)
(* Proofs about Listing, and about the two parts that compute with lists:  *)
(* the marks of a training module (Courses) and the order of what a search *)
(* returns (Retrieval). Their invariants are mostly what the operators     *)
(* return, for lists of any length.                                        *)
(***************************************************************************)
EXTENDS Listing, FiniteSetTheorems, SequenceTheorems, TLAPS

CONSTANTS
    Option, NoKey, Points, Weight, Awarded, Mark, MaxQuestions, MaxCriteria,
    Chunk, DocumentOf, Depth, Limits, Pool, MaxBatch, MaxVotes,
    None

VARIABLES
    kind, left, made, module, record,
    search, answer

Course == INSTANCE Courses
Finds == INSTANCE Retrieval
-------------------------------------------------------------------------------
(* ---- Listing --------------------------------------------------------------- *)

\* In a total order of a finite set the places, one more than the elements before, are
\* the numbers from 1 on, each taken once and in that order.
LEMMA Places ==
    ASSUME NEW S, IsFiniteSet(S), NEW R,
           \A i \in S : <<i, i>> \notin R,
           \A i, j \in S : i # j => <<i, j>> \in R \/ <<j, i>> \in R,
           \A i, j, k \in S : <<i, j>> \in R /\ <<j, k>> \in R => <<i, k>> \in R
    PROVE  \E f \in [S -> 1..Cardinality(S)] :
               /\ \A i \in S : f[i] = Cardinality({j \in S : <<j, i>> \in R}) + 1
               /\ \A i, j \in S : <<i, j>> \in R <=> f[i] < f[j]
               /\ \A p \in 1..Cardinality(S) : \E i \in S : f[i] = p
<1> DEFINE Before(i) == {j \in S : <<j, i>> \in R}
           f == [i \in S |-> Cardinality(Before(i)) + 1]
<1>1. Cardinality(S) \in Nat
  BY FS_CardinalityType
<1>2. ASSUME NEW i \in S
      PROVE  /\ IsFiniteSet(Before(i)) /\ Cardinality(Before(i)) \in Nat
             /\ Cardinality(Before(i)) + 1 \in 1..Cardinality(S)
  <2>1. Before(i) \in SUBSET S /\ Before(i) # S
    OBVIOUS
  <2>2. /\ IsFiniteSet(Before(i)) /\ Cardinality(Before(i)) <= Cardinality(S)
        /\ Cardinality(S) # Cardinality(Before(i))
    BY <2>1, FS_Subset
  <2>3. Cardinality(Before(i)) \in Nat
    BY <2>2, FS_CardinalityType
  <2> QED BY <1>1, <2>2, <2>3
<1>3. ASSUME NEW i \in S, NEW j \in S, <<i, j>> \in R
      PROVE  f[i] < f[j]
  <2>1. Before(i) \in SUBSET Before(j)
    BY <1>3
  <2>2. i \in Before(j) /\ i \notin Before(i)
    BY <1>3
  <2>3. /\ IsFiniteSet(Before(j))
        /\ Cardinality(Before(i)) \in Nat /\ Cardinality(Before(j)) \in Nat
    BY <1>2
  <2>4. /\ Cardinality(Before(i)) <= Cardinality(Before(j))
        /\ Cardinality(Before(j)) # Cardinality(Before(i))
    BY <2>1, <2>2, <2>3, FS_Subset
  <2>5. f[i] = Cardinality(Before(i)) + 1 /\ f[j] = Cardinality(Before(j)) + 1
    OBVIOUS
  <2> HIDE DEF f, Before
  <2> QED BY <2>3, <2>4, <2>5
<1>4. f \in [S -> 1..Cardinality(S)]
  BY <1>2
<1>5. \A i, j \in S : <<i, j>> \in R <=> f[i] < f[j]
  <2> SUFFICES ASSUME NEW i \in S, NEW j \in S, f[i] < f[j]
               PROVE  <<i, j>> \in R
    BY <1>3
  <2>1. f[i] \in Nat /\ f[j] \in Nat
    BY <1>4
  <2>2. <<j, i>> \in R => f[j] < f[i]
    BY <1>3
  <2> HIDE DEF f, Before
  <2>3. <<j, i>> \notin R /\ i # j
    BY <2>1, <2>2
  <2> QED BY <2>3
<1>6. \A p \in 1..Cardinality(S) : \E i \in S : f[i] = p
  <2>1. IsInjective(f)
    <3> SUFFICES ASSUME NEW i \in S, NEW j \in S, f[i] = f[j], i # j
                 PROVE  FALSE
      BY DEF IsInjective
    <3>1. f[i] \in Nat /\ f[j] \in Nat
      BY <1>4
    <3> HIDE DEF f
    <3> QED BY <1>5, <3>1
  <2>2. f \in Injection(S, 1..Cardinality(S))
    BY <1>4, <2>1 DEF Injection
  <2>3. IsFiniteSet(1..Cardinality(S)) /\ Cardinality(1..Cardinality(S)) = Cardinality(S)
    BY <1>1, FS_Interval
  <2>4. f \in Surjection(S, 1..Cardinality(S))
    BY <2>2, <2>3, FS_Injection
  <2> QED BY <2>4 DEF Surjection
<1>7. \A i \in S : f[i] = Cardinality({j \in S : <<j, i>> \in R}) + 1
  OBVIOUS
<1> HIDE DEF f
<1> QED BY <1>4, <1>5, <1>6, <1>7

\* The indices of 1..n that sort before i.
Ahead(key, n, i) == {j \in 1..n : key[j] < key[i] \/ (key[j] = key[i] /\ j < i)}

\* What sorts before what.
Before(key, i, j) == key[i] < key[j] \/ (key[i] = key[j] /\ i < j)

\* f moves each element of s to its place in t, which grows with its key and, for equal
\* keys, with its index.
Moves(f, s, key, t) ==
    /\ \A i, j \in 1..Len(s) :
          f[i] < f[j] <=> Before(key, i, j)
    /\ \A p \in 1..Len(s) : \E i \in 1..Len(s) : f[i] = p
    /\ \A i \in 1..Len(s) : t[f[i]] = s[i]
    /\ \A i \in 1..Len(s) : f[i] = Cardinality(Ahead(key, Len(s), i)) + 1

\* Sorted puts each element in its place.
LEMMA SortedPlaces ==
    ASSUME NEW X, NEW s \in Seq(X), NEW key \in [1..Len(s) -> Int]
    PROVE  /\ Sorted(s, key) \in Seq(X) /\ Len(Sorted(s, key)) = Len(s)
           /\ \E f \in [1..Len(s) -> 1..Len(s)] : Moves(f, s, key, Sorted(s, key))
<1> DEFINE S == DOMAIN s
           R == {p \in S \X S : key[p[1]] < key[p[2]] \/ (key[p[1]] = key[p[2]] /\ p[1] < p[2])}
<1>1. Len(s) \in Nat /\ S = 1..Len(s) /\ IsFiniteSet(S) /\ Cardinality(S) = Len(s)
  <2>1. PICK n \in Nat : n = Len(s) /\ S = 1..n
    OBVIOUS
  <2>2. IsFiniteSet(1..n) /\ Cardinality(1..n) = n
    BY FS_Interval
  <2> QED BY <2>1, <2>2
<1>2. \A i, j \in S : <<i, j>> \in R <=> key[i] < key[j] \/ (key[i] = key[j] /\ i < j)
  OBVIOUS
<1>3. \A i \in S : key[i] \in Int /\ i \in Int
  BY <1>1
<1>4. PICK f \in [S -> S] :
        /\ \A i \in S : f[i] = Cardinality({j \in S : <<j, i>> \in R}) + 1
        /\ \A i, j \in S : <<i, j>> \in R <=> f[i] < f[j]
        /\ \A p \in S : \E i \in S : f[i] = p
  <2> HIDE DEF R, S
  <2>1. \A i \in S : <<i, i>> \notin R
    BY <1>2, <1>3
  <2>2. \A i, j \in S : i # j => <<i, j>> \in R \/ <<j, i>> \in R
    BY <1>2, <1>3
  <2>3. \A i, j, k \in S : <<i, j>> \in R /\ <<j, k>> \in R => <<i, k>> \in R
    BY <1>2, <1>3
  <2>4. \E f \in [S -> 1..Cardinality(S)] :
               /\ \A i \in S : f[i] = Cardinality({j \in S : <<j, i>> \in R}) + 1
               /\ \A i, j \in S : <<i, j>> \in R <=> f[i] < f[j]
               /\ \A p \in 1..Cardinality(S) : \E i \in S : f[i] = p
    <3>1. IsFiniteSet(S)
      BY <1>1
    <3> QED BY <2>1, <2>2, <2>3, <3>1, Places, Zenon
  <2>5. 1..Cardinality(S) = S
    BY <1>1
  <2> QED BY <2>4, <2>5
<1> DEFINE Place(i) ==
             Cardinality({j \in S : key[j] < key[i] \/ (key[j] = key[i] /\ j < i)}) + 1
<1>5. ASSUME NEW i \in S PROVE f[i] = Place(i)
  <2>1. {j \in S : <<j, i>> \in R}
          = {j \in S : key[j] < key[i] \/ (key[j] = key[i] /\ j < i)}
    BY <1>2
  <2>2. f[i] = Cardinality({j \in S : <<j, i>> \in R}) + 1
    BY <1>4
  <2> QED BY <2>1, <2>2, Zenon
<1>7. Sorted(s, key) = [p \in S |-> s[CHOOSE i \in S : Place(i) = p]]
  BY DEF Sorted
<1>8. \A i \in S : s[i] \in X
  BY <1>1
<1>6. \A i \in S : f[i] =
        Cardinality({j \in S : key[j] < key[i] \/ (key[j] = key[i] /\ j < i)}) + 1
  BY <1>5
<1> HIDE DEF S, R, Place
<1>9. ASSUME NEW i \in S, NEW j \in S, f[i] = f[j] PROVE i = j
  <2>1. f[i] \in Int /\ f[j] \in Int
    BY <1>1
  <2>2. <<i, j>> \notin R /\ <<j, i>> \notin R
    BY <1>4, <1>9, <2>1
  <2> QED BY <1>2, <1>3, <2>2
<1>10. ASSUME NEW i \in S PROVE (CHOOSE j \in S : Place(j) = f[i]) = i
  <2>1. PICK c : c = CHOOSE j \in S : Place(j) = f[i]
    OBVIOUS
  <2>2. c \in S /\ Place(c) = f[i]
    BY <1>5, <2>1
  <2> QED BY <1>5, <1>9, <2>1, <2>2
<1>11. \A i \in S : Sorted(s, key)[f[i]] = s[i]
  BY <1>7, <1>10
<1>12. ASSUME NEW p \in S PROVE s[CHOOSE i \in S : Place(i) = p] \in X
  <2>1. \E i \in S : Place(i) = p
    BY <1>4, <1>5
  <2> QED BY <1>8, <2>1
<1>13. Sorted(s, key) \in [1..Len(s) -> X]
  BY <1>1, <1>7, <1>12
<1>14. Sorted(s, key) \in Seq(X) /\ Len(Sorted(s, key)) = Len(s)
  BY <1>1, <1>13
<1>15. \A i, j \in S : f[i] < f[j] <=> key[i] < key[j] \/ (key[i] = key[j] /\ i < j)
  BY <1>2, <1>4
<1>16. S = 1..Len(s) /\ f \in [S -> S] /\ \A p \in S : \E i \in S : f[i] = p
  BY <1>1, <1>4
<1>17. \A i \in 1..Len(s) : f[i] = Cardinality(Ahead(key, Len(s), i)) + 1
  BY <1>6, <1>16 DEF Ahead
<1>18. \A i, j \in 1..Len(s) :
            f[i] < f[j] <=> Before(key, i, j)
  BY <1>15, <1>16 DEF Before
<1>19. /\ f \in [1..Len(s) -> 1..Len(s)]
       /\ \A p \in 1..Len(s) : \E i \in 1..Len(s) : f[i] = p
       /\ \A i \in 1..Len(s) : Sorted(s, key)[f[i]] = s[i]
  BY <1>11, <1>16
<1>20. Moves(f, s, key, Sorted(s, key))
  BY <1>17, <1>18, <1>19 DEF Moves
<1> QED BY <1>14, <1>19, <1>20

\* f moves each kept element of s to its place in t.
Keeps(f, s, I, t) ==
    /\ \A i, j \in I : f[i] < f[j] <=> i < j
    /\ \A p \in 1..Cardinality(I) : \E i \in I : f[i] = p
    /\ \A i \in I : t[f[i]] = s[i]

\* Only keeps the order of the elements it keeps.
LEMMA OnlyPlaces ==
    ASSUME NEW X, NEW s \in Seq(X), NEW I \in SUBSET (1..Len(s))
    PROVE  /\ IsFiniteSet(I) /\ Cardinality(I) \in Nat
           /\ Only(s, I) \in Seq(X) /\ Len(Only(s, I)) = Cardinality(I)
           /\ \E f \in [I -> 1..Cardinality(I)] : Keeps(f, s, I, Only(s, I))
<1> DEFINE R == {p \in I \X I : p[1] < p[2]}
           Place(i) == Cardinality({j \in I : j < i}) + 1
<1>1. IsFiniteSet(I) /\ Cardinality(I) \in Nat
  <2>1. PICK n \in Nat : n = Len(s) /\ I \subseteq 1..n
    OBVIOUS
  <2>2. IsFiniteSet(1..n)
    BY FS_Interval
  <2>3. IsFiniteSet(I)
    BY <2>1, <2>2, FS_Subset
  <2> QED BY <2>3, FS_CardinalityType
<1>2. \A i, j \in I : (<<i, j>> \in R <=> i < j) /\ i \in Int /\ s[i] \in X
  OBVIOUS
<1>3. PICK f \in [I -> 1..Cardinality(I)] :
        /\ \A i \in I : f[i] = Cardinality({j \in I : <<j, i>> \in R}) + 1
        /\ \A i, j \in I : <<i, j>> \in R <=> f[i] < f[j]
        /\ \A p \in 1..Cardinality(I) : \E i \in I : f[i] = p
  <2> HIDE DEF R
  <2>1. \A i \in I : <<i, i>> \notin R
    BY <1>2
  <2>2. \A i, j \in I : i # j => <<i, j>> \in R \/ <<j, i>> \in R
    BY <1>2
  <2>3. \A i, j, k \in I : <<i, j>> \in R /\ <<j, k>> \in R => <<i, k>> \in R
    BY <1>2
  <2> QED BY <1>1, <2>1, <2>2, <2>3, Places, Zenon
<1>4. ASSUME NEW i \in I PROVE f[i] = Place(i)
  <2>1. {j \in I : <<j, i>> \in R} = {j \in I : j < i}
    BY <1>2
  <2>2. f[i] = Cardinality({j \in I : <<j, i>> \in R}) + 1
    BY <1>3
  <2> QED BY <2>1, <2>2, Zenon
<1>5. Only(s, I) = [p \in 1..Cardinality(I) |-> s[CHOOSE i \in I : Place(i) = p]]
  BY DEF Only
<1> HIDE DEF R, Place
<1>7. \A i, j \in I : f[i] < f[j] <=> i < j
  BY <1>2, <1>3
<1>8. ASSUME NEW i \in I, NEW j \in I, f[i] = f[j] PROVE i = j
  <2>1. f[i] \in Int /\ f[j] \in Int
    BY <1>1
  <2>2. ~(i < j) /\ ~(j < i)
    BY <1>7, <1>8, <2>1
  <2> QED BY <1>2, <2>2
<1>9. ASSUME NEW i \in I PROVE (CHOOSE j \in I : Place(j) = f[i]) = i
  <2>1. PICK c : c = CHOOSE j \in I : Place(j) = f[i]
    OBVIOUS
  <2>2. c \in I /\ Place(c) = f[i]
    BY <1>4, <2>1
  <2> QED BY <1>4, <1>8, <2>1, <2>2
<1>10. \A i \in I : Only(s, I)[f[i]] = s[i]
  BY <1>5, <1>9
<1>11. ASSUME NEW p \in 1..Cardinality(I) PROVE s[CHOOSE i \in I : Place(i) = p] \in X
  <2>1. \E i \in I : Place(i) = p
    BY <1>3, <1>4
  <2> QED BY <1>2, <2>1
<1>12. Only(s, I) \in [1..Cardinality(I) -> X]
  BY <1>5, <1>11
<1>13. Only(s, I) \in Seq(X) /\ Len(Only(s, I)) = Cardinality(I)
  BY <1>1, <1>12
<1>14. \A p \in 1..Cardinality(I) : \E i \in I : f[i] = p
  BY <1>3
<1>15. Keeps(f, s, I, Only(s, I))
  BY <1>7, <1>10, <1>14 DEF Keeps
<1> QED BY <1>1, <1>13, <1>15

\* Who keeps everything keeps the list.
LEMMA OnlyAll == ASSUME NEW X, NEW s \in Seq(X) PROVE Only(s, DOMAIN s) = s
<1> DEFINE S == DOMAIN s
           Place(i) == Cardinality({j \in S : j < i}) + 1
<1>1. PICK n \in Nat : n = Len(s) /\ S = 1..n
  OBVIOUS
<1>2. Cardinality(S) = n
  <2>1. Cardinality(1..n) = n
    BY FS_Interval
  <2> QED BY <1>1, <2>1
<1>3. ASSUME NEW i \in S PROVE Place(i) = i
  <2>1. {j \in S : j < i} = 1..(i - 1) /\ i - 1 \in Nat
    BY <1>1
  <2>2. Cardinality(1..(i - 1)) = i - 1
    BY <2>1, FS_Interval
  <2>3. Cardinality({j \in S : j < i}) = i - 1
    BY <2>1, <2>2, Zenon
  <2> QED BY <2>1, <2>3
<1>4. Only(s, S) = [p \in 1..Cardinality(S) |-> s[CHOOSE i \in S : Place(i) = p]]
  BY DEF Only
<1> HIDE DEF Place
<1>5. ASSUME NEW p \in S PROVE (CHOOSE i \in S : Place(i) = p) = p
  <2>1. PICK c : c = CHOOSE i \in S : Place(i) = p
    OBVIOUS
  <2>2. c \in S /\ Place(c) = p
    BY <1>3, <2>1
  <2> QED BY <1>3, <2>1, <2>2
<1>6. \A p \in S : Only(s, S)[p] = s[p]
  BY <1>1, <1>2, <1>4, <1>5
<1>7. DOMAIN Only(s, S) = S
  BY <1>1, <1>2, <1>4
<1>8. Only(s, S) = [p \in S |-> s[p]] /\ s = [p \in S |-> s[p]]
  BY <1>1, <1>2, <1>4, <1>5
<1> QED BY <1>8
-------------------------------------------------------------------------------
(* ---- Courses: sums and marks ----------------------------------------------- *)

\* Induction over the numbers up to n, of a set of them.
LEMMA Upwards ==
    ASSUME NEW n \in Nat, NEW P, 0 \in P, \A i \in 1..n : i - 1 \in P => i \in P
    PROVE  \A i \in 0..n : i \in P
<1> DEFINE T == {i \in 0..n : i \notin P}
           R == OpToRel(<, Nat)
<1>1. SUFFICES ASSUME T # {} PROVE FALSE
  OBVIOUS
<1>2. IsWellFoundedOn(R, Nat)
  BY NatLessThanWellFounded
<1>3. T \in SUBSET Nat
  OBVIOUS
<1>4. PICK m \in T : \A k \in T : ~(<<k, m>> \in R)
  <2> HIDE DEF T, R
  <2> QED BY <1>1, <1>2, <1>3, WFMin
<1>5. m \in 0..n /\ m \notin P /\ m # 0
  OBVIOUS
<1>6. m \in 1..n /\ m - 1 \in 0..n /\ m - 1 < m
  BY <1>5
<1>7. m - 1 \notin P
  BY <1>5, <1>6
<1>8. m - 1 \in T
  BY <1>6, <1>7
<1>9. <<m - 1, m>> \in R
  BY <1>6 DEF OpToRel
<1> QED BY <1>4, <1>8, <1>9

\* The sums a loop makes of a list.
LEMMA RunningSums ==
    ASSUME NEW n \in Nat, NEW s \in [1..n -> Int]
    PROVE  \E f \in [0..n -> Int] : f[0] = 0 /\ \A i \in 1..n : f[i] = f[i - 1] + s[i]
<1> DEFINE Sums(f, m) == f[0] = 0 /\ \A i \in 1..m : f[i] = f[i - 1] + s[i]
           Has(m) == \E f \in [0..m -> Int] : Sums(f, m)
           P == {m \in 0..n : Has(m)}
<1>1. Has(0)
  <2>1. PICK f : f = [i \in 0..0 |-> 0]
    OBVIOUS
  <2>2. f \in [0..0 -> Int] /\ Sums(f, 0)
    BY <2>1
  <2> QED BY <2>2
<1>2. ASSUME NEW m \in 1..n, Has(m - 1) PROVE Has(m)
  <2>1. PICK f \in [0..(m - 1) -> Int] : Sums(f, m - 1)
    BY <1>2
  <2>2. PICK g : g = [i \in 0..m |-> IF i = m THEN f[m - 1] + s[m] ELSE f[i]]
    OBVIOUS
  <2>3. g \in [0..m -> Int]
    BY <2>1, <2>2
  <2>4. g[0] = 0 /\ g[m] = g[m - 1] + s[m]
    BY <2>1, <2>2
  <2>5. \A i \in 1..(m - 1) : g[i] = g[i - 1] + s[i]
    BY <2>1, <2>2
  <2>6. Sums(g, m)
    BY <2>4, <2>5
  <2> QED BY <2>3, <2>6
<1>3. Has(n)
  <2> HIDE DEF Has
  <2>1. 0 \in P
    BY <1>1
  <2>2. \A m \in 1..n : m - 1 \in P => m \in P
    BY <1>2
  <2> HIDE DEF P
  <2>3. \A m \in 0..n : m \in P
    BY <2>1, <2>2, Upwards
  <2>4. n \in P
    BY <2>3
  <2> QED BY <2>4 DEF P
<1> QED BY <1>3

\* Total adds a list up, one element at a time.
LEMMA TotalSums ==
    ASSUME NEW n \in Nat, NEW s \in [1..n -> Int]
    PROVE  \E f \in [0..n -> Int] :
               /\ f[0] = 0 /\ \A i \in 1..n : f[i] = f[i - 1] + s[i]
               /\ Course!Total(s) = f[n]
<1> DEFINE Step(g) == [i \in 0..Len(s) |-> IF i = 0 THEN 0 ELSE g[i - 1] + s[i]]
           sum == CHOOSE g : g = Step(g)
<1>1. Len(s) = n
  OBVIOUS
<1>2. PICK f \in [0..n -> Int] : f[0] = 0 /\ \A i \in 1..n : f[i] = f[i - 1] + s[i]
  BY RunningSums
<1>3. f = Step(f)
  <2>1. \A i \in 0..n : f[i] = IF i = 0 THEN 0 ELSE f[i - 1] + s[i]
    BY <1>2
  <2>2. f = [i \in 0..n |-> f[i]]
    BY <1>2
  <2> QED BY <1>1, <2>1, <2>2
<1>4. sum = Step(sum)
  <2> HIDE DEF Step
  <2> QED BY <1>3
<1>5. Course!Total(s) = sum[Len(s)]
  BY DEF Course!Total
<1> HIDE DEF sum
<1> DEFINE P == {i \in 0..n : sum[i] = f[i]}
<1>6. 0 \in P
  BY <1>1, <1>2, <1>4
<1>7. ASSUME NEW i \in 1..n, i - 1 \in P PROVE i \in P
  BY <1>1, <1>2, <1>4, <1>7
<1>8. n \in P
  <2> HIDE DEF P
  <2>1. \A i \in 0..n : i \in P
    BY <1>6, <1>7, Upwards
  <2> QED BY <2>1
<1> QED BY <1>1, <1>2, <1>5, <1>8

\* The whole hundredths among the thousandths.
Tens == {10 * k : k \in Nat}

LEMMA TensAdd == \A x, y \in Tens : x + y \in Tens
<1> SUFFICES ASSUME NEW x \in Tens, NEW y \in Tens PROVE x + y \in Tens
  OBVIOUS
<1>1. PICK j \in Nat, k \in Nat : x = 10 * j /\ y = 10 * k
  BY DEF Tens
<1>2. x + y = 10 * (j + k) /\ j + k \in Nat
  BY <1>1
<1> QED BY <1>2 DEF Tens

LEMMA TensTimes == \A x \in Tens : \A w \in Nat : x * w \in Tens
<1> SUFFICES ASSUME NEW x \in Tens, NEW w \in Nat PROVE x * w \in Tens
  OBVIOUS
<1>1. PICK j \in Nat : x = 10 * j
  BY DEF Tens
<1>2. x * w = 10 * (j * w) /\ j * w \in Nat
  BY <1>1
<1> QED BY <1>2 DEF Tens

\* Sums of two lists of which one is below the other element by element.
LEMMA TotalsCompare ==
    ASSUME NEW n \in Nat, NEW a \in [1..n -> Nat], NEW b \in [1..n -> Nat], NEW low \in Nat,
           \A i \in 1..n : a[i] <= b[i] /\ b[i] >= low /\ b[i] \in Tens
    PROVE  /\ Course!Total(a) \in Nat /\ Course!Total(b) \in Nat
           /\ Course!Total(a) <= Course!Total(b)
           /\ Course!Total(b) \in Tens
           /\ n > 0 => Course!Total(b) >= low
<1>1. PICK f \in [0..n -> Int] :
        /\ f[0] = 0 /\ \A i \in 1..n : f[i] = f[i - 1] + a[i]
        /\ Course!Total(a) = f[n]
  <2>1. a \in [1..n -> Int]
    OBVIOUS
  <2> QED BY <2>1, TotalSums
<1>2. PICK g \in [0..n -> Int] :
        /\ g[0] = 0 /\ \A i \in 1..n : g[i] = g[i - 1] + b[i]
        /\ Course!Total(b) = g[n]
  <2>1. b \in [1..n -> Int]
    OBVIOUS
  <2> QED BY <2>1, TotalSums
<1> DEFINE Good(i) == /\ f[i] >= 0 /\ f[i] <= g[i] /\ (i > 0 => g[i] >= low)
                      /\ g[i] \in Tens
           P == {i \in 0..n : Good(i)}
<1>3. Good(0)
  <2>1. 0 = 10 * 0 /\ 0 \in Nat
    OBVIOUS
  <2>2. 0 \in Tens
    BY <2>1 DEF Tens
  <2> QED BY <1>1, <1>2, <2>2
<1>4. ASSUME NEW i \in 1..n, Good(i - 1) PROVE Good(i)
  <2>1. i - 1 \in 0..n /\ i \in 0..n
    OBVIOUS
  <2>2. PICK x \in Int, y \in Int, u \in Int, v \in Int :
          x = f[i - 1] /\ y = g[i - 1] /\ u = a[i] /\ v = b[i]
    <3>1. f[i - 1] \in Int /\ g[i - 1] \in Int
      BY <2>1
    <3>2. a[i] \in Int /\ b[i] \in Int
      OBVIOUS
    <3> QED BY <3>1, <3>2
  <2>3. f[i] = x + u /\ g[i] = y + v
    BY <1>1, <1>2, <2>2
  <2>4. x >= 0 /\ x <= y
    BY <1>4, <2>2
  <2>5. u >= 0 /\ u <= v /\ v >= low
    BY <2>2
  <2>6. f[i] >= 0 /\ f[i] <= g[i] /\ g[i] >= low
    <3>1. x + u >= 0 /\ x + u <= y + v /\ y + v >= low
      BY <2>4, <2>5
    <3> QED BY <2>3, <3>1
  <2>7. y \in Tens /\ v \in Tens
    BY <1>4, <2>2
  <2>9. g[i] \in Tens
    <3>1. y + v \in Tens
      BY <2>7, TensAdd
    <3> QED BY <2>3, <3>1
  <2> QED BY <2>6, <2>9
<1>5. Good(n)
  <2> HIDE DEF Good
  <2>1. 0 \in P
    BY <1>3
  <2>2. \A i \in 1..n : i - 1 \in P => i \in P
    BY <1>4
  <2> HIDE DEF P
  <2>3. \A i \in 0..n : i \in P
    BY <2>1, <2>2, Upwards
  <2>4. n \in P
    BY <2>3
  <2> QED BY <2>4 DEF P
<1>6. f[n] \in Int /\ g[n] \in Int
  OBVIOUS
<1> QED BY <1>1, <1>2, <1>5, <1>6

\* The bounds are numbers, a pass mark is a percentage, and rubrics are as the page sends
\* them (Training.tsx:45-58, grade.py:65-66): a criterion is worth ten points or more, in
\* whole hundredths, and its weight is positive. None is no record.
TenPoints == 10000
CourseNamed ==
    /\ MaxQuestions \in Nat /\ MaxCriteria \in Nat
    /\ \A mark \in Mark : mark \in Nat /\ mark <= 1000
    /\ \A p \in Points : p \in Nat /\ p >= TenPoints /\ p \in Tens
    /\ \A weight \in Weight : weight \in Nat /\ weight > 0
    /\ \A points \in Awarded : points = None \/ points \in Int
    /\ None \notin Course!Kind /\ None \notin Course!Module /\ None \notin Course!Grade

CourseInv ==
    /\ CourseNamed /\ Course!TypeOK
    /\ left \in Seq(Course!Kind \ {"blended"})
    /\ (kind # None => Len(left) + Len(made) >= 1)
    /\ Course!MarksAgree

IsNearest(p, w, q) ==
    q \in Nat /\ 2 * (w * q) <= 2000 * p + w /\ 2000 * p + w < 2 * (w * q) + 2 * w

\* What Percent is: the tenth of a percent that is nearest.
LEMMA Nearest ==
    ASSUME NEW p \in Nat, NEW w \in Nat, w > 0
    PROVE  IsNearest(p, w, Course!Percent(p, w))
<1> DEFINE q == (2000 * p + w) \div (2 * w)
<1>1. 2 * 1000 * p + w = 2000 * p + w
  OBVIOUS
<1>2. Course!Percent(p, w) = q
  BY <1>1 DEF Course!Percent
<1>3. PICK a \in Nat, b \in Nat : a = 2000 * p + w /\ b = 2 * w /\ b > 0
  OBVIOUS
<1>4. /\ a \div b \in Nat
      /\ b * (a \div b) <= a /\ a < b * (a \div b) + b
  BY <1>3
<1>5. q = a \div b
  BY <1>3
<1>6. b * q = 2 * (w * q)
  BY <1>3, <1>4, <1>5
<1> HIDE DEF q
<1> QED BY <1>2, <1>3, <1>4, <1>5, <1>6 DEF IsNearest

\* A verdict from the exact points and a percentage of rounded ones agree.
LEMMA VerdictsAgree ==
    ASSUME NEW t \in Nat, NEW m \in Nat, NEW mark \in Nat, m >= TenPoints, t <= m,
           m \in Tens
    PROVE  /\ Course!Rounded(t) \in Nat /\ Course!Rounded(m) = m
           /\ Course!Rounded(t) <= m
           /\ Course!Percent(Course!Rounded(t), m) \in Nat
           /\ t * 1000 >= mark * m => Course!Percent(Course!Rounded(t), m) >= mark
           /\ Course!Percent(Course!Rounded(t), m) > mark => t * 1000 >= mark * m
<1>1. PICK r : r = Course!Rounded(t)
  OBVIOUS
<1>2. r \in Nat /\ r >= t - 4 /\ r <= t + 5 /\ (\E k \in Nat : r = 10 * k)
  <2>1. r = ((t + 5) \div 10) * 10
    BY <1>1 DEF Course!Rounded
  <2>2. (t + 5) \div 10 \in Nat
    OBVIOUS
  <2> QED BY <2>1, <2>2
<1>3. Course!Rounded(m) = m
  <2>1. PICK k \in Nat : m = 10 * k
    BY DEF Tens
  <2>2. (m + 5) \div 10 = k
    BY <2>1
  <2> QED BY <2>1, <2>2 DEF Course!Rounded
<1>4. r <= m
  <2>1. PICK j \in Nat, k \in Nat : r = 10 * j /\ m = 10 * k
    BY <1>2 DEF Tens
  <2> QED BY <1>2, <2>1
<1>5. PICK pct : pct = Course!Percent(r, m)
  OBVIOUS
<1>6. /\ pct \in Nat
      /\ 2 * (m * pct) <= 2000 * r + m
      /\ 2000 * r + m < 2 * (m * pct) + 2 * m
  <2>1. m > 0 /\ r \in Nat
    BY <1>2 DEF TenPoints
  <2>2. IsNearest(r, m, Course!Percent(r, m))
    BY <2>1, Nearest
  <2> QED BY <1>5, <2>2 DEF IsNearest
<1>7. ASSUME t * 1000 >= mark * m, pct < mark PROVE FALSE
  <2>1. PICK y \in Nat, z \in Nat : y = m * pct /\ z = mark * m
    BY <1>6
  <2>2. z >= y + m
    <3>1. (mark - pct - 1) * m >= 0
      BY <1>6, <1>7
    <3>2. (mark - pct - 1) * m = mark * m - m * pct - m
      BY <1>6
    <3> QED BY <2>1, <3>1, <3>2
  <2> QED BY <1>2, <1>6, <1>7, <2>1, <2>2 DEF TenPoints
<1>8. ASSUME pct > mark, t * 1000 < mark * m PROVE FALSE
  <2>1. PICK y \in Nat, z \in Nat : y = m * pct /\ z = mark * m
    BY <1>6
  <2>2. y >= z + m
    <3>1. (pct - mark - 1) * m >= 0
      BY <1>6, <1>8
    <3>2. (pct - mark - 1) * m = m * pct - mark * m - m
      BY <1>6
    <3> QED BY <2>1, <3>1, <3>2
  <2> QED BY <1>2, <1>6, <1>8, <2>1, <2>2 DEF TenPoints
<1>9. t * 1000 \in Nat /\ mark * m \in Nat
  OBVIOUS
<1> QED BY <1>1, <1>2, <1>3, <1>4, <1>5, <1>6, <1>7, <1>8, <1>9

\* A set of indices has a least one.
LEMMA Least ==
    ASSUME NEW T \in SUBSET Nat, T # {}
    PROVE  \E m \in T : \A k \in T : m <= k
<1> DEFINE R == OpToRel(<, Nat)
<1>1. IsWellFoundedOn(R, Nat)
  BY NatLessThanWellFounded
<1>2. PICK m \in T : \A k \in T : ~(<<k, m>> \in R)
  <2> HIDE DEF R
  <2> QED BY <1>1, WFMin
<1>3. ASSUME NEW k \in T, k < m PROVE FALSE
  <2>1. <<k, m>> \in R
    BY <1>3 DEF OpToRel
  <2> QED BY <1>2, <2>1
<1>4. \A k \in T : k \in Nat /\ m \in Nat
  OBVIOUS
<1> QED BY <1>3, <1>4

\* Answers to all questions that repeat their keys are right, all of them.
LEMMA AllRight ==
    ASSUME NEW qs \in Seq(Course!Question)
    PROVE  Course!Score(qs, qs) = Len(qs)
<1>1. PICK n \in Nat : n = Len(qs) /\ DOMAIN qs = 1..n
  OBVIOUS
<1>2. Course!Right(qs, qs) = 1..n
  BY <1>1 DEF Course!Right
<1>3. Course!Score(qs, qs) = Cardinality(1..n)
  BY <1>2 DEF Course!Score, Course!Cardinality, Cardinality
<1>4. Cardinality(1..n) = n
  BY FS_Interval
<1> QED BY <1>1, <1>3, <1>4

\* A score counts some of the questions.
LEMMA ScoreCounts ==
    ASSUME NEW qs \in Seq(Course!Question), NEW answers
    PROVE  Course!Score(qs, answers) \in Nat /\ Course!Score(qs, answers) <= Len(qs)
<1>1. PICK n \in Nat : n = Len(qs) /\ DOMAIN qs = 1..n
  OBVIOUS
<1>2. Course!Right(qs, answers) \in SUBSET (1..n)
  BY <1>1 DEF Course!Right
<1>3. IsFiniteSet(1..n) /\ Cardinality(1..n) = n
  BY FS_Interval
<1>4. /\ IsFiniteSet(Course!Right(qs, answers))
      /\ Cardinality(Course!Right(qs, answers)) <= n
  BY <1>2, <1>3, FS_Subset
<1>5. Cardinality(Course!Right(qs, answers)) \in Nat
  BY <1>4, FS_CardinalityType
<1>6. Course!Score(qs, answers) = Cardinality(Course!Right(qs, answers))
  BY DEF Course!Score, Course!Cardinality, Cardinality
<1> QED BY <1>1, <1>4, <1>5, <1>6

\* Lists of questions are lists, the empty one among them.
LEMMA QuestionLists ==
    ASSUME CourseNamed
    PROVE  /\ Course!Questions \subseteq Seq(Course!Question)
           /\ <<>> \in Course!Questions
           /\ \A k \in Course!Kind \ {"blended"} : Course!Reply(k) \subseteq Course!Questions
<1>1. PICK n \in Nat : n = MaxQuestions
  BY DEF CourseNamed
<1>2. Course!Questions = UNION {[1..m -> Course!Question] : m \in 0..n}
  BY <1>1 DEF Course!Questions, Course!SeqOf
<1>3. ASSUME NEW qs \in Course!Questions PROVE qs \in Seq(Course!Question)
  <2>1. PICK m \in 0..n : qs \in [1..m -> Course!Question]
    BY <1>2
  <2> QED BY <2>1
<1>4. <<>> \in Course!Questions
  <2>1. <<>> \in [1..0 -> Course!Question] /\ 0 \in 0..n
    OBVIOUS
  <2> QED BY <1>2, <2>1
<1>5. Course!SeqOf({NoKey}, MaxQuestions) \subseteq Course!Questions
  <2>1. Course!SeqOf({NoKey}, MaxQuestions) = UNION {[1..m -> {NoKey}] : m \in 0..n}
    BY <1>1 DEF Course!SeqOf
  <2>2. {NoKey} \subseteq Course!Question
    BY DEF Course!Question
  <2> HIDE DEF Course!Question
  <2>3. SUFFICES ASSUME NEW qs \in Course!SeqOf({NoKey}, MaxQuestions)
                 PROVE  qs \in Course!Questions
    OBVIOUS
  <2>4. PICK m \in 0..n : qs \in [1..m -> {NoKey}]
    BY <2>1
  <2>5. qs \in [1..m -> Course!Question]
    BY <2>2, <2>4
  <2> QED BY <1>2, <2>5
<1>6. ASSUME NEW k \in Course!Kind \ {"blended"}
      PROVE  Course!Reply(k) \subseteq Course!Questions
  <2>1. k \in {"lesson", "cards", "quiz", "exam", "scenario"}
    BY DEF Course!Kind
  <2> QED BY <1>4, <1>5, <2>1
        DEF Course!Reply, Course!QuizReply, Course!ExamReply, Course!ScenarioReply,
            Course!LessonReply, Course!CardsReply, Course!Parsed
<1> QED BY <1>3, <1>4, <1>6

\* The verdict on answers.
LEMMA AnswersMarked ==
    ASSUME NEW m \in Course!Module, NEW answers, CourseNamed, Course!McqQuestions(m) # <<>>
    PROVE  LET r == Course!GradeMcq(m, answers)
           IN  /\ r \in Course!Grade /\ r.score <= r.max
               /\ r.passed <=> r.pct >= m.mark
<1> DEFINE qs == Course!McqQuestions(m)
           n == Course!Score(qs, answers)
<1>1. qs \in Seq(Course!Question) /\ m.mark \in Nat
  <2>1. m.quiz \in Course!Questions /\ m.data \in Course!Questions /\ m.mark \in Mark
    BY DEF Course!Module
  <2>2. qs \in Course!Questions
    BY <2>1 DEF Course!McqQuestions
  <2>3. qs \in Seq(Course!Question)
    BY <2>2, QuestionLists
  <2>4. \A mark \in Mark : mark \in Nat /\ mark <= 1000
    BY DEF CourseNamed
  <2>5. m.mark \in Nat
    BY <2>1, <2>4
  <2> QED BY <2>3, <2>5
<1>2. Len(qs) \in Nat /\ Len(qs) > 0 /\ n \in Nat /\ n <= Len(qs)
  BY <1>1, ScoreCounts
<1> HIDE DEF qs, n
<1>3. Course!Percent(n, Len(qs)) \in Nat
  BY <1>2, Nearest DEF IsNearest
<1> DEFINE pct == Course!Percent(n, Len(qs))
<1>4. Course!GradeMcq(m, answers) =
        [path |-> "mcq", score |-> n, max |-> Len(qs), pct |-> pct, passed |-> pct >= m.mark]
  BY DEF Course!GradeMcq, qs, n
<1>5. pct \in Nat
  BY <1>3
<1>6. PICK r : r = Course!GradeMcq(m, answers)
  OBVIOUS
<1> HIDE DEF pct
<1>7. /\ r.path = "mcq" /\ r.score = n /\ r.max = Len(qs) /\ r.pct = pct
      /\ r.passed = (pct >= m.mark)
      /\ r = [path |-> r.path, score |-> r.score, max |-> r.max, pct |-> r.pct,
              passed |-> r.passed]
  BY <1>4, <1>6
<1>8. r.passed \in BOOLEAN
  BY <1>7
<1>9. r \in Course!Grade
  BY <1>2, <1>5, <1>7, <1>8 DEF Course!Grade
<1> QED BY <1>2, <1>6, <1>7, <1>9

\* The verdict on a text.
LEMMA TextMarked ==
    ASSUME NEW m \in Course!Module, NEW points \in [DOMAIN m.rubric -> Awarded], CourseNamed,
           m.rubric # <<>>
    PROVE  LET r == Course!GradeText(m, points)
           IN  /\ r \in Course!Grade /\ r.score <= r.max
               /\ r.passed => r.pct >= m.mark
               /\ r.pct > m.mark => r.passed
<1> DEFINE Criterion == [max : Points, weight : Weight]
<1>1. PICK n \in Nat : m.rubric \in [1..n -> Criterion]
  <2>1. m.rubric \in Course!Rubric
    BY DEF Course!Module
  <2>2. Course!Rubric = UNION {[1..k -> Criterion] : k \in 0..MaxCriteria}
    BY DEF Course!Rubric, Course!SeqOf
  <2>3. \A k \in 0..MaxCriteria : k \in Nat
    BY DEF CourseNamed
  <2> QED BY <2>1, <2>2, <2>3
<1>2. n > 0 /\ DOMAIN m.rubric = 1..n
  BY <1>1
<1> DEFINE a == Course!Earned(m.rubric, points)
           b == [i \in DOMAIN m.rubric |-> m.rubric[i].max * m.rubric[i].weight]
<1> DEFINE earned(i) == Course!Clamp(points[i], m.rubric[i].max) * m.rubric[i].weight
<1>20. a = [i \in 1..n |-> earned(i)]
  BY <1>2 DEF Course!Earned
<1>21. b = [i \in 1..n |-> m.rubric[i].max * m.rubric[i].weight]
  BY <1>2
<1>22. \A i \in 1..n : m.rubric[i].max \in Points /\ m.rubric[i].weight \in Weight
  BY <1>1
<1>23. \A i \in 1..n : points[i] \in Awarded
  BY <1>2
<1>24. /\ \A x \in Awarded : x = None \/ x \in Int
       /\ \A w \in Weight : w \in Nat /\ w > 0
  BY DEF CourseNamed
<1>25. \A p \in Points : p \in Nat /\ p >= TenPoints /\ p \in Tens
  BY DEF CourseNamed
<1> HIDE DEF a, b
<1>3. ASSUME NEW i \in 1..n
      PROVE  /\ a[i] \in Nat /\ b[i] \in Nat /\ a[i] <= b[i] /\ b[i] >= TenPoints
             /\ b[i] \in Tens
  <2>11. PICK p : p = m.rubric[i].max
    OBVIOUS
  <2>12. p \in Nat /\ p >= TenPoints /\ p \in Tens
    BY <1>22, <1>25, <2>11
  <2>13. PICK w \in Nat : w = m.rubric[i].weight /\ w > 0
    BY <1>22, <1>24
  <2>1. p = m.rubric[i].max /\ w = m.rubric[i].weight
    BY <2>11, <2>13
  <2>2. p \in Nat /\ p >= TenPoints /\ w > 0
    BY <2>12, <2>13
  <2>4. PICK c : c = Course!Clamp(points[i], p)
    OBVIOUS
  <2>5. c \in Nat /\ c <= p
    <3>1. points[i] = None \/ points[i] \in Int
      BY <1>23, <1>24
    <3> QED BY <2>2, <2>4, <3>1 DEF Course!Clamp
  <2>6. a[i] = c * w
    BY <1>20, <2>1, <2>4
  <2>7. b[i] = p * w
    BY <1>21, <2>1
  <2>8. c * w \in Nat /\ p * w \in Nat /\ c * w <= p * w /\ p * w >= p
    BY <2>2, <2>5
  <2>9. p * w \in Tens
    BY <2>2, <2>12, TensTimes
  <2>10. b[i] \in Tens
    BY <2>7, <2>9
  <2> QED BY <2>2, <2>6, <2>7, <2>8, <2>10 DEF TenPoints
<1>4. a = [i \in 1..n |-> a[i]] /\ b = [i \in 1..n |-> b[i]]
  BY <1>20, <1>21
<1>5. a \in [1..n -> Nat] /\ b \in [1..n -> Nat]
  BY <1>3, <1>4
<1>6. PICK t \in Nat, s \in Nat :
        /\ t = Course!Total(a) /\ s = Course!Total(b)
        /\ t <= s /\ s >= TenPoints /\ s \in Tens
  <2>1. TenPoints \in Nat
    BY DEF TenPoints
  <2>2. \A i \in 1..n : a[i] <= b[i] /\ b[i] >= TenPoints /\ b[i] \in Tens
    BY <1>3
  <2>3. /\ Course!Total(a) \in Nat /\ Course!Total(b) \in Nat
        /\ Course!Total(a) <= Course!Total(b)
        /\ Course!Total(b) \in Tens
        /\ n > 0 => Course!Total(b) >= TenPoints
    <3>1. PICK u \in [1..n -> Nat], v \in [1..n -> Nat] : u = a /\ v = b
      BY <1>5
    <3>2. PICK low \in Nat : low = TenPoints
      BY <2>1
    <3>3. \A i \in 1..n : u[i] <= v[i] /\ v[i] >= low /\ v[i] \in Tens
      BY <2>2, <3>1, <3>2
    <3>4. /\ Course!Total(u) \in Nat /\ Course!Total(v) \in Nat
          /\ Course!Total(u) <= Course!Total(v)
          /\ Course!Total(v) \in Tens
          /\ n > 0 => Course!Total(v) >= low
      BY <3>3, TotalsCompare
    <3> QED BY <3>1, <3>2, <3>4
  <2> QED BY <1>2, <2>3
<1>7. m.mark \in Nat
  <2>1. m.mark \in Mark
    BY DEF Course!Module
  <2>2. \A mark \in Mark : mark \in Nat /\ mark <= 1000
    BY DEF CourseNamed
  <2> QED BY <2>1, <2>2
<1>8. PICK round, pct :
        /\ round = Course!Rounded(t) /\ pct = Course!Percent(round, s)
  OBVIOUS
<1>9. PICK x \in Nat, y \in Nat : x = t * 1000 /\ y = m.mark * s
  BY <1>6, <1>7
<1>10. /\ round \in Nat /\ Course!Rounded(s) = s /\ round <= s /\ pct \in Nat
       /\ x >= y => pct >= m.mark
       /\ pct > m.mark => x >= y
  <2> DEFINE R == Course!Rounded(t)
  <2>1. /\ R \in Nat /\ Course!Rounded(s) = s
        /\ R <= s
        /\ Course!Percent(R, s) \in Nat
        /\ t * 1000 >= m.mark * s => Course!Percent(R, s) >= m.mark
        /\ Course!Percent(R, s) > m.mark => t * 1000 >= m.mark * s
    <3>1. s >= TenPoints /\ t <= s /\ s \in Tens
      BY <1>6
    <3> QED BY <1>7, <3>1, VerdictsAgree
  <2> QED BY <1>8, <1>9, <2>1
<1>11. PICK r : r = Course!GradeText(m, points)
  OBVIOUS
<1>12. /\ r.path = "text" /\ r.score = round /\ r.max = s /\ r.pct = pct
       /\ r.passed <=> x >= y
       /\ r.passed \in BOOLEAN
       /\ r = [path |-> r.path, score |-> r.score, max |-> r.max, pct |-> r.pct,
               passed |-> r.passed]
  <2>1. r = [path |-> "text", score |-> Course!Rounded(Course!Total(a)),
             max |-> Course!Rounded(Course!Total(b)),
             pct |-> Course!Percent(Course!Rounded(Course!Total(a)),
                                    Course!Rounded(Course!Total(b))),
             passed |-> Course!Total(a) * 1000 >= m.mark * Course!Total(b)]
    BY <1>11 DEF Course!GradeText, a, b
  <2>2. /\ r.path = "text" /\ r.score = Course!Rounded(Course!Total(a))
        /\ r.max = Course!Rounded(Course!Total(b))
        /\ r.pct = Course!Percent(Course!Rounded(Course!Total(a)),
                                  Course!Rounded(Course!Total(b)))
    BY <2>1
  <2>3. /\ r.passed <=> Course!Total(a) * 1000 >= m.mark * Course!Total(b)
        /\ r.passed \in BOOLEAN
    <3>1. Course!Total(a) * 1000 = x /\ m.mark * Course!Total(b) = y
      BY <1>6, <1>9
    <3> DEFINE won(v) ==
                 [path |-> "text", score |-> Course!Rounded(Course!Total(a)),
                  max |-> Course!Rounded(Course!Total(b)),
                  pct |-> Course!Percent(Course!Rounded(Course!Total(a)),
                                         Course!Rounded(Course!Total(b))),
                  passed |-> v]
    <3>5. won(Course!Total(a) * 1000 >= m.mark * Course!Total(b)) = won(x >= y)
      BY <3>1
    <3>2. r = won(x >= y)
      BY <2>1, <3>5
    <3>3. r.passed <=> x >= y
      BY <3>2
    <3>4. r.passed \in BOOLEAN
      BY <3>2
    <3> QED BY <3>1, <3>3, <3>4
  <2>4. r.score = round /\ r.max = s /\ r.pct = pct
    BY <1>6, <1>8, <1>10, <2>2
  <2>5. r.passed <=> x >= y
    BY <1>6, <1>9, <2>3
  <2>6. r = [path |-> r.path, score |-> r.score, max |-> r.max, pct |-> r.pct,
             passed |-> r.passed]
    BY <2>1
  <2> QED BY <2>2, <2>3, <2>4, <2>5, <2>6
<1>14. r \in Course!Grade
  BY <1>6, <1>10, <1>12 DEF Course!Grade
<1>16. r.score <= r.max /\ (r.passed => r.pct >= m.mark) /\ (r.pct > m.mark => r.passed)
  BY <1>10, <1>12
<1> QED BY <1>11, <1>14, <1>16

\* A submission that is kept without a verdict.
LEMMA UngradedKept ==
    ASSUME NEW m \in Course!Module, CourseNamed
    PROVE  LET r == Course!Ungraded(m)
           IN  r \in Course!Grade /\ r.passed = None
<1> DEFINE Criterion == [max : Points, weight : Weight]
           b == [i \in DOMAIN m.rubric |-> m.rubric[i].max]
<1>1. PICK n \in Nat : m.rubric \in [1..n -> Criterion]
  <2>1. m.rubric \in Course!Rubric
    BY DEF Course!Module
  <2>2. Course!Rubric = UNION {[1..k -> Criterion] : k \in 0..MaxCriteria}
    BY DEF Course!Rubric, Course!SeqOf
  <2>3. \A k \in 0..MaxCriteria : k \in Nat
    BY DEF CourseNamed
  <2> QED BY <2>1, <2>2, <2>3
<1>6. \A p \in Points : p \in Nat /\ p >= TenPoints /\ p \in Tens
  BY DEF CourseNamed
<1>7. b = [i \in 1..n |-> m.rubric[i].max] /\ \A i \in 1..n : m.rubric[i].max \in Points
  BY <1>1
<1>8. \A i \in 1..n : b[i] \in Points
  BY <1>7
<1> HIDE DEF b
<1>2. \A i \in 1..n : b[i] \in Nat /\ b[i] >= TenPoints /\ b[i] \in Tens
  BY <1>6, <1>8
<1>9. b = [i \in 1..n |-> b[i]]
  BY <1>7
<1>3. b \in [1..n -> Nat]
  BY <1>2, <1>9
<1>4. Course!Total(b) \in Nat
  <2>1. TenPoints \in Nat
    BY DEF TenPoints
  <2>2. \A i \in 1..n : b[i] <= b[i] /\ b[i] >= TenPoints /\ b[i] \in Tens
    <3> HIDE DEF b
    <3> SUFFICES ASSUME NEW i \in 1..n
                 PROVE  b[i] <= b[i] /\ b[i] >= TenPoints /\ b[i] \in Tens
      OBVIOUS
    <3>1. b[i] \in Nat
      BY <1>2
    <3>2. b[i] <= b[i]
      BY <3>1
    <3> QED BY <1>2, <3>2
  <2> HIDE DEF b
  <2> QED BY <1>3, <2>1, <2>2, TotalsCompare
<1> HIDE DEF b
<1>5. Course!Ungraded(m) =
        [path |-> "text", score |-> 0, pct |-> 0, passed |-> None, max |-> Course!Total(b)]
  BY DEF Course!Ungraded, b
<1> QED BY <1>4, <1>5 DEF Course!Grade

\* Only, seen through the module that uses it.
LEMMA KeyedAll ==
    ASSUME NEW qs \in Seq(Course!Question), \A i \in DOMAIN qs : Course!HasKey(qs[i])
    PROVE  Course!Keyed(qs) = qs
<1>1. {i \in DOMAIN qs : Course!HasKey(qs[i])} = DOMAIN qs
  OBVIOUS
<1>2. Course!Keyed(qs) = Course!Only(qs, DOMAIN qs)
  BY <1>1 DEF Course!Keyed
<1>3. Course!Only(qs, DOMAIN qs) = Only(qs, DOMAIN qs)
  BY DEF Course!Only, Only, Course!Cardinality, Cardinality
<1>4. Only(qs, DOMAIN qs) = qs
  BY OnlyAll
<1> QED BY <1>2, <1>3, <1>4

\* The right answers to what the page shows are full marks when every question has its key.
LEMMA FullMarks ==
    ASSUME NEW m \in Course!Module, CourseNamed, Course!McqQuestions(m) # <<>>,
           \A i \in DOMAIN Course!McqQuestions(m) : Course!HasKey(Course!McqQuestions(m)[i])
    PROVE  LET best == Course!GradeMcq(m, Course!ShownQuestions(m))
           IN  best.pct = 1000 /\ best.passed
<1>1. PICK qs : qs = Course!McqQuestions(m)
  OBVIOUS
<1>2. m.quiz \in Seq(Course!Question) /\ m.data \in Seq(Course!Question)
  <2>1. m.quiz \in Course!Questions /\ m.data \in Course!Questions
    BY DEF Course!Module
  <2> QED BY <2>1, QuestionLists
<1>3. qs \in Seq(Course!Question) /\ qs # <<>>
  BY <1>1, <1>2 DEF Course!McqQuestions
<1>4. Course!Keyed(qs) = qs
  BY <1>1, <1>3, KeyedAll
<1>5. Course!ShownQuestions(m) = qs
  <2>1. CASE m.quiz # <<>>
    <3>1. qs = m.quiz
      BY <1>1, <2>1 DEF Course!McqQuestions
    <3> QED BY <1>3, <1>4, <3>1 DEF Course!ShownQuestions
  <2>2. CASE m.quiz = <<>>
    <3>1. qs = m.data
      BY <1>1, <2>2 DEF Course!McqQuestions
    <3>2. Course!Keyed(m.quiz) = <<>>
      <4>1. \A i \in DOMAIN m.quiz : Course!HasKey(m.quiz[i])
        BY <2>2
      <4> QED BY <1>2, <2>2, <4>1, KeyedAll
    <3> QED BY <1>4, <3>1, <3>2 DEF Course!ShownQuestions
  <2> QED BY <2>1, <2>2
<1>6. PICK n \in Nat : n = Len(qs) /\ n > 0
  BY <1>3
<1>7. Course!Score(qs, qs) = n
  BY <1>3, <1>6, AllRight
<1>8. Course!Percent(n, n) = 1000
  <2>1. PICK q : q = Course!Percent(n, n)
    OBVIOUS
  <2>2. IsNearest(n, n, q)
    BY <1>6, <2>1, Nearest
  <2>3. q \in Nat /\ 2 * (n * q) <= 2000 * n + n /\ 2000 * n + n < 2 * (n * q) + 2 * n
    BY <2>2 DEF IsNearest
  <2>4. ASSUME q <= 999 PROVE FALSE
    <3>1. n * q <= n * 999
      BY <2>3, <2>4
    <3> QED BY <1>6, <2>3, <3>1
  <2>5. ASSUME q >= 1001 PROVE FALSE
    <3>1. n * q >= n * 1001
      BY <2>3, <2>5
    <3> QED BY <1>6, <2>3, <3>1
  <2> QED BY <2>1, <2>3, <2>4, <2>5
<1>9. PICK best : best = Course!GradeMcq(m, qs)
  OBVIOUS
<1>10. best.pct = 1000
  BY <1>1, <1>6, <1>7, <1>8, <1>9 DEF Course!GradeMcq
<1>11. best.passed <=> best.pct >= m.mark
  BY <1>1, <1>3, <1>9, AnswersMarked
<1>12. m.mark \in Nat /\ m.mark <= 1000
  <2>1. m.mark \in Mark
    BY DEF Course!Module
  <2> QED BY <2>1 DEF CourseNamed
<1> QED BY <1>5, <1>9, <1>10, <1>11, <1>12
-----------------------------------------------------------------------------
LEMMA CourseInit == CourseNamed /\ Course!Init => CourseInv
<1> SUFFICES ASSUME CourseNamed, Course!Init PROVE CourseInv
  OBVIOUS
<1>1. kind = None /\ left = <<>> /\ made = <<>> /\ module = None /\ record = None
  BY DEF Course!Init
<1>2. left \in Seq(Course!Kind) /\ left \in Seq(Course!Kind \ {"blended"})
      /\ made \in Seq(Course!Artefact)
  BY <1>1
<1>3. Course!TypeOK
  BY <1>1, <1>2 DEF Course!TypeOK
<1>4. Course!MarksAgree
  BY <1>1 DEF Course!MarksAgree
<1> QED BY <1>1, <1>2, <1>3, <1>4 DEF CourseInv

\* What a step that leaves the module and the record alone has to show.
LEMMA CourseKept ==
    ASSUME CourseInv, UNCHANGED <<module, record>>,
           kind' \in Course!Kind \cup {None}, left' \in Seq(Course!Kind \ {"blended"}),
           made' \in Seq(Course!Artefact), kind' # None => Len(left') + Len(made') >= 1
    PROVE  CourseInv'
<1>1. left' \in Seq(Course!Kind)
  OBVIOUS
<1>2. Course!TypeOK'
  BY <1>1 DEF CourseInv, Course!TypeOK
<1>3. Course!MarksAgree'
  BY DEF CourseInv, Course!MarksAgree
<1> QED BY <1>2, <1>3 DEF CourseInv, CourseNamed

LEMMA GenerateKeeps ==
    ASSUME CourseInv, NEW k \in Course!Kind, Course!Generate(k) PROVE CourseInv'
<1>1. kind' = k /\ left' \in Course!Pieces(k) /\ UNCHANGED <<made, module, record>>
  BY DEF Course!Generate
<1>2. left' \in Seq(Course!Kind \ {"blended"}) /\ Len(left') >= 1
  <2>1. CASE k = "blended"
    <3>1. left' = <<"lesson", "quiz">> \/ left' = <<"lesson", "quiz", "scenario">>
      BY <1>1, <2>1 DEF Course!Pieces
    <3>2. PICK S : S = Course!Kind \ {"blended"}
      OBVIOUS
    <3>3. "lesson" \in S /\ "quiz" \in S /\ "scenario" \in S
      BY <3>2 DEF Course!Kind
    <3>4. left' \in Seq(S) /\ Len(left') >= 1
      <4>1. CASE left' = <<"lesson", "quiz">>
        <5>1. PICK s : s = <<"lesson", "quiz">>
          OBVIOUS
        <5>2. s \in Seq(S) /\ Len(s) >= 1
          BY <3>3, <5>1
        <5> QED BY <4>1, <5>1, <5>2
      <4>2. CASE left' = <<"lesson", "quiz", "scenario">>
        <5>1. PICK s : s = <<"lesson", "quiz", "scenario">>
          OBVIOUS
        <5>2. s \in Seq(S) /\ Len(s) >= 1
          BY <3>3, <5>1
        <5> QED BY <4>2, <5>1, <5>2
      <4> QED BY <3>1, <4>1, <4>2
    <3> QED BY <3>2, <3>4
  <2>2. CASE k # "blended"
    <3>1. left' = <<k>> /\ k \in Course!Kind \ {"blended"}
      BY <1>1, <2>2 DEF Course!Pieces
    <3> QED BY <3>1
  <2> QED BY <2>1, <2>2
<1>3. made' \in Seq(Course!Artefact) /\ Len(left') + Len(made') >= 1
  <2>1. made \in Seq(Course!Artefact)
    BY DEF CourseInv, Course!TypeOK
  <2>2. Len(made) \in Nat /\ Len(left') \in Nat
    BY <1>2, <2>1
  <2> QED BY <1>1, <1>2, <2>1, <2>2
<1> QED BY <1>1, <1>2, <1>3, CourseKept

LEMMA MakeKeeps == ASSUME CourseInv, Course!Make PROVE CourseInv'
<1>1. /\ left # <<>> /\ left' = Tail(left) /\ UNCHANGED <<kind, module, record>>
      /\ \E qs \in Course!Reply(Head(left)) :
            made' = Append(made, [kind |-> Head(left), questions |-> qs])
  BY DEF Course!Make
<1>2. /\ left \in Seq(Course!Kind \ {"blended"}) /\ made \in Seq(Course!Artefact)
      /\ kind \in Course!Kind \cup {None}
  BY DEF CourseInv, Course!TypeOK
<1>3. PICK k \in Course!Kind \ {"blended"} : k = Head(left)
  BY <1>1, <1>2
<1>4. PICK qs \in Course!Reply(k) : made' = Append(made, [kind |-> k, questions |-> qs])
  BY <1>1, <1>3
<1>5. qs \in Course!Questions
  BY <1>4, QuestionLists DEF CourseInv
<1>6. [kind |-> k, questions |-> qs] \in Course!Artefact
  BY <1>5 DEF Course!Artefact
<1>7. made' \in Seq(Course!Artefact) /\ Len(made') >= 1
  BY <1>2, <1>4, <1>6
<1>8. left' \in Seq(Course!Kind \ {"blended"}) /\ Len(left') \in Nat
  BY <1>1, <1>2
<1>9. Len(left') + Len(made') >= 1
  BY <1>7, <1>8
<1> QED BY <1>1, <1>2, <1>7, <1>8, <1>9, CourseKept

LEMMA MakeFailsKeeps == ASSUME CourseInv, Course!MakeFails PROVE CourseInv'
<1>1. kind' = None /\ left' = <<>> /\ made' = <<>> /\ UNCHANGED <<module, record>>
  BY DEF Course!MakeFails
<1>2. left' \in Seq(Course!Kind \ {"blended"}) /\ made' \in Seq(Course!Artefact)
  BY <1>1
<1> QED BY <1>1, <1>2, CourseKept

\* A module keeps the questions of what was made.
LEMMA QuestionsMade ==
    ASSUME CourseInv, NEW k
    PROVE  Course!QuestionsIn(k) \in Course!Questions
<1>1. made \in Seq(Course!Artefact) /\ CourseNamed
  BY DEF CourseInv, Course!TypeOK
<1>2. CASE Course!Of(k) = {}
  BY <1>1, <1>2, QuestionLists DEF Course!QuestionsIn
<1>3. CASE Course!Of(k) # {}
  <2>1. Course!Of(k) \in SUBSET Nat /\ Course!Of(k) \subseteq DOMAIN made
    BY <1>1 DEF Course!Of
  <2>2. \E m \in Course!Of(k) : \A j \in Course!Of(k) : m <= j
    BY <1>3, <2>1, Least
  <2>3. PICK i : i = CHOOSE m \in Course!Of(k) : \A j \in Course!Of(k) : m <= j
    OBVIOUS
  <2>4. i \in DOMAIN made
    BY <2>1, <2>2, <2>3
  <2>5. made[i] \in Course!Artefact
    BY <1>1, <2>4
  <2>6. made[i].questions \in Course!Questions
    BY <2>5 DEF Course!Artefact
  <2> QED BY <1>3, <2>3, <2>6 DEF Course!QuestionsIn
<1> QED BY <1>2, <1>3

LEMMA SaveKeeps ==
    ASSUME CourseInv, NEW rubric \in Course!Rubric, NEW mark \in Mark,
           Course!Save(rubric, mark)
    PROVE  CourseInv'
<1>1. /\ kind # None /\ left = <<>> /\ module = None /\ UNCHANGED <<kind, left, made, record>>
      /\ module' = [quiz |-> IF kind = "blended" THEN Course!QuestionsIn("quiz") ELSE <<>>,
                    data |-> IF kind = "blended" THEN <<>> ELSE made[1].questions,
                    rubric |-> rubric, mark |-> mark]
  BY DEF Course!Save
<1>2. made \in Seq(Course!Artefact) /\ CourseNamed /\ Len(left) + Len(made) >= 1
  BY <1>1 DEF CourseInv, Course!TypeOK
<1>3. made[1] \in Course!Artefact
  <2>1. Len(made) >= 1
    BY <1>1, <1>2
  <2> QED BY <1>2, <2>1
<1>4. made[1].questions \in Course!Questions
  BY <1>3 DEF Course!Artefact
<1>5. Course!QuestionsIn("quiz") \in Course!Questions /\ <<>> \in Course!Questions
  BY <1>2, QuestionsMade, QuestionLists
<1>6. module' \in Course!Module
  BY <1>1, <1>4, <1>5 DEF Course!Module
<1>7. record = None /\ record' = None
  BY <1>1 DEF CourseInv, Course!TypeOK
<1>8. Course!TypeOK'
  BY <1>1, <1>6, <1>7 DEF CourseInv, Course!TypeOK
<1>9. Course!MarksAgree'
  <2>1. PICK m \in Course!Module : m = module'
    BY <1>6
  <2>2. Course!McqQuestions(m) # <<>>
        /\ (\A i \in DOMAIN Course!McqQuestions(m) :
              Course!HasKey(Course!McqQuestions(m)[i])) =>
          LET best == Course!GradeMcq(m, Course!ShownQuestions(m))
          IN  best.pct = 1000 /\ best.passed
    BY <1>2, FullMarks
  <2> QED BY <1>7, <2>1, <2>2
        DEF Course!MarksAgree, Course!McqQuestions, Course!HasKey, Course!GradeMcq,
            Course!ShownQuestions
<1> QED BY <1>1, <1>8, <1>9 DEF CourseInv, CourseNamed

\* What a step that grades a submission has to show.
LEMMA GradedKept ==
    ASSUME CourseInv, UNCHANGED <<kind, left, made, module>>, module # None,
           record' \in Course!Grade,
           record'.passed # None =>
              /\ record'.passed => record'.pct >= module.mark
              /\ record'.pct > module.mark => record'.passed
              /\ record'.score <= record'.max
    PROVE  CourseInv'
<1>1. Course!TypeOK'
  BY DEF CourseInv, Course!TypeOK
<1>2. Course!MarksAgree'
  BY DEF CourseInv, Course!MarksAgree
<1> QED BY <1>1, <1>2 DEF CourseInv, CourseNamed

LEMMA SubmitAnswersKeeps == ASSUME CourseInv, Course!SubmitAnswers PROVE CourseInv'
<1>1. /\ module # None /\ Course!McqQuestions(module) # <<>>
      /\ \E answers \in [DOMAIN Course!ShownQuestions(module) -> Option] :
            record' = Course!GradeMcq(module, answers)
      /\ UNCHANGED <<kind, left, made, module>>
  BY DEF Course!SubmitAnswers
<1>2. module \in Course!Module /\ CourseNamed
  BY <1>1 DEF CourseInv, Course!TypeOK
<1>3. PICK answers : record' = Course!GradeMcq(module, answers)
  BY <1>1
<1>4. /\ record' \in Course!Grade /\ record'.score <= record'.max
      /\ record'.passed <=> record'.pct >= module.mark
  BY <1>1, <1>2, <1>3, AnswersMarked
<1>5. record'.pct \in Nat /\ module.mark \in Nat
  <2>1. module.mark \in Mark
    BY <1>2 DEF Course!Module
  <2> QED BY <1>2, <1>4, <2>1 DEF Course!Grade, CourseNamed
<1> QED BY <1>1, <1>4, <1>5, GradedKept

LEMMA SubmitTextKeeps == ASSUME CourseInv, Course!SubmitText PROVE CourseInv'
<1>1. /\ module # None /\ module.rubric # <<>>
      /\ \/ \E points \in [DOMAIN module.rubric -> Awarded] :
               record' = Course!GradeText(module, points)
         \/ record' = Course!Ungraded(module)
      /\ UNCHANGED <<kind, left, made, module>>
  BY DEF Course!SubmitText
<1>2. module \in Course!Module /\ CourseNamed
  BY <1>1 DEF CourseInv, Course!TypeOK
<1>3. ASSUME NEW points \in [DOMAIN module.rubric -> Awarded],
             record' = Course!GradeText(module, points)
      PROVE  CourseInv'
  <2>1. /\ record' \in Course!Grade /\ record'.score <= record'.max
        /\ record'.passed => record'.pct >= module.mark
        /\ record'.pct > module.mark => record'.passed
    BY <1>1, <1>2, <1>3, TextMarked
  <2> QED BY <1>1, <2>1, GradedKept
<1>4. ASSUME record' = Course!Ungraded(module) PROVE CourseInv'
  <2>1. record' \in Course!Grade /\ record'.passed = None
    BY <1>2, <1>4, UngradedKept
  <2> QED BY <1>1, <2>1, GradedKept
<1> QED BY <1>1, <1>3, <1>4

LEMMA CourseStep == CourseInv /\ [Course!Next]_Course!vars => CourseInv'
<1> SUFFICES ASSUME CourseInv, [Course!Next]_Course!vars PROVE CourseInv'
  OBVIOUS
<1>1. CASE UNCHANGED Course!vars
  BY <1>1 DEF Course!vars, CourseInv, CourseNamed, Course!TypeOK, Course!MarksAgree
<1>2. CASE Course!Next
  BY <1>2, GenerateKeeps, MakeKeeps, MakeFailsKeeps, SaveKeeps, SubmitAnswersKeeps,
     SubmitTextKeeps DEF Course!Next
<1> QED BY <1>1, <1>2

LEMMA CourseProves == CourseInv => Course!MarksAgree /\ Course!TypeOK
  BY DEF CourseInv

\* For every list of questions, rubric and award: the verdict and the shown percentage
\* agree on both paths, and right answers to fully keyed questions are full marks
\* (training.py:514-568, grade.py:121-196, Training.tsx:775-792).
THEOREM MarksKept == CourseNamed => (Course!Spec => []Course!MarksAgree)
<1> SUFFICES ASSUME CourseNamed PROVE Course!Spec => []Course!MarksAgree
  OBVIOUS
<1>1. Course!Init => CourseInv
  BY CourseInit
<1> QED BY <1>1, CourseStep, CourseProves, PTL DEF Course!Spec
-------------------------------------------------------------------------------
(* ---- Retrieval: lists without repeats -------------------------------------- *)

\* t is s sorted by key: the same elements, each once, in the order of their keys.
InOrder(t, s, key, n) ==
    \A p, q, i, j \in 1..n : t[p] = s[i] /\ t[q] = s[j] =>
        (p < q <=> Before(key, i, j))
IsSorted(t, s, key) ==
    /\ Len(t) = Len(s) /\ IsInjective(t)
    /\ \A p \in 1..Len(s) : \E i \in 1..Len(s) : t[p] = s[i]
    /\ \A i \in 1..Len(s) : \E p \in 1..Len(s) : t[p] = s[i]
    /\ InOrder(t, s, key, Len(s))
    /\ \A p, i \in 1..Len(s) : t[p] = s[i] => p = Cardinality(Ahead(key, Len(s), i)) + 1

LEMMA SortedOnce ==
    ASSUME NEW X, NEW s \in Seq(X), IsInjective(s), NEW key \in [1..Len(s) -> Int]
    PROVE  Sorted(s, key) \in Seq(X) /\ IsSorted(Sorted(s, key), s, key)
<1>1. PICK n \in Nat : n = Len(s) /\ DOMAIN s = 1..n
  OBVIOUS
<1>2. PICK t : t = Sorted(s, key)
  OBVIOUS
<1>13. t \in Seq(X) /\ Len(t) = n /\ \E f \in [1..Len(s) -> 1..Len(s)] : Moves(f, s, key, t)
  BY <1>1, <1>2, SortedPlaces
<1>14. PICK f \in [1..n -> 1..n] : Moves(f, s, key, t)
  BY <1>1, <1>13
<1>3. /\ \A i, j \in 1..n : f[i] < f[j] <=> Before(key, i, j)
      /\ \A p \in 1..n : \E i \in 1..n : f[i] = p
      /\ t \in Seq(X) /\ Len(t) = n
      /\ \A i \in 1..n : t[f[i]] = s[i]
      /\ \A i \in 1..n : f[i] = Cardinality(Ahead(key, n, i)) + 1
  BY <1>1, <1>13, <1>14 DEF Moves
<1>4. \A i, j \in 1..n : s[i] = s[j] => i = j
  BY <1>1 DEF IsInjective
<1>5. ASSUME NEW p \in 1..n, NEW i \in 1..n, t[p] = s[i] PROVE p = f[i]
  <2>1. PICK j \in 1..n : f[j] = p
    BY <1>3
  <2>2. s[j] = s[i]
    BY <1>3, <1>5, <2>1
  <2> QED BY <1>4, <2>1, <2>2
<1>6. ASSUME NEW p \in 1..n PROVE \E i \in 1..n : t[p] = s[i]
  <2>1. PICK i \in 1..n : f[i] = p
    BY <1>3
  <2>2. t[f[i]] = s[i]
    BY <1>3
  <2> QED BY <2>1, <2>2
<1>7. \A i \in 1..n : \E p \in 1..n : t[p] = s[i]
  BY <1>3
<1>8. ASSUME NEW p \in 1..n, NEW q \in 1..n, t[p] = t[q] PROVE p = q
  <2>1. PICK i \in 1..n : t[p] = s[i]
    BY <1>6
  <2> QED BY <1>5, <1>8, <2>1
<1>9. IsInjective(t)
  <2>1. DOMAIN t = 1..n
    BY <1>3
  <2> QED BY <1>8, <2>1 DEF IsInjective
<1>10. ASSUME NEW p \in 1..n, NEW q \in 1..n, NEW i \in 1..n, NEW j \in 1..n,
              t[p] = s[i], t[q] = s[j]
       PROVE  p < q <=> Before(key, i, j)
  <2>1. p = f[i] /\ q = f[j]
    BY <1>5, <1>10
  <2>2. f[i] < f[j] <=> Before(key, i, j)
    BY <1>3
  <2> QED BY <2>1, <2>2
<1>11. ASSUME NEW p \in 1..n, NEW i \in 1..n, t[p] = s[i]
       PROVE  p = Cardinality(Ahead(key, n, i)) + 1
  <2>1. p = f[i]
    BY <1>5, <1>11
  <2>2. f[i] = Cardinality(Ahead(key, n, i)) + 1
    BY <1>3
  <2> QED BY <2>1, <2>2
<1>12. t \in Seq(X) /\ Len(t) = n
  BY <1>3
<1>15. IsSorted(t, s, key)
  <2>1. Len(t) = Len(s)
    BY <1>1, <1>12
  <2>2. /\ \A p \in 1..Len(s) : \E i \in 1..Len(s) : t[p] = s[i]
        /\ \A i \in 1..Len(s) : \E p \in 1..Len(s) : t[p] = s[i]
    BY <1>1, <1>6, <1>7
  <2>3. InOrder(t, s, key, n)
    <3> SUFFICES ASSUME NEW p \in 1..n, NEW q \in 1..n, NEW i \in 1..n, NEW j \in 1..n,
                        t[p] = s[i], t[q] = s[j]
                 PROVE  p < q <=> Before(key, i, j)
      BY DEF InOrder
    <3> QED BY <1>10
  <2>4. \A p, i \in 1..n : t[p] = s[i] => p = Cardinality(Ahead(key, n, i)) + 1
    BY <1>11
  <2>5. InOrder(t, s, key, Len(s))
    BY <1>1, <2>3
  <2>6. \A p, i \in 1..Len(s) : t[p] = s[i] => p = Cardinality(Ahead(key, Len(s), i)) + 1
    BY <1>1, <2>4, Zenon
  <2> QED BY <1>9, <2>1, <2>2, <2>5, <2>6 DEF IsSorted
<1> QED BY <1>2, <1>12, <1>15

\* The beginning of a list.
LEMMA ClipBegins ==
    ASSUME NEW X, NEW s \in Seq(X), NEW n \in Nat
    PROVE  /\ Finds!Clip(s, n) \in Seq(X)
           /\ Len(Finds!Clip(s, n)) = IF Len(s) < n THEN Len(s) ELSE n
           /\ \A i \in 1..Len(Finds!Clip(s, n)) : Finds!Clip(s, n)[i] = s[i]
<1>1. PICK m \in Nat : m = IF Len(s) < n THEN Len(s) ELSE n
  OBVIOUS
<1>2. m <= Len(s) /\ Finds!Clip(s, n) = SubSeq(s, 1, m)
  BY <1>1 DEF Finds!Clip
<1>3. /\ SubSeq(s, 1, m) \in Seq(X) /\ Len(SubSeq(s, 1, m)) = m
      /\ \A i \in 1..m : SubSeq(s, 1, m)[i] = s[i]
  BY <1>2
<1> QED BY <1>1, <1>2, <1>3

LEMMA ClipOnce ==
    ASSUME NEW X, NEW s \in Seq(X), NEW n \in Nat, IsInjective(s)
    PROVE  IsInjective(Finds!Clip(s, n))
<1>1. PICK c : c = Finds!Clip(s, n)
  OBVIOUS
<1>2. PICK l \in Nat : l = Len(s) /\ DOMAIN s = 1..l
  OBVIOUS
<1>3. PICK m \in Nat : m <= l /\ m = Len(c) /\ DOMAIN c = 1..m /\ \A i \in 1..m : c[i] = s[i]
  <2>1. c \in Seq(X) /\ Len(c) = (IF l < n THEN l ELSE n) /\ \A i \in 1..Len(c) : c[i] = s[i]
    BY <1>1, <1>2, ClipBegins
  <2> QED BY <1>2, <2>1
<1>4. ASSUME NEW i \in 1..m, NEW j \in 1..m, c[i] = c[j] PROVE i = j
  <2>1. i \in DOMAIN s /\ j \in DOMAIN s /\ s[i] = s[j]
    BY <1>2, <1>3, <1>4
  <2> QED BY <2>1 DEF IsInjective
<1> QED BY <1>1, <1>3, <1>4 DEF IsInjective

\* The operators of the lists are the same seen through the module that uses them.
LEMMA ListsSame ==
    /\ \A s, key : Finds!Sorted(s, key) = Sorted(s, key)
    /\ \A s, I : Finds!Only(s, I) = Only(s, I)
    /\ \A s : Finds!IsInjective(s) <=> IsInjective(s)
    /\ \A S : Finds!Cardinality(S) = Cardinality(S)
<1>1. \A s, key : Finds!Sorted(s, key) = Sorted(s, key)
  BY DEF Finds!Sorted, Sorted, Finds!Cardinality, Cardinality
<1>2. \A s, I : Finds!Only(s, I) = Only(s, I)
  BY DEF Finds!Only, Only, Finds!Cardinality, Cardinality
<1>3. \A s : Finds!IsInjective(s) <=> IsInjective(s)
  BY DEF Finds!IsInjective, IsInjective
<1>4. \A S : Finds!Cardinality(S) = Cardinality(S)
  BY DEF Finds!Cardinality, Cardinality
<1> QED BY <1>1, <1>2, <1>3, <1>4
-------------------------------------------------------------------------------
(* ---- Retrieval: the fusion of two lists --------------------------------- *)

\* The search's bounds: a retriever is asked for at most 600 hits (core/schemas/search.py:16,
\* service.py:103, hybrid.py:52), a pool is no smaller than what is asked for, and readers
\* cite documents that are finitely many.
FindsNamed ==
    /\ Depth \in Nat /\ Depth <= 600
    /\ \A k \in Limits : k \in Nat /\ k > 0 /\ Pool[k] \in Nat /\ k <= Pool[k]
    /\ MaxBatch \in Nat /\ MaxBatch > 0 /\ MaxVotes \in Nat
    /\ IsFiniteSet(Finds!Document)
    /\ None \notin [k : Limits, vector : Seq(Chunk), keyword : Seq(Chunk), found : Seq(Chunk),
                    stage : {"fused", "ranked"}]
    /\ None \notin [found : Seq(Chunk), hits : Seq(Chunk), signals : Finds!Signals]

Lcm == 61 * 62 * 63 * 64

\* What a share is, and how two compare.
LEMMA Divided ==
    ASSUME NEW b \in 61..660
    PROVE  /\ Lcm \in Nat /\ Lcm \div b \in Nat
           /\ b * (Lcm \div b) <= Lcm /\ Lcm < b * (Lcm \div b + 1)
<1>1. PICK k \in Nat : k = Lcm
  BY DEF Lcm
<1>2. k \div b \in Nat /\ b * (k \div b) <= k /\ k < b * (k \div b) + b
  OBVIOUS
<1>3. b * (k \div b + 1) = b * (k \div b) + b
  BY <1>2
<1> QED BY <1>1, <1>2, <1>3

LEMMA DividedBounds == ASSUME NEW b \in 61..660 PROVE Lcm \div b >= 23104
<1>1. PICK k \in Nat, q \in Nat :
        k = Lcm /\ q = Lcm \div b /\ b * q <= k /\ k < b * (q + 1)
  BY Divided
<1>2. k = 15249024
  BY <1>1 DEF Lcm
<1>3. ASSUME q + 1 <= 23104 PROVE FALSE
  <2>1. b * (q + 1) <= 660 * (q + 1)
    OBVIOUS
  <2> QED BY <1>1, <1>2, <1>3, <2>1
<1> QED BY <1>1, <1>3

LEMMA DividedFalls ==
    ASSUME NEW a \in 61..660, NEW b \in 61..660, a < b
    PROVE  Lcm \div a > Lcm \div b
<1>1. PICK k \in Nat, p \in Nat, q \in Nat :
        /\ k = Lcm /\ p = Lcm \div a /\ q = Lcm \div b
        /\ k < a * (p + 1) /\ b * q <= k
  BY Divided
<1>2. q >= 23104
  BY <1>1, DividedBounds
<1>3. ASSUME p <= q PROVE FALSE
  <2>1. a * (p + 1) <= a * (q + 1)
    BY <1>3
  <2>2. b * q >= (a + 1) * q
    OBVIOUS
  <2>3. a * (q + 1) = a * q + a /\ (a + 1) * q = a * q + q /\ a * q \in Nat
    OBVIOUS
  <2> QED BY <1>1, <1>2, <2>1, <2>2, <2>3
<1> QED BY <1>1, <1>3

\* Two shares outweigh one whose divisor is more than half of theirs.
LEMMA TwoOutweighOne ==
    ASSUME NEW a \in 61..660, NEW b \in 61..660, NEW z \in 61..660, a < 2 * z, b < 2 * z
    PROVE  Lcm \div a + Lcm \div b > Lcm \div z
<1>1. PICK k \in Nat, p \in Nat, q \in Nat, m \in Nat :
        /\ k = Lcm /\ p = Lcm \div a /\ q = Lcm \div b /\ m = Lcm \div z
        /\ k < a * (p + 1) /\ k < b * (q + 1) /\ z * m <= k
  BY Divided
<1>2. m >= 23104
  BY <1>1, DividedBounds
<1>3. ASSUME NEW c \in 61..660, NEW r \in Nat, c < 2 * z, k < c * (r + 1), 2 * r <= m
      PROVE  FALSE
  <2>1. c * (r + 1) <= (2 * z - 1) * (r + 1)
    <3>1. PICK h \in Nat : h = 2 * z - 1 /\ c <= h
      BY <1>3
    <3>2. PICK e \in Nat : e = h - c /\ h = c + e
      BY <3>1
    <3>3. (c + e) * (r + 1) = c * (r + 1) + e * (r + 1) /\ e * (r + 1) \in Nat
      OBVIOUS
    <3>4. c * (r + 1) \in Nat
      OBVIOUS
    <3>5. c * (r + 1) <= h * (r + 1)
      BY <3>2, <3>3, <3>4
    <3> QED BY <3>1, <3>5
  <2>2. (2 * z - 1) * (r + 1) = 2 * (z * r) + 2 * z - r - 1 /\ z * r \in Nat /\ z * m \in Nat
    OBVIOUS
  <2>3. z * (2 * r) <= z * m /\ z * (2 * r) = 2 * (z * r)
    BY <1>3
  <2>4. (2 * z - 1) * (2 * r + 2) <= (2 * z - 1) * (m + 2)
    BY <1>3
  <2>5. (2 * z - 1) * (m + 2) = 2 * (z * m) + 4 * z - m - 2
    OBVIOUS
  <2>6. (2 * z - 1) * (2 * r + 2) = 2 * ((2 * z - 1) * (r + 1))
    OBVIOUS
  <2>7. 2 * k < 2 * k + 4 * z - m - 2
    BY <1>1, <1>3, <2>1, <2>2, <2>4, <2>5, <2>6
  <2> QED BY <1>2, <2>7
<1>4. ~(2 * p <= m)
  BY <1>1, <1>3
<1>5. ~(2 * q <= m)
  BY <1>1, <1>3
<1>6. p + q > m
  BY <1>4, <1>5
<1> QED BY <1>1, <1>6

\* A retriever's list: at most 600 chunks, each once.
Hits(list) == list \in Seq(Chunk) /\ Len(list) <= 600 /\ IsInjective(list)

LEMMA ListsAreHits == ASSUME FindsNamed, NEW list \in Finds!Lists PROVE Hits(list)
<1>1. PICK n \in Nat : n = Depth /\ n <= 600
  BY DEF FindsNamed
<1>2. list \in Finds!SeqOf(Chunk, Depth) /\ Finds!IsInjective(list)
  BY DEF Finds!Lists
<1>3. PICK m \in 0..n : list \in [1..m -> Chunk]
  BY <1>1, <1>2 DEF Finds!SeqOf
<1>4. list \in Seq(Chunk) /\ Len(list) = m
  BY <1>3
<1> QED BY <1>1, <1>2, <1>3, <1>4, ListsSame DEF Hits

LEMMA PlaceFound ==
    ASSUME NEW list, IsInjective(list), NEW i \in DOMAIN list
    PROVE  Finds!Place(list[i], list) = i
<1>1. PICK c : c = CHOOSE r \in DOMAIN list : list[r] = list[i]
  OBVIOUS
<1>2. c \in DOMAIN list /\ list[c] = list[i]
  BY <1>1
<1> QED BY <1>1, <1>2 DEF Finds!Place, IsInjective

LEMMA ShareOf ==
    ASSUME NEW list, Hits(list), NEW c
    PROVE  /\ c \in Finds!ToSet(list) =>
                 /\ Finds!Place(c, list) \in 1..600
                 /\ Finds!Share(c, list) = Lcm \div (60 + Finds!Place(c, list))
           /\ c \notin Finds!ToSet(list) => Finds!Share(c, list) = 0
<1>1. PICK n \in Nat : n = Len(list) /\ n <= 600 /\ DOMAIN list = 1..n
  BY DEF Hits
<1>2. Finds!Contains(list, c) <=> c \in Finds!ToSet(list)
  BY <1>1 DEF Finds!Contains, Finds!ToSet
<1>3. ASSUME c \in Finds!ToSet(list)
      PROVE  /\ Finds!Place(c, list) \in 1..600
             /\ Finds!Share(c, list) = Lcm \div (60 + Finds!Place(c, list))
  <2>1. PICK i \in 1..n : list[i] = c
    BY <1>1, <1>3 DEF Finds!ToSet
  <2>2. Finds!Place(c, list) \in 1..n
    BY <1>1, <2>1 DEF Finds!Place
  <2>3. Finds!Share(c, list) = Lcm \div (60 + Finds!Place(c, list))
    BY <1>2, <1>3 DEF Finds!Share, Finds!Place, Lcm
  <2>4. PICK p \in 1..n : p = Finds!Place(c, list)
    BY <2>2
  <2>5. p \in 1..600
    BY <1>1
  <2> QED BY <2>3, <2>4, <2>5
<1>4. c \notin Finds!ToSet(list) => Finds!Share(c, list) = 0
  BY <1>2 DEF Finds!Share
<1> QED BY <1>3, <1>4

LEMMA ShareBounds ==
    ASSUME NEW list, Hits(list), NEW c
    PROVE  /\ Finds!Share(c, list) \in Nat
           /\ c \in Finds!ToSet(list) => Finds!Share(c, list) > 0
<1>1. CASE c \in Finds!ToSet(list)
  <2>1. PICK b \in 61..660 : Finds!Share(c, list) = Lcm \div b
    <3>1. PICK r \in 1..600 : r = Finds!Place(c, list)
      BY <1>1, ShareOf
    <3>2. 60 + r \in 61..660 /\ Finds!Share(c, list) = Lcm \div (60 + r)
      BY <1>1, <3>1, ShareOf
    <3> QED BY <3>2
  <2>2. Lcm \div b \in Nat /\ Lcm \div b >= 23104
    BY Divided, DividedBounds
  <2> QED BY <2>1, <2>2
<1>2. CASE c \notin Finds!ToSet(list)
  BY <1>2, ShareOf
<1> QED BY <1>1, <1>2

LEMMA ShareFalls ==
    ASSUME NEW list, Hits(list), NEW c \in Finds!ToSet(list), NEW d \in Finds!ToSet(list),
           Finds!Precedes(c, d, list)
    PROVE  Finds!Share(c, list) > Finds!Share(d, list)
<1>1. PICK r \in 1..600, s \in 1..600 :
        r = Finds!Place(c, list) /\ s = Finds!Place(d, list)
  BY ShareOf
<1>2. r < s
  BY <1>1 DEF Finds!Precedes
<1>3. PICK a \in 61..660, b \in 61..660 : a = 60 + r /\ b = 60 + s /\ a < b
  <2>1. 60 + r \in 61..660 /\ 60 + s \in 61..660 /\ 60 + r < 60 + s
    BY <1>2
  <2> QED BY <2>1
<1>4. Finds!Share(c, list) = Lcm \div a /\ Finds!Share(d, list) = Lcm \div b
  BY <1>1, <1>3, ShareOf
<1> QED BY <1>3, <1>4, DividedFalls

\* Of two shares from two lists, and one from a list where it is not far ahead of both.
LEMMA TwiceWeighs ==
    ASSUME NEW v, NEW w, NEW x, Hits(v), Hits(w), Hits(x),
           NEW c \in Finds!ToSet(v) \cap Finds!ToSet(w), NEW d \in Finds!ToSet(x),
           Finds!Place(c, v) < 2 * Finds!Place(d, x) + 60,
           Finds!Place(c, w) < 2 * Finds!Place(d, x) + 60
    PROVE  Finds!Share(c, v) + Finds!Share(c, w) > Finds!Share(d, x)
<1>1. PICK p \in 1..600, q \in 1..600, r \in 1..600 :
        p = Finds!Place(c, v) /\ q = Finds!Place(c, w) /\ r = Finds!Place(d, x)
  BY ShareOf
<1>2. PICK a \in 61..660, b \in 61..660, z \in 61..660 :
        a = 60 + p /\ b = 60 + q /\ z = 60 + r
  <2>1. 60 + p \in 61..660 /\ 60 + q \in 61..660 /\ 60 + r \in 61..660
    OBVIOUS
  <2> QED BY <2>1
<1>3. a < 2 * z /\ b < 2 * z
  BY <1>1, <1>2
<1>4. /\ Finds!Share(c, v) = Lcm \div a /\ Finds!Share(c, w) = Lcm \div b
      /\ Finds!Share(d, x) = Lcm \div z
  BY <1>1, <1>2, ShareOf
<1>5. Lcm \div a + Lcm \div b > Lcm \div z
  BY <1>3, TwoOutweighOne
<1> QED BY <1>4, <1>5

\* Of the two chunks that Ahead compares, the first weighs more.
LEMMA AgreementWeighs ==
    ASSUME NEW v, NEW w, Hits(v), Hits(w),
           NEW c \in Finds!ToSet(v) \cap Finds!ToSet(w),
           NEW d \in Finds!ToSet(v) \cup Finds!ToSet(w),
           Finds!Ahead(c, d, v, w)
    PROVE  Finds!RRF(c, v, w) > Finds!RRF(d, v, w)
<1>1. PICK cv \in Nat, cw \in Nat, dv \in Nat, dw \in Nat :
        /\ cv = Finds!Share(c, v) /\ cw = Finds!Share(c, w)
        /\ dv = Finds!Share(d, v) /\ dw = Finds!Share(d, w)
  BY ShareBounds
<1>2. Finds!RRF(c, v, w) = cv + cw /\ Finds!RRF(d, v, w) = dv + dw
  BY <1>1 DEF Finds!RRF
<1>3. d \notin Finds!ToSet(v) \cap Finds!ToSet(w) =>
        \A x, y \in {v, w} :
           d \in Finds!ToSet(x) => Finds!Place(c, y) < 2 * Finds!Place(d, x) + 60
  BY DEF Finds!Ahead
<1>4. CASE d \notin Finds!ToSet(v)
  <2>1. dv = 0
    BY <1>1, <1>4, ShareOf
  <2>2. d \in Finds!ToSet(w)
    BY <1>4
  <2>3. /\ Finds!Place(c, v) < 2 * Finds!Place(d, w) + 60
        /\ Finds!Place(c, w) < 2 * Finds!Place(d, w) + 60
    BY <1>3, <1>4, <2>2
  <2>4. cv + cw > dw
    BY <1>1, <2>2, <2>3, TwiceWeighs
  <2> QED BY <1>2, <2>1, <2>4
<1>5. CASE d \notin Finds!ToSet(w)
  <2>1. dw = 0
    BY <1>1, <1>5, ShareOf
  <2>2. d \in Finds!ToSet(v)
    BY <1>5
  <2>3. /\ Finds!Place(c, v) < 2 * Finds!Place(d, v) + 60
        /\ Finds!Place(c, w) < 2 * Finds!Place(d, v) + 60
    BY <1>3, <1>5, <2>2
  <2>4. cv + cw > dv
    BY <1>1, <2>2, <2>3, TwiceWeighs
  <2> QED BY <1>2, <2>1, <2>4
<1>6. CASE d \in Finds!ToSet(v) /\ d \in Finds!ToSet(w)
  <2>1. Finds!Precedes(c, d, v) /\ Finds!Precedes(c, d, w)
    BY <1>6 DEF Finds!Ahead
  <2>2. cv > dv
    BY <1>1, <1>6, <2>1, ShareFalls
  <2>3. cw > dw
    BY <1>1, <1>6, <2>1, ShareFalls
  <2> QED BY <1>2, <2>2, <2>3
<1> QED BY <1>4, <1>5, <1>6

\* Merging keeps every chunk of the two lists once.
Merged(v, w) == v \o Finds!Only(w, {i \in DOMAIN w : ~Finds!Contains(v, w[i])})

LEMMA MergedOnce ==
    ASSUME NEW v, NEW w, Hits(v), Hits(w)
    PROVE  LET m == Merged(v, w)
           IN  /\ m \in Seq(Chunk) /\ IsInjective(m)
               /\ Finds!ToSet(m) = Finds!ToSet(v) \cup Finds!ToSet(w)
<1>22. PICK m : m = Merged(v, w)
  OBVIOUS
<1> DEFINE I == {i \in DOMAIN w : ~Finds!Contains(v, w[i])}
<1>1. v \in Seq(Chunk) /\ w \in Seq(Chunk) /\ IsInjective(v) /\ IsInjective(w)
  BY DEF Hits
<1>2. PICK a \in Nat, b \in Nat :
        a = Len(v) /\ b = Len(w) /\ DOMAIN v = 1..a /\ DOMAIN w = 1..b
  BY <1>1
<1>3. \A i \in I : i \in 1..b /\ \A j \in 1..a : v[j] # w[i]
  BY <1>2 DEF Finds!Contains
<1>4. \A i \in 1..b : i \notin I => \E j \in 1..a : v[j] = w[i]
  BY <1>2 DEF Finds!Contains
<1>5. I \in SUBSET (1..Len(w))
  BY <1>2
<1> HIDE DEF I
<1>6. PICK n \in Nat, o \in Seq(Chunk) : n = Cardinality(I) /\ o = Only(w, I) /\ Len(o) = n
  BY <1>1, <1>5, OnlyPlaces
<1>7. PICK f \in [I -> 1..n] :
        /\ \A i, j \in I : f[i] < f[j] <=> i < j
        /\ \A p \in 1..n : \E i \in I : f[i] = p
        /\ \A i \in I : o[f[i]] = w[i]
  <2>1. \E f \in [I -> 1..Cardinality(I)] : Keeps(f, w, I, Only(w, I))
    BY <1>1, <1>5, OnlyPlaces
  <2>2. 1..Cardinality(I) = 1..n /\ Only(w, I) = o
    BY <1>6
  <2>8. PICK f \in [I -> 1..n] : Keeps(f, w, I, o)
    BY <2>1, <2>2
  <2>3. /\ \A i, j \in I : f[i] < f[j] <=> i < j
        /\ \A p \in 1..Cardinality(I) : \E i \in I : f[i] = p
        /\ \A i \in I : o[f[i]] = w[i]
    BY <2>8 DEF Keeps
  <2>5. \A i, j \in I : f[i] < f[j] <=> i < j
    BY <2>3
  <2>6. \A p \in 1..n : \E i \in I : f[i] = p
    BY <2>2, <2>3
  <2>7. \A i \in I : o[f[i]] = w[i]
    BY <2>2, <2>3
  <2> QED BY <2>5, <2>6, <2>7
<1>8. m = v \o o
  BY <1>6, <1>22, ListsSame DEF I, Merged
<1>9. m \in Seq(Chunk) /\ Len(m) = a + n /\ DOMAIN m = 1..(a + n)
  <2>1. v \o o \in Seq(Chunk) /\ Len(v \o o) = Len(v) + Len(o)
    BY <1>1, <1>6, ConcatProperties
  <2>2. m \in Seq(Chunk) /\ Len(m) = a + n
    BY <1>2, <1>6, <1>8, <2>1
  <2> QED BY <2>2
<1>20. \A i \in 1..(Len(v) + Len(o)) :
           (v \o o)[i] = IF i <= Len(v) THEN v[i] ELSE o[i - Len(v)]
  BY <1>1, <1>6, ConcatProperties
<1>21. \A i \in 1..(a + n) : m[i] = IF i <= a THEN v[i] ELSE o[i - a]
  BY <1>2, <1>6, <1>8, <1>20
<1>10. \A i \in 1..a : m[i] = v[i]
  <2> SUFFICES ASSUME NEW i \in 1..a PROVE m[i] = v[i]
    OBVIOUS
  <2>1. i \in 1..(a + n) /\ i <= a
    OBVIOUS
  <2> QED BY <1>21, <2>1
<1>11. ASSUME NEW p \in 1..n PROVE m[a + p] = o[p] /\ a + p \in 1..(a + n)
  <2>1. PICK q \in 1..(a + n) : q = a + p /\ ~(q <= a) /\ q - a = p
    OBVIOUS
  <2>2. m[q] = o[q - a]
    BY <1>21, <2>1
  <2> QED BY <2>1, <2>2
<1>12. ASSUME NEW p \in 1..n PROVE \E i \in I : m[a + p] = w[i] /\ f[i] = p
  <2>1. PICK i \in I : f[i] = p /\ o[f[i]] = w[i]
    BY <1>7
  <2> QED BY <1>11, <2>1
<1>13. \A q \in 1..(a + n) : q \in 1..a \/ \E p \in 1..n : q = a + p
  <2> SUFFICES ASSUME NEW q \in 1..(a + n), q \notin 1..a PROVE \E p \in 1..n : q = a + p
    OBVIOUS
  <2>1. q - a \in 1..n /\ q = a + (q - a)
    OBVIOUS
  <2> QED BY <2>1
<1>14. ASSUME NEW q \in 1..(a + n), NEW r \in 1..(a + n), m[q] = m[r], q # r PROVE FALSE
  <2>1. CASE q \in 1..a /\ r \in 1..a
    <3>1. v[q] = v[r]
      BY <1>10, <1>14, <2>1
    <3> QED BY <1>1, <1>2, <1>14, <2>1, <3>1 DEF IsInjective
  <2>2. CASE q \in 1..a /\ r \notin 1..a
    <3>1. PICK p \in 1..n : r = a + p
      BY <1>13, <2>2
    <3>2. PICK i \in I : m[r] = w[i]
      BY <1>12, <3>1
    <3> QED BY <1>3, <1>10, <1>14, <2>2, <3>2
  <2>3. CASE q \notin 1..a /\ r \in 1..a
    <3>1. PICK p \in 1..n : q = a + p
      BY <1>13, <2>3
    <3>2. PICK i \in I : m[q] = w[i]
      BY <1>12, <3>1
    <3> QED BY <1>3, <1>10, <1>14, <2>3, <3>2
  <2>4. CASE q \notin 1..a /\ r \notin 1..a
    <3>1. PICK p \in 1..n, s \in 1..n : q = a + p /\ r = a + s
      BY <1>13, <2>4
    <3>2. PICK i \in I, j \in I : m[q] = w[i] /\ f[i] = p /\ m[r] = w[j] /\ f[j] = s
      BY <1>12, <3>1
    <3>3. i = j
      BY <1>1, <1>2, <1>3, <1>14, <3>2 DEF IsInjective
    <3> QED BY <1>14, <3>1, <3>2, <3>3
  <2> QED BY <2>1, <2>2, <2>3, <2>4
<1>15. IsInjective(m)
  BY <1>9, <1>14 DEF IsInjective
<1>16. ASSUME NEW q \in 1..(a + n) PROVE m[q] \in Finds!ToSet(v) \cup Finds!ToSet(w)
  <2>1. CASE q \in 1..a
    BY <1>2, <1>10, <2>1 DEF Finds!ToSet
  <2>2. CASE q \notin 1..a
    <3>1. PICK p \in 1..n : q = a + p
      BY <1>13, <2>2
    <3>2. PICK i \in I : m[q] = w[i]
      BY <1>12, <3>1
    <3> QED BY <1>2, <1>3, <3>2 DEF Finds!ToSet
  <2> QED BY <2>1, <2>2
<1>17. ASSUME NEW i \in 1..a PROVE v[i] \in Finds!ToSet(m)
  <2>1. i \in 1..(a + n)
    OBVIOUS
  <2>2. m[i] = v[i]
    BY <1>10
  <2> QED BY <1>9, <2>1, <2>2 DEF Finds!ToSet
<1>18. ASSUME NEW i \in 1..b PROVE w[i] \in Finds!ToSet(m)
  <2>1. CASE i \in I
    <3>1. PICK p \in 1..n : p = f[i]
      BY <1>7, <2>1
    <3>2. a + p \in 1..(a + n) /\ m[a + p] = w[i]
      <4>1. m[a + p] = o[p] /\ a + p \in 1..(a + n)
        BY <1>11
      <4>2. o[p] = w[i]
        BY <1>7, <2>1, <3>1
      <4> QED BY <4>1, <4>2
    <3> QED BY <1>9, <3>2 DEF Finds!ToSet
  <2>2. CASE i \notin I
    BY <1>4, <1>17, <2>2
  <2> QED BY <2>1, <2>2
<1>19. Finds!ToSet(m) = Finds!ToSet(v) \cup Finds!ToSet(w)
  <2>1. Finds!ToSet(m) \subseteq Finds!ToSet(v) \cup Finds!ToSet(w)
    <3> SUFFICES ASSUME NEW x \in Finds!ToSet(m)
                 PROVE  x \in Finds!ToSet(v) \cup Finds!ToSet(w)
      OBVIOUS
    <3>1. PICK q \in 1..(a + n) : x = m[q]
      BY <1>9 DEF Finds!ToSet
    <3> QED BY <1>16, <3>1
  <2>2. \A x \in Finds!ToSet(v) : x \in Finds!ToSet(m)
    <3> SUFFICES ASSUME NEW x \in Finds!ToSet(v) PROVE x \in Finds!ToSet(m)
      OBVIOUS
    <3>1. PICK i \in 1..a : x = v[i]
      BY <1>2 DEF Finds!ToSet
    <3> QED BY <1>17, <3>1
  <2>3. \A x \in Finds!ToSet(w) : x \in Finds!ToSet(m)
    <3> SUFFICES ASSUME NEW x \in Finds!ToSet(w) PROVE x \in Finds!ToSet(m)
      OBVIOUS
    <3>1. PICK i \in 1..b : x = w[i]
      BY <1>2 DEF Finds!ToSet
    <3> QED BY <1>18, <3>1
  <2> QED BY <2>1, <2>2, <2>3
<1> QED BY <1>9, <1>15, <1>19, <1>22

\* The fused list has the chunks of both, each once, the weightier first.
LEMMA FusedSorted ==
    ASSUME NEW v, NEW w, Hits(v), Hits(w)
    PROVE  LET t == Finds!Fuse(v, w)
           IN  /\ t \in Seq(Chunk) /\ IsInjective(t)
               /\ Finds!ToSet(t) = Finds!ToSet(v) \cup Finds!ToSet(w)
               /\ \A p, q \in 1..Len(t) :
                     Finds!RRF(t[p], v, w) > Finds!RRF(t[q], v, w) => p < q
<1>1. PICK m : m = Merged(v, w)
  OBVIOUS
<1>2. /\ m \in Seq(Chunk) /\ IsInjective(m)
      /\ Finds!ToSet(m) = Finds!ToSet(v) \cup Finds!ToSet(w)
  BY <1>1, MergedOnce
<1>3. PICK n \in Nat : n = Len(m) /\ DOMAIN m = 1..n
  BY <1>2
<1>4. PICK key : key = [i \in 1..n |-> -Finds!RRF(m[i], v, w)]
  OBVIOUS
<1>5. PICK t : t = Finds!Fuse(v, w)
  OBVIOUS
<1>6. t = Sorted(m, key)
  <2>1. t = Finds!Sorted(m, key)
    BY <1>1, <1>3, <1>4, <1>5 DEF Finds!Fuse, Merged
  <2> QED BY <2>1, ListsSame
<1>7. ASSUME NEW c PROVE Finds!RRF(c, v, w) \in Nat
  <2>1. Finds!Share(c, v) \in Nat /\ Finds!Share(c, w) \in Nat
    BY ShareBounds
  <2> QED BY <2>1 DEF Finds!RRF
<1>8. \A i \in 1..n : key[i] \in Int /\ key[i] = -Finds!RRF(m[i], v, w)
  BY <1>4, <1>7
<1>9. key \in [1..Len(m) -> Int]
  BY <1>3, <1>4, <1>8
<1>10. t \in Seq(Chunk) /\ IsSorted(t, m, key)
  BY <1>2, <1>6, <1>9, SortedOnce
<1>11. /\ Len(t) = n /\ IsInjective(t)
       /\ \A p \in 1..n : \E i \in 1..n : t[p] = m[i]
       /\ \A i \in 1..n : \E p \in 1..n : t[p] = m[i]
       /\ InOrder(t, m, key, n)
  BY <1>3, <1>10 DEF IsSorted
<1>12. Finds!ToSet(t) = Finds!ToSet(m)
  <2>1. DOMAIN t = 1..n
    BY <1>10, <1>11
  <2>2. \A x : x \in Finds!ToSet(t) <=> \E p \in 1..n : x = t[p]
    BY <2>1 DEF Finds!ToSet
  <2>3. \A x : x \in Finds!ToSet(m) <=> \E i \in 1..n : x = m[i]
    BY <1>3 DEF Finds!ToSet
  <2>4. \A x : x \in Finds!ToSet(t) => x \in Finds!ToSet(m)
    <3>1. \A p \in 1..n : \E i \in 1..n : t[p] = m[i]
      BY <1>11
    <3> QED BY <2>2, <2>3, <3>1, Zenon
  <2>5. \A x : x \in Finds!ToSet(m) => x \in Finds!ToSet(t)
    <3>1. \A i \in 1..n : \E p \in 1..n : t[p] = m[i]
      BY <1>11
    <3> QED BY <2>2, <2>3, <3>1, Zenon
  <2> QED BY <2>4, <2>5
<1>13. ASSUME NEW p \in 1..n, NEW q \in 1..n,
              Finds!RRF(t[p], v, w) > Finds!RRF(t[q], v, w)
       PROVE  p < q
  <2>6. \A r \in 1..n : \E i \in 1..n : t[r] = m[i]
    BY <1>11
  <2>1. PICK i \in 1..n, j \in 1..n : t[p] = m[i] /\ t[q] = m[j]
    BY <2>6
  <2>2. PICK x \in Nat, y \in Nat :
          x = Finds!RRF(m[i], v, w) /\ y = Finds!RRF(m[j], v, w)
    BY <1>7
  <2>3. x > y
    BY <1>13, <2>1, <2>2
  <2>4. key[i] = -x /\ key[j] = -y
    BY <1>8, <2>2
  <2>5. Before(key, i, j)
    BY <2>3, <2>4 DEF Before
  <2> QED BY <1>11, <2>1, <2>5 DEF InOrder
<1>14. \A p, q \in 1..Len(t) : Finds!RRF(t[p], v, w) > Finds!RRF(t[q], v, w) => p < q
  <2> SUFFICES ASSUME NEW p \in 1..Len(t), NEW q \in 1..Len(t),
                      Finds!RRF(t[p], v, w) > Finds!RRF(t[q], v, w)
               PROVE  p < q
    OBVIOUS
  <2>1. p \in 1..n /\ q \in 1..n
    BY <1>11
  <2> QED BY <1>13, <2>1
<1> QED BY <1>2, <1>5, <1>10, <1>11, <1>12, <1>14

\* What the pool keeps of the fused list is what AgreementWins says.
LEMMA FusionAgrees ==
    ASSUME NEW v, NEW w, Hits(v), Hits(w), NEW pool \in Nat
    PROVE  Finds!AgreementWins(v, w, Finds!Clip(Finds!Fuse(v, w), pool), pool)
<1>1. PICK t \in Seq(Chunk) :
        /\ t = Finds!Fuse(v, w) /\ IsInjective(t)
        /\ Finds!ToSet(t) = Finds!ToSet(v) \cup Finds!ToSet(w)
        /\ \A p, q \in 1..Len(t) :
              Finds!RRF(t[p], v, w) > Finds!RRF(t[q], v, w) => p < q
  BY FusedSorted
<1>2. PICK n \in Nat : n = Len(t) /\ DOMAIN t = 1..n
  OBVIOUS
<1>3. PICK found : found = Finds!Clip(t, pool)
  OBVIOUS
<1>4. PICK l \in Nat :
        /\ l = Len(found) /\ l = (IF n < pool THEN n ELSE pool) /\ DOMAIN found = 1..l
        /\ \A i \in 1..l : found[i] = t[i]
  <2>1. /\ found \in Seq(Chunk) /\ Len(found) = (IF n < pool THEN n ELSE pool)
        /\ \A i \in 1..Len(found) : found[i] = t[i]
    BY <1>2, <1>3, ClipBegins
  <2> QED BY <2>1
<1>5. IsInjective(found)
  BY <1>1, <1>3, ClipOnce
<1>6. l <= n /\ (l = n \/ l = pool)
  BY <1>4
<1>7. \A i \in 1..l : i \in 1..n
  BY <1>6
<1>8. Finds!ToSet(found) \subseteq Finds!ToSet(t)
  BY <1>2, <1>4, <1>7 DEF Finds!ToSet
<1>9. l = n => Finds!ToSet(found) = Finds!ToSet(t)
  BY <1>2, <1>4 DEF Finds!ToSet
<1>10. ASSUME NEW c \in Finds!ToSet(v) \cap Finds!ToSet(w),
              NEW d \in Finds!ToSet(found) \ {c}, Finds!Ahead(c, d, v, w)
       PROVE  c \in Finds!ToSet(found) /\ Finds!Precedes(c, d, found)
  <2>1. d \in Finds!ToSet(v) \cup Finds!ToSet(w)
    BY <1>1, <1>8
  <2>2. Finds!RRF(c, v, w) > Finds!RRF(d, v, w)
    BY <1>10, <2>1, AgreementWeighs
  <2>3. PICK q \in 1..l : found[q] = d
    BY <1>4 DEF Finds!ToSet
  <2>4. c \in Finds!ToSet(t)
    BY <1>1
  <2>5. PICK p \in 1..n : t[p] = c
    BY <1>2, <2>4 DEF Finds!ToSet
  <2>6. q \in 1..n /\ t[q] = d
    BY <1>4, <1>7, <2>3
  <2>7. p < q
    BY <1>1, <1>2, <2>2, <2>5, <2>6
  <2>8. p \in 1..l
    BY <2>7
  <2>9. found[p] = c
    BY <1>4, <2>5, <2>8
  <2>10. Finds!Place(c, found) = p /\ Finds!Place(d, found) = q
    BY <1>4, <1>5, <2>3, <2>8, <2>9, PlaceFound
  <2>11. c \in Finds!ToSet(found)
    BY <1>4, <2>8, <2>9 DEF Finds!ToSet
  <2> QED BY <2>7, <2>10, <2>11 DEF Finds!Precedes
<1>11. Finds!AgreementWins(v, w, found, pool)
  <2>1. Finds!ToSet(found) \subseteq Finds!ToSet(v) \cup Finds!ToSet(w)
    BY <1>1, <1>8
  <2>2. Finds!ToSet(found) = Finds!ToSet(v) \cup Finds!ToSet(w) \/ Len(found) = pool
    BY <1>1, <1>4, <1>6, <1>9
  <2>3. Finds!IsInjective(found)
    BY <1>5, ListsSame
  <2> QED BY <1>10, <2>1, <2>2, <2>3 DEF Finds!AgreementWins
<1> QED BY <1>1, <1>3, <1>11
-----------------------------------------------------------------------------
\* t has the elements of s, each once; t is in the order of the scores.
Shuffles(t, s) ==
    /\ Len(t) = Len(s) /\ IsInjective(t)
    /\ \A p \in 1..Len(s) : \E i \in 1..Len(s) : t[p] = s[i]
    /\ \A i \in 1..Len(s) : \E p \in 1..Len(s) : t[p] = s[i]
Descends(t, scores) == \A p, q \in 1..Len(t) : scores[t[p]] > scores[t[q]] => p < q

\* The reranker's replies, batch after batch, hold every candidate once.
LEMMA BestOnce ==
    ASSUME NEW s \in Seq(Chunk), IsInjective(s), NEW scores,
           \A i \in 1..Len(s) : scores[s[i]] \in Int
    PROVE  LET t == Finds!Best(s, scores)
           IN  t \in Seq(Chunk) /\ Shuffles(t, s) /\ Descends(t, scores)
<1>1. PICK n \in Nat : n = Len(s) /\ DOMAIN s = 1..n
  OBVIOUS
<1>2. PICK key : key = [i \in 1..n |-> -scores[s[i]]]
  OBVIOUS
<1>3. PICK t : t = Finds!Best(s, scores)
  OBVIOUS
<1>4. t = Sorted(s, key)
  <2>1. t = Finds!Sorted(s, key)
    BY <1>1, <1>2, <1>3 DEF Finds!Best
  <2> QED BY <2>1, ListsSame
<1>5. \A i \in 1..n : key[i] \in Int /\ key[i] = -scores[s[i]] /\ scores[s[i]] \in Int
  BY <1>1, <1>2
<1>6. key \in [1..Len(s) -> Int]
  BY <1>1, <1>2, <1>5
<1>7. t \in Seq(Chunk) /\ IsSorted(t, s, key)
  BY <1>4, <1>6, SortedOnce
<1>8. /\ Len(t) = n /\ IsInjective(t)
      /\ \A p \in 1..n : \E i \in 1..n : t[p] = s[i]
      /\ \A i \in 1..n : \E p \in 1..n : t[p] = s[i]
      /\ InOrder(t, s, key, n)
  BY <1>1, <1>7 DEF IsSorted
<1>9. ASSUME NEW p \in 1..n, NEW q \in 1..n, scores[t[p]] > scores[t[q]] PROVE p < q
  <2>6. \A r \in 1..n : \E i \in 1..n : t[r] = s[i]
    BY <1>8
  <2>1. PICK i \in 1..n, j \in 1..n : t[p] = s[i] /\ t[q] = s[j]
    BY <2>6
  <2>2. PICK x \in Int, y \in Int : x = scores[s[i]] /\ y = scores[s[j]]
    BY <1>5
  <2>3. x > y
    BY <1>9, <2>1, <2>2
  <2>4. key[i] = -x /\ key[j] = -y
    BY <1>5, <2>2
  <2>5. Before(key, i, j)
    BY <2>3, <2>4 DEF Before
  <2> QED BY <1>8, <2>1, <2>5 DEF InOrder
<1>10. /\ \A p \in 1..Len(s) : \E i \in 1..Len(s) : t[p] = s[i]
       /\ \A i \in 1..Len(s) : \E p \in 1..Len(s) : t[p] = s[i]
  BY <1>1, <1>8
<1>12. Shuffles(t, s)
  <2>1. Len(t) = Len(s)
    BY <1>1, <1>8
  <2> QED BY <1>8, <1>10, <2>1 DEF Shuffles
<1>11. Descends(t, scores)
  <2> SUFFICES ASSUME NEW p \in 1..Len(t), NEW q \in 1..Len(t), scores[t[p]] > scores[t[q]]
               PROVE  p < q
    BY DEF Descends
  <2>1. p \in 1..n /\ q \in 1..n
    BY <1>8
  <2> QED BY <1>9, <2>1
<1> QED BY <1>3, <1>7, <1>11, <1>12
-------------------------------------------------------------------------------
(* ---- Retrieval: the reranker's batches ---------------------------------- *)

\* The batch of a candidate and where it starts.
Part(q) == (q - 1) \div MaxBatch
Start(q) == Part(q) * MaxBatch

LEMMA PartStarts ==
    ASSUME FindsNamed, NEW q \in Nat, q > 0
    PROVE  /\ Part(q) \in Nat /\ Start(q) \in Nat /\ MaxBatch \in Nat
           /\ Start(q) < q /\ q <= Start(q) + MaxBatch
<1>1. PICK m \in Nat : m = MaxBatch /\ m > 0
  BY DEF FindsNamed
<1>2. PICK p \in Nat : p = q - 1
  OBVIOUS
<1>3. p \div m \in Nat /\ m * (p \div m) <= p /\ p < m * (p \div m) + m
  BY <1>1
<1>4. PICK e \in Nat : e = p \div m
  BY <1>3
<1>5. m * e = e * m /\ e * m \in Nat
  OBVIOUS
<1> QED BY <1>1, <1>2, <1>3, <1>4, <1>5 DEF Part, Start

LEMMA PartsApart ==
    ASSUME FindsNamed, NEW q \in Nat, q > 0, NEW r \in Nat,
           Start(q) < r, r <= Start(q) + MaxBatch
    PROVE  Part(r) = Part(q)
<1>0. PICK m \in Nat : m = MaxBatch /\ m > 0
  BY DEF FindsNamed
<1>6. Part(q) \in Nat /\ Start(q) \in Nat
  BY PartStarts
<1>1. PICK e \in Nat, u \in Nat : e = Part(q) /\ u = e * m /\ u < r /\ r <= u + m
  BY <1>0, <1>6 DEF Start
<1>2. r > 0
  BY <1>1
<1>7. Part(r) \in Nat /\ Start(r) \in Nat /\ Start(r) < r /\ r <= Start(r) + MaxBatch
  BY <1>2, PartStarts
<1>3. PICK d \in Nat, v \in Nat : d = Part(r) /\ v = d * m /\ v < r /\ r <= v + m
  BY <1>0, <1>7 DEF Start
<1>4. ASSUME d < e PROVE FALSE
  <2>1. (d + 1) * m <= e * m
    BY <1>4
  <2>2. (d + 1) * m = d * m + m
    OBVIOUS
  <2> QED BY <1>1, <1>3, <2>1, <2>2
<1>5. ASSUME e < d PROVE FALSE
  <2>1. (e + 1) * m <= d * m
    BY <1>5
  <2>2. (e + 1) * m = e * m + m
    OBVIOUS
  <2> QED BY <1>1, <1>3, <2>1, <2>2
<1> QED BY <1>1, <1>3, <1>4, <1>5

\* The batch itself.
LEMMA BatchOf ==
    ASSUME FindsNamed, NEW s \in Seq(Chunk), IsInjective(s), NEW q \in 1..Len(s)
    PROVE  LET B == Finds!Batch(s, Part(q) + 1)
           IN  /\ B \in Seq(Chunk) /\ IsInjective(B) /\ Len(B) <= MaxBatch
               /\ \A i \in 1..Len(B) : Start(q) + i \in 1..Len(s) /\ B[i] = s[Start(q) + i]
               /\ \A r \in 1..Len(s) : Part(r) = Part(q) => r - Start(q) \in 1..Len(B)
<1>1. PICK n \in Nat : n = Len(s) /\ DOMAIN s = 1..n
  OBVIOUS
<1>0. PICK m \in Nat : m = MaxBatch /\ m > 0
  BY DEF FindsNamed
<1>12. q \in Nat /\ q > 0 /\ q <= n
  BY <1>1
<1>13. Part(q) \in Nat /\ Start(q) \in Nat /\ Start(q) < q /\ q <= Start(q) + MaxBatch
  BY <1>12, PartStarts
<1>2. PICK e \in Nat, u \in Nat :
        m = MaxBatch /\ e = Part(q) /\ u = Start(q) /\ u = e * m /\ u < q /\ q <= u + m
  BY <1>0, <1>13 DEF Start
<1>3. PICK top \in Nat : top = IF u + m < n THEN u + m ELSE n
  OBVIOUS
<1>4. u + 1 <= top /\ top <= n /\ top <= u + m
  BY <1>1, <1>2, <1>3
<1>5. PICK B : B = Finds!Batch(s, Part(q) + 1)
  OBVIOUS
<1>6. B = SubSeq(s, u + 1, top)
  <2>1. PICK b \in Nat : b = e + 1
    OBVIOUS
  <2>2. (b - 1) * m = u
    <3>1. b - 1 = e
      BY <2>1
    <3> QED BY <1>2, <3>1
  <2>3. b * m = u + m
    <3>1. b * m = e * m + m
      BY <2>1
    <3> QED BY <1>2, <3>1
  <2>4. B = Finds!Batch(s, b)
    BY <1>2, <1>5, <2>1
  <2>5. B = SubSeq(s, (b - 1) * m + 1, IF b * m < n THEN b * m ELSE n)
    BY <1>1, <1>2, <2>4 DEF Finds!Batch
  <2>6. B = SubSeq(s, u + 1, IF u + m < n THEN u + m ELSE n)
    BY <2>2, <2>3, <2>5
  <2> QED BY <1>3, <2>6
<1>7. /\ B \in Seq(Chunk) /\ Len(B) = top - u
      /\ \A i \in 1..(top - u) : B[i] = s[u + i]
  <2>1. /\ SubSeq(s, u + 1, top) \in Seq(Chunk)
        /\ Len(SubSeq(s, u + 1, top)) = top - u
        /\ \A i \in 1..(top - u) : SubSeq(s, u + 1, top)[i] = s[u + i]
    BY <1>1, <1>4
  <2> QED BY <1>6, <2>1
<1>8. \A i \in 1..Len(B) : u + i \in 1..Len(s) /\ B[i] = s[u + i]
  BY <1>1, <1>4, <1>7
<1>9. ASSUME NEW i \in 1..Len(B), NEW j \in 1..Len(B), B[i] = B[j] PROVE i = j
  <2>1. u + i \in 1..n /\ u + j \in 1..n /\ s[u + i] = s[u + j]
    BY <1>1, <1>8, <1>9
  <2>2. u + i = u + j
    BY <1>1, <2>1 DEF IsInjective
  <2>3. i \in Nat /\ j \in Nat
    BY <1>7
  <2> QED BY <2>2, <2>3
<1>10. IsInjective(B)
  <2>1. DOMAIN B = 1..Len(B)
    BY <1>7
  <2> QED BY <1>9, <2>1 DEF IsInjective
<1>11. ASSUME NEW r \in 1..Len(s), Part(r) = Part(q) PROVE r - Start(q) \in 1..Len(B)
  <2>1. r \in Nat /\ r > 0 /\ r <= n
    BY <1>1
  <2>2. Start(r) < r /\ r <= Start(r) + MaxBatch
    BY <2>1, PartStarts
  <2>3. Start(r) = u
    BY <1>2, <1>11 DEF Start
  <2>4. u < r /\ r <= top
    BY <1>2, <1>3, <2>1, <2>2, <2>3
  <2>5. r - u \in 1..(top - u)
    BY <2>1, <2>4
  <2> QED BY <1>2, <1>7, <2>5
<1>14. Len(B) <= MaxBatch
  <2>1. top - u <= m
    BY <1>4
  <2> QED BY <1>2, <1>7, <2>1
<1> QED BY <1>2, <1>5, <1>7, <1>8, <1>10, <1>11, <1>14

\* t holds the candidates of the batch of s that has candidate q.
Covers(t, s, q) ==
    /\ IsInjective(t)
    /\ \A p \in 1..Len(t) : \E r \in 1..Len(s) : t[p] = s[r] /\ Part(r) = Part(q)
    /\ \A p \in 1..Len(t) : Start(q) + p \in 1..Len(s) /\ Part(Start(q) + p) = Part(q)
    /\ \A r \in 1..Len(s) : Part(r) = Part(q) =>
          r - Start(q) \in 1..Len(t) /\ \E p \in 1..Len(t) : t[p] = s[r]

\* The reply to it, best first.
Reply(s, scores, b) == Finds!Best(Finds!Batch(s, b + 1), scores)

LEMMA ReplyOf ==
    ASSUME FindsNamed, NEW s \in Seq(Chunk), IsInjective(s), NEW scores,
           \A i \in 1..Len(s) : scores[s[i]] \in Int, NEW q \in 1..Len(s)
    PROVE  Reply(s, scores, Part(q)) \in Seq(Chunk) /\ Covers(Reply(s, scores, Part(q)), s, q)
<1>1. PICK n \in Nat : n = Len(s) /\ DOMAIN s = 1..n
  OBVIOUS
<1>2. PICK B \in Seq(Chunk) :
        /\ B = Finds!Batch(s, Part(q) + 1) /\ IsInjective(B) /\ Len(B) <= MaxBatch
        /\ \A i \in 1..Len(B) : Start(q) + i \in 1..Len(s) /\ B[i] = s[Start(q) + i]
        /\ \A r \in 1..Len(s) : Part(r) = Part(q) => r - Start(q) \in 1..Len(B)
  BY BatchOf
<1>0. PICK m \in Nat : m = MaxBatch /\ m > 0
  BY DEF FindsNamed
<1>13. q \in Nat /\ q > 0 /\ q <= n
  BY <1>1
<1>14. Part(q) \in Nat /\ Start(q) \in Nat /\ Start(q) < q /\ q <= Start(q) + MaxBatch
  BY <1>13, PartStarts
<1>3. PICK l \in Nat, u \in Nat : l = Len(B) /\ l <= m /\ u = Start(q) /\ u < q /\ q <= u + m
  BY <1>0, <1>2, <1>14
<1>4. \A i \in 1..Len(B) : scores[B[i]] \in Int
  BY <1>2
<1>15. IsInjective(B)
  BY <1>2
<1>16. Finds!Best(B, scores) \in Seq(Chunk) /\ Shuffles(Finds!Best(B, scores), B)
  BY <1>4, <1>15, BestOnce
<1>5. PICK t :
        /\ t = Finds!Best(B, scores)
        /\ t \in Seq(Chunk) /\ Len(t) = Len(B) /\ IsInjective(t)
        /\ \A p \in 1..Len(B) : \E i \in 1..Len(B) : t[p] = B[i]
        /\ \A i \in 1..Len(B) : \E p \in 1..Len(B) : t[p] = B[i]
  BY <1>16 DEF Shuffles
<1>6. /\ t \in Seq(Chunk) /\ Len(t) = l /\ IsInjective(t)
      /\ \A p \in 1..l : \E i \in 1..l : t[p] = B[i]
      /\ \A i \in 1..l : \E p \in 1..l : t[p] = B[i]
  BY <1>3, <1>5
<1>7. ASSUME NEW i \in 1..l
      PROVE  u + i \in 1..n /\ B[i] = s[u + i] /\ Part(u + i) = Part(q)
  <2>1. u + i \in 1..n /\ B[i] = s[u + i]
    BY <1>1, <1>2, <1>3
  <2>2. u + i \in Nat /\ u < u + i /\ u + i <= u + m
    BY <1>3
  <2>3. Start(q) < u + i /\ u + i <= Start(q) + MaxBatch
    BY <1>0, <1>3, <2>2
  <2>4. Part(u + i) = Part(q)
    BY <1>13, <2>2, <2>3, PartsApart
  <2> QED BY <2>1, <2>4
<1>8. ASSUME NEW p \in 1..l PROVE \E r \in 1..n : t[p] = s[r] /\ Part(r) = Part(q)
  <2>1. PICK i \in 1..l : t[p] = B[i]
    BY <1>6
  <2> QED BY <1>7, <2>1
<1>9. ASSUME NEW r \in 1..n, Part(r) = Part(q)
      PROVE  r - u \in 1..l /\ \E p \in 1..l : t[p] = s[r]
  <2>1. PICK i \in 1..l : i = r - u
    BY <1>1, <1>2, <1>3, <1>9
  <2>2. B[i] = s[r]
    <3>1. u + i = r
      BY <2>1
    <3> QED BY <1>7, <3>1
  <2> QED BY <1>6, <2>1, <2>2
<1>10. \A p \in 1..Len(t) : \E r \in 1..Len(s) : t[p] = s[r] /\ Part(r) = Part(q)
  BY <1>1, <1>6, <1>8
<1>11. \A p \in 1..Len(t) : Start(q) + p \in 1..Len(s) /\ Part(Start(q) + p) = Part(q)
  BY <1>1, <1>3, <1>6, <1>7
<1>12. \A r \in 1..Len(s) : Part(r) = Part(q) =>
            r - Start(q) \in 1..Len(t) /\ \E p \in 1..Len(t) : t[p] = s[r]
  BY <1>1, <1>3, <1>6, <1>9
<1>17. t = Reply(s, scores, Part(q))
  BY <1>2, <1>5 DEF Reply
<1>18. Covers(t, s, q)
  BY <1>6, <1>10, <1>11, <1>12 DEF Covers
<1> QED BY <1>6, <1>17, <1>18

\* The replies one after the other hold every candidate once.
LEMMA ScoredOnce ==
    ASSUME FindsNamed, NEW s \in Seq(Chunk), IsInjective(s), NEW scores,
           \A i \in 1..Len(s) : scores[s[i]] \in Int
    PROVE  LET t == Finds!Scored(s, scores)
           IN  t \in Seq(Chunk) /\ Shuffles(t, s)
<1>1. PICK n \in Nat : n = Len(s) /\ DOMAIN s = 1..n
  OBVIOUS
<1>2. PICK t : t = Finds!Scored(s, scores)
  OBVIOUS
<1>3. PICK m \in Nat : m = MaxBatch /\ m > 0
  BY DEF FindsNamed
<1>4. ASSUME NEW q \in 1..n
      PROVE  /\ q \in Nat /\ q > 0 /\ Part(q) \in Nat /\ Start(q) \in Nat
             /\ Start(q) = Part(q) * MaxBatch
  <2>1. q \in Nat /\ q > 0
    OBVIOUS
  <2> QED BY <2>1, PartStarts DEF Start
<1>5. ASSUME NEW q \in 1..n
      PROVE  /\ Reply(s, scores, Part(q)) \in Seq(Chunk)
             /\ IsInjective(Reply(s, scores, Part(q)))
             /\ \A p \in 1..Len(Reply(s, scores, Part(q))) :
                   \E r \in 1..n : Reply(s, scores, Part(q))[p] = s[r] /\ Part(r) = Part(q)
             /\ \A p \in 1..Len(Reply(s, scores, Part(q))) :
                   Start(q) + p \in 1..n /\ Part(Start(q) + p) = Part(q)
             /\ \A r \in 1..n : Part(r) = Part(q) =>
                   /\ r - Start(q) \in 1..Len(Reply(s, scores, Part(q)))
                   /\ \E p \in 1..Len(Reply(s, scores, Part(q))) :
                         Reply(s, scores, Part(q))[p] = s[r]
  <2>1. q \in 1..Len(s)
    BY <1>1
  <2>2. Reply(s, scores, Part(q)) \in Seq(Chunk) /\ Covers(Reply(s, scores, Part(q)), s, q)
    BY <2>1, ReplyOf
  <2> QED BY <1>1, <2>2 DEF Covers
<1>6. ASSUME NEW p \in 1..n PROVE t[p] = Reply(s, scores, Part(p))[p - Start(p)]
  <2>1. PICK e \in Nat, u \in Nat, b \in Nat :
          /\ e = Part(p) /\ u = Start(p) /\ b = e + 1 /\ u = e * MaxBatch
    BY <1>4
  <2>2. b = (p - 1) \div MaxBatch + 1
    BY <2>1 DEF Part
  <2>3. p \in DOMAIN s
    BY <1>1
  <2>7. t[p] = LET c == (p - 1) \div MaxBatch + 1
               IN  Finds!Best(Finds!Batch(s, c), scores)[p - (c - 1) * MaxBatch]
    BY <1>2, <2>3 DEF Finds!Scored
  <2>4. t[p] = Finds!Best(Finds!Batch(s, b), scores)[p - (b - 1) * MaxBatch]
    BY <2>2, <2>7
  <2>5. (b - 1) * MaxBatch = u
    <3>1. b - 1 = e
      BY <2>1
    <3> QED BY <2>1, <3>1
  <2>6. Reply(s, scores, Part(p)) = Finds!Best(Finds!Batch(s, b), scores)
    BY <2>1 DEF Reply
  <2> QED BY <2>1, <2>4, <2>5, <2>6
<1>7. ASSUME NEW p \in 1..n PROVE \E r \in 1..n : t[p] = s[r] /\ Part(r) = Part(p)
  <2>1. p - Start(p) \in 1..Len(Reply(s, scores, Part(p)))
    BY <1>5
  <2>2. PICK j : j = p - Start(p) /\ j \in 1..Len(Reply(s, scores, Part(p)))
    BY <2>1
  <2>3. t[p] = Reply(s, scores, Part(p))[j]
    BY <1>6, <2>2
  <2>4. \E r \in 1..n : Reply(s, scores, Part(p))[j] = s[r] /\ Part(r) = Part(p)
    BY <1>5, <2>2
  <2> QED BY <2>3, <2>4
<1>8. DOMAIN t = 1..n
  BY <1>1, <1>2 DEF Finds!Scored
<1>9. t \in Seq(Chunk) /\ Len(t) = n
  <2>1. \A p \in 1..n : t[p] \in Chunk
    <3> SUFFICES ASSUME NEW p \in 1..n PROVE t[p] \in Chunk
      OBVIOUS
    <3>1. PICK r \in 1..n : t[p] = s[r]
      BY <1>7
    <3>2. s[r] \in Chunk
      BY <1>1
    <3> QED BY <3>1, <3>2
  <2>2. t = [p \in 1..n |-> t[p]]
    <3>1. t = [p \in DOMAIN t |-> t[p]]
      BY <1>2 DEF Finds!Scored
    <3> QED BY <1>8, <3>1
  <2>3. t \in [1..n -> Chunk]
    BY <2>1, <2>2
  <2> QED BY <2>3
<1>10. ASSUME NEW p \in 1..n, NEW q \in 1..n, t[p] = t[q] PROVE p = q
  <2>1. PICK r \in 1..n : t[p] = s[r] /\ Part(r) = Part(p)
    BY <1>7
  <2>2. PICK o \in 1..n : t[q] = s[o] /\ Part(o) = Part(q)
    BY <1>7
  <2>3. r = o
    BY <1>1, <1>10, <2>1, <2>2 DEF IsInjective
  <2>4. PICK e : e = Part(p) /\ e = Part(q)
    BY <2>1, <2>2, <2>3
  <2>5. PICK u \in Nat : u = Start(p) /\ u = Start(q)
    BY <1>4, <2>4
  <2>6. PICK y : y = Reply(s, scores, e)
    OBVIOUS
  <2>7. /\ y \in Seq(Chunk) /\ IsInjective(y)
        /\ p - u \in 1..Len(y) /\ q - u \in 1..Len(y)
    BY <1>5, <2>4, <2>5, <2>6
  <2>8. y[p - u] = y[q - u]
    BY <1>6, <1>10, <2>4, <2>5, <2>6
  <2>9. DOMAIN y = 1..Len(y)
    BY <2>7
  <2>10. p - u = q - u
    BY <2>7, <2>8, <2>9 DEF IsInjective
  <2> QED BY <2>10
<1>11. ASSUME NEW i \in 1..n PROVE \E p \in 1..n : t[p] = s[i]
  <2>1. PICK y : y = Reply(s, scores, Part(i))
    OBVIOUS
  <2>2. /\ y \in Seq(Chunk)
        /\ \E j \in 1..Len(y) : y[j] = s[i]
        /\ \A j \in 1..Len(y) : Start(i) + j \in 1..n /\ Part(Start(i) + j) = Part(i)
    BY <1>5, <2>1
  <2>3. PICK j \in 1..Len(y) : y[j] = s[i]
    BY <2>2
  <2>4. PICK p \in 1..n : p = Start(i) + j /\ Part(p) = Part(i)
    BY <2>2
  <2>5. Start(p) = Start(i) /\ Start(i) \in Nat
    BY <1>4, <2>4
  <2>6. p - Start(p) = j
    BY <2>2, <2>4, <2>5
  <2>7. t[p] = y[j]
    BY <1>6, <2>1, <2>4, <2>6
  <2> QED BY <2>3, <2>7
<1>12. IsInjective(t)
  BY <1>8, <1>10 DEF IsInjective
<1>13. \A p \in 1..n : \E i \in 1..n : t[p] = s[i]
  BY <1>7
<1>14. Shuffles(t, s)
  BY <1>1, <1>9, <1>11, <1>12, <1>13 DEF Shuffles
<1> QED BY <1>2, <1>9, <1>14

\* Sorted again, they are in the order of the scores.
LEMMA RerankedOnce ==
    ASSUME FindsNamed, NEW s \in Seq(Chunk), IsInjective(s), NEW scores,
           \A i \in 1..Len(s) : scores[s[i]] \in Int
    PROVE  LET t == Finds!Reranked(s, scores)
           IN  t \in Seq(Chunk) /\ Shuffles(t, s) /\ Descends(t, scores)
<1>1. PICK n \in Nat : n = Len(s) /\ DOMAIN s = 1..n
  OBVIOUS
<1>2. PICK B \in Seq(Chunk) :
        /\ B = Finds!Scored(s, scores) /\ Len(B) = n /\ IsInjective(B)
        /\ \A p \in 1..n : \E i \in 1..n : B[p] = s[i]
        /\ \A i \in 1..n : \E p \in 1..n : B[p] = s[i]
  <2>1. Finds!Scored(s, scores) \in Seq(Chunk) /\ Shuffles(Finds!Scored(s, scores), s)
    BY ScoredOnce
  <2> QED BY <1>1, <2>1 DEF Shuffles
<1>3. \A i \in 1..Len(B) : scores[B[i]] \in Int
  <2> SUFFICES ASSUME NEW i \in 1..n PROVE scores[B[i]] \in Int
    BY <1>2
  <2>1. PICK j \in 1..n : B[i] = s[j]
    BY <1>2
  <2> QED BY <1>1, <2>1
<1>4. IsInjective(B)
  BY <1>2
<1>5. /\ Finds!Best(B, scores) \in Seq(Chunk) /\ Shuffles(Finds!Best(B, scores), B)
      /\ Descends(Finds!Best(B, scores), scores)
  BY <1>3, <1>4, BestOnce
<1>6. PICK t \in Seq(Chunk) :
        /\ t = Finds!Reranked(s, scores) /\ Len(t) = n /\ IsInjective(t)
        /\ \A p \in 1..n : \E i \in 1..n : t[p] = B[i]
        /\ \A i \in 1..n : \E p \in 1..n : t[p] = B[i]
        /\ Descends(t, scores)
  <2>1. Finds!Reranked(s, scores) = Finds!Best(B, scores)
    BY <1>2 DEF Finds!Reranked
  <2>2. PICK t : t = Finds!Best(B, scores)
    OBVIOUS
  <2>3. t \in Seq(Chunk) /\ Shuffles(t, B) /\ Descends(t, scores)
    BY <1>5, <2>2
  <2>4. /\ Len(t) = n /\ IsInjective(t)
        /\ \A p \in 1..n : \E i \in 1..n : t[p] = B[i]
        /\ \A i \in 1..n : \E p \in 1..n : t[p] = B[i]
    BY <1>2, <2>3 DEF Shuffles
  <2> QED BY <2>1, <2>2, <2>3, <2>4
<1>7. ASSUME NEW p \in 1..n PROVE \E i \in 1..n : t[p] = s[i]
  <2>1. PICK j \in 1..n : t[p] = B[j]
    BY <1>6
  <2>2. PICK i \in 1..n : B[j] = s[i]
    BY <1>2
  <2> QED BY <2>1, <2>2
<1>8. ASSUME NEW i \in 1..n PROVE \E p \in 1..n : t[p] = s[i]
  <2>1. PICK j \in 1..n : B[j] = s[i]
    BY <1>2
  <2>2. PICK p \in 1..n : t[p] = B[j]
    BY <1>6
  <2> QED BY <2>1, <2>2
<1>9. Shuffles(t, s)
  BY <1>1, <1>6, <1>7, <1>8 DEF Shuffles
<1> QED BY <1>6, <1>9

\* So the first of them are the best.
LEMMA BestLeft ==
    ASSUME FindsNamed, NEW s \in Seq(Chunk), IsInjective(s), NEW k \in Nat
    PROVE  /\ Finds!BestAreLeft(s, k)
           /\ \A scores \in Finds!Orders(s) :
                 /\ Finds!Clip(Finds!Reranked(s, scores), k) \in Seq(Chunk)
                 /\ IsInjective(Finds!Clip(Finds!Reranked(s, scores), k))
<1>1. PICK n \in Nat : n = Len(s) /\ DOMAIN s = 1..n
  OBVIOUS
<1>2. ASSUME NEW scores \in Finds!Orders(s), NEW kept,
             kept = Finds!Clip(Finds!Reranked(s, scores), k)
      PROVE  /\ kept \in Seq(Chunk) /\ IsInjective(kept)
             /\ Len(kept) = IF Len(s) < k THEN Len(s) ELSE k
             /\ \A i \in DOMAIN kept : \A c \in Finds!ToSet(s) :
                   scores[c] > scores[kept[i]] => \E j \in 1..(i - 1) : kept[j] = c
  <2>1. \A c \in Finds!ToSet(s) : scores[c] \in Int
    BY <1>1 DEF Finds!Orders
  <2>2. \A i \in 1..Len(s) : scores[s[i]] \in Int
    BY <1>1, <2>1 DEF Finds!ToSet
  <2>3. /\ Finds!Reranked(s, scores) \in Seq(Chunk) /\ Shuffles(Finds!Reranked(s, scores), s)
        /\ Descends(Finds!Reranked(s, scores), scores)
    BY <2>2, RerankedOnce
  <2>4. PICK t \in Seq(Chunk) :
          /\ t = Finds!Reranked(s, scores) /\ Len(t) = n /\ IsInjective(t)
          /\ \A i \in 1..n : \E p \in 1..n : t[p] = s[i]
          /\ \A p, q \in 1..n : scores[t[p]] > scores[t[q]] => p < q
    <3>1. PICK t : t = Finds!Reranked(s, scores)
      OBVIOUS
    <3>2. t \in Seq(Chunk) /\ Shuffles(t, s) /\ Descends(t, scores)
      BY <2>3, <3>1
    <3>3. Len(t) = n
      BY <1>1, <3>2 DEF Shuffles
    <3>4. \A p, q \in 1..n : scores[t[p]] > scores[t[q]] => p < q
      BY <3>2, <3>3 DEF Descends
    <3> QED BY <1>1, <3>1, <3>2, <3>3, <3>4 DEF Shuffles
  <2>9. kept = Finds!Clip(t, k)
    BY <1>2, <2>4
  <2>5. /\ kept \in Seq(Chunk) /\ Len(kept) = (IF Len(t) < k THEN Len(t) ELSE k)
        /\ \A i \in 1..Len(kept) : kept[i] = t[i]
    <3>1. t \in Seq(Chunk)
      OBVIOUS
    <3> QED BY <2>9, <3>1, ClipBegins
  <2>6. PICK l \in Nat :
          /\ l = Len(kept) /\ DOMAIN kept = 1..l /\ l <= n
          /\ l = (IF n < k THEN n ELSE k) /\ \A i \in 1..l : kept[i] = t[i]
    <3>1. PICK l \in Nat : l = Len(kept) /\ DOMAIN kept = 1..l
      BY <2>5
    <3>2. l = IF n < k THEN n ELSE k
      BY <2>4, <2>5, <3>1
    <3>3. \A i \in 1..l : kept[i] = t[i]
      BY <2>5, <3>1
    <3> QED BY <3>1, <3>2, <3>3
  <2>7. IsInjective(kept)
    BY <2>4, <2>9, ClipOnce
  <2>8. ASSUME NEW i \in 1..l, NEW c \in Finds!ToSet(s), scores[c] > scores[kept[i]]
        PROVE  \E j \in 1..(i - 1) : kept[j] = c
    <3>1. PICK r \in 1..n : c = s[r]
      BY <1>1 DEF Finds!ToSet
    <3>2. PICK p \in 1..n : t[p] = c
      BY <2>4, <3>1
    <3>3. i \in 1..n /\ kept[i] = t[i]
      BY <2>6
    <3>4. scores[t[p]] > scores[t[i]]
      BY <2>8, <3>2, <3>3
    <3>5. p < i
      BY <2>4, <3>3, <3>4
    <3>6. p \in 1..(i - 1) /\ p \in 1..l
      BY <3>5
    <3>7. kept[p] = c
      BY <2>6, <3>2, <3>6
    <3> QED BY <3>6, <3>7
  <2> QED BY <1>1, <2>5, <2>6, <2>7, <2>8
<1>3. Finds!BestAreLeft(s, k)
  <2> SUFFICES ASSUME NEW scores \in Finds!Orders(s)
               PROVE  LET kept == Finds!Clip(Finds!Reranked(s, scores), k)
                      IN  /\ \A i \in DOMAIN kept : \A c \in Finds!ToSet(s) :
                                scores[c] > scores[kept[i]] =>
                                      \E j \in 1..(i - 1) : kept[j] = c
                          /\ Len(kept) = IF Len(s) < k THEN Len(s) ELSE k
    BY DEF Finds!BestAreLeft
  <2>1. PICK kept : kept = Finds!Clip(Finds!Reranked(s, scores), k)
    OBVIOUS
  <2> QED BY <1>2, <2>1
<1> QED BY <1>2, <1>3
-------------------------------------------------------------------------------
(* ---- Retrieval: votes --------------------------------------------------- *)

\* What the votes do: the table of tanh rises, and so does the shift.
LEMMA SquashRises ==
    /\ \A i \in 1..12 : Finds!Squash[i] \in Int /\ 0 < Finds!Squash[i]
                         /\ Finds!Squash[i] <= 1894
    /\ \A i, j \in 1..12 : i < j => Finds!Squash[i] < Finds!Squash[j]
<1>1. /\ Finds!Squash[1] = 298 /\ Finds!Squash[2] = 583 /\ Finds!Squash[3] = 844
      /\ Finds!Squash[4] = 1074 /\ Finds!Squash[5] = 1270 /\ Finds!Squash[6] = 1433
      /\ Finds!Squash[7] = 1564 /\ Finds!Squash[8] = 1667 /\ Finds!Squash[9] = 1748
      /\ Finds!Squash[10] = 1810 /\ Finds!Squash[11] = 1858 /\ Finds!Squash[12] = 1894
  BY DEF Finds!Squash
<1>2. \A i \in 1..12 : \/ i = 1 \/ i = 2 \/ i = 3 \/ i = 4 \/ i = 5 \/ i = 6
                       \/ i = 7 \/ i = 8 \/ i = 9 \/ i = 10 \/ i = 11 \/ i = 12
  OBVIOUS
<1>3. \A i \in 1..12 : Finds!Squash[i] \in Int /\ 0 < Finds!Squash[i]
                       /\ Finds!Squash[i] <= 1894
  BY <1>1, <1>2
<1>4. ASSUME NEW i \in 1..12, NEW j \in 1..12, i < j PROVE Finds!Squash[i] < Finds!Squash[j]
  <2>1. \A k \in 1..11 : Finds!Squash[k] < Finds!Squash[12]
    BY <1>1, <1>2
  <2>2. \A k \in 1..10 : Finds!Squash[k] < Finds!Squash[11]
    BY <1>1, <1>2
  <2>3. \A k \in 1..9 : Finds!Squash[k] < Finds!Squash[10]
    BY <1>1, <1>2
  <2>4. \A k \in 1..8 : Finds!Squash[k] < Finds!Squash[9]
    BY <1>1, <1>2
  <2>5. \A k \in 1..7 : Finds!Squash[k] < Finds!Squash[8]
    BY <1>1, <1>2
  <2>6. \A k \in 1..6 : Finds!Squash[k] < Finds!Squash[7]
    BY <1>1, <1>2
  <2>7. \A k \in 1..5 : Finds!Squash[k] < Finds!Squash[6]
    BY <1>1, <1>2
  <2>8. \A k \in 1..4 : Finds!Squash[k] < Finds!Squash[5]
    BY <1>1, <1>2
  <2>9. \A k \in 1..3 : Finds!Squash[k] < Finds!Squash[4]
    BY <1>1, <1>2
  <2>10. Finds!Squash[1] < Finds!Squash[2] /\ Finds!Squash[1] < Finds!Squash[3]
         /\ Finds!Squash[2] < Finds!Squash[3]
    BY <1>1
  <2> QED BY <1>2, <1>4, <2>1, <2>2, <2>3, <2>4, <2>5, <2>6, <2>7, <2>8, <2>9, <2>10
<1> QED BY <1>3, <1>4

LEMMA ShiftRises ==
    ASSUME NEW n \in Int, NEW m \in Int
    PROVE  /\ Finds!Shift(n) \in Int /\ Finds!Shift(0) = 0
           /\ -1894 <= Finds!Shift(n) /\ Finds!Shift(n) <= 1894
           /\ Finds!Shift(n) > Finds!Shift(m) => n > m
<1>1. /\ \A i \in 1..12 : Finds!Squash[i] \in Int /\ 0 < Finds!Squash[i]
                          /\ Finds!Squash[i] <= 1894
      /\ \A i, j \in 1..12 : i < j => Finds!Squash[i] < Finds!Squash[j]
  BY SquashRises
<1>2. ASSUME NEW k \in Int
      PROVE  /\ k = 0 => Finds!Shift(k) = 0
             /\ k > 12 => Finds!Shift(k) = Finds!Squash[12]
             /\ k > 0 /\ k <= 12 => Finds!Shift(k) = Finds!Squash[k]
             /\ k < -12 => Finds!Shift(k) = -Finds!Squash[12]
             /\ k < 0 /\ k >= -12 => Finds!Shift(k) = -Finds!Squash[-k]
  BY DEF Finds!Shift
<1>3. ASSUME NEW k \in Int
      PROVE  /\ Finds!Shift(k) \in Int /\ -1894 <= Finds!Shift(k) /\ Finds!Shift(k) <= 1894
             /\ k > 0 => \E i \in 1..12 : Finds!Shift(k) = Finds!Squash[i]
                                          /\ i = IF k > 12 THEN 12 ELSE k
             /\ k < 0 => \E i \in 1..12 : Finds!Shift(k) = -Finds!Squash[i]
                                          /\ i = IF k < -12 THEN 12 ELSE -k
  <2>1. CASE k = 0
    BY <1>2, <2>1
  <2>2. CASE k > 0
    <3>1. PICK i \in 1..12 : i = IF k > 12 THEN 12 ELSE k
      BY <2>2
    <3>2. Finds!Shift(k) = Finds!Squash[i]
      BY <1>2, <2>2, <3>1
    <3> QED BY <1>1, <2>2, <3>1, <3>2
  <2>3. CASE k < 0
    <3>1. PICK i \in 1..12 : i = IF k < -12 THEN 12 ELSE -k
      BY <2>3
    <3>2. Finds!Shift(k) = -Finds!Squash[i]
      BY <1>2, <2>3, <3>1
    <3> QED BY <1>1, <2>3, <3>1, <3>2
  <2> QED BY <2>1, <2>2, <2>3
<1>4. ASSUME n <= m PROVE Finds!Shift(n) <= Finds!Shift(m)
  <2>1. CASE n > 0
    <3>1. PICK i \in 1..12 : Finds!Shift(n) = Finds!Squash[i] /\ i = IF n > 12 THEN 12 ELSE n
      BY <1>3, <2>1
    <3>2. m > 0
      BY <1>4, <2>1
    <3>3. PICK j \in 1..12 : Finds!Shift(m) = Finds!Squash[j] /\ j = IF m > 12 THEN 12 ELSE m
      BY <1>3, <3>2
    <3>4. i < j \/ i = j
      BY <1>4, <3>1, <3>3
    <3> QED BY <1>1, <3>1, <3>3, <3>4
  <2>2. CASE m < 0
    <3>1. PICK i \in 1..12 : Finds!Shift(m) = -Finds!Squash[i] /\ i = IF m < -12 THEN 12 ELSE -m
      BY <1>3, <2>2
    <3>2. n < 0
      BY <1>4, <2>2
    <3>3. PICK j \in 1..12 : Finds!Shift(n) = -Finds!Squash[j] /\ j = IF n < -12 THEN 12 ELSE -n
      BY <1>3, <3>2
    <3>4. i < j \/ i = j
      BY <1>4, <3>1, <3>3
    <3>5. Finds!Squash[i] <= Finds!Squash[j] /\ Finds!Squash[i] \in Int /\ Finds!Squash[j] \in Int
      BY <1>1, <3>4
    <3> QED BY <3>1, <3>3, <3>5
  <2>3. CASE n <= 0 /\ m >= 0
    <3>1. Finds!Shift(n) <= 0
      <4>1. CASE n = 0
        BY <1>2, <4>1
      <4>2. CASE n < 0
        <5>1. PICK i \in 1..12 : Finds!Shift(n) = -Finds!Squash[i]
          BY <1>3, <4>2
        <5> QED BY <1>1, <5>1
      <4> QED BY <2>3, <4>1, <4>2
    <3>2. Finds!Shift(m) >= 0
      <4>1. CASE m = 0
        BY <1>2, <4>1
      <4>2. CASE m > 0
        <5>1. PICK i \in 1..12 : Finds!Shift(m) = Finds!Squash[i]
          BY <1>3, <4>2
        <5> QED BY <1>1, <5>1
      <4> QED BY <2>3, <4>1, <4>2
    <3> QED BY <1>3, <3>1, <3>2
  <2> QED BY <2>1, <2>2, <2>3
<1>5. Finds!Shift(0) = 0
  BY <1>2
<1>6. /\ Finds!Shift(n) \in Int /\ -1894 <= Finds!Shift(n) /\ Finds!Shift(n) <= 1894
      /\ Finds!Shift(m) \in Int
  BY <1>3
<1>7. ASSUME Finds!Shift(n) > Finds!Shift(m) PROVE n > m
  BY <1>4, <1>6, <1>7
<1> QED BY <1>5, <1>6, <1>7

\* The document of a hit, and the shift of it.
LEMMA SignalsMove ==
    ASSUME FindsNamed, NEW signals \in Finds!Signals, NEW c \in Chunk
    PROVE  /\ DocumentOf[c] \in Finds!Document
           /\ Finds!Signal(signals, DocumentOf[c]) \in Int
           /\ Finds!Moved(signals, DocumentOf[c]) \in Int
           /\ -1894 <= Finds!Moved(signals, DocumentOf[c])
           /\ Finds!Moved(signals, DocumentOf[c]) <= 1894
<1>1. PICK d \in Finds!Document : d = DocumentOf[c]
  BY DEF Finds!Document
<1>2. PICK m \in Nat : m = MaxVotes
  BY DEF FindsNamed
<1>3. signals[d][TRUE] \in -m..m /\ signals[d][FALSE] \in -m..m
  BY <1>2 DEF Finds!Signals, Finds!Asked
<1>4. Finds!Signal(signals, d) \in Int
  <2>1. PICK a \in -m..m : a = signals[d][TRUE]
    BY <1>3
  <2>2. PICK b \in -m..m : b = signals[d][FALSE]
    BY <1>3
  <2>3. 4 * a + b \in Int
    OBVIOUS
  <2>4. Finds!Signal(signals, d) = 4 * signals[d][TRUE] + signals[d][FALSE]
    BY DEF Finds!Signal
  <2> QED BY <2>1, <2>2, <2>3, <2>4
<1> QED BY <1>1, <1>4, ShiftRises DEF Finds!Moved

\* While one document has votes, two shifts are less than two places apart.
LEMMA OneDocument ==
    ASSUME FindsNamed, NEW signals \in Finds!Signals, NEW c \in Chunk, NEW d \in Chunk,
           Cardinality({x \in Finds!Document : Finds!Signal(signals, x) # 0}) <= 1
    PROVE  /\ Finds!Moved(signals, DocumentOf[c]) - Finds!Moved(signals, DocumentOf[d]) < 2000
           /\ Finds!Moved(signals, DocumentOf[d]) - Finds!Moved(signals, DocumentOf[c]) < 2000
<1>1. PICK x \in Finds!Document, y \in Finds!Document : x = DocumentOf[c] /\ y = DocumentOf[d]
  BY SignalsMove
<1>2. PICK a \in Int, b \in Int :
        /\ a = Finds!Moved(signals, x) /\ b = Finds!Moved(signals, y)
        /\ -1894 <= a /\ a <= 1894 /\ -1894 <= b /\ b <= 1894
  BY <1>1, SignalsMove
<1>3. PICK T : T = {z \in Finds!Document : Finds!Signal(signals, z) # 0}
  OBVIOUS
<1>4. IsFiniteSet(T) /\ Cardinality(T) <= 1
  <2>1. T \subseteq Finds!Document /\ IsFiniteSet(Finds!Document)
    BY <1>3 DEF FindsNamed
  <2> QED BY <1>3, <2>1, FS_Subset
<1>5. ASSUME x \in T, y \in T, x # y PROVE FALSE
  <2>1. IsFiniteSet({x}) /\ Cardinality({x}) = 1
    BY FS_Singleton
  <2>2. IsFiniteSet({x} \cup {y}) /\ Cardinality({x} \cup {y}) = Cardinality({x}) + 1
    BY <1>5, <2>1, FS_AddElement
  <2>3. {x} \cup {y} \subseteq T
    BY <1>5
  <2>4. Cardinality({x} \cup {y}) <= Cardinality(T) /\ Cardinality(T) \in Nat
    BY <1>4, <2>3, FS_Subset, FS_CardinalityType
  <2> QED BY <1>4, <2>1, <2>2, <2>4
<1>6. x \notin T => a = 0
  <2>1. x \notin T => Finds!Signal(signals, x) = 0
    BY <1>3
  <2>2. Finds!Shift(0) = 0
    BY ShiftRises
  <2> QED BY <1>2, <2>1, <2>2 DEF Finds!Moved
<1>7. y \notin T => b = 0
  <2>1. y \notin T => Finds!Signal(signals, y) = 0
    BY <1>3
  <2>2. Finds!Shift(0) = 0
    BY ShiftRises
  <2> QED BY <1>2, <2>1, <2>2 DEF Finds!Moved
<1>8. a - b < 2000 /\ b - a < 2000
  <2>1. CASE x = y
    BY <1>2, <2>1
  <2>2. CASE x \notin T
    BY <1>2, <1>6, <2>2
  <2>3. CASE y \notin T
    BY <1>2, <1>7, <2>3
  <2> QED BY <1>5, <2>1, <2>2, <2>3
<1> QED BY <1>1, <1>2, <1>8

\* How far a hit moves: at least the hits two places ahead stay ahead, at most the next
\* passes it.
LEMMA AheadNear ==
    ASSUME NEW n \in Nat, NEW i \in 1..n, NEW key,
           \A j \in 1..n : j < i - 1 => Before(key, j, i),
           \A j \in 1..n : j > i + 1 => Before(key, i, j),
           \A j \in 1..n : ~(Before(key, i, j) /\ Before(key, j, i)),
           \A j \in 1..n : key[j] \in Int
    PROVE  /\ Cardinality(Ahead(key, n, i)) \in Nat
           /\ i - 1 <= Cardinality(Ahead(key, n, i)) + 1
           /\ Cardinality(Ahead(key, n, i)) + 1 <= i + 1
<1>1. PICK A : A = Ahead(key, n, i)
  OBVIOUS
<1>2. \A j : j \in A <=> j \in 1..n /\ Before(key, j, i)
  BY <1>1 DEF Ahead, Before
<1>3. 1..(i - 2) \subseteq A
  <2> SUFFICES ASSUME NEW j \in 1..(i - 2) PROVE j \in A
    OBVIOUS
  <2>1. j \in 1..n /\ j < i - 1
    OBVIOUS
  <2> QED BY <1>2, <2>1
<1>4. A \subseteq (1..(i + 1)) \ {i}
  <2> SUFFICES ASSUME NEW j \in A PROVE j \in 1..(i + 1) /\ j # i
    OBVIOUS
  <2>1. j \in 1..n /\ Before(key, j, i) /\ ~Before(key, i, j)
    BY <1>2
  <2>2. ~(j > i + 1)
    BY <2>1
  <2>3. j # i
    BY <2>1
  <2> QED BY <2>1, <2>2, <2>3
<1>5. PICK J : J = 1..(i + 1)
  OBVIOUS
<1>6. IsFiniteSet(J) /\ Cardinality(J) = i + 1 /\ i \in J
  BY <1>5, FS_Interval
<1>7. IsFiniteSet(J \ {i}) /\ Cardinality(J \ {i}) = i
  <2>1. IsFiniteSet(J \ {i}) /\ Cardinality(J \ {i}) = Cardinality(J) - 1
    BY <1>6, FS_RemoveElement
  <2> QED BY <1>6, <2>1
<1>8. IsFiniteSet(A) /\ Cardinality(A) <= i /\ Cardinality(A) \in Nat
  <2>1. A \subseteq J \ {i}
    BY <1>4, <1>5
  <2>2. IsFiniteSet(A) /\ Cardinality(A) <= Cardinality(J \ {i})
    BY <1>7, <2>1, FS_Subset
  <2> QED BY <1>7, <2>2, FS_CardinalityType
<1>9. i - 2 <= Cardinality(A)
  <2>1. PICK L : L = 1..(i - 2)
    OBVIOUS
  <2>2. IsFiniteSet(L) /\ Cardinality(L) = IF 1 > i - 2 THEN 0 ELSE i - 2 - 1 + 1
    BY <2>1, FS_Interval
  <2>3. Cardinality(L) <= Cardinality(A)
    BY <1>3, <1>8, <2>1, FS_Subset
  <2> QED BY <1>8, <2>2, <2>3
<1> QED BY <1>1, <1>8, <1>9

\* Votes only reorder.
LEMMA VotesReorder ==
    ASSUME FindsNamed, NEW signals \in Finds!Signals, NEW s \in Seq(Chunk), IsInjective(s)
    PROVE  /\ Finds!Nudged(s, signals) \in Seq(Chunk)
           /\ Finds!VotesOnlyReorder(s, Finds!Nudged(s, signals), signals)
<1>1. PICK n \in Nat : n = Len(s) /\ DOMAIN s = 1..n
  OBVIOUS
<1>2. PICK mv : mv = [i \in 1..n |-> Finds!Moved(signals, DocumentOf[s[i]])]
  OBVIOUS
<1>3. PICK key : key = [i \in 1..n |-> 1000 * i - Finds!Moved(signals, DocumentOf[s[i]])]
  OBVIOUS
<1>4. PICK t : t = Finds!Nudged(s, signals)
  OBVIOUS
<1>5. t = Sorted(s, key)
  <2>1. t = Finds!Sorted(s, key)
    BY <1>1, <1>3, <1>4 DEF Finds!Nudged
  <2> QED BY <2>1, ListsSame
<1>6. \A i \in 1..n : s[i] \in Chunk
  BY <1>1
<1>7. ASSUME NEW i \in 1..n
      PROVE  /\ mv[i] = Finds!Moved(signals, DocumentOf[s[i]]) /\ mv[i] \in Int
             /\ key[i] = 1000 * i - mv[i] /\ key[i] \in Int
  <2>1. Finds!Moved(signals, DocumentOf[s[i]]) \in Int
    BY <1>6, SignalsMove
  <2> QED BY <1>2, <1>3, <2>1
<1>8. key \in [1..Len(s) -> Int]
  BY <1>1, <1>3, <1>7
<1>9. t \in Seq(Chunk) /\ IsSorted(t, s, key)
  BY <1>5, <1>8, SortedOnce
<1>10. /\ Len(t) = n /\ DOMAIN t = 1..n /\ IsInjective(t)
       /\ \A p \in 1..n : \E i \in 1..n : t[p] = s[i]
       /\ \A i \in 1..n : \E p \in 1..n : t[p] = s[i]
       /\ InOrder(t, s, key, n)
       /\ \A p, i \in 1..n : t[p] = s[i] => p = Cardinality(Ahead(key, n, i)) + 1
  BY <1>1, <1>9 DEF IsSorted
<1>11. Finds!ToSet(t) = Finds!ToSet(s)
  <2>1. \A x : x \in Finds!ToSet(t) <=> \E p \in 1..n : x = t[p]
    BY <1>10 DEF Finds!ToSet
  <2>2. \A x : x \in Finds!ToSet(s) <=> \E i \in 1..n : x = s[i]
    BY <1>1 DEF Finds!ToSet
  <2>3. \A x : x \in Finds!ToSet(t) => x \in Finds!ToSet(s)
    <3>1. \A p \in 1..n : \E i \in 1..n : t[p] = s[i]
      BY <1>10
    <3> QED BY <2>1, <2>2, <3>1, Zenon
  <2>4. \A x : x \in Finds!ToSet(s) => x \in Finds!ToSet(t)
    <3>1. \A i \in 1..n : \E p \in 1..n : t[p] = s[i]
      BY <1>10
    <3> QED BY <2>1, <2>2, <3>1, Zenon
  <2> QED BY <2>3, <2>4
<1>12. ASSUME NEW c \in Finds!ToSet(t)
       PROVE  \E p \in 1..n, i \in 1..n :
                 t[p] = c /\ s[i] = c /\ Finds!Place(c, t) = p /\ Finds!Place(c, s) = i
  <2>1. PICK p \in 1..n : t[p] = c
    BY <1>10 DEF Finds!ToSet
  <2>2. PICK i \in 1..n : t[p] = s[i]
    BY <1>10
  <2>3. p \in DOMAIN t /\ i \in DOMAIN s
    BY <1>1, <1>10
  <2>4. Finds!Place(t[p], t) = p /\ Finds!Place(s[i], s) = i
    BY <1>10, <2>3, PlaceFound
  <2> QED BY <2>1, <2>2, <2>4
<1>13. ASSUME Cardinality({d \in Finds!Document : Finds!Signal(signals, d) # 0}) <= 1,
              NEW c \in Finds!ToSet(t)
       PROVE  Finds!Place(c, t) - Finds!Place(c, s) \in -1..1
  <2>1. PICK p \in 1..n, i \in 1..n :
          t[p] = c /\ s[i] = c /\ Finds!Place(c, t) = p /\ Finds!Place(c, s) = i
    BY <1>12
  <2>2. ASSUME NEW j \in 1..n PROVE mv[i] - mv[j] < 2000 /\ mv[j] - mv[i] < 2000
    <3>1. s[i] \in Chunk /\ s[j] \in Chunk
      BY <1>6
    <3>2. /\ Finds!Moved(signals, DocumentOf[s[i]]) - Finds!Moved(signals, DocumentOf[s[j]]) < 2000
          /\ Finds!Moved(signals, DocumentOf[s[j]]) - Finds!Moved(signals, DocumentOf[s[i]]) < 2000
      BY <1>13, <3>1, OneDocument
    <3> QED BY <1>7, <3>2
  <2>3. ASSUME NEW j \in 1..n, j < i - 1 PROVE Before(key, j, i)
    <3>4. mv[i] \in Int /\ mv[j] \in Int
      BY <1>7
    <3>5. mv[i] - mv[j] < 2000
      BY <2>2
    <3>1. PICK a \in Int, b \in Int : a = mv[i] /\ b = mv[j] /\ a - b < 2000
      BY <3>4, <3>5
    <3>2. key[i] = 1000 * i - a /\ key[j] = 1000 * j - b
      BY <1>7, <3>1
    <3>3. key[j] < key[i]
      BY <2>3, <3>1, <3>2
    <3> QED BY <3>3 DEF Before
  <2>4. ASSUME NEW j \in 1..n, j > i + 1 PROVE Before(key, i, j)
    <3>4. mv[i] \in Int /\ mv[j] \in Int
      BY <1>7
    <3>5. mv[j] - mv[i] < 2000
      BY <2>2
    <3>1. PICK a \in Int, b \in Int : a = mv[i] /\ b = mv[j] /\ b - a < 2000
      BY <3>4, <3>5
    <3>2. key[i] = 1000 * i - a /\ key[j] = 1000 * j - b
      BY <1>7, <3>1
    <3>3. key[i] < key[j]
      BY <2>4, <3>1, <3>2
    <3> QED BY <3>3 DEF Before
  <2>5. \A j \in 1..n : ~(Before(key, i, j) /\ Before(key, j, i))
    <3> SUFFICES ASSUME NEW j \in 1..n PROVE ~(Before(key, i, j) /\ Before(key, j, i))
      OBVIOUS
    <3>1. key[i] \in Int /\ key[j] \in Int
      BY <1>7
    <3> QED BY <3>1 DEF Before
  <2>6. \A j \in 1..n : key[j] \in Int
    BY <1>7
  <2>7. PICK r : r = Cardinality(Ahead(key, n, i))
    OBVIOUS
  <2>8. r \in Nat /\ i - 1 <= r + 1 /\ r + 1 <= i + 1
    BY <2>3, <2>4, <2>5, <2>6, <2>7, AheadNear
  <2>9. t[p] = s[i]
    BY <2>1
  <2>10. p = r + 1
    BY <1>10, <2>7, <2>9
  <2>11. p - i \in -1..1
    BY <2>8, <2>10
  <2> QED BY <2>1, <2>11
<1>14. ASSUME NEW c \in Finds!ToSet(t), NEW d \in Finds!ToSet(t),
              Finds!Precedes(c, d, s), Finds!Precedes(d, c, t)
       PROVE  Finds!Signal(signals, DocumentOf[d]) > Finds!Signal(signals, DocumentOf[c])
  <2>1. PICK p \in 1..n, i \in 1..n :
          t[p] = c /\ s[i] = c /\ Finds!Place(c, t) = p /\ Finds!Place(c, s) = i
    BY <1>12
  <2>2. PICK q \in 1..n, j \in 1..n :
          t[q] = d /\ s[j] = d /\ Finds!Place(d, t) = q /\ Finds!Place(d, s) = j
    BY <1>12
  <2>3. i < j /\ q < p
    BY <1>14, <2>1, <2>2 DEF Finds!Precedes
  <2>4. t[q] = s[j] /\ t[p] = s[i]
    BY <2>1, <2>2
  <2>5. Before(key, j, i)
    <3>1. \A x, y, k, l \in 1..n : t[x] = s[k] /\ t[y] = s[l] => (x < y <=> Before(key, k, l))
      BY <1>10 DEF InOrder
    <3> QED BY <2>3, <2>4, <3>1
  <2>14. mv[i] \in Int /\ mv[j] \in Int
    BY <1>7
  <2>6. PICK a \in Int, b \in Int : a = mv[i] /\ b = mv[j]
    BY <2>14
  <2>7. key[i] = 1000 * i - a /\ key[j] = 1000 * j - b
    BY <1>7, <2>6
  <2>8. b > a
    <3>1. key[j] < key[i] \/ (key[j] = key[i] /\ j < i)
      BY <2>5 DEF Before
    <3>2. 1000 * j - b < 1000 * i - a
      BY <2>3, <2>7, <3>1
    <3> QED BY <2>3, <3>2
  <2>9. c \in Chunk /\ d \in Chunk
    BY <1>6, <2>1, <2>2
  <2>10. PICK x \in Int, y \in Int :
           /\ x = Finds!Signal(signals, DocumentOf[c])
           /\ y = Finds!Signal(signals, DocumentOf[d])
    BY <2>9, SignalsMove
  <2>11. a = Finds!Shift(x) /\ b = Finds!Shift(y)
    <3>1. a = Finds!Moved(signals, DocumentOf[s[i]]) /\ b = Finds!Moved(signals, DocumentOf[s[j]])
      BY <1>7, <2>6
    <3>2. a = Finds!Moved(signals, DocumentOf[c]) /\ b = Finds!Moved(signals, DocumentOf[d])
      BY <2>1, <2>2, <3>1
    <3> QED BY <2>10, <3>2 DEF Finds!Moved
  <2>12. Finds!Shift(y) > Finds!Shift(x)
    BY <2>8, <2>11
  <2>13. y > x
    BY <2>12, ShiftRises
  <2> QED BY <2>10, <2>13
<1>15. Finds!VotesOnlyReorder(s, t, signals)
  <2>1. Finds!ToSet(t) = Finds!ToSet(s) /\ Len(t) = Len(s)
    BY <1>1, <1>10, <1>11
  <2>2. Finds!Cardinality({d \in Finds!Document : Finds!Signal(signals, d) # 0}) <= 1 =>
          \A c \in Finds!ToSet(t) : Finds!Place(c, t) - Finds!Place(c, s) \in -1..1
    BY <1>13, ListsSame
  <2> QED BY <1>14, <2>1, <2>2 DEF Finds!VotesOnlyReorder
<1> QED BY <1>4, <1>9, <1>15
-------------------------------------------------------------------------------
(* ---- Retrieval: the invariant ------------------------------------------- *)

\* What a search found is in a list without repeats.
FindsInv ==
    /\ FindsNamed
    /\ Finds!TypeOK
    /\ Finds!OrderFollowsEvidence
    /\ search # None => IsInjective(search.found)

LEMMA FindsInit == ASSUME FindsNamed, Finds!Init PROVE FindsInv
BY DEF Finds!Init, FindsInv, Finds!TypeOK, Finds!OrderFollowsEvidence

\* A search that has been ranked says no more about its order.
LEMMA RankedKeeps ==
    ASSUME FindsInv, search # None, NEW found \in Seq(Chunk), IsInjective(found),
           Finds!Ranked(found)
    PROVE  FindsInv'
<1>1. search \in [k : Limits, vector : Seq(Chunk), keyword : Seq(Chunk), found : Seq(Chunk),
                  stage : {"fused", "ranked"}]
  BY DEF FindsInv, Finds!TypeOK
<1>2. PICK e : e = <<>> /\ e \in Seq(Chunk)
  <2>1. <<>> \in Seq(Chunk)
    OBVIOUS
  <2> QED BY <2>1
<1>3. search' = [search EXCEPT !.vector = e, !.keyword = e, !.found = found,
                               !.stage = "ranked"]
  BY <1>2 DEF Finds!Ranked
<1>4. /\ search' \in [k : Limits, vector : Seq(Chunk), keyword : Seq(Chunk),
                      found : Seq(Chunk), stage : {"fused", "ranked"}]
      /\ search'.found = found /\ search'.stage = "ranked"
  BY <1>1, <1>2, <1>3
<1>5. answer' = answer
  BY DEF Finds!Ranked
<1>6. FindsNamed
  BY DEF FindsInv
<1>7. search' # None
  BY <1>4, <1>6 DEF FindsNamed
<1>8. Finds!TypeOK'
  BY <1>4, <1>5 DEF FindsInv, Finds!TypeOK
<1>9. search'.stage # "fused"
  BY <1>4
<1>10. Finds!OrderFollowsEvidence'
  BY <1>5, <1>9 DEF FindsInv, Finds!OrderFollowsEvidence
<1>11. IsInjective(search'.found)
  BY <1>4
<1> QED BY <1>6, <1>8, <1>10, <1>11 DEF FindsInv, FindsNamed

LEMMA SearchKeeps ==
    ASSUME FindsInv, NEW k \in Limits, NEW v \in Finds!VectorHits, NEW w \in Finds!KeywordHits,
           Finds!Search(k, v, w)
    PROVE  FindsInv'
<1>1. FindsNamed
  BY DEF FindsInv
<1>2. Hits(v) /\ Hits(w)
  BY <1>1, ListsAreHits DEF Finds!VectorHits, Finds!KeywordHits
<1>3. v \in Seq(Chunk) /\ w \in Seq(Chunk)
  BY <1>2 DEF Hits
<1>4. PICK m \in Nat, pool \in Nat : m = k /\ pool = Pool[k]
  BY <1>1 DEF FindsNamed
<1>5. PICK found : found = Finds!Clip(Finds!Fuse(v, w), pool)
  OBVIOUS
<1>6. found \in Seq(Chunk) /\ IsInjective(found)
  <2>1. Finds!Fuse(v, w) \in Seq(Chunk) /\ IsInjective(Finds!Fuse(v, w))
    BY <1>2, FusedSorted
  <2>2. Finds!Clip(Finds!Fuse(v, w), pool) \in Seq(Chunk)
    BY <2>1, ClipBegins
  <2>3. IsInjective(Finds!Clip(Finds!Fuse(v, w), pool))
    BY <2>1, ClipOnce
  <2> QED BY <1>5, <2>2, <2>3
<1>7. search' = [k |-> k, vector |-> v, keyword |-> w, found |-> found, stage |-> "fused"]
  BY <1>4, <1>5 DEF Finds!Search
<1>8. /\ search' \in [k : Limits, vector : Seq(Chunk), keyword : Seq(Chunk),
                      found : Seq(Chunk), stage : {"fused", "ranked"}]
      /\ search'.k = k /\ search'.vector = v /\ search'.keyword = w /\ search'.found = found
  BY <1>3, <1>6, <1>7
<1>9. answer' = None
  BY DEF Finds!Search
<1>10. Finds!TypeOK'
  BY <1>8, <1>9 DEF Finds!TypeOK
<1>11. Finds!AgreementWins(v, w, found, Pool[k])
  BY <1>2, <1>4, <1>5, FusionAgrees
<1>12. Finds!BestAreLeft(found, k)
  BY <1>1, <1>4, <1>6, BestLeft
<1>13. Finds!OrderFollowsEvidence'
  BY <1>8, <1>9, <1>11, <1>12 DEF Finds!OrderFollowsEvidence
<1> QED BY <1>1, <1>6, <1>8, <1>10, <1>13 DEF FindsInv, FindsNamed

LEMMA NoRerankKeeps == ASSUME FindsInv, Finds!NoRerank PROVE FindsInv'
<1>1. search # None /\ Finds!Ranked(Finds!Clip(search.found, search.k))
  BY DEF Finds!NoRerank
<1>2. search.k \in Limits /\ search.found \in Seq(Chunk) /\ IsInjective(search.found)
  BY <1>1 DEF FindsInv, Finds!TypeOK
<1>3. search.k \in Nat
  BY <1>2 DEF FindsInv, FindsNamed
<1>4. /\ Finds!Clip(search.found, search.k) \in Seq(Chunk)
      /\ IsInjective(Finds!Clip(search.found, search.k))
  BY <1>2, <1>3, ClipBegins, ClipOnce
<1> QED BY <1>1, <1>4, RankedKeeps

LEMMA RerankKeeps ==
    ASSUME FindsInv, NEW scores \in Finds!Orders(search.found), Finds!Rerank(scores)
    PROVE  FindsInv'
<1>1. search # None /\ Finds!Ranked(Finds!Clip(Finds!Reranked(search.found, scores), search.k))
  BY DEF Finds!Rerank
<1>2. search.k \in Limits /\ search.found \in Seq(Chunk) /\ IsInjective(search.found)
  BY <1>1 DEF FindsInv, Finds!TypeOK
<1>3. search.k \in Nat
  BY <1>2 DEF FindsInv, FindsNamed
<1>4. FindsNamed
  BY DEF FindsInv
<1>5. /\ Finds!Clip(Finds!Reranked(search.found, scores), search.k) \in Seq(Chunk)
      /\ IsInjective(Finds!Clip(Finds!Reranked(search.found, scores), search.k))
  BY <1>2, <1>3, <1>4, BestLeft
<1> QED BY <1>1, <1>5, RankedKeeps

LEMMA AnswerKeeps ==
    ASSUME FindsInv, NEW signals \in Finds!Signals, Finds!Answer(signals)
    PROVE  FindsInv'
<1>1. FindsNamed
  BY DEF FindsInv
<1>2. search # None
  BY DEF Finds!Answer
<1>3. PICK found \in Seq(Chunk) : found = search.found /\ IsInjective(found)
  BY <1>2 DEF FindsInv, Finds!TypeOK
<1>4. PICK hits : hits = Finds!Nudged(found, signals)
  OBVIOUS
<1>5. hits \in Seq(Chunk) /\ Finds!VotesOnlyReorder(found, hits, signals)
  BY <1>1, <1>3, <1>4, VotesReorder
<1>6. answer' = [found |-> found, hits |-> hits, signals |-> signals] /\ search' = None
  BY <1>3, <1>4 DEF Finds!Answer
<1>7. /\ answer' \in [found : Seq(Chunk), hits : Seq(Chunk), signals : Finds!Signals]
      /\ answer'.found = found /\ answer'.hits = hits /\ answer'.signals = signals
  BY <1>5, <1>6
<1>8. Finds!TypeOK'
  BY <1>6, <1>7 DEF Finds!TypeOK
<1>9. Finds!OrderFollowsEvidence'
  BY <1>5, <1>6, <1>7 DEF Finds!OrderFollowsEvidence
<1> QED BY <1>1, <1>6, <1>8, <1>9 DEF FindsInv, FindsNamed

LEMMA FindsStep == ASSUME FindsInv, [Finds!Next]_Finds!vars PROVE FindsInv'
<1>1. CASE UNCHANGED Finds!vars
  BY <1>1 DEF Finds!vars, FindsInv, FindsNamed, Finds!TypeOK, Finds!OrderFollowsEvidence
<1>2. ASSUME NEW k \in Limits, NEW v \in Finds!VectorHits, NEW w \in Finds!KeywordHits,
             Finds!Search(k, v, w)
      PROVE  FindsInv'
  BY <1>2, SearchKeeps
<1>3. CASE Finds!NoRerank
  BY <1>3, NoRerankKeeps
<1>4. CASE Finds!RerankFails
  BY <1>4 DEF Finds!RerankFails, FindsInv, FindsNamed, Finds!TypeOK, Finds!OrderFollowsEvidence
<1>5. CASE Finds!Return
  BY <1>5 DEF Finds!Return, FindsInv, FindsNamed, Finds!TypeOK, Finds!OrderFollowsEvidence
<1>6. ASSUME NEW scores \in Finds!Orders(search.found), Finds!Rerank(scores) PROVE FindsInv'
  BY <1>6, RerankKeeps
<1>7. ASSUME NEW signals \in Finds!Signals, Finds!Answer(signals) PROVE FindsInv'
  BY <1>7, AnswerKeeps
<1> QED BY <1>1, <1>2, <1>3, <1>4, <1>5, <1>6, <1>7 DEF Finds!Next

LEMMA FindsProves == ASSUME FindsInv PROVE Finds!OrderFollowsEvidence /\ Finds!TypeOK
BY DEF FindsInv

\* Whatever the retrievers find, the reranker scores and readers vote, the order a reader
\* sees follows the evidence (retrievers/hybrid.py:64-95, rerankers/tei.py:60-84,
\* feedback.py:79-108).
THEOREM EvidenceOrders ==
    ASSUME FindsNamed
    PROVE  Finds!Spec => [](Finds!OrderFollowsEvidence /\ Finds!TypeOK)
<1>1. Finds!Init => FindsInv
  BY FindsInit
<1>2. FindsInv /\ [Finds!Next]_Finds!vars => FindsInv'
  BY FindsStep
<1>3. FindsInv => Finds!OrderFollowsEvidence /\ Finds!TypeOK
  BY FindsProves
<1> QED BY <1>1, <1>2, <1>3, PTL DEF Finds!Spec
===============================================================================
