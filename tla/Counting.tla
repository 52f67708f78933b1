------------------------------ MODULE Counting ------------------------------
(***************************************************************************)
(* Lemmas about finite sets that the proofs of several components need:    *)
(* induction over them, their order by a key, and the rank of an element   *)
(* in that order.                                                          *)
(*                                                                         *)
(* What holds of every set in a collection is said by membership in it, so *)
(* that induction needs no predicate as a parameter: the collection of     *)
(* those for which it fails would have a least member.                     *)
(***************************************************************************)
EXTENDS Integers, FunctionTheorems, FiniteSetTheorems, TLAPS

-----------------------------------------------------------------------------
(* Induction.                                                              *)

LEMMA LessOnNat ==
  \E R : IsWellFoundedOn(R, Nat) /\ \A x, y \in Nat : <<y, x>> \in R <=> y < x
<1>1. \A x, y \in Nat : <<y, x>> \in OpToRel(<, Nat) <=> y < x
  BY DEF OpToRel
<1> QED
  BY <1>1, NatLessThanWellFounded, Zenon

LEMMA LeastNat ==
  ASSUME NEW T, T \subseteq Nat, T # {}
  PROVE  \E x \in T : \A y \in T : x <= y
<1>1. PICK R : IsWellFoundedOn(R, Nat) /\ \A x, y \in Nat : <<y, x>> \in R <=> y < x
  BY LessOnNat
<1>2. PICK x \in T : \A y \in T : ~ (<<y, x>> \in R)
  BY <1>1, WFMin
<1>3. \A y \in T : y \in Nat /\ ~(y < x)
  BY <1>1, <1>2
<1> QED
  BY <1>2, <1>3

\* A collection of subsets of a finite set that has the empty set, and with
\* each set those that have one element more, has all of them.
LEMMA SetInduction ==
  ASSUME NEW S, IsFiniteSet(S), NEW P, {} \in P,
         \A T \in SUBSET S : \A x \in S \ T : T \in P => T \cup {x} \in P
  PROVE  S \in P
<1> SUFFICES ASSUME S \notin P PROVE FALSE
  OBVIOUS
<1> DEFINE Sizes == {n \in Nat : \E T \in SUBSET S : T \notin P /\ Cardinality(T) = n}
<1>1. \A T \in SUBSET S : IsFiniteSet(T) /\ Cardinality(T) \in Nat
  BY FS_Subset, FS_CardinalityType
<1>2. Sizes \subseteq Nat /\ Sizes # {}
  BY <1>1
<1>3. PICK n \in Sizes : \A k \in Sizes : n <= k
  BY <1>2, LeastNat
<1>4. PICK T \in SUBSET S : T \notin P /\ Cardinality(T) = n
  BY <1>3
<1>5. PICK x \in T : TRUE
  BY <1>4
<1>6. T \ {x} \in SUBSET S /\ x \in S \ (T \ {x}) /\ (T \ {x}) \cup {x} = T
  BY <1>5
<1>7. T \ {x} \notin P
  BY <1>4, <1>6
<1>8. Cardinality(T \ {x}) = n - 1
  BY <1>1, <1>4, <1>5, FS_RemoveElement
<1>9. n - 1 \in Sizes
  BY <1>1, <1>6, <1>7, <1>8
<1> QED
  BY <1>2, <1>3, <1>9

-----------------------------------------------------------------------------
(* Order by a key.                                                         *)

\* Elements of a finite set have a smallest key among them.
LEMMA SmallestKey ==
  ASSUME NEW S, IsFiniteSet(S), S # {}, NEW key, \A x \in S : key[x] \in Int
  PROVE  \E x \in S : \A y \in S : key[x] <= key[y]
<1> DEFINE Has(T) == T = {} \/ \E x \in T : \A y \in T : key[x] <= key[y]
           P == {T \in SUBSET S : Has(T)}
<1>1. {} \in P
  OBVIOUS
<1>2. ASSUME NEW T \in SUBSET S, NEW z \in S \ T, T \in P PROVE T \cup {z} \in P
  <2>1. CASE T = {}
    BY <2>1
  <2>2. CASE T # {}
    <3>1. PICK x \in T : \A y \in T : key[x] <= key[y]
      BY <1>2, <2>2
    <3>2. CASE key[x] <= key[z]
      BY <3>1, <3>2
    <3>3. CASE ~(key[x] <= key[z])
      <4>1. \A y \in T \cup {z} : key[z] <= key[y]
        BY <3>1, <3>3
      <4> QED
        BY <4>1
    <3> QED
      BY <3>2, <3>3
  <2> QED
    BY <2>1, <2>2
<1>3. S \in P
  <2> HIDE DEF P
  <2> QED
    BY <1>1, <1>2, SetInduction
<1> QED
  BY <1>3

\* The arrangements of a set in which no key is larger than one before it.
Descending(S, key) ==
  {s \in [1 .. Cardinality(S) -> S] :
     /\ \A i, j \in 1 .. Cardinality(S) : i # j => s[i] # s[j]
     /\ \A i, j \in 1 .. Cardinality(S) : i < j => key[s[i]] >= key[s[j]]}

\* There always is one: the one of the set without an element of the smallest
\* key, with that element behind.
LEMMA CanBeSorted ==
  ASSUME NEW S, IsFiniteSet(S), NEW key, \A x \in S : key[x] \in Int
  PROVE  Descending(S, key) # {}
<1> DEFINE Sizes == {n \in Nat : \E T \in SUBSET S : Descending(T, key) = {} /\ Cardinality(T) = n}
<1>1. \A T \in SUBSET S : IsFiniteSet(T) /\ Cardinality(T) \in Nat
  BY FS_Subset, FS_CardinalityType
<1> SUFFICES ASSUME Descending(S, key) = {} PROVE FALSE
  OBVIOUS
<1>2. Sizes \subseteq Nat /\ Sizes # {}
  BY <1>1
<1>3. PICK n \in Sizes : \A k \in Sizes : n <= k
  BY <1>2, LeastNat
<1>4. PICK T \in SUBSET S : Descending(T, key) = {} /\ Cardinality(T) = n
  BY <1>3
<1>5. T # {}
  <2> SUFFICES ASSUME T = {} PROVE FALSE
    OBVIOUS
  <2>1. Cardinality(T) = 0
    BY FS_EmptySet
  <2>2. [i \in 1 .. 0 |-> i] \in Descending(T, key)
    BY <2>1 DEF Descending
  <2> QED
    BY <1>4, <2>2
<1>6. PICK x \in T : \A y \in T : key[x] <= key[y]
  BY <1>1, <1>4, <1>5, SmallestKey
<1> PICK U : U = T \ {x}
  OBVIOUS
<1>7. U \in SUBSET S /\ Cardinality(U) = n - 1 /\ n - 1 \in Nat
  <2>1. U \in SUBSET S /\ IsFiniteSet(T)
    BY <1>1, <1>4
  <2>2. Cardinality(U) = n - 1
    BY <2>1, <1>4, <1>6, FS_RemoveElement
  <2>3. Cardinality(U) \in Nat
    BY <2>1, <1>1
  <2> QED
    BY <2>1, <2>2, <2>3
<1>8. PICK s : s \in Descending(U, key)
  BY <1>1, <1>3, <1>7
<1> DEFINE t == [i \in 1 .. n |-> IF i = n THEN x ELSE s[i]]
<1>9. /\ s \in [1 .. n - 1 -> U]
      /\ \A i, j \in 1 .. n - 1 : i # j => s[i] # s[j]
      /\ \A i, j \in 1 .. n - 1 : i < j => key[s[i]] >= key[s[j]]
  <2> PICK m : m = Cardinality(U)
    OBVIOUS
  <2>1. /\ s \in [1 .. m -> U]
        /\ \A i, j \in 1 .. m : i # j => s[i] # s[j]
        /\ \A i, j \in 1 .. m : i < j => key[s[i]] >= key[s[j]]
    BY <1>8 DEF Descending
  <2>2. m = n - 1
    BY <1>7
  <2> QED
    BY <2>1, <2>2
<1>10. /\ \A i \in 1 .. n : i = n \/ i \in 1 .. n - 1
       /\ \A i \in 1 .. n - 1 : i \in 1 .. n /\ i # n
  BY <1>7
<1>11. /\ t \in [1 .. n -> T]
       /\ \A i, j \in 1 .. n : i # j => t[i] # t[j]
       /\ \A i, j \in 1 .. n : i < j => key[t[i]] >= key[t[j]]
  <2>1. t[n] = x /\ \A i \in 1 .. n - 1 : t[i] = s[i] /\ s[i] \in U
    BY <1>7, <1>9, <1>10
  <2>2. \A i \in 1 .. n : t[i] \in T
    BY <2>1, <1>10
  <2>3. t \in [1 .. n -> T]
    BY <2>2
  <2>4. \A i, j \in 1 .. n : i # j => t[i] # t[j]
    BY <2>1, <1>9, <1>10
  <2>5. ASSUME NEW i \in 1 .. n, NEW j \in 1 .. n, i < j PROVE key[t[i]] >= key[t[j]]
    <3>1. i \in 1 .. n - 1
      BY <2>5, <1>7
    <3>2. CASE j = n
      BY <3>1, <3>2, <2>1, <1>6
    <3>3. CASE j \in 1 .. n - 1
      BY <3>1, <3>3, <2>1, <2>5, <1>9
    <3> QED
      BY <3>2, <3>3, <1>10
  <2> QED
    BY <2>3, <2>4, <2>5
<1>12. t \in Descending(T, key)
  <2> HIDE DEF t
  <2> QED
    BY <1>11, <1>4 DEF Descending
<1> QED
  BY <1>4, <1>12

\* Every element has its place in it.
LEMMA PlaceInOrder ==
  ASSUME NEW S, IsFiniteSet(S), NEW key, NEW s \in Descending(S, key)
  PROVE  \A x \in S : \E j \in 1 .. Cardinality(S) : s[j] = x
<1> PICK n : n = Cardinality(S)
  OBVIOUS
<1>1. n \in Nat /\ s \in [1 .. n -> S] /\ \A j, k \in 1 .. n : j # k => s[j] # s[k]
  BY FS_CardinalityType DEF Descending
<1>2. s \in Injection(1 .. n, S)
  BY <1>1, Fun_IsInj
<1>3. s \in Surjection(1 .. n, S)
  BY <1>1, <1>2, FS_Injection, FS_Interval
<1> QED
  BY <1>3 DEF Surjection

\* The elements with a key above v, and those with one that is not below.
Above(S, key, v) == {x \in S : key[x] > v}
AtLeast(S, key, v) == {x \in S : key[x] >= v}

\* The i-th of them in such an order: fewer than i have a larger key, and at
\* least i, itself among them, do not have a smaller one.
LEMMA Ranks ==
  ASSUME NEW S, IsFiniteSet(S), NEW key, \A x \in S : key[x] \in Int,
         NEW s \in Descending(S, key), NEW i \in 1 .. Cardinality(S)
  PROVE  /\ Cardinality(Above(S, key, key[s[i]])) < i
         /\ Cardinality(AtLeast(S, key, key[s[i]])) >= i
<1> PICK n : n = Cardinality(S)
  OBVIOUS
<1> DEFINE More == {x \in S : key[x] > key[s[i]]}
           Least == {x \in S : key[x] >= key[s[i]]}
<1>0. More = Above(S, key, key[s[i]]) /\ Least = AtLeast(S, key, key[s[i]])
  BY DEF Above, AtLeast
<1>1. /\ n \in Nat /\ i \in 1 .. n /\ s \in [1 .. n -> S]
      /\ \A j, k \in 1 .. n : j # k => s[j] # s[k]
      /\ \A j, k \in 1 .. n : j < k => key[s[j]] >= key[s[k]]
  BY FS_CardinalityType DEF Descending
<1>2. IsFiniteSet(More) /\ IsFiniteSet(Least)
  BY FS_Subset
<1>4. \A x \in S : \E j \in 1 .. n : s[j] = x
  BY PlaceInOrder
<1>5. Cardinality(More) < i
  <2> DEFINE f == [x \in More |-> CHOOSE j \in 1 .. n : s[j] = x]
  <2>1. \A x \in More : f[x] \in 1 .. n /\ s[f[x]] = x
    BY <1>4
  <2>2. \A x \in More : f[x] \in 1 .. i - 1
    <3> SUFFICES ASSUME NEW x \in More PROVE f[x] \in 1 .. i - 1
      OBVIOUS
    <3> PICK j : j = f[x]
      OBVIOUS
    <3>1. j \in 1 .. n /\ s[j] = x /\ key[s[j]] > key[s[i]] /\ key[s[i]] \in Int /\ key[s[j]] \in Int
      BY <2>1, <1>1
    <3>2. j # i /\ ~(i < j)
      BY <3>1, <1>1
    <3> QED
      BY <3>1, <3>2, <1>1
  <2>3. f \in [More -> 1 .. i - 1]
    BY <2>2
  <2>4. \A x, y \in More : f[x] = f[y] => x = y
    BY <2>1
  <2> HIDE DEF f, More
  <2>5. f \in Injection(More, 1 .. i - 1)
    BY <2>3, <2>4, Fun_IsInj
  <2>6. IsFiniteSet(1 .. i - 1) /\ Cardinality(1 .. i - 1) = i - 1
    <3> PICK m : m = i - 1
      OBVIOUS
    <3>1. m \in Nat /\ 1 \in Int
      BY <1>1
    <3>2. IsFiniteSet(1 .. m) /\ Cardinality(1 .. m) = m
      BY <3>1, FS_Interval
    <3> QED
      BY <3>2
  <2>7. Cardinality(More) <= i - 1 /\ Cardinality(More) \in Nat
    BY <2>5, <2>6, <1>2, FS_Injection, FS_CardinalityType
  <2> QED
    BY <2>7, <1>1
<1>6. Cardinality(Least) >= i
  <2> DEFINE g == [j \in 1 .. i |-> s[j]]
  <2>1. \A j \in 1 .. i : j \in 1 .. n /\ g[j] = s[j]
    BY <1>1
  <2>2. \A j \in 1 .. i : s[j] \in S /\ key[s[j]] >= key[s[i]]
    BY <2>1, <1>1
  <2>3. g \in [1 .. i -> Least]
    BY <2>2
  <2>4. \A j, k \in 1 .. i : g[j] = g[k] => j = k
    BY <2>1, <1>1
  <2> HIDE DEF g, Least
  <2>5. g \in Injection(1 .. i, Least)
    BY <2>3, <2>4, Fun_IsInj
  <2>6. Cardinality(1 .. i) = i
    BY <1>1, FS_Interval
  <2>7. Cardinality(1 .. i) <= Cardinality(Least)
    BY <2>5, <1>2, FS_Injection
  <2> QED
    BY <2>6, <2>7, <1>1
<1> QED
  BY <1>0, <1>5, <1>6

-----------------------------------------------------------------------------
(* Sums.  SumFunctionOnSet is a fold, which picks the elements in some      *)
(* order; what follows says that it is a function and in which order does   *)
(* not matter.                                                              *)

Picked(S) == CHOOSE x \in S : TRUE

\* g has the sums of f over the subsets of S.
Sums(f, S, g) ==
  g = [T \in SUBSET S |-> IF T = {} THEN 0 ELSE f[Picked(T)] + g[T \ {Picked(T)}]]

LEMMA SumByDefinition ==
  ASSUME NEW f, NEW S
  PROVE  SumFunctionOnSet(f, S) = (CHOOSE g : Sums(f, S, g))[S]
  BY Zenon DEF SumFunctionOnSet, FoldFunctionOnSet, MapThenFoldSet, Sums, Picked

LEMMA FoldIsSum == \A f : FoldFunction(+, 0, f) = SumFunctionOnSet(f, DOMAIN f)
  BY Zenon DEF SumFunctionOnSet, FoldFunction

\* What the sums are, for the subsets of at most n elements.
SumsTo(f, S, n, g) ==
  /\ g \in [SUBSET S -> Int]
  /\ \A T \in SUBSET S : Cardinality(T) <= n =>
       g[T] = IF T = {} THEN 0 ELSE f[Picked(T)] + g[T \ {Picked(T)}]

LEMMA SizesOfSubsets ==
  ASSUME NEW S, IsFiniteSet(S)
  PROVE  \A T \in SUBSET S :
           /\ IsFiniteSet(T) /\ Cardinality(T) \in Nat /\ Cardinality(T) <= Cardinality(S)
           /\ \A x \in T : /\ T \ {x} \in SUBSET S
                           /\ Cardinality(T \ {x}) = Cardinality(T) - 1
<1> SUFFICES ASSUME NEW T \in SUBSET S
             PROVE  /\ IsFiniteSet(T) /\ Cardinality(T) \in Nat /\ Cardinality(T) <= Cardinality(S)
                    /\ \A x \in T : /\ T \ {x} \in SUBSET S
                                    /\ Cardinality(T \ {x}) = Cardinality(T) - 1
  OBVIOUS
<1>1. IsFiniteSet(T) /\ Cardinality(T) <= Cardinality(S)
  BY FS_Subset
<1> QED
  BY <1>1, FS_CardinalityType, FS_RemoveElement

LEMMA SumsToExist ==
  ASSUME NEW S, IsFiniteSet(S), NEW f, \A x \in S : f[x] \in Int
  PROVE  \A n \in Nat : \E g : SumsTo(f, S, n, g)
<1> DEFINE Bad == {n \in Nat : \A g : ~SumsTo(f, S, n, g)}
<1> SUFFICES ASSUME Bad # {} PROVE FALSE
  OBVIOUS
<1>1. PICK n \in Bad : \A k \in Bad : n <= k
  BY LeastNat
<1>2. CASE n = 0
  <2> DEFINE z == [T \in SUBSET S |-> 0]
  <2>1. \A T \in SUBSET S : Cardinality(T) <= 0 => T = {}
    BY SizesOfSubsets, FS_EmptySet
  <2>2. SumsTo(f, S, 0, z)
    BY <2>1 DEF SumsTo
  <2> QED
    BY <1>2, <2>2
<1>3. CASE n # 0
  <2>1. PICK g : SumsTo(f, S, n - 1, g)
    BY <1>1, <1>3
  <2> DEFINE h == [T \in SUBSET S |-> IF Cardinality(T) <= n - 1 THEN g[T]
                                      ELSE f[Picked(T)] + g[T \ {Picked(T)}]]
  <2>2. \A T \in SUBSET S : T # {} =>
          /\ Picked(T) \in T /\ f[Picked(T)] \in Int
          /\ T \ {Picked(T)} \in SUBSET S
          /\ g[T \ {Picked(T)}] \in Int
          /\ Cardinality(T \ {Picked(T)}) = Cardinality(T) - 1
    <3> SUFFICES ASSUME NEW T \in SUBSET S, T # {}
                 PROVE  /\ Picked(T) \in T /\ f[Picked(T)] \in Int
                        /\ T \ {Picked(T)} \in SUBSET S
                        /\ g[T \ {Picked(T)}] \in Int
                        /\ Cardinality(T \ {Picked(T)}) = Cardinality(T) - 1
      OBVIOUS
    <3> PICK x : x = Picked(T)
      OBVIOUS
    <3>1. x \in T
      BY DEF Picked
    <3>2. T \ {x} \in SUBSET S /\ Cardinality(T \ {x}) = Cardinality(T) - 1
      BY <3>1, SizesOfSubsets
    <3>3. g[T \ {x}] \in Int
      BY <2>1, <3>2 DEF SumsTo
    <3> QED
      BY <3>1, <3>2, <3>3
  <2>3. \A T \in SUBSET S : Cardinality(T) \in Nat /\ (~(Cardinality(T) <= n - 1) => T # {})
    BY <1>1, <1>3, SizesOfSubsets, FS_EmptySet
  <2>4. h \in [SUBSET S -> Int]
    BY <2>1, <2>2, <2>3 DEF SumsTo
  <2>5. ASSUME NEW T \in SUBSET S, Cardinality(T) <= n
        PROVE  h[T] = IF T = {} THEN 0 ELSE f[Picked(T)] + h[T \ {Picked(T)}]
    <3>1. CASE T = {}
      <4>1. Cardinality(T) <= n - 1
        BY <3>1, <1>1, <1>3, FS_EmptySet
      <4> QED
        BY <3>1, <4>1, <2>1 DEF SumsTo
    <3>2. CASE T # {}
      <4>1. h[T \ {Picked(T)}] = g[T \ {Picked(T)}]
        BY <2>2, <2>3, <2>5, <3>2, <1>1
      <4>2. h[T] = f[Picked(T)] + g[T \ {Picked(T)}]
        BY <2>1, <3>2 DEF SumsTo
      <4> QED
        BY <3>2, <4>1, <4>2
    <3> QED
      BY <3>1, <3>2
  <2>6. SumsTo(f, S, n, h)
    <3> HIDE DEF h
    <3> QED
      BY <2>4, <2>5 DEF SumsTo
  <2> QED
    BY <1>1, <2>6
<1> QED
  BY <1>2, <1>3

\* The function that SumFunctionOnSet chooses exists.
LEMMA SumsExist ==
  ASSUME NEW S, IsFiniteSet(S), NEW f, \A x \in S : f[x] \in Int
  PROVE  \E g \in [SUBSET S -> Int] : g = (CHOOSE h : Sums(f, S, h)) /\ Sums(f, S, g)
<1>1. PICK g : SumsTo(f, S, Cardinality(S), g)
  BY SumsToExist, FS_CardinalityType
<1>2. Sums(f, S, g)
  BY <1>1, SizesOfSubsets DEF SumsTo, Sums
<1>3. PICK h : h = (CHOOSE k : Sums(f, S, k)) /\ Sums(f, S, h)
  BY <1>2
<1>4. ASSUME NEW T \in SUBSET S PROVE h[T] \in Int
  <2> SUFFICES ASSUME h[T] \notin Int PROVE FALSE
    OBVIOUS
  <2> DEFINE Bad == {n \in Nat : \E U \in SUBSET S : h[U] \notin Int /\ Cardinality(U) = n}
  <2>1. Bad # {} /\ Bad \subseteq Nat
    BY SizesOfSubsets
  <2>2. PICK n \in Bad : \A k \in Bad : n <= k
    BY <2>1, LeastNat
  <2>3. PICK U \in SUBSET S : h[U] \notin Int /\ Cardinality(U) = n
    BY <2>2
  <2>4. h[U] = IF U = {} THEN 0 ELSE f[Picked(U)] + h[U \ {Picked(U)}]
    BY <1>3 DEF Sums
  <2>5. U # {} /\ Picked(U) \in U /\ f[Picked(U)] \in Int /\ h[U \ {Picked(U)}] \notin Int
    BY <2>3, <2>4 DEF Picked
  <2>6. n - 1 \in Bad
    <3> PICK x : x = Picked(U)
      OBVIOUS
    <3>1. U \ {x} \in SUBSET S /\ Cardinality(U \ {x}) = n - 1 /\ h[U \ {x}] \notin Int
      BY <2>3, <2>5, SizesOfSubsets
    <3>2. n - 1 \in Nat
      BY <3>1, SizesOfSubsets
    <3> QED
      BY <3>1, <3>2
  <2> QED
    BY <2>2, <2>6
<1>5. h \in [SUBSET S -> Int]
  BY <1>3, <1>4 DEF Sums
<1> QED
  BY <1>3, <1>5

\* What is chosen for a set has the sums of its subsets too.
LEMMA SumOfSubset ==
  ASSUME NEW S, IsFiniteSet(S), NEW f, \A x \in S : f[x] \in Int, NEW g, Sums(f, S, g),
         NEW T \in SUBSET S
  PROVE  SumFunctionOnSet(f, T) = g[T]
<1>1. PICK h : h = (CHOOSE k : Sums(f, T, k)) /\ Sums(f, T, h)
  BY SizesOfSubsets, SumsExist
<1>2. SumFunctionOnSet(f, T) = h[T]
  BY <1>1, SumByDefinition
<1> DEFINE Bad == {n \in Nat : \E U \in SUBSET T : h[U] # g[U] /\ Cardinality(U) = n}
<1>3. ASSUME Bad # {} PROVE FALSE
  <2>1. PICK n \in Bad : \A k \in Bad : n <= k
    BY <1>3, LeastNat
  <2>2. PICK U \in SUBSET T : h[U] # g[U] /\ Cardinality(U) = n
    BY <2>1
  <2> PICK x : x = Picked(U)
    OBVIOUS
  <2>3. h[U] = IF U = {} THEN 0 ELSE f[x] + h[U \ {x}]
    <3>1. Sums(f, T, h)
      BY <1>1
    <3> QED
      BY <3>1 DEF Sums
  <2>4. g[U] = IF U = {} THEN 0 ELSE f[x] + g[U \ {x}]
    BY DEF Sums
  <2>5. U # {} /\ x \in U /\ h[U \ {x}] # g[U \ {x}]
    BY <2>2, <2>3, <2>4 DEF Picked
  <2>6. U \ {x} \in SUBSET T /\ Cardinality(U \ {x}) = n - 1 /\ Cardinality(U \ {x}) \in Nat
    <3>1. U \in SUBSET S /\ U \ {x} \in SUBSET S
      OBVIOUS
    <3> QED
      BY <2>2, <2>5, <3>1, SizesOfSubsets
  <2>7. n - 1 \in Bad
    BY <2>5, <2>6
  <2> QED
    BY <2>1, <2>7
<1>4. h[T] = g[T]
  BY <1>3, SizesOfSubsets
<1> QED
  BY <1>2, <1>4

LEMMA SumType ==
  ASSUME NEW S, IsFiniteSet(S), NEW f, \A x \in S : f[x] \in Int
  PROVE  SumFunctionOnSet(f, S) \in Int
<1>1. PICK g \in [SUBSET S -> Int] : Sums(f, S, g)
  BY SumsExist
<1> QED
  BY <1>1, SumOfSubset

LEMMA SumEmpty == ASSUME NEW f PROVE SumFunctionOnSet(f, {}) = 0
<1>1. PICK g : g = (CHOOSE h : Sums(f, {}, h)) /\ Sums(f, {}, g)
  BY FS_EmptySet, SumsExist
<1>2. SumFunctionOnSet(f, {}) = g[{}]
  BY <1>1, SumByDefinition
<1>3. Sums(f, {}, g)
  BY <1>1
<1> QED
  BY <1>2, <1>3 DEF Sums

\* Any element may be the one that is added last.
LEMMA SumElement ==
  ASSUME NEW S, IsFiniteSet(S), NEW f, \A x \in S : f[x] \in Int, NEW z \in S
  PROVE  SumFunctionOnSet(f, S) = f[z] + SumFunctionOnSet(f, S \ {z})
<1>1. PICK g \in [SUBSET S -> Int] : Sums(f, S, g)
  BY SumsExist
<1>2. \A T \in SUBSET S : T # {} => Picked(T) \in T /\ g[T] = f[Picked(T)] + g[T \ {Picked(T)}]
  BY <1>1 DEF Sums, Picked
<1>3. \A T \in SUBSET S : g[T] \in Int
  OBVIOUS
<1> DEFINE Bad == {n \in Nat : \E T \in SUBSET S : \E x \in T :
                     g[T] # f[x] + g[T \ {x}] /\ Cardinality(T) = n}
<1>4. ASSUME Bad # {} PROVE FALSE
  <2>1. PICK n \in Bad : \A k \in Bad : n <= k
    BY <1>4, LeastNat
  <2>2. PICK T \in SUBSET S : \E x \in T : g[T] # f[x] + g[T \ {x}] /\ Cardinality(T) = n
    BY <2>1
  <2>x. PICK x \in T : g[T] # f[x] + g[T \ {x}]
    BY <2>2
  <2>3. PICK y \in T : y = Picked(T) /\ g[T] = f[y] + g[T \ {y}]
    BY <1>2
  <2>4. x # y
    BY <2>x, <2>3
  <2>5. \A v \in T : /\ T \ {v} \in SUBSET S /\ Cardinality(T \ {v}) = n - 1
                    /\ Cardinality(T \ {v}) \in Nat
    BY <2>2, SizesOfSubsets
  <2>6. ASSUME NEW v \in T, NEW w \in T, v # w
        PROVE  g[T \ {v}] = f[w] + g[(T \ {v}) \ {w}]
    <3> PICK U : U = T \ {v}
      OBVIOUS
    <3>1. U \in SUBSET S /\ w \in U /\ Cardinality(U) = n - 1 /\ n - 1 \in Nat
      BY <2>5, <2>6
    <3>2. n - 1 \notin Bad
      <4>1. n \in Nat /\ (n - 1 \in Bad => n <= n - 1)
        BY <2>1
      <4> HIDE DEF Bad
      <4> QED
        BY <4>1
    <3> QED
      BY <3>1, <3>2
  <2>7. PICK U : U = (T \ {y}) \ {x}
    OBVIOUS
  <2>8. U = (T \ {x}) \ {y} /\ U \in SUBSET S
    BY <2>7
  <2>9. g[T \ {y}] = f[x] + g[U] /\ g[T \ {x}] = f[y] + g[U]
    BY <2>4, <2>6, <2>7, <2>8
  <2>10. f[x] \in Int /\ f[y] \in Int /\ g[U] \in Int
    BY <1>3, <2>8
  <2> QED
    BY <2>x, <2>3, <2>9, <2>10
<1>5. g[S] = f[z] + g[S \ {z}]
  <2>1. Cardinality(S) \in Nat /\ Cardinality(S) \notin Bad
    BY <1>4, FS_CardinalityType
  <2> QED
    BY <2>1
<1>6. SumFunctionOnSet(f, S) = g[S] /\ SumFunctionOnSet(f, S \ {z}) = g[S \ {z}]
  BY <1>1, SumOfSubset
<1> QED
  BY <1>5, <1>6

\* A sum with one element more.
LEMMA SumMore ==
  ASSUME NEW S, IsFiniteSet(S), NEW z, z \notin S, NEW f, \A x \in S \cup {z} : f[x] \in Int
  PROVE  SumFunctionOnSet(f, S \cup {z}) = SumFunctionOnSet(f, S) + f[z]
<1>1. IsFiniteSet(S \cup {z}) /\ (S \cup {z}) \ {z} = S
  BY FS_AddElement
<1>2. SumFunctionOnSet(f, S \cup {z}) = f[z] + SumFunctionOnSet(f, S)
  BY <1>1, SumElement
<1>3. SumFunctionOnSet(f, S) \in Int /\ f[z] \in Int
  BY SumType
<1> QED
  BY <1>2, <1>3

LEMMA SumMonotone ==
  ASSUME NEW S, IsFiniteSet(S), NEW f, NEW g,
         \A x \in S : f[x] \in Int /\ g[x] \in Int /\ f[x] <= g[x]
  PROVE  SumFunctionOnSet(f, S) <= SumFunctionOnSet(g, S)
<1> DEFINE P == {T \in SUBSET S : SumFunctionOnSet(f, T) <= SumFunctionOnSet(g, T)}
<1>1. {} \in P
  BY SumEmpty
<1>2. ASSUME NEW T \in SUBSET S, NEW x \in S \ T, T \in P PROVE T \cup {x} \in P
  <2>1. IsFiniteSet(T)
    BY FS_Subset
  <2>2. /\ SumFunctionOnSet(f, T \cup {x}) = SumFunctionOnSet(f, T) + f[x]
        /\ SumFunctionOnSet(g, T \cup {x}) = SumFunctionOnSet(g, T) + g[x]
    BY <2>1, SumMore
  <2>3. SumFunctionOnSet(f, T) \in Int /\ SumFunctionOnSet(g, T) \in Int
    BY <2>1, SumType
  <2> QED
    BY <1>2, <2>2, <2>3
<1>3. S \in P
  <2> HIDE DEF P
  <2> QED
    BY <1>1, <1>2, SetInduction
<1> QED
  BY <1>3

\* Only the values on the set count.
LEMMA SumSame ==
  ASSUME NEW S, IsFiniteSet(S), NEW f, NEW g, \A x \in S : f[x] \in Int /\ g[x] = f[x]
  PROVE  SumFunctionOnSet(f, S) = SumFunctionOnSet(g, S)
<1>1. SumFunctionOnSet(f, S) <= SumFunctionOnSet(g, S) /\ SumFunctionOnSet(g, S) <= SumFunctionOnSet(f, S)
  BY SumMonotone
<1>2. SumFunctionOnSet(f, S) \in Int /\ SumFunctionOnSet(g, S) \in Int
  BY SumType
<1> QED
  BY <1>1, <1>2

\* The elements of the classes in C.
InClasses(S, class, C) == {x \in S : class[x] \in C}

\* Counted class by class, and all at once.
LEMMA SumOfClasses ==
  ASSUME NEW C, IsFiniteSet(C), NEW S, IsFiniteSet(S), NEW class, NEW count,
         \A c \in C : count[c] = Cardinality(InClasses(S, class, {c}))
  PROVE  SumFunctionOnSet(count, C) = Cardinality(InClasses(S, class, C))
<1> DEFINE Of(T) == InClasses(S, class, T)
           P == {T \in SUBSET C : SumFunctionOnSet(count, T) = Cardinality(Of(T))}
<1>0. \A T : IsFiniteSet(Of(T)) /\ Cardinality(Of(T)) \in Nat
  BY FS_Subset, FS_CardinalityType DEF InClasses
<1>1. {} \in P
  <2>1. Of({}) = {}
    BY DEF InClasses
  <2> QED
    BY <2>1, SumEmpty, FS_EmptySet
<1>2. ASSUME NEW T \in SUBSET C, NEW c \in C \ T, T \in P PROVE T \cup {c} \in P
  <2>1. IsFiniteSet(T)
    BY FS_Subset
  <2>2. \A d \in C : count[d] = Cardinality(Of({d})) /\ count[d] \in Int
    <3> HIDE DEF InClasses
    <3> QED
      BY <1>0
  <2>3. SumFunctionOnSet(count, T \cup {c}) = SumFunctionOnSet(count, T) + count[c]
    BY <2>1, <2>2, SumMore
  <2>4. Of(T \cup {c}) = Of(T) \cup Of({c}) /\ Of(T) \cap Of({c}) = {}
    BY DEF InClasses
  <2>5. Cardinality(Of(T \cup {c})) = Cardinality(Of(T)) + Cardinality(Of({c}))
    <3> PICK A, B : A = Of(T) /\ B = Of({c})
      OBVIOUS
    <3> HIDE DEF Of
    <3>1. IsFiniteSet(A) /\ IsFiniteSet(B) /\ Cardinality(A) \in Nat /\ Cardinality(B) \in Nat
      BY <1>0
    <3>2. Cardinality(A \cup B) = Cardinality(A) + Cardinality(B) - Cardinality(A \cap B)
      BY <3>1, FS_Union
    <3>3. Cardinality(A \cap B) = 0
      BY <2>4, FS_EmptySet
    <3> PICK a, b, both : a = Cardinality(A) /\ b = Cardinality(B) /\ both = Cardinality(A \cap B)
      OBVIOUS
    <3>4. Cardinality(A \cup B) = a + b
      BY <3>1, <3>2, <3>3
    <3>5. Of(T \cup {c}) = A \cup B
      BY <2>4
    <3> QED
      BY <3>4, <3>5
  <2> QED
    BY <1>2, <2>2, <2>3, <2>5
<1>3. C \in P
  <2> HIDE DEF P
  <2> QED
    BY <1>1, <1>2, SetInduction
<1> QED
  BY <1>3

=============================================================================
