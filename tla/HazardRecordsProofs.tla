------------------------ MODULE HazardRecordsProofs ------------------------
(***************************************************************************)
(* Proofs about hazard_pointer.c and its least client, for every number of *)
(* threads, of hazard pointers per thread and every set of nodes.          *)
(***************************************************************************)
EXTENDS HazardRecords, FiniteSetTheorems,
        SequenceTheorems, NaturalsInduction, WellFoundedInduction, TLAPS

\* Division with remainder by a positive S.
LEMMA DivMod ==
    ASSUME NEW S \in Nat \ {0}, NEW a \in Nat
    PROVE  /\ a \div S \in Int
           /\ a % S \in 0 .. S - 1
           /\ a = S * (a \div S) + (a % S)
OBVIOUS

\* Multiplication distributes over subtraction.
LEMMA TimesMinus ==
    ASSUME NEW S \in Int, NEW j \in Int, NEW k \in Int
    PROVE  S * (k - j) = S * k - S * j
OBVIOUS

\* A non-zero multiple of S is at least S away from 0.
LEMMA MultipleGap ==
    ASSUME NEW S \in Nat \ {0}, NEW k \in Int
    PROVE  /\ k >= 1 => S * k >= S
           /\ k <= 0 => S * k <= 0
           /\ k <= -1 => S * k <= -S
OBVIOUS

\* Quotient and remainder are determined.
LEMMA DivModUnique ==
    ASSUME NEW S \in Nat \ {0}, NEW p \in Int, NEW q \in Int,
           NEW r \in 0 .. S - 1, NEW s \in 0 .. S - 1,
           S * p + r = S * q + s
    PROVE  r = s
<1>1. S * (p - q) = s - r
  BY TimesMinus
<1>2. CASE p - q >= 1
  BY <1>1, <1>2, MultipleGap
<1>3. CASE p - q <= -1
  BY <1>1, <1>3, MultipleGap
<1>4. CASE p = q
  BY <1>4
<1>5. QED
  BY <1>2, <1>3, <1>4

-----------------------------------------------------------------------------
(* qsort and binary_search of hazard_pointer.c.                            *)

\* Every nonempty set of natural numbers has a least element.
LEMMA LeastNat ==
    ASSUME NEW S \in SUBSET Nat, S # {}
    PROVE  \E m \in S : \A n \in S : m <= n
<1> DEFINE R == OpToRel(<, Nat)
<1>1. IsWellFoundedOn(R, Nat)
  BY NatLessThanWellFounded
<1>2. PICK m \in S : \A y \in S : ~(<<y, m>> \in R)
  <2> HIDE DEF R
  <2> QED
    BY <1>1, WFMin
<1>3. \A y \in S : ~(y < m)
  BY <1>2 DEF OpToRel
<1>4. QED
  BY <1>3

\* The middle of a range lies in it.
LEMMA Middle ==
    ASSUME NEW start \in Nat, NEW end \in Int, start <= end
    PROVE  /\ (start + end) \div 2 \in Nat
           /\ start <= (start + end) \div 2 /\ (start + end) \div 2 <= end
OBVIOUS

\* What is left to search.
Width(range) == IF range[1] <= range[2] THEN range[2] - range[1] + 1 ELSE 0

LEMMA SearchStep ==
    ASSUME NEW h, NEW n, NEW start \in Nat, NEW end \in Int
    PROVE  LET middle == (start + end) \div 2 IN
           Search(h, n)[<<start, end>>] =
               IF start > end THEN FALSE
               ELSE IF h[middle + 1] > n THEN Search(h, n)[<<start, middle - 1>>]
               ELSE IF h[middle + 1] < n THEN Search(h, n)[<<middle + 1, end>>]
               ELSE TRUE
<1> DEFINE S == Nat \X Int
           Smaller == {pair \in S \X S : Width(pair[1]) < Width(pair[2])}
           Def(f, range) ==
               LET s == range[1]
                   e == range[2]
                   middle == (s + e) \div 2 IN
               IF s > e THEN FALSE
               ELSE IF h[middle + 1] > n THEN f[<<s, middle - 1>>]
               ELSE IF h[middle + 1] < n THEN f[<<middle + 1, e>>]
               ELSE TRUE
           search == Search(h, n)
<1>1. IsWellFoundedOn(Smaller, S)
  <2> SUFFICES ASSUME NEW T \in SUBSET S, T # {}
               PROVE  \E x \in T : \A y \in T : ~(<<y, x>> \in Smaller)
    <3> HIDE DEF S, Smaller
    <3> QED BY MinWF
  <2> DEFINE W == {Width(x) : x \in T}
  <2>1. W \in SUBSET Nat /\ W # {}
    BY DEF Width
  <2>2. PICK m \in W : \A w \in W : m <= w
    <3> HIDE DEF W
    <3> QED BY <2>1, LeastNat
  <2>3. PICK x \in T : Width(x) = m
    OBVIOUS
  <2>4. \A y \in T : Width(x) <= Width(y)
    BY <2>2, <2>3
  <2>5. \A y \in T : Width(x) \in Nat /\ Width(y) \in Nat
    BY <2>1
  <2>6. \A y \in T : ~(Width(y) < Width(x))
    BY <2>4, <2>5
  <2> QED
    BY <2>6
<1>2. WFDefOn(Smaller, S, Def)
  <2> SUFFICES ASSUME NEW f, NEW g, NEW r \in S,
                      \A y \in SetLessThan(r, Smaller, S) : f[y] = g[y]
               PROVE  Def(f, r) = Def(g, r)
    BY DEF WFDefOn
  <2> DEFINE middle == (r[1] + r[2]) \div 2
  <2>1. CASE r[1] > r[2]
    BY <2>1
  <2>2. CASE ~(r[1] > r[2])
    <3>1. middle \in Nat /\ r[1] <= middle /\ middle <= r[2]
      <4>1. r[1] \in Nat /\ r[2] \in Int /\ r[1] <= r[2]
        BY <2>2
      <4> QED BY <4>1, Middle
    <3>2. \A y \in S : Width(y) < Width(r) => f[y] = g[y]
      BY DEF SetLessThan
    <3>3. /\ <<r[1], middle - 1>> \in S /\ <<middle + 1, r[2]>> \in S
          /\ Width(<<r[1], middle - 1>>) < Width(r)
          /\ Width(<<middle + 1, r[2]>>) < Width(r)
      <4> HIDE DEF middle, Smaller
      <4>1. r[1] \in Nat /\ r[2] \in Int /\ Width(r) = r[2] - r[1] + 1
        BY <2>2 DEF Width
      <4> QED BY <3>1, <4>1 DEF Width
    <3>4. f[<<r[1], middle - 1>>] = g[<<r[1], middle - 1>>]
          /\ f[<<middle + 1, r[2]>>] = g[<<middle + 1, r[2]>>]
      <4> HIDE DEF middle, S, Smaller
      <4> QED BY <3>2, <3>3
    <3> QED
      BY <3>3, <3>4
  <2> QED
    BY <2>1, <2>2
<1>3. OpDefinesFcn(search, S, Def)
  BY DEF OpDefinesFcn, Search
<1>4. WFInductiveDefines(search, S, Def)
  <2> HIDE DEF S, Smaller, Def, search
  <2> QED BY <1>1, <1>2, <1>3, WFInductiveDef
<1>5. search[<<start, end>>] = Def(search, <<start, end>>)
  <2> HIDE DEF search, Def
  <2> QED BY <1>4 DEF WFInductiveDefines
<1> QED
  BY <1>5

Ascending(h) == \A i, j \in DOMAIN h : i < j => h[i] <= h[j]

\* binary_search finds what is there, and nothing else: there is no narrowest
\* range of a sorted array for which it does not.
LEMMA SearchCorrect ==
    ASSUME NEW h \in Seq(Int), Ascending(h), NEW n \in Int
    PROVE  BinarySearch(h, n) <=> \E i \in 1 .. Len(h) : h[i] = n
<1> DEFINE Ranges == {range \in Nat \X Int : range[2] < Len(h)}
           Finds(range) == Search(h, n)[range] = TRUE
           Has(range) == \E i \in range[1] + 1 .. range[2] + 1 : h[i] = n
           Wrong == {range \in Ranges : ~(Finds(range) <=> Has(range))}
           W == {Width(range) : range \in Wrong}
<1>1. Len(h) \in Nat /\ DOMAIN h = 1 .. Len(h) /\ \A i \in 1 .. Len(h) : h[i] \in Int
  OBVIOUS
<1>2. Wrong = {}
  <2> SUFFICES ASSUME Wrong # {} PROVE FALSE
    OBVIOUS
  <2>1. W \in SUBSET Nat /\ W # {}
    <3>1. \A range \in Ranges : Width(range) \in Nat
      BY DEF Width
    <3>2. Wrong \subseteq Ranges
      OBVIOUS
    <3> HIDE DEF Wrong, Ranges
    <3> QED BY <3>1, <3>2
  <2>2. PICK m \in W : \A w \in W : m <= w
    <3> HIDE DEF W
    <3> QED BY <2>1, LeastNat
  <2>3. PICK r \in Wrong : Width(r) = m
    <3> HIDE DEF Wrong
    <3> QED OBVIOUS
  <2>4. PICK start \in Nat, end \in Int : r = <<start, end>> /\ end < Len(h)
    <3>1. r \in Nat \X Int /\ r[2] < Len(h)
      OBVIOUS
    <3> QED BY <3>1
  <2>5. ~(Finds(r) <=> Has(r))
    OBVIOUS
  <2>6. Has(r) <=> \E i \in start + 1 .. end + 1 : h[i] = n
    BY <2>4
  <2> DEFINE middle == (start + end) \div 2
  <2>7. Search(h, n)[<<start, end>>] =
            IF start > end THEN FALSE
            ELSE IF h[middle + 1] > n THEN Search(h, n)[<<start, middle - 1>>]
            ELSE IF h[middle + 1] < n THEN Search(h, n)[<<middle + 1, end>>]
            ELSE TRUE
    BY SearchStep
  <2>8. start <= end
    <3> SUFFICES ASSUME start > end PROVE FALSE
      OBVIOUS
    <3>1. Search(h, n)[<<start, end>>] = FALSE
      BY <2>7
    <3>2. start + 1 .. end + 1 = {}
      OBVIOUS
    <3>3. ~Has(r)
      <4> HIDE DEF Has
      <4> QED BY <2>6, <3>2
    <3> QED
      BY <3>1, <3>3, <2>4, <2>5
  <2>9. middle \in Nat /\ start <= middle /\ middle <= end
    BY <2>8, Middle
  <2> HIDE DEF middle, Wrong, Has, Finds, W
  <2>10. /\ <<start, middle - 1>> \in Ranges /\ <<middle + 1, end>> \in Ranges
         /\ Width(<<start, middle - 1>>) < Width(r)
         /\ Width(<<middle + 1, end>>) < Width(r)
    BY <1>1, <2>4, <2>8, <2>9 DEF Width
  <2>11. \A range \in Ranges : Width(range) < Width(r) => range \notin Wrong
    <3>1. \A range \in Wrong : Width(range) \in W /\ m <= Width(range)
      BY <2>2 DEF W
    <3>2. \A range \in Wrong : Width(range) \in Nat /\ m \in Nat
      BY <2>1, <3>1
    <3> QED BY <3>1, <3>2, <2>3
  <2>12. /\ Finds(<<start, middle - 1>>) <=> Has(<<start, middle - 1>>)
         /\ Finds(<<middle + 1, end>>) <=> Has(<<middle + 1, end>>)
    <3>1. <<start, middle - 1>> \notin Wrong /\ <<middle + 1, end>> \notin Wrong
      BY <2>10, <2>11
    <3> HIDE DEF Ranges
    <3> QED BY <3>1, <2>10 DEF Wrong
  <2>13. /\ Has(<<start, middle - 1>>) <=> \E i \in start + 1 .. middle : h[i] = n
         /\ Has(<<middle + 1, end>>) <=> \E i \in middle + 2 .. end + 1 : h[i] = n
    <3>1. middle - 1 + 1 = middle /\ middle + 1 + 1 = middle + 2
      BY <2>9
    <3> QED BY <3>1 DEF Has
  <2>14. middle + 1 \in 1 .. Len(h) /\ h[middle + 1] \in Int
    BY <1>1, <2>4, <2>9
  <2>15. \A i \in start + 1 .. end + 1 :
            /\ i \in 1 .. Len(h) /\ i \in Int /\ h[i] \in Int
            /\ i <= middle + 1 => h[i] <= h[middle + 1]
            /\ i >= middle + 1 => h[middle + 1] <= h[i]
    <3> SUFFICES ASSUME NEW i \in start + 1 .. end + 1
                 PROVE  /\ i \in 1 .. Len(h) /\ i \in Int /\ h[i] \in Int
                        /\ i <= middle + 1 => h[i] <= h[middle + 1]
                        /\ i >= middle + 1 => h[middle + 1] <= h[i]
      OBVIOUS
    <3>1. i \in 1 .. Len(h) /\ i \in Int
      BY <1>1, <2>4
    <3>2. h[i] \in Int
      BY <1>1, <3>1
    <3>3. i < middle + 1 => h[i] <= h[middle + 1]
      BY <1>1, <2>14, <3>1 DEF Ascending
    <3>4. middle + 1 < i => h[middle + 1] <= h[i]
      BY <1>1, <2>14, <3>1 DEF Ascending
    <3>5. i = middle + 1 => h[i] = h[middle + 1]
      OBVIOUS
    <3>6. i < middle + 1 \/ i = middle + 1 \/ middle + 1 < i
      BY <3>1, <2>9
    <3> QED BY <3>1, <3>2, <3>3, <3>4, <3>5, <3>6, <2>14, <2>9
  <2>16. CASE h[middle + 1] > n
    <3>1. \A i \in middle + 1 .. end + 1 : i \in start + 1 .. end + 1 /\ h[i] # n
      BY <2>9, <2>14, <2>15, <2>16
    <3>2. \A i \in start + 1 .. end + 1 : i \in start + 1 .. middle \/ i \in middle + 1 .. end + 1
      BY <2>9
    <3>3. \A i \in start + 1 .. middle : i \in start + 1 .. end + 1
      BY <2>9
    <3>4. Has(r) <=> Has(<<start, middle - 1>>)
      BY <3>1, <3>2, <3>3, <2>6, <2>13
    <3>5. Finds(r) <=> Finds(<<start, middle - 1>>)
      BY <2>4, <2>7, <2>8, <2>16 DEF Finds
    <3> QED
      BY <3>4, <3>5, <2>5, <2>12
  <2>17. CASE h[middle + 1] < n
    <3>1. \A i \in start + 1 .. middle + 1 : i \in start + 1 .. end + 1 /\ h[i] # n
      BY <2>9, <2>14, <2>15, <2>17
    <3>2. \A i \in start + 1 .. end + 1 : i \in start + 1 .. middle + 1 \/ i \in middle + 2 .. end + 1
      BY <2>9
    <3>3. \A i \in middle + 2 .. end + 1 : i \in start + 1 .. end + 1
      BY <2>9
    <3>4. Has(r) <=> Has(<<middle + 1, end>>)
      BY <3>1, <3>2, <3>3, <2>6, <2>13
    <3>5. ~(h[middle + 1] > n)
      BY <2>14, <2>17
    <3>6. Finds(r) <=> Finds(<<middle + 1, end>>)
      BY <3>5, <2>4, <2>7, <2>8, <2>17 DEF Finds
    <3> QED
      BY <3>4, <3>6, <2>5, <2>12
  <2>18. CASE h[middle + 1] = n
    <3>1. Has(r)
      BY <2>18, <2>6, <2>9
    <3>2. ~(h[middle + 1] > n) /\ ~(h[middle + 1] < n)
      BY <2>18, <2>14
    <3>3. Finds(r)
      BY <3>2, <2>4, <2>7, <2>8 DEF Finds
    <3> QED
      BY <3>1, <3>3, <2>5
  <2> QED
    BY <2>14, <2>16, <2>17, <2>18
<1>3. <<0, Len(h) - 1>> \in Ranges
  BY <1>1
<1>4. Finds(<<0, Len(h) - 1>>) <=> Has(<<0, Len(h) - 1>>)
  <2> HIDE DEF Finds, Has, Ranges
  <2> QED BY <1>2, <1>3
<1>5. Has(<<0, Len(h) - 1>>) <=> \E i \in 1 .. Len(h) : h[i] = n
  <2>1. 0 + 1 = 1 /\ Len(h) - 1 + 1 = Len(h)
    BY <1>1
  <2> QED BY <2>1
<1> QED
  BY <1>4, <1>5 DEF BinarySearch

\* A permutation of the places of `found` that puts them in order.
Order(p, found) ==
    /\ {p[i] : i \in 1 .. Len(found)} = 1 .. Len(found)
    /\ \A i, j \in 1 .. Len(found) : i < j => found[p[i]] <= found[p[j]]

\* There always is one: no shortest sequence is without.
LEMMA OrderExists ==
    ASSUME NEW found \in Seq(Int)
    PROVE  \E p \in [1 .. Len(found) -> 1 .. Len(found)] : Order(p, found)
<1> DEFINE Without(s) == ~ \E p \in [1 .. Len(s) -> 1 .. Len(s)] : Order(p, s)
           Lengths == {Len(s) : s \in {s \in Seq(Int) : Without(s)}}
<1> SUFFICES ASSUME Without(found) PROVE FALSE
  OBVIOUS
<1>1. Lengths \in SUBSET Nat /\ Lengths # {}
  <2> HIDE DEF Without
  <2>1. Len(found) \in Lengths
    OBVIOUS
  <2>2. \A s \in Seq(Int) : Len(s) \in Nat
    OBVIOUS
  <2> QED BY <2>1, <2>2
<1>2. PICK m \in Lengths : \A k \in Lengths : m <= k
  <2> HIDE DEF Lengths
  <2> QED BY <1>1, LeastNat
<1>3. PICK s \in Seq(Int) : Len(s) = m /\ Without(s)
  OBVIOUS
<1>4. m \in Nat /\ \A i \in 1 .. m : s[i] \in Int
  BY <1>3
<1>5. m # 0
  <2> SUFFICES ASSUME m = 0 PROVE FALSE
    OBVIOUS
  <2>1. \A p \in [1 .. Len(s) -> 1 .. Len(s)] : Order(p, s)
    BY <1>3 DEF Order
  <2>2. [i \in 1 .. Len(s) |-> i] \in [1 .. Len(s) -> 1 .. Len(s)]
    OBVIOUS
  <2> QED
    BY <2>1, <2>2, <1>3
<1> DEFINE r == [i \in 1 .. m - 1 |-> s[i]]
<1>6. r \in Seq(Int) /\ Len(r) = m - 1 /\ \A i \in 1 .. m - 1 : r[i] = s[i]
  BY <1>4, <1>5
<1>7. ~Without(r)
  <2> SUFFICES ASSUME Without(r) PROVE FALSE
    OBVIOUS
  <2>1. Len(r) \in Lengths
    <3> HIDE DEF r, Without
    <3> QED BY <1>6
  <2>2. m <= Len(r)
    <3> HIDE DEF Lengths, r
    <3> QED BY <2>1, <1>2
  <2> QED
    <3> HIDE DEF r
    <3> QED BY <2>2, <1>4, <1>6
<1>8. PICK q \in [1 .. m - 1 -> 1 .. m - 1] : Order(q, r)
  BY <1>6, <1>7
<1> HIDE DEF Lengths, r
<1>9. /\ {q[i] : i \in 1 .. m - 1} = 1 .. m - 1
      /\ \A i, j \in 1 .. m - 1 : i < j => s[q[i]] <= s[q[j]]
      /\ \A i \in 1 .. m - 1 : q[i] \in 1 .. m - 1
  BY <1>4, <1>5, <1>6, <1>8 DEF Order
<1>20. s[m] \in Int /\ \A i \in 1 .. m - 1 : s[q[i]] \in Int /\ i \in 1 .. m /\ q[i] \in 1 .. m
  <2>1. m \in 1 .. m /\ \A i \in 1 .. m - 1 : i \in 1 .. m
    BY <1>4, <1>5
  <2> QED BY <2>1, <1>4, <1>9
<1> DEFINE T == {k \in 1 .. m : k = m \/ s[q[k]] > s[m]}
<1>10. PICK k \in T : \A j \in T : k <= j
  <2>1. T \in SUBSET Nat /\ T # {}
    <3>1. m \in 1 .. m /\ 1 .. m \in SUBSET Nat
      BY <1>4, <1>5
    <3>2. m \in T
      BY <3>1
    <3> QED BY <3>1, <3>2
  <2> HIDE DEF T
  <2> QED BY <2>1, LeastNat
<1>11. /\ k \in 1 .. m
       /\ \A i \in 1 .. k - 1 : s[q[i]] <= s[m]
       /\ \A i \in k .. m - 1 : s[m] <= s[q[i]]
  <2>1. k \in 1 .. m /\ (k = m \/ s[q[k]] > s[m])
    OBVIOUS
  <2>2. ASSUME NEW i \in 1 .. k - 1 PROVE s[q[i]] <= s[m]
    <3>1. i \in 1 .. m /\ i \in 1 .. m - 1 /\ ~(k <= i)
      BY <2>1, <1>4
    <3>2. i \notin T
      <4> HIDE DEF T
      <4> QED BY <1>10, <3>1
    <3>3. s[q[i]] \in Int /\ s[m] \in Int
      BY <3>1, <1>20
    <3> QED BY <3>1, <3>2, <3>3
  <2>3. ASSUME NEW i \in k .. m - 1 PROVE s[m] <= s[q[i]]
    <3>1. i \in 1 .. m - 1 /\ k \in 1 .. m - 1 /\ k # m
      BY <2>1, <1>4
    <3>2. s[q[i]] \in Int /\ s[q[k]] \in Int /\ s[m] \in Int
      BY <3>1, <1>20
    <3>3. s[q[k]] <= s[q[i]]
      <4>1. CASE k = i
        BY <4>1, <3>2
      <4>2. CASE k < i
        BY <4>2, <1>9, <3>1
      <4> QED BY <4>1, <4>2, <3>1
    <3>4. s[q[k]] > s[m]
      BY <2>1, <3>1
    <3> QED BY <3>2, <3>3, <3>4
  <2> QED
    BY <2>1, <2>2, <2>3
<1> HIDE DEF T
<1> DEFINE p == [i \in 1 .. m |-> IF i < k THEN q[i] ELSE IF i = k THEN m ELSE q[i - 1]]
<1>12. p \in [1 .. m -> 1 .. m]
  <2> SUFFICES ASSUME NEW i \in 1 .. m
               PROVE  (IF i < k THEN q[i] ELSE IF i = k THEN m ELSE q[i - 1]) \in 1 .. m
    OBVIOUS
  <2>1. CASE i < k
    <3>1. i \in 1 .. m - 1
      BY <2>1, <1>4, <1>11
    <3> QED BY <3>1, <2>1, <1>20
  <2>2. CASE i = k
    BY <2>2, <1>4, <1>5
  <2>3. CASE i > k
    <3>1. i - 1 \in 1 .. m - 1 /\ ~(i < k) /\ i # k
      BY <2>3, <1>4, <1>11
    <3> QED BY <3>1, <1>20
  <2> QED BY <2>1, <2>2, <2>3, <1>4, <1>11
<1>13. {p[i] : i \in 1 .. m} = 1 .. m
  <2> SUFFICES ASSUME NEW v \in 1 .. m PROVE \E i \in 1 .. m : p[i] = v
    BY <1>12
  <2>1. CASE v = m
    BY <2>1, <1>4, <1>11
  <2>2. CASE v # m
    <3>0. v \in 1 .. m - 1
      BY <2>2, <1>4
    <3>1. PICK i \in 1 .. m - 1 : q[i] = v
      BY <3>0, <1>9
    <3>2. CASE i < k
      BY <3>1, <3>2, <1>4
    <3>3. CASE ~(i < k)
      <4>1. i + 1 \in 1 .. m /\ ~(i + 1 < k) /\ i + 1 # k /\ i + 1 - 1 = i
        BY <3>3, <1>4, <1>11
      <4>2. p[i + 1] = q[i]
        BY <4>1
      <4> QED BY <4>1, <4>2, <3>1
    <3> QED BY <3>2, <3>3
  <2> QED
    BY <2>1, <2>2
<1>14. ASSUME NEW i \in 1 .. m, NEW j \in 1 .. m, i < j
       PROVE  s[p[i]] <= s[p[j]]
  <2>1. CASE j < k
    <3>1. p[i] = q[i] /\ p[j] = q[j] /\ i \in 1 .. m - 1 /\ j \in 1 .. m - 1
      BY <1>14, <2>1, <1>4, <1>11
    <3> QED BY <3>1, <1>14, <1>9
  <2>2. CASE j = k
    BY <1>14, <2>2, <1>4, <1>9, <1>11
  <2>3. CASE j > k
    <3>1. p[j] = q[j - 1] /\ j - 1 \in 1 .. m - 1 /\ j - 1 \in k .. m - 1
      BY <2>3, <1>4, <1>11
    <3>2. CASE i < k
      <4>1. p[i] = q[i] /\ i \in 1 .. m - 1 /\ i < j - 1
        BY <3>2, <2>3, <1>4, <1>11
      <4> QED BY <4>1, <3>1, <1>9
    <3>3. CASE i = k
      BY <3>1, <3>3, <1>11
    <3>4. CASE i > k
      <4>1. p[i] = q[i - 1] /\ i - 1 \in 1 .. m - 1 /\ i - 1 < j - 1
        BY <3>4, <1>14, <2>3, <1>4, <1>11
      <4> QED BY <4>1, <3>1, <1>9
    <3> QED BY <3>2, <3>3, <3>4, <1>11
  <2> QED
    BY <2>1, <2>2, <2>3, <1>11
<1>15. Order(p, s)
  <2> HIDE DEF p
  <2> QED BY <1>3, <1>13, <1>14 DEF Order
<1> QED
  <2> HIDE DEF p
  <2> QED BY <1>3, <1>12, <1>15

\* What a scan asks of the plist: qsort and binary_search decide membership.
LEMMA HazardousIsMembership ==
    ASSUME NEW found \in Seq(Nodes), NEW n \in Nodes
    PROVE  Hazardous(found, n) <=> \E i \in 1 .. Len(found) : found[i] = n
<1> DEFINE places == 1 .. Len(found)
           h == Qsort(found)
<1>1. found \in Seq(Int) /\ n \in Int
  <2>1. n \in Int /\ \A i \in 1 .. Len(found) : found[i] \in Int
    <3>1. \A i \in 1 .. Len(found) : found[i] \in Nodes
      OBVIOUS
    <3>2. \A x \in Nodes : x \in Int
      BY NodesAssumption
    <3> QED BY <3>1, <3>2
  <2>2. found \in [1 .. Len(found) -> Int] /\ Len(found) \in Nat
    BY <2>1
  <2> QED BY <2>1, <2>2
<1>2. \E p \in [places -> places] :
          /\ {p[i] : i \in places} = places
          /\ \A i, j \in places : i < j => found[p[i]] <= found[p[j]]
  BY <1>1, OrderExists DEF Order
<1>3. PICK p \in [places -> places] :
          /\ {p[i] : i \in places} = places
          /\ \A i, j \in places : i < j => found[p[i]] <= found[p[j]]
          /\ h = [i \in places |-> found[p[i]]]
  BY <1>2 DEF Qsort
<1> HIDE DEF h
<1>4. h \in Seq(Int) /\ Len(h) = Len(found) /\ DOMAIN h = places
  <2>1. \A i \in places : found[i] \in Int /\ p[i] \in places
    BY <1>1
  <2>2. h \in [places -> Int]
    BY <2>1, <1>3
  <2>3. Len(found) \in Nat
    OBVIOUS
  <2> QED BY <2>2, <2>3
<1>5. Ascending(h)
  BY <1>3, <1>4 DEF Ascending
<1>6. (\E i \in places : h[i] = n) <=> \E i \in places : found[i] = n
  BY <1>3
<1>7. BinarySearch(h, n) <=> \E i \in 1 .. Len(h) : h[i] = n
  BY <1>1, <1>4, <1>5, SearchCorrect
<1> QED
  BY <1>4, <1>6, <1>7 DEF Hazardous, h

-----------------------------------------------------------------------------
(* The inductive invariant.                                                *)

N == Len(records)

\* The d-th record in the order of registration: pushes do not renumber it.
Rec(d) == records[N - d + 1]

Running == \A t \in Threads : pc[t] # "stopped"

\* The records are those of the threads that are past their CAS, each once.  A
\* thread that is raising has the oldest Len(list) records still before it.
RecordsInv ==
    /\ Running \/ pc = Stopped
    /\ \A d, e \in 1 .. N : Rec(d) = Rec(e) => d = e
    /\ Running => \A t \in Threads :
                     pc[t] \notin {"new", "push"} <=> \E d \in 1 .. N : Rec(d) = t
    /\ \A d \in 1 .. N :
          pc[Rec(d)] = "raise" =>
              /\ Len(list[Rec(d)]) \in 1 .. d - 1
              /\ \A i \in 1 .. Len(list[Rec(d)]) :
                    list[Rec(d)][i] = Rec(Len(list[Rec(d)]) - i + 1)

\* The registrations after the d-th that have raised its threshold.
Raised(d) ==
    {e \in d + 1 .. N : ~(pc[Rec(e)] = "raise" /\ d <= Len(list[Rec(e)]))}

\* A threshold counts the records up to its own and those that have raised it.
ThresholdInv ==
    Running => \A d \in 1 .. N :
                  threshold[Rec(d)] = (2 * K) * (d + Cardinality(Raised(d)))

\* The hazard pointers of the M oldest records, newest record first.
WalkOf(M) == [i \in 1 .. M * K |-> <<Rec(M - ((i - 1) \div K)), (i - 1) % K>>]

ScanInv ==
    \A t \in Threads :
        /\ pc[t] # "scan" => walk[t] = <<>>
        /\ walk[t] = <<>> /\ max_pointers[t] = 0 => plist[t] = <<>>
        /\ pc[t] # "scan" => max_pointers[t] = 0
        /\ walk[t] # <<>> /\ max_pointers[t] = 0 =>
              plist[t] = <<>> /\ \E M \in 1 .. N : walk[t] = WalkOf(M)
        /\ pc[t] = "scan" => Len(plist[t]) + Len(walk[t]) <= N * K

\* Every node is free, the client's, or retired by one registered thread.
NodesInv ==
    /\ shared \notin free
    /\ \A n \in Nodes :
          n \in free \/ n = shared \/ \E d \in 1 .. N : n \in retired[Rec(d)]
    /\ \A t \in Threads :
          /\ IsFiniteSet(retired[t])
          /\ retired[t] # {} => \E d \in 1 .. N : Rec(d) = t
          /\ shared \notin retired[t]
          /\ retired[t] \cap free = {}
          /\ \A u \in Threads \ {t} : retired[t] \cap retired[u] = {}

\* What a thread has announced last, visible or not, is the node it holds.
Latest(t) == IF hsb[t] = <<>> THEN hp[t][0] ELSE hsb[t][Len(hsb[t])][2]

AnnouncedInv ==
    \A t \in Threads :
        /\ Latest(t) = node[t]
        /\ \A i \in 1 .. Len(hsb[t]) : hsb[t][i][1] = 0
        /\ \A k \in 1 .. K - 1 : hp[t][k] = NULL
        /\ node[t] # NULL <=> pc[t] \in {"grab", "check", "using"}
        /\ pc[t] = "stopped" => hsb[t] = <<>>

\* With a fence, a node in use is announced to all, and a scan by a thread that
\* has retired it has either seen the announcement or has yet to read it.
UsedInv ==
    \A t \in Threads :
        pc[t] = "using" =>
            /\ hsb[t] = <<>>
            /\ node[t] \notin free
            /\ \A u \in Threads :
                  node[t] \in retired[u] /\ (walk[u] # <<>> \/ max_pointers[u] # 0) =>
                      \/ \E i \in 1 .. Len(walk[u]) : walk[u][i] = <<t, 0>>
                      \/ \E i \in 1 .. Len(plist[u]) : plist[u][i] = node[t]

IInv ==
    /\ TypeOK /\ RecordsInv /\ ThresholdInv /\ ScanInv /\ NodesInv
    /\ AnnouncedInv /\ PlistFits /\ RetiredBounded
    /\ Fenced => UsedInv

-----------------------------------------------------------------------------
(* Records and thresholds.                                                 *)

\* A registered thread outside create_and_push is at one of these.
Members == {"idle", "grab", "check", "using", "scan"}

LEMMA RecordType ==
    ASSUME TypeOK
    PROVE  /\ N \in Nat /\ K \in Nat \ {0}
           /\ \A d \in 1 .. N : N - d + 1 \in 1 .. N /\ Rec(d) \in Threads
BY KAssumption DEF TypeOK, HazardTypeOK, N, Rec

\* Which thread has which record, and how far its registration is, as a step of the
\* client, a reading of the list or a failing CAS leaves it.
SamePlaces ==
    \A u \in Threads :
        \/ pc'[u] = pc[u] /\ list'[u] = list[u]
        \/ pc[u] \in Members /\ pc'[u] \in Members /\ list'[u] = list[u]
        \/ pc[u] \in {"new", "push"} /\ pc'[u] \in {"new", "push"}

LEMMA RecordsKept ==
    ASSUME TypeOK, RecordsInv, ThresholdInv,
           UNCHANGED <<records, threshold>>, TypeOK', SamePlaces
    PROVE  RecordsInv' /\ ThresholdInv' /\ (Running' <=> Running)
<1>1. N' = N /\ \A d : Rec(d)' = Rec(d)
  BY DEF N, Rec
<1>2. \A d \in 1 .. N : Rec(d) \in Threads
  BY RecordType
<1>3. Running' <=> Running
  BY DEF Running, SamePlaces, Members
<1>4. pc = Stopped => pc' = Stopped
  BY DEF SamePlaces, Members, Stopped, TypeOK
<1>5. \A d \in 1 .. N : pc[Rec(d)] = "raise" <=> pc'[Rec(d)] = "raise"
  BY <1>2 DEF SamePlaces, Members
<1>6. \A d \in 1 .. N : pc[Rec(d)] = "raise" => list'[Rec(d)] = list[Rec(d)]
  BY <1>2 DEF SamePlaces, Members
<1>7. ASSUME Running, NEW t \in Threads
      PROVE  pc'[t] \notin {"new", "push"} <=> \E d \in 1 .. N : Rec(d) = t
  BY <1>7 DEF RecordsInv, SamePlaces, Members
<1>8. RecordsInv'
  <2>1. (Running \/ pc = Stopped)'
    BY <1>3, <1>4 DEF RecordsInv
  <2>2. ASSUME NEW d \in 1 .. N, pc'[Rec(d)] = "raise"
        PROVE  /\ Len(list'[Rec(d)]) \in 1 .. d - 1
               /\ \A i \in 1 .. Len(list'[Rec(d)]) :
                     list'[Rec(d)][i] = Rec(Len(list'[Rec(d)]) - i + 1)
    BY <2>2, <1>5, <1>6 DEF RecordsInv
  <2>3. \A d, e \in 1 .. N : Rec(d) = Rec(e) => d = e
    BY DEF RecordsInv
  <2> QED
    BY <1>1, <1>3, <1>7, <2>1, <2>2, <2>3 DEF RecordsInv
<1>9. ASSUME NEW d \in 1 .. N PROVE Raised(d)' = Raised(d)
  <2>1. N \in Nat /\ \A e \in d + 1 .. N : e \in 1 .. N
    BY RecordType
  <2> QED
    BY <1>1, <1>5, <1>6, <2>1 DEF Raised
<1>10. ThresholdInv'
  <2> SUFFICES ASSUME Running, NEW d \in 1 .. N
               PROVE  threshold[Rec(d)] = (2 * K) * (d + Cardinality(Raised(d)'))
    BY <1>1, <1>3 DEF ThresholdInv
  <2> QED
    BY <1>9 DEF ThresholdInv
<1> QED
  BY <1>3, <1>8, <1>10

\* Thresholds are multiples of 2 * K.
LEMMA Multiples ==
    ASSUME NEW a \in Nat, NEW b \in Nat
    PROVE  /\ (2 * K) * a \in Nat
           /\ (2 * K) * (a + 1) = (2 * K) * a + 2 * K
           /\ 2 * a * K = (2 * K) * a
           /\ ((2 * K) * (a + b)) \div 2 = K * (a + b)
           /\ K * (a + b) = K * a + K * b /\ K * a = a * K /\ K * b \in Nat /\ K * a \in Nat
<1>1. K \in Nat
  BY KAssumption
<1>2. \A x \in Nat : K * x \in Nat /\ (2 * K) * x = 2 * (K * x)
  BY <1>1
<1>3. \A x \in Nat : (2 * x) \div 2 = x
  OBVIOUS
<1>4. a + b \in Nat
  OBVIOUS
<1>5. ((2 * K) * (a + b)) \div 2 = K * (a + b)
  BY <1>2, <1>3, <1>4
<1> QED
  BY <1>1, <1>2, <1>5

\* No registration later than the newest has raised its threshold.
LEMMA RaisedLast ==
    ASSUME TypeOK
    PROVE  Raised(N) = {} /\ Cardinality(Raised(N)) = 0
BY RecordType, FS_EmptySet DEF Raised

LEMMA RaisedType ==
    ASSUME TypeOK, NEW d \in 1 .. N
    PROVE  /\ IsFiniteSet(Raised(d)) /\ Cardinality(Raised(d)) \in Nat
           /\ Cardinality(Raised(d)) <= N - d
<1>1. N \in Nat
  BY RecordType
<1>2. IsFiniteSet(d + 1 .. N) /\ Cardinality(d + 1 .. N) = N - d
  <2>1. d + 1 \in Int /\ N \in Int /\ d + 1 <= N + 1
    BY <1>1
  <2>2. /\ IsFiniteSet(d + 1 .. N)
        /\ Cardinality(d + 1 .. N) = IF d + 1 > N THEN 0 ELSE N - (d + 1) + 1
    BY <2>1, FS_Interval
  <2> QED BY <2>1, <2>2
<1>3. Raised(d) \subseteq d + 1 .. N
  BY DEF Raised
<1> QED
  BY <1>2, <1>3, FS_Subset, FS_CardinalityType

\* The successful CAS of create_and_push.
LEMMA RegisterPushed ==
    ASSUME TypeOK, RecordsInv, ThresholdInv, NEW t \in Threads,
           RegisterCAS(t), records = list[t]
    PROVE  /\ TypeOK' /\ RecordsInv' /\ ThresholdInv' /\ Running /\ Running'
           /\ N' = N + 1 /\ \A x : x = N + 1 => Rec(x)' = t
           /\ \A d \in 1 .. N : Rec(d)' = Rec(d) /\ Rec(d) # t
           /\ threshold' = [threshold EXCEPT ![t] = NewThreshold(t)]
<1> DEFINE L == list[t]
           label == IF L = <<>> THEN "idle" ELSE "raise"
<1>1. /\ pc[t] = "push" /\ N = Len(L) /\ L = records /\ records \in Seq(Threads)
      /\ N \in Nat
  BY RecordType DEF RegisterCAS, N, TypeOK, HazardTypeOK
<1>2. /\ records' = <<t>> \o records
      /\ threshold' = [threshold EXCEPT ![t] = NewThreshold(t)]
      /\ pc' = [pc EXCEPT ![t] = label] /\ list' = list
  BY <1>1 DEF RegisterCAS, Goto
<1>3. /\ records' \in Seq(Threads) /\ N' = N + 1 /\ records'[1] = t
      /\ \A i \in 1 .. N : records'[i + 1] = records[i]
  <2>1. <<t>> \in Seq(Threads) /\ Len(<<t>>) = 1 /\ <<t>>[1] = t
    OBVIOUS
  <2>2. /\ records' \in Seq(Threads) /\ Len(records') = 1 + Len(records)
        /\ \A i \in 1 .. 1 + Len(records) : records'[i] = IF i <= 1 THEN <<t>>[i] ELSE records[i - 1]
    BY <1>1, <1>2, <2>1, ConcatProperties
  <2>3. records'[1] = t
    BY <2>1, <2>2
  <2>4. ASSUME NEW i \in 1 .. N PROVE records'[i + 1] = records[i]
    <3>1. i + 1 \in 1 .. 1 + N /\ ~(i + 1 <= 1) /\ (i + 1) - 1 = i
      BY <1>1
    <3> QED BY <3>1, <2>2 DEF N
  <2>5. N' = N + 1
    BY <1>1, <2>2 DEF N
  <2> QED BY <2>2, <2>3, <2>4, <2>5
<1>4. /\ \A x : x = N + 1 => Rec(x)' = t
      /\ \A d \in 1 .. N : Rec(d)' = Rec(d)
  <2>1. ASSUME NEW x, x = N + 1 PROVE Rec(x)' = t
    <3>1. (N + 1) - x + 1 = 1
      BY <1>1, <2>1
    <3> QED
      BY <1>3, <3>1 DEF Rec
  <2>2. ASSUME NEW d \in 1 .. N PROVE Rec(d)' = Rec(d)
    <3>1. N - d + 1 \in 1 .. N /\ (N + 1) - d + 1 = (N - d + 1) + 1
      BY <1>1
    <3> QED BY <1>3, <3>1 DEF Rec
  <2> QED BY <2>1, <2>2
<1>5. Running
  BY <1>1 DEF RecordsInv, Stopped
<1>6. \A d \in 1 .. N : Rec(d) # t /\ Rec(d) \in Threads
  BY <1>1, <1>5, RecordType DEF RecordsInv
<1>7. NewThreshold(t) = (2 * K) * (N + 1) /\ NewThreshold(t) \in Nat
  <2>1. N + 1 \in Nat /\ Len(list[t]) = N
    BY <1>1
  <2>2. 2 * (N + 1) * K = (2 * K) * (N + 1) /\ (2 * K) * (N + 1) \in Nat
    BY <2>1, Multiples
  <2> QED BY <2>1, <2>2 DEF NewThreshold
<1>8. TypeOK'
  <2>1. threshold' \in [Threads -> Nat]
    BY <1>2, <1>7 DEF TypeOK, HazardTypeOK
  <2>2. pc' \in [Threads -> Labels]
    BY <1>2 DEF TypeOK, Labels
  <2> QED
    BY <1>2, <1>3, <2>1, <2>2 DEF TypeOK, HazardTypeOK, RegisterCAS, scanVars
<1>9. /\ pc'[t] = label /\ \A u \in Threads \ {t} : pc'[u] = pc[u]
      /\ Running'
  BY <1>2, <1>5 DEF TypeOK, Running
<1>10. \A d \in 1 .. N : pc'[Rec(d)] = pc[Rec(d)] /\ list'[Rec(d)] = list[Rec(d)]
  BY <1>2, <1>6, <1>9
<1>11. \A i \in 1 .. N : L[i] = Rec(N - i + 1)
  <2> SUFFICES ASSUME NEW i \in 1 .. N PROVE records[i] = Rec(N - i + 1)
    BY <1>1
  <2>1. N - (N - i + 1) + 1 = i
    BY <1>1
  <2> QED
    BY <2>1 DEF Rec
<1>12. RecordsInv'
  <2>1. ASSUME NEW d \in 1 .. N + 1, NEW e \in 1 .. N + 1, Rec(d)' = Rec(e)'
        PROVE  d = e
    <3>1. d \in 1 .. N \/ d = N + 1
      BY <1>1
    <3>2. e \in 1 .. N \/ e = N + 1
      BY <1>1
    <3> QED BY <3>1, <3>2, <2>1, <1>4, <1>6 DEF RecordsInv
  <2>2. ASSUME NEW u \in Threads
        PROVE  pc'[u] \notin {"new", "push"} <=> \E d \in 1 .. N + 1 : Rec(d)' = u
    <3>1. CASE u = t
      <4>1. N + 1 \in 1 .. N + 1
        BY <1>1
      <4> QED BY <4>1, <3>1, <1>4, <1>9
    <3>2. CASE u # t
      <4>1. pc[u] \notin {"new", "push"} <=> \E d \in 1 .. N : Rec(d) = u
        BY <1>5 DEF RecordsInv
      <4>2. \A d \in 1 .. N + 1 : d \in 1 .. N \/ d = N + 1
        BY <1>1
      <4>3. \A d \in 1 .. N : d \in 1 .. N + 1
        BY <1>1
      <4> QED BY <4>1, <4>2, <4>3, <3>2, <1>4, <1>9
    <3> QED BY <3>1, <3>2
  <2>3. ASSUME NEW d \in 1 .. N + 1, pc'[Rec(d)'] = "raise",
               NEW rest, rest = list'[Rec(d)']
        PROVE  /\ Len(rest) \in 1 .. d - 1
               /\ \A i \in 1 .. Len(rest) : rest[i] = records'[N' - (Len(rest) - i + 1) + 1]
    <3>1. CASE d \in 1 .. N
      <4>0. rest = list[Rec(d)] /\ pc[Rec(d)] = "raise"
        BY <2>3, <3>1, <1>4, <1>10
      <4>1. /\ Len(rest) \in 1 .. d - 1
            /\ \A i \in 1 .. Len(rest) : rest[i] = Rec(Len(rest) - i + 1)
        BY <4>0, <3>1 DEF RecordsInv
      <4>2. \A i \in 1 .. Len(rest) : Len(rest) - i + 1 \in 1 .. N
        BY <4>1, <3>1, <1>1
      <4>4. \A i \in 1 .. Len(rest) : \A x : x = Len(rest) - i + 1 => rest[i] = Rec(x)'
        BY <4>1, <4>2, <1>4
      <4> QED
        BY <4>1, <4>4 DEF Rec
    <3>2. CASE d = N + 1
      <4>1. Rec(d)' = t /\ L # <<>> /\ rest = L
        BY <2>3, <3>2, <1>2, <1>4, <1>9
      <4>2. Len(L) \in 1 .. d - 1
        BY <4>1, <3>2, <1>1
      <4>3. \A i \in 1 .. Len(L) : \A x : x = Len(L) - i + 1 => L[i] = Rec(x)'
        <5>1. \A i \in 1 .. N : N - i + 1 \in 1 .. N
          BY <1>1
        <5> QED BY <5>1, <1>1, <1>4, <1>11
      <4> HIDE DEF L
      <4> QED
        BY <4>1, <4>2, <4>3 DEF Rec
    <3> QED BY <3>1, <3>2, <1>1
  <2>4. ASSUME NEW d \in 1 .. N + 1, pc'[Rec(d)'] = "raise"
        PROVE  /\ Len(list'[Rec(d)']) \in 1 .. d - 1
               /\ \A i \in 1 .. Len(list'[Rec(d)']) :
                     list'[Rec(d)'][i] = records'[N' - (Len(list'[Rec(d)']) - i + 1) + 1]
    BY <2>3, <2>4
  <2> HIDE DEF label, L
  <2> QED
    BY <1>3, <1>9, <2>1, <2>2, <2>4 DEF RecordsInv, Rec
<1>13. ThresholdInv'
  <2>1. ASSUME NEW d \in 1 .. N PROVE Raised(d)' = Raised(d)
    <3>1. ASSUME NEW e \in d + 1 .. N + 1
          PROVE  ~(pc'[Rec(e)'] = "raise" /\ d <= Len(list'[Rec(e)'])) <=> e \in Raised(d)
      <4>1. CASE e = N + 1
        <5>1. Rec(e)' = t /\ list'[t] = L /\ d <= N /\ N # 0
          BY <4>1, <1>1, <1>2, <1>4
        <5>2. pc'[t] = "raise" /\ Len(L) = N
          BY <5>1, <1>1, <1>9
        <5>3. e \notin Raised(d)
          BY <4>1, <1>1 DEF Raised
        <5> QED BY <5>1, <5>2, <5>3
      <4>2. CASE e # N + 1
        <5>1. e \in 1 .. N /\ e \in d + 1 .. N
          BY <4>2, <1>1
        <5> QED BY <5>1, <1>4, <1>10 DEF Raised
      <4> QED BY <4>1, <4>2
    <3>2. \A e \in Raised(d) : e \in d + 1 .. N + 1
      BY <1>1 DEF Raised
    <3> QED
      BY <1>3, <3>1, <3>2 DEF Raised
  <2>2. ASSUME NEW d, d = N + 1 PROVE Raised(d)' = {}
    <3>1. d + 1 .. N + 1 = {}
      BY <2>2, <1>1
    <3> QED BY <3>1, <1>3 DEF Raised
  <2>3. ASSUME NEW d \in 1 .. N + 1
        PROVE  threshold'[Rec(d)'] = (2 * K) * (d + Cardinality(Raised(d)'))
    <3>1. CASE d \in 1 .. N
      <4>1. threshold'[Rec(d)'] = threshold[Rec(d)]
        BY <3>1, <1>2, <1>4, <1>6
      <4> QED BY <3>1, <4>1, <2>1, <1>5 DEF ThresholdInv
    <3>2. CASE d = N + 1
      <4>1. threshold'[Rec(d)'] = (2 * K) * (N + 1)
        BY <3>2, <1>2, <1>4, <1>7 DEF TypeOK, HazardTypeOK
      <4>2. Cardinality(Raised(d)') = 0
        <5>1. Cardinality({}) = 0
          BY FS_EmptySet
        <5> QED BY <5>1, <3>2, <2>2
      <4>3. d + 0 = N + 1
        BY <3>2, <1>1
      <4> QED BY <4>1, <4>2, <4>3
    <3> QED BY <3>1, <3>2, <1>1
  <2> QED
    BY <1>3, <2>3 DEF ThresholdInv
<1> QED
  BY <1>2, <1>3, <1>4, <1>5, <1>6, <1>8, <1>9, <1>12, <1>13

\* One step of the loop that raises the older thresholds.
LEMMA RegisterRaised ==
    ASSUME TypeOK, RecordsInv, ThresholdInv, NEW t \in Threads, RegisterRaise(t)
    PROVE  TypeOK' /\ RecordsInv' /\ ThresholdInv' /\ Running /\ Running'
           /\ \A d \in 1 .. N : threshold[Rec(d)] <= threshold'[Rec(d)]
<1> DEFINE L == list[t]
           label == IF Tail(L) = <<>> THEN "idle" ELSE "raise"
<1>1. N \in Nat /\ K \in Nat /\ \A d \in 1 .. N : Rec(d) \in Threads
  BY RecordType
<1>2. Running /\ pc[t] = "raise"
  BY DEF RecordsInv, Stopped, RegisterRaise
<1>3. PICK p \in 1 .. N : Rec(p) = t
  BY <1>2 DEF RecordsInv
<1>4. /\ Len(L) \in 1 .. p - 1
      /\ \A i \in 1 .. Len(L) : L[i] = Rec(Len(L) - i + 1)
  BY <1>2, <1>3 DEF RecordsInv
<1>5. PICK q \in Nat : q = Len(L)
  BY <1>4
<1>6. q \in 1 .. N /\ q < p /\ Head(L) = Rec(q) /\ Head(L) \in Threads
  <2>1. L \in Seq(Threads) /\ L # <<>> /\ Head(L) = L[1]
    BY <1>4 DEF TypeOK
  <2>2. q - 1 + 1 = q /\ q \in 1 .. N /\ q < p /\ 1 \in 1 .. Len(L)
    BY <1>1, <1>4, <1>5
  <2> QED BY <1>1, <1>4, <1>5, <2>1, <2>2
<1>7. /\ Tail(L) \in Seq(Threads) /\ Len(Tail(L)) = q - 1
      /\ \A i \in 1 .. q - 1 : Tail(L)[i] = L[i + 1]
  <2>1. L \in Seq(Threads) /\ L # <<>>
    BY <1>4 DEF TypeOK
  <2> QED BY <2>1, <1>5, HeadTailProperties
<1>8. /\ threshold' = [threshold EXCEPT ![Rec(q)] = threshold[Rec(q)] + 2 * K]
      /\ list' = [list EXCEPT ![t] = Tail(L)]
      /\ pc' = [pc EXCEPT ![t] = label] /\ records' = records
  BY <1>6 DEF RegisterRaise, Goto
<1>9. N' = N /\ \A d : Rec(d)' = Rec(d)
  BY <1>8 DEF N, Rec
<1>10. /\ pc'[t] = label /\ list'[t] = Tail(L)
       /\ \A u \in Threads \ {t} : pc'[u] = pc[u] /\ list'[u] = list[u]
       /\ Running'
  BY <1>2, <1>8 DEF TypeOK, Running
<1>11. TypeOK'
  <2>1. threshold' \in [Threads -> Nat]
    <3>1. threshold \in [Threads -> Nat] /\ Rec(q) \in Threads
      BY <1>1, <1>6 DEF TypeOK, HazardTypeOK
    <3>2. threshold[Rec(q)] \in Nat /\ 2 * K \in Nat
      BY <3>1, <1>1
    <3>3. threshold[Rec(q)] + 2 * K \in Nat
      BY <3>2
    <3> QED BY <3>1, <3>3, <1>8
  <2>2. pc' \in [Threads -> Labels] /\ list' \in [Threads -> Seq(Threads)]
    BY <1>7, <1>8 DEF TypeOK, Labels
  <2> QED
    BY <1>8, <2>1, <2>2 DEF TypeOK, HazardTypeOK, RegisterRaise, scanVars
<1>12. \A d \in 1 .. N : Rec(d) = t <=> d = p
  BY <1>3 DEF RecordsInv
<1>13. label = "raise" <=> q > 1
  <2>1. Tail(L) = <<>> <=> q - 1 = 0
    BY <1>5, <1>7, EmptySeq
  <2>2. q \in Nat /\ q # 0
    BY <1>6
  <2>3. label = "raise" <=> ~(Tail(L) = <<>>)
    <3> HIDE DEF L
    <3> QED OBVIOUS
  <2> HIDE DEF label, L
  <2> QED BY <2>1, <2>2, <2>3
<1> HIDE DEF label, L
<1>14. RecordsInv'
  <2>1. ASSUME NEW d \in 1 .. N, pc'[Rec(d)] = "raise", NEW rest, rest = list'[Rec(d)]
        PROVE  /\ Len(rest) \in 1 .. d - 1
               /\ \A i \in 1 .. Len(rest) : rest[i] = Rec(Len(rest) - i + 1)
    <3>1. CASE d = p
      <4>1. rest = Tail(L) /\ Len(rest) = q - 1 /\ q > 1
        BY <2>1, <3>1, <1>3, <1>7, <1>10, <1>13
      <4>2. Len(rest) \in 1 .. d - 1
        BY <4>1, <3>1, <1>6
      <4>3. ASSUME NEW i \in 1 .. q - 1 PROVE Tail(L)[i] = Rec((q - 1) - i + 1)
        <5>1. i + 1 \in 1 .. q /\ q - (i + 1) + 1 = (q - 1) - i + 1
          OBVIOUS
        <5> QED BY <5>1, <1>4, <1>5, <1>7
      <4> QED BY <4>1, <4>2, <4>3
    <3>2. CASE d # p
      <4>1. rest = list[Rec(d)] /\ pc[Rec(d)] = "raise"
        BY <2>1, <3>2, <1>1, <1>10, <1>12
      <4> QED BY <4>1 DEF RecordsInv
    <3> QED BY <3>1, <3>2
  <2>2. ASSUME NEW d \in 1 .. N, pc'[Rec(d)] = "raise"
        PROVE  /\ Len(list'[Rec(d)]) \in 1 .. d - 1
               /\ \A i \in 1 .. Len(list'[Rec(d)]) :
                     list'[Rec(d)][i] = Rec(Len(list'[Rec(d)]) - i + 1)
    BY <2>1, <2>2
  <2>3. ASSUME NEW u \in Threads
        PROVE  pc'[u] \notin {"new", "push"} <=> \E d \in 1 .. N : Rec(d) = u
    <3>1. pc[u] \notin {"new", "push"} <=> \E d \in 1 .. N : Rec(d) = u
      BY <1>2 DEF RecordsInv
    <3> QED BY <3>1, <1>2, <1>10 DEF label
  <2>4. \A d, e \in 1 .. N : Rec(d) = Rec(e) => d = e
    BY DEF RecordsInv
  <2> QED
    BY <1>9, <1>10, <2>2, <2>3, <2>4 DEF RecordsInv
<1>15. ASSUME NEW d \in 1 .. N, d # q
       PROVE  Raised(d)' = Raised(d)
  <2>1. ASSUME NEW e \in d + 1 .. N
        PROVE  (pc'[Rec(e)] = "raise" /\ d <= Len(list'[Rec(e)]))
                   <=> (pc[Rec(e)] = "raise" /\ d <= Len(list[Rec(e)]))
    <3>1. e \in 1 .. N
      BY <1>1
    <3>2. CASE e = p
      <4>1. pc'[Rec(e)] = label /\ list'[Rec(e)] = Tail(L)
            /\ pc[Rec(e)] = "raise" /\ Len(list[Rec(e)]) = q
        BY <3>2, <1>2, <1>3, <1>5, <1>10 DEF L
      <4>2. (label = "raise" /\ d <= q - 1) <=> d <= q
        BY <1>13, <1>15
      <4> QED BY <4>1, <4>2, <1>7
    <3>3. CASE e # p
      BY <3>1, <3>3, <1>1, <1>10, <1>12
    <3> QED BY <3>2, <3>3
  <2> QED
    BY <2>1, <1>9 DEF Raised
<1>16. Raised(q)' = Raised(q) \cup {p} /\ p \notin Raised(q)
  <2>1. p \in q + 1 .. N /\ \A e \in q + 1 .. N : e \in 1 .. N
    BY <1>1, <1>6
  <2>2. p \notin Raised(q)
    BY <1>2, <1>3, <1>5 DEF Raised, L
  <2>3. ~(pc'[Rec(p)] = "raise" /\ q <= Len(list'[Rec(p)]))
    BY <1>3, <1>7, <1>10
  <2>4. \A e \in q + 1 .. N : e # p => pc'[Rec(e)] = pc[Rec(e)] /\ list'[Rec(e)] = list[Rec(e)]
    BY <2>1, <1>1, <1>10, <1>12
  <2>5. Raised(q)' = {e \in q + 1 .. N : ~(pc'[Rec(e)] = "raise" /\ q <= Len(list'[Rec(e)]))}
    BY <1>9 DEF Raised
  <2> QED
    BY <2>1, <2>2, <2>3, <2>4, <2>5 DEF Raised
<1>17. Cardinality(Raised(q)') = Cardinality(Raised(q)) + 1 /\ Cardinality(Raised(q)) \in Nat
  BY <1>6, <1>16, RaisedType, FS_AddElement
<1>18. \A d \in 1 .. N : threshold'[Rec(d)] =
            IF d = q THEN threshold[Rec(d)] + 2 * K ELSE threshold[Rec(d)]
  <2>1. \A d \in 1 .. N : Rec(d) = Rec(q) <=> d = q
    BY <1>6 DEF RecordsInv
  <2> QED
    BY <1>1, <1>6, <1>8, <2>1 DEF TypeOK, HazardTypeOK
<1>19. ThresholdInv'
  <2>1. ASSUME NEW d \in 1 .. N
        PROVE  threshold'[Rec(d)] = (2 * K) * (d + Cardinality(Raised(d)'))
    <3>1. threshold[Rec(d)] = (2 * K) * (d + Cardinality(Raised(d)))
      BY <1>2 DEF ThresholdInv
    <3>2. CASE d = q
      <4>1. PICK c \in Nat : c = Cardinality(Raised(q))
        BY <1>17
      <4>2. threshold'[Rec(d)] = (2 * K) * (q + c) + 2 * K
        BY <3>1, <3>2, <4>1, <1>18
      <4>3. q + c \in Nat /\ q + (c + 1) = (q + c) + 1
        BY <4>1
      <4>4. (2 * K) * ((q + c) + 1) = (2 * K) * (q + c) + 2 * K
        BY <4>3, Multiples
      <4> QED BY <3>2, <4>1, <4>2, <4>3, <4>4, <1>17
    <3>3. CASE d # q
      BY <3>1, <3>3, <1>15, <1>18
    <3> QED BY <3>2, <3>3
  <2> QED
    BY <2>1, <1>9 DEF ThresholdInv
<1>20. ASSUME NEW d \in 1 .. N PROVE threshold[Rec(d)] <= threshold'[Rec(d)]
  <2>1. threshold[Rec(d)] \in Nat
    BY <1>1 DEF TypeOK, HazardTypeOK
  <2> QED BY <2>1, <1>1, <1>18
<1> QED
  BY <1>2, <1>10, <1>11, <1>14, <1>19, <1>20

\* destroy_all takes the newest record off and stops everybody.
LEMMA RecordDestroyed ==
    ASSUME TypeOK, RecordsInv, DestroyRecord
    PROVE  /\ RecordsInv' /\ ThresholdInv' /\ ~Running'
           /\ N' = N - 1 /\ N \in Nat /\ N # 0
           /\ \A d \in 1 .. N - 1 : Rec(d)' = Rec(d) /\ d \in 1 .. N
           /\ \A x : x = N => Head(records) = Rec(x)
           /\ records' \in Seq(Threads) /\ Head(records) \in Threads
<1>1. /\ records \in Seq(Threads) /\ records # <<>> /\ records' = Tail(records)
      /\ pc' = Stopped /\ N \in Nat
  BY RecordType DEF DestroyRecord, TypeOK, HazardTypeOK
<1>2. /\ Head(records) \in Threads /\ records' \in Seq(Threads) /\ N' = N - 1
      /\ \A i \in 1 .. N - 1 : records'[i] = records[i + 1]
      /\ N # 0
  BY <1>1, HeadTailProperties, EmptySeq DEF N
<1>3. ASSUME NEW d \in 1 .. N - 1 PROVE Rec(d)' = Rec(d) /\ d \in 1 .. N
  <2>1. PICK i \in 1 .. N - 1 : i = (N - 1) - d + 1
    BY <1>1
  <2>2. i + 1 = N - d + 1 /\ d \in 1 .. N
    BY <1>1, <2>1
  <2>3. records'[i] = records[N - d + 1]
    BY <1>2, <2>2
  <2>4. Rec(d)' = records'[i]
    BY <1>2, <2>1 DEF Rec
  <2> QED BY <2>2, <2>3, <2>4 DEF Rec
<1>4. ASSUME NEW x, x = N PROVE Head(records) = Rec(x)
  <2>1. N - x + 1 = 1 /\ Head(records) = records[1]
    BY <1>1, <1>4
  <2> QED BY <2>1 DEF Rec
<1>5. ~Running'
  BY <1>1, <1>2 DEF Running, Stopped
<1>6. \A d, e \in 1 .. N - 1 : Rec(d)' = Rec(e)' => d = e
  BY <1>3 DEF RecordsInv
<1>7. \A d \in 1 .. N - 1 : pc'[Rec(d)'] = "stopped"
  <2>1. \A d \in 1 .. N - 1 : Rec(d)' \in Threads
    BY <1>3, RecordType
  <2> QED BY <1>1, <2>1 DEF Stopped
<1>8. (Running \/ pc = Stopped)'
  BY <1>1 DEF Stopped
<1>9. RecordsInv'
  BY <1>2, <1>5, <1>6, <1>7, <1>8 DEF RecordsInv
<1>10. ThresholdInv'
  BY <1>5 DEF ThresholdInv
<1> QED
  BY <1>1, <1>2, <1>3, <1>4, <1>5, <1>9, <1>10

-----------------------------------------------------------------------------
(* What a step leaves alone.                                               *)

\* The i-th hazard pointer belongs to record i \div K, the last to the last one.
LEMMA Quotient ==
    ASSUME NEW S \in Nat \ {0}, NEW M \in Nat, NEW a \in Nat, a < M * S
    PROVE  a \div S \in Nat /\ a \div S < M
<1>1. a \div S \in Int /\ a % S \in 0 .. S - 1 /\ a = S * (a \div S) + (a % S)
  BY DivMod
<1>2. PICK q \in Int : q = a \div S
  BY <1>1
<1>3. S * q <= a /\ S * q > a - S /\ S * q \in Int
  BY <1>1, <1>2
<1>4. ~(q < 0)
  <2>1. q <= -1 => S * q <= -S
    BY MultipleGap
  <2> QED BY <2>1, <1>3
<1>5. ~(q >= M)
  <2>1. S * (q - M) = S * q - S * M
    BY TimesMinus
  <2>2. q - M \in Nat => S * (q - M) >= 0
    OBVIOUS
  <2>3. S * M = M * S /\ S * M \in Int
    OBVIOUS
  <2> QED BY <2>1, <2>2, <2>3, <1>3
<1> QED
  BY <1>2, <1>4, <1>5

\* No record is taken off the list.
Growing == N' \in {N, N + 1} /\ \A d \in 1 .. N : Rec(d)' = Rec(d)

LEMMA ProductGrows ==
    ASSUME TypeOK, Growing
    PROVE  N * K <= N' * K /\ N * K \in Nat /\ N' * K \in Nat
           /\ \A d \in 1 .. N : d \in 1 .. N'
<1>1. N \in Nat /\ K \in Nat
  BY RecordType
<1>2. (N + 1) * K = N * K + K /\ N * K \in Nat
  BY <1>1
<1>3. CASE N' = N
  BY <1>2, <1>3
<1>4. CASE N' = N + 1
  <2>1. N' * K = N * K + K
    BY <1>2, <1>4
  <2>2. PICK a \in Nat : a = N * K
    BY <1>2
  <2>3. a + K \in Nat /\ a <= a + K
    BY <1>1
  <2>4. \A d \in 1 .. N : d \in 1 .. N'
    BY <1>1, <1>4
  <2> QED BY <2>1, <2>2, <2>3, <2>4
<1> QED
  BY <1>3, <1>4 DEF Growing

LEMMA ScanKept ==
    ASSUME TypeOK, ScanInv, PlistFits, Growing, UNCHANGED scanVars,
           \A u \in Threads : pc[u] = "scan" => pc'[u] = "scan"
    PROVE  ScanInv' /\ PlistFits'
<1>1. UNCHANGED <<walk, max_pointers, plist>>
  BY DEF scanVars
<1>2. PlistFits'
  BY <1>1 DEF PlistFits
<1>3. ASSUME NEW M \in 1 .. N PROVE WalkOf(M)' = WalkOf(M)
  <2>1. \A i \in 1 .. M * K : M - ((i - 1) \div K) \in 1 .. N
    <3> SUFFICES ASSUME NEW i \in 1 .. M * K PROVE M - ((i - 1) \div K) \in 1 .. N
      OBVIOUS
    <3>1. K \in Nat \ {0} /\ M \in Nat /\ N \in Nat
      BY RecordType
    <3>2. PICK a \in Nat : a = i - 1 /\ a < M * K
      BY <3>1
    <3>3. /\ a \div K \in Nat /\ a \div K < M
      BY <3>1, <3>2, Quotient
    <3> QED BY <3>1, <3>2, <3>3
  <2>2. \A i \in 1 .. M * K : Rec(M - ((i - 1) \div K))' = Rec(M - ((i - 1) \div K))
    BY <2>1 DEF Growing
  <2> QED
    BY <2>2 DEF WalkOf
<1>4. ScanInv'
  <2> SUFFICES ASSUME NEW t \in Threads
               PROVE  /\ pc'[t] # "scan" => walk[t] = <<>>
                      /\ walk[t] = <<>> /\ max_pointers[t] = 0 => plist[t] = <<>>
                      /\ pc'[t] # "scan" => max_pointers[t] = 0
                      /\ walk[t] # <<>> /\ max_pointers[t] = 0 =>
                            plist[t] = <<>> /\ \E M \in 1 .. N' : walk[t] = WalkOf(M)'
                      /\ pc'[t] = "scan" => Len(plist[t]) + Len(walk[t]) <= N' * K
    BY <1>1 DEF ScanInv
  <2>1. walk[t] # <<>> /\ max_pointers[t] = 0 =>
            plist[t] = <<>> /\ \E M \in 1 .. N' : walk[t] = WalkOf(M)'
    BY <1>3, ProductGrows DEF ScanInv
  <2>2. Len(plist[t]) + Len(walk[t]) <= N' * K
    <3>1. Len(plist[t]) \in Nat /\ Len(walk[t]) \in Nat
      BY DEF TypeOK, HazardTypeOK
    <3>2. Len(plist[t]) + Len(walk[t]) <= N * K
      <4>1. CASE pc[t] = "scan"
        BY <4>1 DEF ScanInv
      <4>2. CASE pc[t] # "scan"
        <5>1. walk[t] = <<>> /\ plist[t] = <<>>
          BY <4>2 DEF ScanInv
        <5> QED BY <5>1, ProductGrows
      <4> QED BY <4>1, <4>2
    <3>3. PICK a \in Nat, b \in Nat : a = N * K /\ b = N' * K /\ a <= b
      BY ProductGrows
    <3>4. Len(plist[t]) + Len(walk[t]) <= a
      BY <3>2, <3>3
    <3>5. \A x, y \in Nat : x + y <= a => x + y <= b
      BY <3>3
    <3> QED BY <3>1, <3>3, <3>4, <3>5
  <2> QED
    BY <2>1, <2>2 DEF ScanInv
<1> QED
  BY <1>2, <1>4

LEMMA NodesKept ==
    ASSUME TypeOK, NodesInv, Growing, UNCHANGED <<free, shared, retired>>
    PROVE  NodesInv'
<1>1. \A d \in 1 .. N : d \in 1 .. N' /\ Rec(d)' = Rec(d)
  BY ProductGrows DEF Growing
<1>2. \A t \in Threads : (\E d \in 1 .. N : Rec(d) = t) => \E d \in 1 .. N' : Rec(d)' = t
  BY <1>1
<1>3. \A n \in Nodes : (\E d \in 1 .. N : n \in retired[Rec(d)]) =>
                            \E d \in 1 .. N' : n \in retired[Rec(d)']
  BY <1>1
<1> QED
  BY <1>2, <1>3 DEF NodesInv

LEMMA BoundKept ==
    ASSUME TypeOK, NodesInv, RetiredBounded, Growing, UNCHANGED retired,
           \A u \in Threads : pc[u] \in {"scan", "stopped"} => pc'[u] \in {"scan", "stopped"}
    PROVE  RetiredBounded'
<1> SUFFICES ASSUME NEW t \in Threads, pc'[t] \notin {"scan", "stopped"}, retired[t] # {}
             PROVE  Cardinality(retired[t]) < 2 * N' * K
  BY DEF RetiredBounded, N
<1>1. Cardinality(retired[t]) < 2 * N * K
  BY DEF RetiredBounded, N
<1>2. Cardinality(retired[t]) \in Nat
  BY FS_CardinalityType DEF NodesInv
<1>3. 2 * N * K = 2 * (N * K) /\ 2 * N' * K = 2 * (N' * K)
  BY RecordType DEF Growing
<1> QED
  BY <1>1, <1>2, <1>3, ProductGrows

Holding == {"grab", "check", "using"}

LEMMA AnnouncedKept ==
    ASSUME AnnouncedInv, UNCHANGED <<hp, hsb, node>>,
           \A u \in Threads : /\ pc'[u] \in Holding <=> pc[u] \in Holding
                              /\ pc'[u] = "stopped" => pc[u] = "stopped"
    PROVE  AnnouncedInv'
BY DEF AnnouncedInv, Latest, Holding

LEMMA UsedKept ==
    ASSUME UsedInv, UNCHANGED <<free, retired, scanVars>>,
           \A u \in Threads :
              pc'[u] = "using" =>
                  pc[u] = "using" /\ hsb'[u] = hsb[u] /\ node'[u] = node[u]
    PROVE  UsedInv'
<1>1. UNCHANGED <<walk, max_pointers, plist>>
  BY DEF scanVars
<1>2. ASSUME NEW t \in Threads, pc'[t] = "using"
      PROVE  /\ pc[t] = "using" /\ hsb'[t] = hsb[t] /\ node'[t] = node[t]
             /\ hsb'[t] = <<>> /\ node'[t] \notin free'
  BY <1>2 DEF UsedInv
<1>3. ASSUME NEW t \in Threads, pc'[t] = "using", NEW u \in Threads,
             node'[t] \in retired'[u], walk'[u] # <<>> \/ max_pointers'[u] # 0
      PROVE  \/ \E i \in 1 .. Len(walk'[u]) : walk'[u][i] = <<t, 0>>
             \/ \E i \in 1 .. Len(plist'[u]) : plist'[u][i] = node'[t]
  <2>1. \/ \E i \in 1 .. Len(walk[u]) : walk[u][i] = <<t, 0>>
        \/ \E i \in 1 .. Len(plist[u]) : plist[u][i] = node[t]
    BY <1>1, <1>2, <1>3 DEF UsedInv
  <2> QED BY <2>1, <1>1, <1>2, <1>3
<1> QED
  BY <1>2, <1>3 DEF UsedInv

\* A step that touches neither nodes nor announcements: registering and the call of
\* a scan.
LEMMA QuietInv ==
    ASSUME IInv, TypeOK', RecordsInv', ThresholdInv', Growing,
           UNCHANGED <<hp, hsb, retired, scanVars, free, shared, node>>,
           \A u \in Threads :
              \/ pc'[u] = pc[u]
              \/ /\ pc[u] \in {"new", "push", "raise", "idle"}
                 /\ pc'[u] \in {"new", "push", "raise", "idle", "scan"}
    PROVE  IInv'
<1>1. ScanInv' /\ PlistFits'
  BY ScanKept DEF IInv
<1>2. NodesInv'
  BY NodesKept DEF IInv
<1>3. RetiredBounded'
  BY BoundKept DEF IInv
<1>4. AnnouncedInv'
  BY AnnouncedKept DEF IInv, Holding
<1>5. Fenced => UsedInv'
  BY UsedKept DEF IInv
<1> QED
  BY <1>1, <1>2, <1>3, <1>4, <1>5 DEF IInv

LEMMA SameRecords ==
    ASSUME UNCHANGED records, TypeOK
    PROVE  Growing
BY RecordType DEF Growing, N, Rec

-----------------------------------------------------------------------------
(* Registering.                                                            *)

LEMMA RegisterReadInv ==
    ASSUME IInv, NEW t \in Threads, RegisterRead(t)
    PROVE  IInv'
<1>1. TypeOK'
  BY DEF IInv, RegisterRead, TypeOK, HazardTypeOK, hazardVars, recordVars, scanVars, Goto, Labels
<1>2. SamePlaces
  BY DEF RegisterRead, Goto, SamePlaces, IInv, TypeOK
<1>3. RecordsInv' /\ ThresholdInv'
  BY <1>1, <1>2, RecordsKept DEF IInv, RegisterRead, hazardVars, recordVars
<1> QED
  BY <1>1, <1>3, SameRecords, QuietInv
     DEF RegisterRead, hazardVars, recordVars, Goto, IInv, TypeOK

LEMMA RegisterCASInv ==
    ASSUME IInv, NEW t \in Threads, RegisterCAS(t)
    PROVE  IInv'
<1>1. CASE records = list[t]
  <2>1. TypeOK' /\ RecordsInv' /\ ThresholdInv' /\ Growing
    BY <1>1, RegisterPushed DEF IInv, Growing
  <2> QED
    BY <1>1, <2>1, QuietInv DEF RegisterCAS, Goto, IInv, TypeOK
<1>2. CASE records # list[t]
  <2>1. pc[t] = "push" /\ pc' = [pc EXCEPT ![t] = "new"] /\ UNCHANGED <<recordVars, list>>
    BY <1>2 DEF RegisterCAS, Goto
  <2>2. TypeOK'
    BY <2>1 DEF IInv, RegisterCAS, TypeOK, HazardTypeOK, recordVars, scanVars, Labels
  <2>3. SamePlaces
    BY <2>1 DEF SamePlaces, IInv, TypeOK
  <2>4. RecordsInv' /\ ThresholdInv'
    BY <2>1, <2>2, <2>3, RecordsKept DEF IInv, recordVars
  <2> QED
    BY <2>1, <2>2, <2>4, SameRecords, QuietInv DEF RegisterCAS, recordVars, IInv, TypeOK
<1> QED
  BY <1>1, <1>2

LEMMA RegisterRaiseInv ==
    ASSUME IInv, NEW t \in Threads, RegisterRaise(t)
    PROVE  IInv'
<1>1. TypeOK' /\ RecordsInv' /\ ThresholdInv'
  BY RegisterRaised DEF IInv
<1> QED
  BY <1>1, SameRecords, QuietInv DEF RegisterRaise, Goto, IInv, TypeOK

-----------------------------------------------------------------------------
(* The client.                                                             *)

\* t announces n and holds it.
LEMMA AnnounceInv ==
    ASSUME IInv, NEW t \in Threads, NEW n \in Nodes \cup {NULL}, NEW label \in Members,
           pc[t] \in Members, label # "scan", pc[t] # "scan", label # "using",
           Announce(t, <<<<0, n>>>>), node' = [node EXCEPT ![t] = n],
           pc' = [pc EXCEPT ![t] = label], n # NULL <=> label \in Holding,
           UNCHANGED <<recordVars, hp, retired, scanVars, free, shared, list>>
    PROVE  IInv'
<1>1. hsb' = [hsb EXCEPT ![t] = hsb[t] \o <<<<0, n>>>>]
  BY DEF Announce
<1> DEFINE Store == (0 .. K - 1) \X (Nodes \cup {NULL})
<1>2. 0 \in 0 .. K - 1
  BY KAssumption
<1>3. hsb[t] \in Seq(Store)
  BY DEF IInv, TypeOK, HazardTypeOK
<1>4. /\ hsb'[t] \in Seq(Store) /\ hsb'[t] = hsb[t] \o <<<<0, n>>>>
      /\ Len(hsb'[t]) = Len(hsb[t]) + 1 /\ Len(hsb[t]) \in Nat
      /\ hsb'[t][Len(hsb[t]) + 1] = <<0, n>>
      /\ \A i \in 1 .. Len(hsb[t]) : hsb'[t][i] = hsb[t][i]
  <2>1. <<<<0, n>>>> \in Seq(Store) /\ Len(<<<<0, n>>>>) = 1
    BY <1>2
  <2>2. hsb'[t] = hsb[t] \o <<<<0, n>>>>
    BY <1>1 DEF IInv, TypeOK, HazardTypeOK
  <2> HIDE DEF Store
  <2> QED BY <1>3, <2>1, <2>2, ConcatProperties
<1>5. \A u \in Threads \ {t} : hsb'[u] = hsb[u] /\ node'[u] = node[u] /\ pc'[u] = pc[u]
  BY <1>1 DEF IInv, TypeOK, HazardTypeOK
<1>6. node'[t] = n /\ pc'[t] = label
  BY DEF IInv, TypeOK
<1>7. TypeOK'
  <2>1. hsb' \in [Threads -> Seq(Store)]
    BY <1>1, <1>4 DEF IInv, TypeOK, HazardTypeOK
  <2>2. pc' \in [Threads -> Labels] /\ node' \in [Threads -> Nodes \cup {NULL}]
    BY DEF IInv, TypeOK, Labels, Members
  <2> QED
    BY <2>1, <2>2 DEF IInv, TypeOK, HazardTypeOK, recordVars, scanVars
<1>8. SamePlaces
  BY <1>5, <1>6 DEF SamePlaces
<1>9. RecordsInv' /\ ThresholdInv' /\ Growing
  BY <1>7, <1>8, RecordsKept, SameRecords DEF IInv, recordVars
<1>10. ScanInv' /\ PlistFits'
  BY <1>5, <1>9, ScanKept DEF IInv
<1>11. NodesInv'
  BY <1>9, NodesKept DEF IInv
<1>12. RetiredBounded'
  BY <1>5, <1>6, <1>9, BoundKept DEF IInv, Members
<1>13. AnnouncedInv'
  <2>1. Latest(t)' = n
    BY <1>4, EmptySeq DEF Latest
  <2>2. \A i \in 1 .. Len(hsb'[t]) : hsb'[t][i][1] = 0
    <3>1. \A i \in 1 .. Len(hsb'[t]) : i \in 1 .. Len(hsb[t]) \/ i = Len(hsb[t]) + 1
      BY <1>4
    <3>2. \A i \in 1 .. Len(hsb[t]) : hsb'[t][i][1] = 0
      BY <1>4 DEF IInv, AnnouncedInv
    <3>3. hsb'[t][Len(hsb[t]) + 1][1] = 0
      BY <1>4
    <3> QED BY <3>1, <3>2, <3>3
  <2>3. \A u \in Threads \ {t} : Latest(u)' = Latest(u)
    BY <1>5 DEF Latest
  <2> QED
    BY <1>5, <1>6, <2>1, <2>2, <2>3 DEF IInv, AnnouncedInv, Holding, Members
<1>14. Fenced => UsedInv'
  BY <1>5, <1>6, UsedKept DEF IInv
<1> QED
  BY <1>7, <1>9, <1>10, <1>11, <1>12, <1>13, <1>14 DEF IInv

LEMMA GrabInv ==
    ASSUME IInv, NEW t \in Threads, Grab(t)
    PROVE  IInv'
<1>1. shared \in Nodes /\ shared # NULL
  BY NodesAssumption DEF IInv, TypeOK
<1> QED
  BY <1>1, AnnounceInv DEF Grab, Goto, Members, Holding

LEMMA ReleaseInv ==
    ASSUME IInv, NEW t \in Threads, Release(t)
    PROVE  IInv'
BY AnnounceInv DEF Release, Goto, Members, Holding

LEMMA CheckInv ==
    ASSUME IInv, NEW t \in Threads, Check(t)
    PROVE  IInv'
<1> DEFINE label == IF node[t] = shared THEN "using" ELSE "grab"
<1>1. pc[t] = "check" /\ BarrierPassed(t) /\ pc' = [pc EXCEPT ![t] = label]
      /\ UNCHANGED <<hazardVars, shared, node, list>>
  BY DEF Check, Goto
<1>2. UNCHANGED <<records, threshold, hp, hsb, retired, walk, max_pointers, plist, free, shared,
                  node, list>>
  BY <1>1 DEF hazardVars, recordVars, scanVars
<1>3. label \in {"using", "grab"} /\ pc'[t] = label /\ \A u \in Threads \ {t} : pc'[u] = pc[u]
  BY <1>1 DEF IInv, TypeOK
<1>4. TypeOK'
  BY <1>1, <1>2, <1>3 DEF IInv, TypeOK, HazardTypeOK, Labels
<1> HIDE DEF label
<1>5. SamePlaces
  BY <1>1, <1>2, <1>3 DEF SamePlaces, Members
<1>6. RecordsInv' /\ ThresholdInv' /\ Growing
  BY <1>2, <1>4, <1>5, RecordsKept, SameRecords DEF IInv
<1>7. ScanInv' /\ PlistFits'
  BY <1>1, <1>2, <1>3, <1>6, ScanKept DEF IInv, scanVars
<1>8. NodesInv'
  BY <1>2, <1>6, NodesKept DEF IInv
<1>9. RetiredBounded'
  BY <1>1, <1>2, <1>3, <1>6, BoundKept DEF IInv
<1>10. AnnouncedInv'
  BY <1>1, <1>2, <1>3, AnnouncedKept DEF IInv, Holding
<1>11. ASSUME Fenced PROVE UsedInv'
  <2>1. ASSUME NEW u \in Threads, pc'[u] = "using"
        PROVE  hsb'[u] = <<>> /\ node'[u] \notin free'
    <3>1. CASE u = t
      <4>1. node[t] = shared
        BY <2>1, <3>1, <1>3 DEF label
      <4>2. hsb[t] = <<>>
        BY <1>1, <1>11 DEF BarrierPassed, Drained
      <4> QED BY <3>1, <4>1, <4>2, <1>2 DEF IInv, NodesInv
    <3>2. CASE u # t
      BY <2>1, <3>2, <1>2, <1>3, <1>11 DEF IInv, UsedInv
    <3> QED BY <3>1, <3>2
  <2>2. ASSUME NEW u \in Threads, pc'[u] = "using", NEW w \in Threads,
               node'[u] \in retired'[w], walk'[w] # <<>> \/ max_pointers'[w] # 0
        PROVE  \/ \E i \in 1 .. Len(walk'[w]) : walk'[w][i] = <<u, 0>>
               \/ \E i \in 1 .. Len(plist'[w]) : plist'[w][i] = node'[u]
    <3>1. u # t
      <4>1. CASE u = t
        \* t uses `shared`, which nobody has retired
        <5>1. node[t] = shared
          BY <2>2, <4>1, <1>3 DEF label
        <5> QED BY <2>2, <4>1, <5>1, <1>2 DEF IInv, NodesInv
      <4> QED BY <4>1
    <3>2. pc[u] = "using" /\ node[u] \in retired[w] /\ (walk[w] # <<>> \/ max_pointers[w] # 0)
      BY <2>2, <3>1, <1>2, <1>3
    <3>3. \/ \E i \in 1 .. Len(walk[w]) : walk[w][i] = <<u, 0>>
          \/ \E i \in 1 .. Len(plist[w]) : plist[w][i] = node[u]
      BY <3>2, <1>11 DEF IInv, UsedInv
    <3> QED BY <3>3, <1>2
  <2> QED BY <2>1, <2>2 DEF UsedInv
<1> QED
  BY <1>4, <1>6, <1>7, <1>8, <1>9, <1>10, <1>11 DEF IInv

\* No threshold counts more records than there are.
LEMMA ThresholdBound ==
    ASSUME TypeOK, RecordsInv, ThresholdInv, Running, NEW d \in 1 .. N
    PROVE  threshold[Rec(d)] <= 2 * N * K /\ 2 * N * K \in Nat
<1>1. /\ d \in Nat /\ N \in Nat /\ Cardinality(Raised(d)) \in Nat
      /\ Cardinality(Raised(d)) <= N - d
  BY RecordType, RaisedType
<1>2. PICK c \in Nat : c = d + Cardinality(Raised(d)) /\ c <= N
  BY <1>1
<1>3. PICK r \in Nat : N = c + r
  <2>1. N - c \in Nat /\ N = c + (N - c)
    BY <1>1, <1>2
  <2> QED BY <2>1
<1>4. threshold[Rec(d)] = (2 * K) * c
  BY <1>2 DEF ThresholdInv
<1>5. 2 * N * K = (2 * K) * N /\ (2 * K) * c \in Nat /\ (2 * K) * N \in Nat
  BY <1>1, <1>2, Multiples
<1>6. 2 * K \in Nat
  BY RecordType
<1>7. \A x \in Nat : x * (c + r) = x * c + x * r /\ x * r \in Nat /\ x * c \in Nat
  BY <1>2, <1>3
<1>8. (2 * K) * N = (2 * K) * c + (2 * K) * r /\ (2 * K) * r \in Nat
  BY <1>3, <1>6, <1>7
<1> QED
  BY <1>4, <1>5, <1>8

LEMMA ReplaceInv ==
    ASSUME IInv, NEW t \in Threads, NEW n \in Nodes, Replace(t, n)
    PROVE  IInv'
<1> DEFINE label == IF MustScan(t) THEN "scan" ELSE "idle"
<1>1. /\ pc[t] = "idle" /\ n \in free
      /\ free' = free \ {n} /\ shared' = n
      /\ retired' = [retired EXCEPT ![t] = retired[t] \cup {shared}]
      /\ pc' = [pc EXCEPT ![t] = label]
      /\ UNCHANGED <<recordVars, hp, hsb, scanVars, node, list>>
  BY DEF Replace, RetireNode, Goto
<1>2. UNCHANGED <<records, threshold, walk, max_pointers, plist>>
  BY <1>1 DEF recordVars, scanVars
<1>3. /\ label \in {"scan", "idle"} /\ pc'[t] = label
      /\ \A u \in Threads \ {t} : pc'[u] = pc[u] /\ retired'[u] = retired[u]
      /\ retired'[t] = retired[t] \cup {shared}
  BY <1>1 DEF IInv, TypeOK, HazardTypeOK
<1>4. TypeOK'
  BY <1>1, <1>2, <1>3 DEF IInv, TypeOK, HazardTypeOK, Labels
<1>5. label = "idle" => ~MustScan(t)
  OBVIOUS
<1> HIDE DEF label
<1>6. SamePlaces
  BY <1>1, <1>3 DEF SamePlaces, Members
<1>7. RecordsInv' /\ ThresholdInv' /\ Growing
  BY <1>2, <1>4, <1>6, RecordsKept, SameRecords DEF IInv
<1>8. ScanInv' /\ PlistFits'
  BY <1>1, <1>3, <1>7, ScanKept DEF IInv
<1>9. Running
  BY <1>1 DEF IInv, RecordsInv, Stopped
<1>10. PICK d \in 1 .. N : Rec(d) = t
  BY <1>1, <1>9 DEF IInv, RecordsInv
<1>11. N' = N /\ \A e : Rec(e)' = Rec(e)
  BY <1>2 DEF N, Rec
<1>12. shared \notin free /\ n # shared /\ shared \in Nodes
  BY <1>1 DEF IInv, NodesInv, TypeOK
<1>13. IsFiniteSet(retired'[t])
  BY <1>3, FS_AddElement DEF IInv, NodesInv
<1>14. NodesInv'
  <2>1. \A m \in Nodes : m \in free' \/ m = n \/ \E e \in 1 .. N : m \in retired'[Rec(e)]
    <3> SUFFICES ASSUME NEW m \in Nodes
                 PROVE  m \in free' \/ m = n \/ \E e \in 1 .. N : m \in retired'[Rec(e)]
      OBVIOUS
    <3>1. CASE m \in free
      BY <3>1, <1>1
    <3>2. CASE m = shared
      BY <3>2, <1>3, <1>10
    <3>3. ASSUME NEW e \in 1 .. N, m \in retired[Rec(e)]
          PROVE  m \in retired'[Rec(e)]
      BY <3>3, <1>3, RecordType DEF IInv
    <3> QED BY <3>1, <3>2, <3>3 DEF IInv, NodesInv
  <2>2. ASSUME NEW u \in Threads
        PROVE  /\ IsFiniteSet(retired'[u])
               /\ retired'[u] # {} => \E e \in 1 .. N : Rec(e) = u
               /\ n \notin retired'[u]
               /\ retired'[u] \cap free' = {}
               /\ \A w \in Threads \ {u} : retired'[u] \cap retired'[w] = {}
    <3>1. CASE u = t
      BY <3>1, <1>1, <1>3, <1>10, <1>12, <1>13 DEF IInv, NodesInv
    <3>2. CASE u # t
      BY <3>2, <1>1, <1>3, <1>12 DEF IInv, NodesInv
    <3> QED BY <3>1, <3>2
  <2>3. n \notin free'
    BY <1>1
  <2> QED
    BY <1>1, <1>11, <2>1, <2>2, <2>3 DEF NodesInv
<1>15. RetiredBounded'
  <2> SUFFICES ASSUME NEW u \in Threads, pc'[u] \notin {"scan", "stopped"}, retired'[u] # {}
               PROVE  Cardinality(retired'[u]) < 2 * Len(records) * K
    BY <1>2 DEF RetiredBounded
  <2>1. CASE u = t
    <3>1. ~MustScan(t)
      BY <2>1, <1>3, <1>5
    <3>2. threshold[t] <= 2 * N * K /\ 2 * N * K \in Nat
      BY <1>9, <1>10, ThresholdBound DEF IInv
    <3>3. Cardinality(retired'[t]) \in Nat /\ threshold[t] \in Nat
      BY <1>13, FS_CardinalityType DEF IInv, TypeOK, HazardTypeOK
    <3> QED BY <2>1, <3>1, <3>2, <3>3 DEF MustScan, N
  <2>2. CASE u # t
    BY <2>2, <1>3 DEF IInv, RetiredBounded
  <2> QED BY <2>1, <2>2
<1>16. AnnouncedInv'
  BY <1>1, <1>3, AnnouncedKept DEF IInv, Holding
<1>17. ASSUME Fenced PROVE UsedInv'
  <2>1. ASSUME NEW u \in Threads, pc'[u] = "using"
        PROVE  /\ u # t /\ pc[u] = "using" /\ node'[u] = node[u]
               /\ hsb'[u] = <<>> /\ node'[u] \notin free'
    <3>1. u # t /\ pc[u] = "using"
      BY <2>1, <1>3
    <3> QED BY <3>1, <1>1, <1>17 DEF IInv, UsedInv
  <2>2. walk[t] = <<>> /\ max_pointers[t] = 0
    BY <1>1 DEF IInv, ScanInv
  <2>3. ASSUME NEW u \in Threads, pc'[u] = "using", NEW w \in Threads,
               node'[u] \in retired'[w], walk'[w] # <<>> \/ max_pointers'[w] # 0
        PROVE  \/ \E i \in 1 .. Len(walk'[w]) : walk'[w][i] = <<u, 0>>
               \/ \E i \in 1 .. Len(plist'[w]) : plist'[w][i] = node'[u]
    <3>1. w # t /\ node[u] \in retired[w]
      BY <1>2, <1>3, <2>1, <2>2, <2>3
    <3>2. \/ \E i \in 1 .. Len(walk[w]) : walk[w][i] = <<u, 0>>
          \/ \E i \in 1 .. Len(plist[w]) : plist[w][i] = node[u]
      BY <3>1, <1>2, <2>1, <2>3, <1>17 DEF IInv, UsedInv
    <3> QED BY <3>2, <1>2, <2>1, <2>3
  <2> QED BY <2>1, <2>3 DEF UsedInv
<1> QED
  BY <1>4, <1>7, <1>8, <1>14, <1>15, <1>16, <1>17 DEF IInv

LEMMA ScanCallInv ==
    ASSUME IInv, NEW t \in Threads, ScanCall(t)
    PROVE  IInv'
<1>1. /\ pc[t] = "idle" /\ pc' = [pc EXCEPT ![t] = "scan"]
      /\ UNCHANGED <<records, threshold, hp, hsb, retired, scanVars, free, shared, node, list>>
  BY DEF ScanCall, Goto, hazardVars, recordVars
<1>2. TypeOK'
  BY <1>1 DEF IInv, TypeOK, HazardTypeOK, Labels, scanVars
<1>3. SamePlaces
  BY <1>1 DEF SamePlaces, Members, IInv, TypeOK
<1>4. RecordsInv' /\ ThresholdInv' /\ Growing
  BY <1>1, <1>2, <1>3, RecordsKept, SameRecords DEF IInv
<1> QED
  BY <1>1, <1>2, <1>4, QuietInv DEF IInv, TypeOK

-----------------------------------------------------------------------------
(* A scan.                                                                 *)

\* A set of places in a sequence has a greatest one.
LEMMA Greatest ==
    ASSUME NEW m \in Nat, NEW S \in SUBSET (1 .. m), S # {}
    PROVE  \E i \in S : \A j \in S : j <= i
<1> DEFINE D == {m - i : i \in S}
<1>1. D \in SUBSET Nat /\ D # {}
  <2>1. \A i \in S : m - i \in Nat /\ m - i \in D
    OBVIOUS
  <2> QED BY <2>1
<1>2. PICK e \in D : \A f \in D : e <= f
  <2> HIDE DEF D
  <2> QED BY <1>1, LeastNat
<1>3. PICK i \in S : e = m - i
  OBVIOUS
<1>4. ASSUME NEW j \in S PROVE j <= i
  <2>1. m - j \in D /\ e <= m - j
    BY <1>2
  <2>2. i \in Int /\ j \in Int
    OBVIOUS
  <2> HIDE DEF D
  <2> QED BY <1>3, <2>1, <2>2
<1> QED
  BY <1>4

LEMMA SeenType ==
    ASSUME HazardTypeOK, NEW t \in Threads, NEW owner \in Threads, NEW k \in 0 .. K - 1
    PROVE  /\ HazardSeen(t, owner, k) \in Nodes \cup {NULL}
           /\ owner # t => HazardSeen(t, owner, k) = hp[owner][k]
<1> DEFINE pending == {i \in 1 .. Len(hsb[t]) : hsb[t][i][1] = k}
           latest == CHOOSE i \in pending : \A j \in pending : j <= i
<1>1. HazardSeen(t, owner, k) =
          IF owner = t /\ pending # {} THEN hsb[t][latest][2] ELSE hp[owner][k]
  BY DEF HazardSeen
<1>2. hsb[t] \in Seq((0 .. K - 1) \X (Nodes \cup {NULL})) /\ Len(hsb[t]) \in Nat
  <2>1. hsb \in [Threads -> Seq((0 .. K - 1) \X (Nodes \cup {NULL}))]
    BY DEF HazardTypeOK
  <2>2. hsb[t] \in Seq((0 .. K - 1) \X (Nodes \cup {NULL}))
    BY <2>1
  <2> QED BY <2>2
<1>3. pending # {} => latest \in 1 .. Len(hsb[t])
  <2> SUFFICES ASSUME pending # {} PROVE latest \in pending
    OBVIOUS
  <2>1. pending \in SUBSET (1 .. Len(hsb[t]))
    OBVIOUS
  <2>2. \E i \in pending : \A j \in pending : j <= i
    <3> HIDE DEF pending
    <3> QED BY <1>2, <2>1, Greatest
  <2> HIDE DEF pending
  <2> QED BY <2>2
<1> HIDE DEF pending, latest
<1>4. pending # {} => hsb[t][latest][2] \in Nodes \cup {NULL}
  <2>1. \A i \in 1 .. Len(hsb[t]) : hsb[t][i] \in (0 .. K - 1) \X (Nodes \cup {NULL})
    BY <1>2
  <2> QED BY <1>3, <2>1
<1>5. hp[owner][k] \in Nodes \cup {NULL}
  <2>1. hp[owner] \in [0 .. K - 1 -> Nodes \cup {NULL}]
    BY DEF HazardTypeOK
  <2> QED BY <2>1
<1> QED
  BY <1>1, <1>4, <1>5

\* Place q * K + 1 is the first hazard pointer of the q-th record from the head.
LEMMA FirstPointer ==
    ASSUME NEW M \in Nat, NEW q \in Nat, q < M
    PROVE  /\ q * K \in Nat /\ q * K + 1 \in 1 .. M * K
           /\ (q * K) \div K = q /\ (q * K) % K = 0
<1>1. K \in Nat \ {0}
  BY KAssumption
<1>2. q * K \in Nat /\ q * K = K * q /\ M * K \in Nat /\ M * K = K * M
  BY <1>1
<1>3. PICK a \in Nat : a = q * K
  BY <1>2
<1>4. a \div K \in Int /\ a % K \in 0 .. K - 1 /\ a = K * (a \div K) + (a % K)
  BY <1>1, DivMod
<1>5. a % K = 0
  <2>1. 0 \in 0 .. K - 1 /\ K * q + 0 = K * (a \div K) + (a % K) /\ q \in Int
    BY <1>1, <1>2, <1>3, <1>4
  <2> QED BY <1>1, <1>4, <2>1, DivModUnique
<1>6. a \div K = q
  <2>1. PICK p \in Int : p = a \div K
    BY <1>4
  <2>2. K * (p - q) = 0
    <3>1. K * (p - q) = K * p - K * q
      BY <1>1, TimesMinus
    <3>2. a = K * p + 0
      BY <1>4, <1>5, <2>1
    <3>3. a = K * q /\ K * p \in Int
      BY <1>1, <1>2, <1>3
    <3> QED BY <1>3, <3>1, <3>2, <3>3
  <2>3. ~(p - q >= 1) /\ ~(p - q <= -1)
    BY <1>1, <2>2, MultipleGap
  <2> QED BY <2>1, <2>3
<1>7. a + 1 <= M * K
  <2>1. K * (M - q) = K * M - K * q
    BY <1>1, TimesMinus
  <2>2. M - q >= 1 /\ M - q \in Int
    OBVIOUS
  <2>3. K * (M - q) >= K
    BY <1>1, <2>2, MultipleGap
  <2> QED BY <1>1, <1>2, <1>3, <2>1, <2>3
<1> QED
  BY <1>2, <1>3, <1>5, <1>6, <1>7

LEMMA WalkType ==
    ASSUME TypeOK, NEW M \in 1 .. N
    PROVE  /\ WalkOf(M) \in Seq(Threads \X (0 .. K - 1))
           /\ Len(WalkOf(M)) = M * K /\ M * K \in Nat
           /\ WalkOf(M) # <<>> /\ WalkOf(M)[1][1] = Rec(M)
           /\ \A d \in 1 .. M : \E i \in 1 .. M * K : WalkOf(M)[i] = <<Rec(d), 0>>
<1>1. M \in Nat /\ N \in Nat /\ K \in Nat \ {0} /\ M * K \in Nat
  <2>1. M \in Nat /\ N \in Nat /\ K \in Nat \ {0}
    BY RecordType
  <2> QED BY <2>1
<1>2. ASSUME NEW i \in 1 .. M * K
      PROVE  WalkOf(M)[i] \in Threads \X (0 .. K - 1)
  <2>1. PICK a \in Nat : a = i - 1 /\ a < M * K
    BY <1>1
  <2>2. a \div K \in Nat /\ a \div K < M /\ a % K \in 0 .. K - 1
    BY <1>1, <2>1, Quotient, DivMod
  <2>3. M - (a \div K) \in 1 .. N
    BY <1>1, <2>2
  <2>4. Rec(M - (a \div K)) \in Threads
    BY <2>3, RecordType
  <2>5. WalkOf(M)[i] = <<Rec(M - (a \div K)), a % K>>
    BY <2>1 DEF WalkOf
  <2> QED BY <2>2, <2>4, <2>5
<1>3. WalkOf(M) \in Seq(Threads \X (0 .. K - 1)) /\ Len(WalkOf(M)) = M * K
  <2>1. DOMAIN WalkOf(M) = 1 .. M * K
    BY DEF WalkOf
  <2>2. WalkOf(M) \in [1 .. M * K -> Threads \X (0 .. K - 1)]
    BY <1>2, <2>1 DEF WalkOf
  <2> QED BY <1>1, <2>1, <2>2
<1>4. ASSUME NEW d \in 1 .. M PROVE \E i \in 1 .. M * K : WalkOf(M)[i] = <<Rec(d), 0>>
  <2>1. PICK q \in Nat : q = M - d /\ q < M /\ M - q = d
    BY <1>1
  <2>2. /\ q * K + 1 \in 1 .. M * K /\ (q * K) \div K = q /\ (q * K) % K = 0
        /\ q * K \in Nat
    BY <1>1, <2>1, FirstPointer
  <2>3. PICK i \in 1 .. M * K : i = q * K + 1 /\ i - 1 = q * K
    BY <2>2
  <2>4. WalkOf(M)[i] = <<Rec(M - ((i - 1) \div K)), (i - 1) % K>>
    BY DEF WalkOf
  <2> QED BY <2>1, <2>2, <2>3, <2>4
<1>5. WalkOf(M) # <<>> /\ WalkOf(M)[1][1] = Rec(M)
  <2>1. /\ 0 * K + 1 \in 1 .. M * K /\ (0 * K) \div K = 0
        /\ 0 * K = 0
    BY <1>1, FirstPointer
  <2>2. 1 \in 1 .. M * K /\ (1 - 1) \div K = 0 /\ M - 0 = M
    BY <2>1, <1>1
  <2>3. WalkOf(M)[1] = <<Rec(M - ((1 - 1) \div K)), (1 - 1) % K>>
    BY <2>2 DEF WalkOf
  <2>4. Len(WalkOf(M)) # 0
    BY <2>2, <1>1, <1>3
  <2> QED BY <2>2, <2>3, <2>4, <1>3
<1> QED
  BY <1>1, <1>3, <1>4, <1>5

LEMMA WalkFromHead ==
    ASSUME TypeOK
    PROVE  PointersOf(records) = WalkOf(N)
<1>1. ASSUME NEW i \in 1 .. N * K
      PROVE  records[((i - 1) \div K) + 1] = Rec(N - ((i - 1) \div K))
  <2>1. N \in Nat /\ K \in Nat \ {0}
    BY RecordType
  <2>2. PICK a \in Nat : a = i - 1 /\ a < N * K
    BY <2>1
  <2>3. PICK q \in Nat : q = a \div K /\ q < N
    BY <2>1, <2>2, Quotient
  <2>4. N - (N - q) + 1 = q + 1
    BY <2>1
  <2>5. Rec(N - q) = records[q + 1]
    BY <2>4 DEF Rec
  <2> QED BY <2>2, <2>3, <2>5
<1> QED
  BY <1>1 DEF PointersOf, WalkOf, N

\* A scan of t that still reads `rest` and has collected `found` does not miss a
\* node in use.
Covers(t, rest, found) ==
    \A u \in Threads :
        pc[u] = "using" /\ node[u] \in retired[t] =>
            \/ \E i \in 1 .. Len(rest) : rest[i] = <<u, 0>>
            \/ \E i \in 1 .. Len(found) : found[i] = node[u]

LEMMA ScanUsed ==
    ASSUME UsedInv, NEW t \in Threads, UNCHANGED <<hsb, free, retired, pc, node>>,
           Covers(t, walk'[t], plist'[t]),
           \A u \in Threads \ {t} : /\ walk'[u] = walk[u] /\ plist'[u] = plist[u]
                                    /\ max_pointers'[u] = max_pointers[u]
    PROVE  UsedInv'
<1> SUFFICES ASSUME NEW u \in Threads, pc[u] = "using"
             PROVE  /\ hsb[u] = <<>> /\ node[u] \notin free
                    /\ \A v \in Threads :
                         node[u] \in retired[v] /\ (walk'[v] # <<>> \/ max_pointers'[v] # 0) =>
                            \/ \E i \in 1 .. Len(walk'[v]) : walk'[v][i] = <<u, 0>>
                            \/ \E i \in 1 .. Len(plist'[v]) : plist'[v][i] = node[u]
  BY DEF UsedInv
<1>1. hsb[u] = <<>> /\ node[u] \notin free
  BY DEF UsedInv
<1>2. ASSUME NEW v \in Threads, node[u] \in retired[v], walk'[v] # <<>> \/ max_pointers'[v] # 0
      PROVE  \/ \E i \in 1 .. Len(walk'[v]) : walk'[v][i] = <<u, 0>>
             \/ \E i \in 1 .. Len(plist'[v]) : plist'[v][i] = node[u]
  <2>1. CASE v = t
    BY <1>2, <2>1 DEF Covers
  <2>2. CASE v # t
    <3>1. walk[v] # <<>> \/ max_pointers[v] # 0
      BY <1>2, <2>2
    <3>2. \/ \E i \in 1 .. Len(walk[v]) : walk[v][i] = <<u, 0>>
          \/ \E i \in 1 .. Len(plist[v]) : plist[v][i] = node[u]
      BY <1>2, <3>1 DEF UsedInv
    <3> QED BY <3>2, <2>2
  <2> QED BY <2>1, <2>2
<1> QED
  BY <1>1, <1>2

\* A step of t's scan up to its last moves t's walk and its plist and nothing else,
\* to w and found, with room for m pointers.
ScanMoves(t, w, m, found) ==
    /\ walk' = [walk EXCEPT ![t] = w]
    /\ max_pointers' = [max_pointers EXCEPT ![t] = m]
    /\ plist' = [plist EXCEPT ![t] = found]
    /\ UNCHANGED <<records, threshold, hp, hsb, retired, free, shared, pc, node, list>>

LEMMA ScanStepInv ==
    ASSUME IInv, NEW t \in Threads, pc[t] = "scan",
           NEW w \in Seq(Threads \X (0 .. K - 1)), NEW m \in Nat, NEW found \in Seq(Nodes),
           ScanMoves(t, w, m, found),
           w # <<>> \/ m # 0,
           m = 0 => found = <<>> /\ \E M \in 1 .. N : w = WalkOf(M),
           Len(found) + Len(w) <= N * K,
           m # 0 => Len(found) + Len(w) <= m,
           Fenced => Covers(t, w, found)
    PROVE  IInv'
<1>0. /\ walk' = [walk EXCEPT ![t] = w] /\ max_pointers' = [max_pointers EXCEPT ![t] = m]
      /\ plist' = [plist EXCEPT ![t] = found]
      /\ UNCHANGED <<records, threshold, hp, hsb, retired, free, shared, pc, node, list>>
  BY DEF ScanMoves
<1>1. /\ walk'[t] = w /\ max_pointers'[t] = m /\ plist'[t] = found
      /\ \A u \in Threads \ {t} : /\ walk'[u] = walk[u] /\ plist'[u] = plist[u]
                                  /\ max_pointers'[u] = max_pointers[u]
  BY <1>0 DEF IInv, TypeOK, HazardTypeOK
<1>2. TypeOK'
  BY <1>0 DEF IInv, TypeOK, HazardTypeOK
<1>3. SamePlaces
  BY <1>0 DEF SamePlaces
<1>4. RecordsInv' /\ ThresholdInv' /\ Growing
  BY <1>0, <1>2, <1>3, RecordsKept, SameRecords DEF IInv
<1>5. N' = N /\ \A M : WalkOf(M)' = WalkOf(M)
  BY <1>0 DEF N, Rec, WalkOf
<1>6. ScanInv'
  <2> SUFFICES ASSUME NEW u \in Threads
               PROVE  /\ pc[u] # "scan" => walk'[u] = <<>>
                      /\ walk'[u] = <<>> /\ max_pointers'[u] = 0 => plist'[u] = <<>>
                      /\ pc[u] # "scan" => max_pointers'[u] = 0
                      /\ walk'[u] # <<>> /\ max_pointers'[u] = 0 =>
                            plist'[u] = <<>> /\ \E M \in 1 .. N : walk'[u] = WalkOf(M)
                      /\ pc[u] = "scan" => Len(plist'[u]) + Len(walk'[u]) <= N * K
    BY <1>0, <1>5 DEF ScanInv
  <2>1. CASE u = t
    BY <2>1, <1>1
  <2>2. CASE u # t
    BY <2>2, <1>1 DEF IInv, ScanInv
  <2> QED BY <2>1, <2>2
<1>7. PlistFits'
  <2> SUFFICES ASSUME NEW u \in Threads, max_pointers'[u] # 0
               PROVE  Len(plist'[u]) + Len(walk'[u]) <= max_pointers'[u]
    BY DEF PlistFits
  <2>1. CASE u = t
    BY <2>1, <1>1
  <2>2. CASE u # t
    BY <2>2, <1>1 DEF IInv, PlistFits
  <2> QED BY <2>1, <2>2
<1>8. NodesInv' /\ RetiredBounded'
  BY <1>0, <1>4, NodesKept, BoundKept DEF IInv
<1>9. AnnouncedInv'
  BY <1>0, AnnouncedKept DEF IInv
<1>10. Fenced => UsedInv'
  BY <1>0, <1>1, ScanUsed DEF IInv
<1> QED
  BY <1>2, <1>4, <1>6, <1>7, <1>8, <1>9, <1>10 DEF IInv

\* A thread that scans or uses a node has a record.
LEMMA HasRecord ==
    ASSUME RecordsInv, NEW t \in Threads, pc[t] \in Members
    PROVE  Running /\ \E d \in 1 .. N : Rec(d) = t
<1>1. Running
  BY DEF RecordsInv, Stopped, Members
<1> QED
  BY <1>1 DEF RecordsInv, Members

LEMMA ScanHeadInv ==
    ASSUME IInv, NEW t \in Threads, pc[t] = "scan", ScanHead(t),
           UNCHANGED <<pc, shared, node, list>>
    PROVE  IInv'
<1>1. /\ walk[t] = <<>> /\ max_pointers[t] = 0 /\ plist[t] = <<>>
      /\ walk' = [walk EXCEPT ![t] = WalkOf(N)]
      /\ UNCHANGED <<records, threshold, hp, hsb, retired, max_pointers, plist, free>>
  BY WalkFromHead DEF ScanHead, recordVars, IInv, ScanInv
<1>2. N \in 1 .. N
  BY HasRecord, RecordType DEF IInv, Members
<1>3. /\ WalkOf(N) \in Seq(Threads \X (0 .. K - 1)) /\ WalkOf(N) # <<>>
      /\ Len(WalkOf(N)) = N * K /\ N * K \in Nat
      /\ \A d \in 1 .. N : \E i \in 1 .. Len(WalkOf(N)) : WalkOf(N)[i] = <<Rec(d), 0>>
  BY <1>2, WalkType DEF IInv
<1>4. Covers(t, WalkOf(N), <<>>)
  <2>1. ASSUME NEW u \in Threads, pc[u] = "using"
        PROVE  \E i \in 1 .. Len(WalkOf(N)) : WalkOf(N)[i] = <<u, 0>>
    <3>1. \E d \in 1 .. N : Rec(d) = u
      BY <2>1, HasRecord DEF IInv, Members
    <3> QED BY <3>1, <1>3
  <2> QED BY <2>1 DEF Covers
<1>5. /\ max_pointers' = [max_pointers EXCEPT ![t] = 0]
      /\ plist' = [plist EXCEPT ![t] = <<>>]
  BY <1>1 DEF IInv, TypeOK, HazardTypeOK
<1>6. Len(<<>>) + Len(WalkOf(N)) <= N * K
  BY <1>3
<1>7. <<>> \in Seq(Nodes) /\ 0 \in Nat
  OBVIOUS
<1>8. ScanMoves(t, WalkOf(N), 0, <<>>)
  BY <1>1, <1>5 DEF ScanMoves
<1> HIDE DEF IInv
<1> QED
  BY <1>2, <1>3, <1>4, <1>6, <1>7, <1>8, ScanStepInv

LEMMA ScanAllocInv ==
    ASSUME IInv, NEW t \in Threads, pc[t] = "scan", ScanAlloc(t),
           UNCHANGED <<pc, shared, node, list>>
    PROVE  IInv'
<1> DEFINE m == threshold[walk[t][1][1]] \div 2
<1>1. /\ walk[t] # <<>> /\ max_pointers[t] = 0
      /\ max_pointers' = [max_pointers EXCEPT ![t] = m]
      /\ UNCHANGED <<records, threshold, hp, hsb, retired, walk, plist, free>>
  BY DEF ScanAlloc, recordVars
<1>2. plist[t] = <<>>
  BY <1>1 DEF IInv, ScanInv
<1>3. PICK M \in 1 .. N : walk[t] = WalkOf(M)
  BY <1>1 DEF IInv, ScanInv
<1>4. /\ Len(walk[t]) = M * K /\ M * K \in Nat /\ walk[t][1][1] = Rec(M)
      /\ walk[t] \in Seq(Threads \X (0 .. K - 1))
  BY <1>3, WalkType DEF IInv
<1>5. Running
  BY HasRecord DEF IInv, Members
<1>6. m \in Nat /\ Len(walk[t]) <= m
  <2>1. PICK c \in Nat : c = Cardinality(Raised(M))
    BY RaisedType DEF IInv
  <2>2. threshold[Rec(M)] = (2 * K) * (M + c)
    BY <1>5, <2>1 DEF IInv, ThresholdInv
  <2>3. M \in Nat
    BY RecordType DEF IInv
  <2>4. /\ ((2 * K) * (M + c)) \div 2 = K * M + K * c /\ K * M = M * K
        /\ K * c \in Nat
    BY <2>1, <2>3, Multiples
  <2>5. m = K * M + K * c
    BY <1>4, <2>2, <2>4
  <2> HIDE DEF m
  <2>6. PICK a \in Nat, b \in Nat : a = M * K /\ b = K * c
    BY <1>4, <2>4
  <2>7. m = a + b
    BY <2>4, <2>5, <2>6
  <2> QED BY <1>4, <2>6, <2>7
<1> HIDE DEF m
<1>7. /\ walk' = [walk EXCEPT ![t] = walk[t]]
      /\ plist' = [plist EXCEPT ![t] = plist[t]]
  BY <1>1 DEF IInv, TypeOK, HazardTypeOK
<1>8. Len(walk[t]) <= N * K
  <2>1. Len(plist[t]) + Len(walk[t]) <= N * K
    BY DEF IInv, ScanInv
  <2> QED BY <1>2, <1>4, <2>1
<1>9. Fenced => Covers(t, walk[t], plist[t])
  BY <1>1 DEF IInv, UsedInv, Covers
<1>10. plist[t] \in Seq(Nodes) /\ Len(plist[t]) + Len(walk[t]) = Len(walk[t])
  BY <1>2, <1>4
<1>11. ScanMoves(t, walk[t], m, plist[t])
  BY <1>1, <1>7 DEF ScanMoves
<1> HIDE DEF IInv
<1> QED
  BY <1>1, <1>2, <1>3, <1>4, <1>6, <1>8, <1>9, <1>10, <1>11, ScanStepInv

LEMMA ScanReadInv ==
    ASSUME IInv, NEW t \in Threads, pc[t] = "scan", ScanRead(t),
           UNCHANGED <<pc, shared, node, list>>
    PROVE  IInv'
<1> DEFINE p == walk[t][1]
           h == HazardSeen(t, p[1], p[2])
           found == IF h = NULL THEN plist[t] ELSE Append(plist[t], h)
<1>1. /\ walk[t] # <<>> /\ max_pointers[t] # 0
      /\ plist' = [plist EXCEPT ![t] = found]
      /\ walk' = [walk EXCEPT ![t] = Tail(walk[t])]
      /\ UNCHANGED <<records, threshold, hp, hsb, retired, max_pointers, free>>
  BY DEF ScanRead, recordVars
<1>2. /\ walk[t] \in Seq(Threads \X (0 .. K - 1)) /\ plist[t] \in Seq(Nodes)
      /\ max_pointers[t] \in Nat
  BY DEF IInv, TypeOK, HazardTypeOK
<1>3. /\ Tail(walk[t]) \in Seq(Threads \X (0 .. K - 1))
      /\ Len(Tail(walk[t])) = Len(walk[t]) - 1 /\ Len(walk[t]) \in Nat
      /\ \A i \in 1 .. Len(Tail(walk[t])) : Tail(walk[t])[i] = walk[t][i + 1]
      /\ p \in Threads \X (0 .. K - 1)
  <2>1. Head(walk[t]) = walk[t][1] /\ Head(walk[t]) \in Threads \X (0 .. K - 1)
    BY <1>1, <1>2
  <2> QED BY <1>1, <1>2, <2>1, HeadTailProperties
<1>4. /\ h \in Nodes \cup {NULL}
      /\ p[1] # t => h = hp[p[1]][p[2]]
  <2>1. p[1] \in Threads /\ p[2] \in 0 .. K - 1
    BY <1>3
  <2> HIDE DEF p
  <2> QED BY <2>1, SeenType DEF IInv, TypeOK
<1> HIDE DEF h
<1>5. /\ found \in Seq(Nodes) /\ Len(found) <= Len(plist[t]) + 1 /\ Len(found) \in Nat
      /\ \A i \in 1 .. Len(plist[t]) : found[i] = plist[t][i] /\ i \in 1 .. Len(found)
      /\ h # NULL => \E i \in 1 .. Len(found) : found[i] = h
  <2>1. CASE h = NULL
    BY <2>1, <1>2
  <2>2. CASE h # NULL
    <3>1. h \in Nodes
      BY <2>2, <1>4
    <3>2. /\ Append(plist[t], h) \in Seq(Nodes) /\ Len(Append(plist[t], h)) = Len(plist[t]) + 1
          /\ \A i \in 1 .. Len(plist[t]) : Append(plist[t], h)[i] = plist[t][i]
          /\ Append(plist[t], h)[Len(plist[t]) + 1] = h
      BY <3>1, <1>2, AppendProperties
    <3>3. found = Append(plist[t], h)
      BY <2>2
    <3>4. Len(plist[t]) \in Nat
      BY <1>2
    <3> HIDE DEF found
    <3> QED BY <3>2, <3>3, <3>4
  <2> QED BY <2>1, <2>2
<1> HIDE DEF found
<1>6. PICK a \in Nat, b \in Nat, c \in Nat, e \in Nat :
          /\ a = Len(found) /\ b = Len(Tail(walk[t])) /\ c = Len(plist[t])
          /\ e = Len(walk[t]) /\ b = e - 1 /\ a <= c + 1
  <2>1. Len(Tail(walk[t])) \in Nat /\ Len(plist[t]) \in Nat
    BY <1>2, <1>3
  <2> QED BY <1>3, <1>5, <2>1
<1>7. a + b <= c + e
  <2>1. b = e - 1 /\ a <= c + 1
    BY <1>6
  <2> QED BY <2>1
<1>8. Len(found) + Len(Tail(walk[t])) <= max_pointers[t]
  <2>1. c + e <= max_pointers[t]
    BY <1>1, <1>6 DEF IInv, PlistFits
  <2>2. a + b <= max_pointers[t]
    BY <1>2, <1>7, <2>1
  <2>3. a = Len(found) /\ b = Len(Tail(walk[t]))
    BY <1>6
  <2> QED BY <2>2, <2>3
<1>9. Len(found) + Len(Tail(walk[t])) <= N * K
  <2>1. c + e <= N * K
    BY <1>6 DEF IInv, ScanInv
  <2>2. PICK f \in Nat : f = N * K
    BY SameRecords, ProductGrows, <1>1 DEF IInv
  <2>3. c + e <= f
    BY <2>1, <2>2
  <2>4. a + b <= f
    BY <1>7, <2>3
  <2>5. a = Len(found) /\ b = Len(Tail(walk[t]))
    BY <1>6
  <2> QED BY <2>2, <2>4, <2>5
<1>10. ASSUME Fenced, NEW u \in Threads, pc[u] = "using", node[u] \in retired[t]
       PROVE  \/ \E i \in 1 .. Len(Tail(walk[t])) : Tail(walk[t])[i] = <<u, 0>>
              \/ \E i \in 1 .. Len(found) : found[i] = node[u]
  <2>1. CASE \E i \in 1 .. Len(plist[t]) : plist[t][i] = node[u]
    BY <2>1, <1>5
  <2>2. ASSUME NEW i \in 1 .. Len(walk[t]), walk[t][i] = <<u, 0>>
        PROVE  \/ \E j \in 1 .. Len(Tail(walk[t])) : Tail(walk[t])[j] = <<u, 0>>
               \/ \E j \in 1 .. Len(found) : found[j] = node[u]
    <3>1. CASE i = 1
      <4>1. p = <<u, 0>> /\ u # t
        BY <2>2, <3>1, <1>10
      <4>2. h = hp[u][0]
        BY <4>1, <1>4
      <4>3. hsb[u] = <<>> /\ Latest(u) = node[u] /\ node[u] # NULL
        BY <1>10 DEF IInv, UsedInv, AnnouncedInv
      <4>4. h = node[u]
        BY <4>2, <4>3 DEF Latest
      <4> QED BY <4>3, <4>4, <1>5
    <3>2. CASE i # 1
      <4>1. i - 1 \in 1 .. Len(Tail(walk[t])) /\ (i - 1) + 1 = i
        BY <3>2, <1>3
      <4>2. Tail(walk[t])[i - 1] = walk[t][i]
        BY <4>1, <1>3
      <4> QED BY <4>1, <4>2, <2>2
    <3> QED BY <3>1, <3>2
  <2> QED
    BY <1>1, <1>10, <2>1, <2>2 DEF IInv, UsedInv
<1>11. Fenced => Covers(t, Tail(walk[t]), found)
  BY <1>10 DEF Covers
<1>12. max_pointers' = [max_pointers EXCEPT ![t] = max_pointers[t]]
  BY <1>1 DEF IInv, TypeOK, HazardTypeOK
<1>13. ScanMoves(t, Tail(walk[t]), max_pointers[t], found)
  BY <1>1, <1>12 DEF ScanMoves
<1> HIDE DEF IInv
<1> QED
  BY <1>1, <1>2, <1>3, <1>5, <1>8, <1>9, <1>11, <1>13, ScanStepInv

\* No more nodes are found hazardous than pointers were collected.
LEMMA CollectedBound ==
    ASSUME NEW found \in Seq(Nodes), NEW S, S \subseteq {found[i] : i \in 1 .. Len(found)}
    PROVE  IsFiniteSet(S) /\ Cardinality(S) \in Nat /\ Cardinality(S) <= Len(found)
<1> DEFINE T == {found[i] : i \in 1 .. Len(found)}
           P == 1 .. Len(found)
<1>1. IsFiniteSet(P) /\ Cardinality(P) = Len(found) /\ Len(found) \in Nat
  <2>1. Len(found) \in Nat
    OBVIOUS
  <2>2. /\ IsFiniteSet(1 .. Len(found))
        /\ Cardinality(1 .. Len(found)) = IF 1 > Len(found) THEN 0 ELSE Len(found) - 1 + 1
    BY <2>1, FS_Interval
  <2>3. PICK n \in Nat : n = Len(found)
    BY <2>1
  <2>4. (IF 1 > n THEN 0 ELSE n - 1 + 1) = n
    OBVIOUS
  <2> QED BY <2>2, <2>3, <2>4
<1>2. \E f : f \in Surjection(P, T)
  <2> DEFINE f == [i \in P |-> found[i]]
  <2>1. f \in [P -> T] /\ \A x \in T : \E i \in P : f[i] = x
    OBVIOUS
  <2>2. f \in Surjection(P, T)
    <3> HIDE DEF f, T, P
    <3> QED BY <2>1 DEF Surjection
  <2> QED BY <2>2
<1>3. S \in SUBSET T
  OBVIOUS
<1> HIDE DEF T, P
<1>4. IsFiniteSet(T) /\ Cardinality(T) <= Cardinality(P)
  BY <1>1, <1>2, FS_Surjection
<1>5. IsFiniteSet(S) /\ Cardinality(S) <= Cardinality(T)
  BY <1>3, <1>4, FS_Subset
<1>6. Cardinality(S) \in Nat /\ Cardinality(T) \in Nat
  BY <1>4, <1>5, FS_CardinalityType
<1> QED
  BY <1>1, <1>4, <1>5, <1>6

LEMMA ScanReclaimInv ==
    ASSUME IInv, NEW t \in Threads, pc[t] = "scan", ScanReclaim(t), Goto(t, "idle"),
           UNCHANGED <<shared, node, list>>
    PROVE  IInv'
<1> DEFINE kept == {n \in retired[t] : Hazardous(plist[t], n)}
           given == {n \in retired[t] : ~Hazardous(plist[t], n)}
<1>1. /\ walk[t] = <<>> /\ max_pointers[t] # 0
      /\ free' = free \cup given /\ retired' = [retired EXCEPT ![t] = kept]
      /\ max_pointers' = [max_pointers EXCEPT ![t] = 0]
      /\ plist' = [plist EXCEPT ![t] = <<>>]
      /\ pc' = [pc EXCEPT ![t] = "idle"]
      /\ UNCHANGED <<records, threshold, hp, hsb, walk, shared, node, list>>
  BY DEF ScanReclaim, Goto, recordVars
<1>2. /\ plist[t] \in Seq(Nodes) /\ retired[t] \in SUBSET Nodes
  BY DEF IInv, TypeOK, HazardTypeOK
<1>3. \A n \in retired[t] : Hazardous(plist[t], n) <=> \E i \in 1 .. Len(plist[t]) : plist[t][i] = n
  BY <1>2, HazardousIsMembership
<1>4. kept \subseteq retired[t] /\ given \subseteq retired[t] /\ kept \cap given = {}
      /\ retired[t] \subseteq kept \cup given
  OBVIOUS
<1>5. kept \subseteq {plist[t][i] : i \in 1 .. Len(plist[t])}
  BY <1>3
<1>6. \A n \in given : ~ \E i \in 1 .. Len(plist[t]) : plist[t][i] = n
  BY <1>3
<1> HIDE DEF kept, given
<1>7. /\ pc'[t] = "idle" /\ plist'[t] = <<>> /\ max_pointers'[t] = 0 /\ walk'[t] = <<>>
      /\ retired'[t] = kept
      /\ \A u \in Threads \ {t} : /\ pc'[u] = pc[u] /\ plist'[u] = plist[u]
                                  /\ walk'[u] = walk[u]
                                  /\ max_pointers'[u] = max_pointers[u]
                                  /\ retired'[u] = retired[u]
  BY <1>1 DEF IInv, TypeOK, HazardTypeOK
<1>8. TypeOK'
  <2>1. retired' \in [Threads -> SUBSET Nodes] /\ free' \subseteq Nodes
    BY <1>1, <1>2, <1>4 DEF IInv, TypeOK, HazardTypeOK
  <2>2. plist' \in [Threads -> Seq(Nodes)] /\ max_pointers' \in [Threads -> Nat]
    BY <1>1 DEF IInv, TypeOK, HazardTypeOK
  <2>3. pc' \in [Threads -> Labels]
    BY <1>1 DEF IInv, TypeOK, Labels
  <2> QED
    BY <1>1, <2>1, <2>2, <2>3 DEF IInv, TypeOK, HazardTypeOK
<1>9. SamePlaces
  BY <1>1, <1>7 DEF SamePlaces, Members
<1>10. RecordsInv' /\ ThresholdInv' /\ Growing
  BY <1>1, <1>8, <1>9, RecordsKept, SameRecords DEF IInv
<1>11. N' = N /\ (\A d : Rec(d)' = Rec(d)) /\ \A M : WalkOf(M)' = WalkOf(M)
  BY <1>1 DEF N, Rec, WalkOf
<1>12. N \in Nat /\ N # 0 /\ N * K \in Nat /\ N * K < 2 * Len(records) * K
  <2>1. N \in Nat /\ K \in Nat \ {0} /\ N # 0
    BY HasRecord, RecordType DEF IInv, Members
  <2>2. N * K \in Nat /\ 2 * N * K = 2 * (N * K) /\ N * K >= 1
    <3>1. \A x, y \in Nat \ {0} : x * y \in Nat /\ x * y >= 1 /\ 2 * x * y = 2 * (x * y)
      OBVIOUS
    <3> QED BY <2>1, <3>1
  <2>3. PICK a \in Nat : a = N * K
    BY <2>2
  <2>4. a < 2 * a
    BY <2>2, <2>3
  <2> QED BY <2>1, <2>2, <2>3, <2>4 DEF N
<1>13. ScanInv'
  <2> SUFFICES ASSUME NEW u \in Threads
               PROVE  /\ pc'[u] # "scan" => walk'[u] = <<>>
                      /\ walk'[u] = <<>> /\ max_pointers'[u] = 0 => plist'[u] = <<>>
                      /\ pc'[u] # "scan" => max_pointers'[u] = 0
                      /\ walk'[u] # <<>> /\ max_pointers'[u] = 0 =>
                            plist'[u] = <<>> /\ \E M \in 1 .. N : walk'[u] = WalkOf(M)
                      /\ pc'[u] = "scan" => Len(plist'[u]) + Len(walk'[u]) <= N * K
    BY <1>11 DEF ScanInv
  <2>1. CASE u = t
    BY <2>1, <1>7
  <2>2. CASE u # t
    BY <2>2, <1>7 DEF IInv, ScanInv
  <2> QED BY <2>1, <2>2
<1>14. PlistFits'
  BY <1>7 DEF IInv, PlistFits
<1>15. NodesInv'
  <2>1. shared \notin free'
    BY <1>1, <1>4 DEF IInv, NodesInv
  <2>2. ASSUME NEW n \in Nodes
        PROVE  n \in free' \/ n = shared \/ \E d \in 1 .. N : n \in retired'[Rec(d)]
    <3>1. ASSUME NEW d \in 1 .. N, n \in retired[Rec(d)]
          PROVE  n \in free' \/ n \in retired'[Rec(d)]
      <4>1. Rec(d) \in Threads
        BY RecordType DEF IInv
      <4> QED BY <3>1, <4>1, <1>1, <1>4, <1>7
    <3> QED BY <3>1, <1>1 DEF IInv, NodesInv
  <2>3. ASSUME NEW u \in Threads
        PROVE  /\ IsFiniteSet(retired'[u])
               /\ retired'[u] # {} => \E d \in 1 .. N : Rec(d) = u
               /\ shared \notin retired'[u]
               /\ retired'[u] \cap free' = {}
               /\ \A v \in Threads \ {u} : retired'[u] \cap retired'[v] = {}
    <3>1. IsFiniteSet(retired[u]) /\ retired'[u] \subseteq retired[u]
      BY <1>4, <1>7 DEF IInv, NodesInv
    <3>2. IsFiniteSet(retired'[u])
      BY <3>1, FS_Subset
    <3>3. CASE u = t
      BY <3>2, <3>3, <1>1, <1>4, <1>7 DEF IInv, NodesInv
    <3>4. CASE u # t
      BY <3>2, <3>4, <1>1, <1>4, <1>7 DEF IInv, NodesInv
    <3> QED BY <3>3, <3>4
  <2> QED
    BY <1>1, <1>11, <2>1, <2>2, <2>3 DEF NodesInv
<1>16. RetiredBounded'
  <2> SUFFICES ASSUME NEW u \in Threads, pc'[u] \notin {"scan", "stopped"}, retired'[u] # {}
               PROVE  Cardinality(retired'[u]) < 2 * Len(records) * K
    BY <1>1 DEF RetiredBounded
  <2>1. CASE u = t
    <3>1. Cardinality(kept) \in Nat /\ Cardinality(kept) <= Len(plist[t])
      BY <1>2, <1>5, CollectedBound
    <3>2. Len(plist[t]) + 0 <= N * K /\ Len(plist[t]) \in Nat
      <4>1. Len(walk[t]) = 0
        BY <1>1
      <4>2. Len(plist[t]) + Len(walk[t]) <= N * K
        BY DEF IInv, ScanInv
      <4> QED BY <4>1, <4>2, <1>2
    <3>3. PICK a \in Nat : a = N * K
      BY <1>12
    <3>4. Cardinality(kept) <= a
      BY <3>1, <3>2, <3>3
    <3>5. 2 * Len(records) * K \in Nat
      BY RecordType DEF IInv, N
    <3> QED BY <2>1, <3>1, <3>3, <3>4, <3>5, <1>7, <1>12
  <2>2. CASE u # t
    BY <2>2, <1>7 DEF IInv, RetiredBounded
  <2> QED BY <2>1, <2>2
<1>17. AnnouncedInv'
  BY <1>1, <1>7, AnnouncedKept DEF IInv, Holding
<1>18. ASSUME Fenced PROVE UsedInv'
  <2>0. hsb' = hsb /\ node' = node
    BY <1>1
  <2>1. ASSUME NEW u \in Threads, pc'[u] = "using"
        PROVE  /\ u # t /\ pc[u] = "using" /\ hsb[u] = <<>> /\ node[u] \notin free
               /\ hsb'[u] = hsb[u] /\ node'[u] = node[u]
    BY <2>0, <2>1, <1>7, <1>18 DEF IInv, UsedInv
  <2>2. ASSUME NEW u \in Threads, pc'[u] = "using" PROVE node[u] \notin given
    <3> SUFFICES ASSUME node[u] \in retired[t]
                 PROVE  \E i \in 1 .. Len(plist[t]) : plist[t][i] = node[u]
      BY <1>4, <1>6
    <3>1. \/ \E i \in 1 .. Len(walk[t]) : walk[t][i] = <<u, 0>>
          \/ \E i \in 1 .. Len(plist[t]) : plist[t][i] = node[u]
      BY <2>1, <2>2, <1>1, <1>18 DEF IInv, UsedInv
    <3>2. Len(walk[t]) = 0
      BY <1>1
    <3> QED BY <3>1, <3>2
  <2>3. ASSUME NEW u \in Threads, pc'[u] = "using"
        PROVE  hsb'[u] = <<>> /\ node'[u] \notin free'
    BY <2>1, <2>2, <2>3, <1>1
  <2>4. ASSUME NEW u \in Threads, pc'[u] = "using", NEW v \in Threads,
               node'[u] \in retired'[v], walk'[v] # <<>> \/ max_pointers'[v] # 0
        PROVE  \/ \E i \in 1 .. Len(walk'[v]) : walk'[v][i] = <<u, 0>>
               \/ \E i \in 1 .. Len(plist'[v]) : plist'[v][i] = node'[u]
    <3>1. v # t
      BY <2>4, <1>7
    <3>2. node[u] \in retired[v] /\ (walk[v] # <<>> \/ max_pointers[v] # 0)
      BY <2>1, <2>4, <3>1, <1>7
    <3>3. \/ \E i \in 1 .. Len(walk[v]) : walk[v][i] = <<u, 0>>
          \/ \E i \in 1 .. Len(plist[v]) : plist[v][i] = node[u]
      BY <2>1, <2>4, <3>2, <1>18 DEF IInv, UsedInv
    <3> QED BY <2>1, <2>4, <3>1, <3>3, <1>7
  <2> QED BY <2>3, <2>4 DEF UsedInv
<1> QED
  BY <1>8, <1>10, <1>13, <1>14, <1>15, <1>16, <1>17, <1>18 DEF IInv

LEMMA ScanActionInv ==
    ASSUME IInv, NEW t \in Threads, Scan(t)
    PROVE  IInv'
BY ScanHeadInv, ScanAllocInv, ScanReadInv, ScanReclaimInv DEF Scan

-----------------------------------------------------------------------------
(* The store buffer, and the end.                                          *)

LEMMA FlushInv ==
    ASSUME IInv, NEW t \in Threads, Flush(t)
    PROVE  IInv'
<1> DEFINE key == Head(hsb[t])[1]
           value == Head(hsb[t])[2]
           Store == (0 .. K - 1) \X (Nodes \cup {NULL})
<1>1. /\ hsb[t] # <<>>
      /\ hp' = [hp EXCEPT ![t] = [hp[t] EXCEPT ![key] = value]]
      /\ hsb' = [hsb EXCEPT ![t] = Tail(hsb[t])]
      /\ UNCHANGED <<records, threshold, retired, scanVars, free, shared, pc, node, list>>
  BY DEF Flush, FlushHazard, recordVars
<1>2. /\ hsb[t] \in Seq(Store) /\ hp[t] \in [0 .. K - 1 -> Nodes \cup {NULL}] /\ 0 \in 0 .. K - 1
  BY KAssumption DEF IInv, TypeOK, HazardTypeOK
<1>3. Head(hsb[t]) = hsb[t][1] /\ 1 \in 1 .. Len(hsb[t]) /\ hsb[t][1] \in Store
      /\ Len(hsb[t]) \in Nat /\ Len(hsb[t]) # 0
  <2> HIDE DEF Store
  <2> QED BY <1>1, <1>2, EmptySeq
<1>4. key = 0 /\ value = hsb[t][1][2] /\ value \in Nodes \cup {NULL}
  BY <1>3 DEF IInv, AnnouncedInv
<1> HIDE DEF key, value
<1>5. /\ Tail(hsb[t]) \in Seq(Store) /\ Len(Tail(hsb[t])) = Len(hsb[t]) - 1
      /\ \A i \in 1 .. Len(hsb[t]) - 1 : Tail(hsb[t])[i] = hsb[t][i + 1]
  <2> HIDE DEF Store
  <2> QED BY <1>1, <1>2, HeadTailProperties
<1>6. /\ hsb'[t] = Tail(hsb[t]) /\ hp'[t] = [hp[t] EXCEPT ![0] = value]
      /\ \A u \in Threads \ {t} : hsb'[u] = hsb[u] /\ hp'[u] = hp[u]
  BY <1>1, <1>4 DEF IInv, TypeOK, HazardTypeOK
<1>7. hp'[t] \in [0 .. K - 1 -> Nodes \cup {NULL}] /\ hp'[t][0] = value
      /\ \A k \in 1 .. K - 1 : hp'[t][k] = hp[t][k]
  <2>1. \A k \in 1 .. K - 1 : k \in 0 .. K - 1 /\ k # 0
    BY KAssumption
  <2> QED BY <2>1, <1>2, <1>4, <1>6
<1>8. TypeOK'
  <2>1. hsb' \in [Threads -> Seq(Store)]
    BY <1>1, <1>5 DEF IInv, TypeOK, HazardTypeOK
  <2>2. hp' \in [Threads -> [0 .. K - 1 -> Nodes \cup {NULL}]]
    <3>1. hp' = [hp EXCEPT ![t] = hp'[t]] /\ hp \in [Threads -> [0 .. K - 1 -> Nodes \cup {NULL}]]
      BY <1>1, <1>6, <1>4 DEF IInv, TypeOK, HazardTypeOK
    <3> QED BY <3>1, <1>7
  <2> QED
    BY <1>1, <2>1, <2>2 DEF IInv, TypeOK, HazardTypeOK, scanVars
<1>9. SamePlaces
  BY <1>1 DEF SamePlaces
<1>10. RecordsInv' /\ ThresholdInv' /\ Growing
  BY <1>1, <1>8, <1>9, RecordsKept, SameRecords DEF IInv
<1>11. ScanInv' /\ PlistFits' /\ NodesInv' /\ RetiredBounded'
  BY <1>1, <1>10, ScanKept, NodesKept, BoundKept DEF IInv
<1>12. AnnouncedInv'
  <2>1. Latest(t)' = Latest(t)
    <3>0. PICK n \in Nat : n = Len(hsb[t]) /\ n # 0
      BY <1>3
    <3>1. CASE Len(hsb[t]) = 1
      <4>1. Tail(hsb[t]) = <<>>
        <5>1. Len(Tail(hsb[t])) = 0
          BY <3>1, <1>5
        <5> HIDE DEF Store
        <5> QED BY <5>1, <1>5, EmptySeq
      <4>2. Latest(t)' = value
        BY <4>1, <1>6, <1>7 DEF Latest
      <4>3. Latest(t) = value
        BY <3>1, <1>1, <1>4 DEF Latest
      <4> QED BY <4>2, <4>3
    <3>2. CASE Len(hsb[t]) # 1
      <4>1. Len(Tail(hsb[t])) # 0 /\ Len(hsb[t]) - 1 \in 1 .. Len(hsb[t]) - 1
            /\ (Len(hsb[t]) - 1) + 1 = Len(hsb[t])
        <5>0. n # 0 /\ n # 1
          BY <3>0, <3>2
        <5>1. n - 1 # 0 /\ n - 1 \in 1 .. n - 1 /\ (n - 1) + 1 = n
          BY <5>0
        <5> QED BY <5>1, <3>0, <1>5
      <4>2. Tail(hsb[t]) # <<>>
        <5> HIDE DEF Store
        <5> QED BY <4>1, <1>5, EmptySeq
      <4>3. Tail(hsb[t])[Len(hsb[t]) - 1] = hsb[t][Len(hsb[t])]
        BY <4>1, <1>5
      <4>4. Latest(t)' = hsb[t][Len(hsb[t])][2]
        BY <4>2, <4>3, <1>5, <1>6 DEF Latest
      <4> QED BY <4>4, <1>1 DEF Latest
    <3> QED BY <3>1, <3>2
  <2>2. \A i \in 1 .. Len(hsb'[t]) : hsb'[t][i][1] = 0
    <3>1. ASSUME NEW i \in 1 .. Len(hsb[t]) - 1 PROVE Tail(hsb[t])[i][1] = 0
      <4>1. i + 1 \in 1 .. Len(hsb[t]) /\ Tail(hsb[t])[i] = hsb[t][i + 1]
        BY <1>3, <1>5
      <4> QED BY <4>1 DEF IInv, AnnouncedInv
    <3> QED BY <3>1, <1>5, <1>6
  <2>3. \A u \in Threads \ {t} : Latest(u)' = Latest(u)
    BY <1>6 DEF Latest
  <2>4. pc[t] # "stopped"
    BY <1>1 DEF IInv, AnnouncedInv
  <2>5. ASSUME NEW u \in Threads
        PROVE  /\ Latest(u)' = node[u]
               /\ \A i \in 1 .. Len(hsb'[u]) : hsb'[u][i][1] = 0
               /\ \A k \in 1 .. K - 1 : hp'[u][k] = NULL
               /\ node[u] # NULL <=> pc[u] \in {"grab", "check", "using"}
               /\ pc[u] = "stopped" => hsb'[u] = <<>>
    <3>1. CASE u = t
      BY <3>1, <1>7, <2>1, <2>2, <2>4 DEF IInv, AnnouncedInv
    <3>2. CASE u # t
      BY <3>2, <1>6, <2>3 DEF IInv, AnnouncedInv
    <3> QED BY <3>1, <3>2
  <2>6. node' = node /\ pc' = pc
    BY <1>1
  <2> QED
    BY <2>5, <2>6 DEF AnnouncedInv
<1>13. ASSUME Fenced PROVE UsedInv'
  <2>1. \A u \in Threads : pc[u] = "using" => u # t
    BY <1>1, <1>13 DEF IInv, UsedInv
  <2> QED
    BY <2>1, <1>1, <1>6, <1>13, UsedKept DEF IInv
<1> QED
  BY <1>8, <1>10, <1>11, <1>12, <1>13 DEF IInv

LEMMA DestroyRecordInv ==
    ASSUME IInv, DestroyRecord
    PROVE  IInv'
<1> DEFINE first == Head(records)
           left == retired[first]
<1>1. /\ Ended /\ pc' = Stopped /\ records' = Tail(records)
      /\ free' = free \cup (left \ Announced(records))
      /\ retired' = [retired EXCEPT ![first] = {}]
      /\ UNCHANGED <<threshold, hp, hsb, walk, max_pointers, plist, shared, node, list>>
  BY DEF DestroyRecord, scanVars
<1>2. /\ RecordsInv' /\ ThresholdInv' /\ ~Running'
      /\ N' = N - 1 /\ N \in Nat /\ N # 0
      /\ \A d \in 1 .. N - 1 : Rec(d)' = Rec(d) /\ d \in 1 .. N
      /\ \A x : x = N => first = Rec(x)
      /\ records' \in Seq(Threads) /\ first \in Threads
  BY RecordDestroyed DEF IInv
<1>3. ASSUME NEW u \in Threads
      PROVE  /\ walk[u] = <<>> /\ max_pointers[u] = 0 /\ plist[u] = <<>>
             /\ hsb[u] = <<>> /\ node[u] = NULL /\ hp[u][0] = NULL
             /\ \A k \in 1 .. K - 1 : hp[u][k] = NULL
  <2>1. pc[u] \in {"idle", "stopped"}
    BY <1>1 DEF Ended
  <2>2. hsb[u] = <<>>
    BY <1>1 DEF Ended, Drained, IInv, AnnouncedInv
  <2>3. walk[u] = <<>> /\ max_pointers[u] = 0 /\ plist[u] = <<>>
    BY <2>1 DEF IInv, ScanInv
  <2>4. node[u] = NULL /\ \A k \in 1 .. K - 1 : hp[u][k] = NULL
    BY <2>1 DEF IInv, AnnouncedInv
  <2>5. hp[u][0] = NULL
    BY <2>2, <2>4 DEF IInv, AnnouncedInv, Latest
  <2> QED BY <2>2, <2>3, <2>4, <2>5
<1>4. Announced(records) \subseteq {NULL}
  <2>1. ASSUME NEW u \in Threads, NEW k \in 0 .. K - 1 PROVE hp[u][k] = NULL
    <3>1. k = 0 \/ k \in 1 .. K - 1
      BY KAssumption
    <3> QED BY <3>1, <1>3
  <2>2. \A i \in 1 .. Len(records) : records[i] \in Threads
    BY DEF IInv, TypeOK, HazardTypeOK
  <2> QED BY <2>1, <2>2 DEF Announced
<1>5. left \in SUBSET Nodes /\ NULL \notin left
  BY <1>2, NodesAssumption DEF IInv, TypeOK, HazardTypeOK
<1>6. free' = free \cup left
  BY <1>1, <1>4, <1>5
<1>7. /\ retired'[first] = {}
      /\ \A u \in Threads \ {first} : retired'[u] = retired[u]
  BY <1>1, <1>2 DEF IInv, TypeOK, HazardTypeOK
<1> HIDE DEF first
<1>8. \A u \in Threads : pc'[u] = "stopped"
  BY <1>1 DEF Stopped
<1>9. TypeOK'
  <2>1. retired' \in [Threads -> SUBSET Nodes] /\ free' \subseteq Nodes
    BY <1>1, <1>5, <1>6 DEF IInv, TypeOK, HazardTypeOK
  <2>2. pc' \in [Threads -> Labels]
    BY <1>1 DEF Stopped, Labels
  <2> QED
    BY <1>1, <1>2, <2>1, <2>2 DEF IInv, TypeOK, HazardTypeOK
<1>10. ScanInv' /\ PlistFits'
  BY <1>1, <1>3, <1>8 DEF ScanInv, PlistFits
<1>11. RetiredBounded'
  BY <1>8 DEF RetiredBounded
<1>12. AnnouncedInv'
  <2>1. \A u \in Threads : Latest(u)' = NULL
    BY <1>1, <1>3 DEF Latest
  <2>2. \A u \in Threads : Len(hsb[u]) = 0
    BY <1>3
  <2> QED
    BY <1>1, <1>3, <1>8, <2>1, <2>2 DEF AnnouncedInv
<1>13. UsedInv'
  BY <1>8 DEF UsedInv
<1>14. NodesInv'
  <2>1. shared \notin free'
    BY <1>2, <1>6 DEF IInv, NodesInv
  <2>2. ASSUME NEW n \in Nodes
        PROVE  n \in free' \/ n = shared \/ \E d \in 1 .. N - 1 : n \in retired'[Rec(d)]
    <3>1. ASSUME NEW d \in 1 .. N, n \in retired[Rec(d)]
          PROVE  n \in free' \/ (d \in 1 .. N - 1 /\ n \in retired'[Rec(d)])
      <4>1. CASE Rec(d) = first
        BY <3>1, <4>1, <1>6
      <4>2. CASE Rec(d) # first
        <5>1. d # N /\ d \in 1 .. N - 1
          BY <4>2, <1>2
        <5> QED BY <5>1, <3>1, <4>2, <1>7, RecordType DEF IInv
      <4> QED BY <4>1, <4>2
    <3> QED BY <3>1, <1>6 DEF IInv, NodesInv
  <2>3. ASSUME NEW u \in Threads
        PROVE  /\ IsFiniteSet(retired'[u])
               /\ retired'[u] # {} => \E d \in 1 .. N - 1 : Rec(d) = u
               /\ shared \notin retired'[u]
               /\ retired'[u] \cap free' = {}
               /\ \A v \in Threads \ {u} : retired'[u] \cap retired'[v] = {}
    <3>1. CASE u = first
      BY <3>1, <1>7, FS_EmptySet
    <3>2. CASE u # first
      <4>1. retired'[u] = retired[u]
        BY <3>2, <1>7
      <4>2. retired[u] \cap left = {}
        BY <3>2, <1>2 DEF IInv, NodesInv
      <4>3. retired[u] # {} => \E d \in 1 .. N - 1 : Rec(d) = u
        <5>1. \A d \in 1 .. N : Rec(d) = u => d \in 1 .. N - 1
          BY <3>2, <1>2
        <5> QED BY <5>1 DEF IInv, NodesInv
      <4>4. \A v \in Threads \ {u} : retired'[u] \cap retired'[v] = {}
        BY <3>2, <4>1, <1>7 DEF IInv, NodesInv
      <4> HIDE DEF left
      <4> QED BY <4>1, <4>2, <4>3, <4>4, <1>6 DEF IInv, NodesInv
    <3> QED BY <3>1, <3>2
  <2> QED
    BY <1>1, <1>2, <2>1, <2>2, <2>3 DEF NodesInv
<1> QED
  BY <1>2, <1>9, <1>10, <1>11, <1>12, <1>13, <1>14 DEF IInv

-----------------------------------------------------------------------------
(* The theorems.                                                           *)

LEMMA InitInv ==
    ASSUME Init
    PROVE  IInv
<1>1. PICK n \in Nodes : HazardInit(<<>>, {n}) /\ shared = n
  BY DEF Init
<1>2. /\ pc = [t \in Threads |-> "new"] /\ node = [t \in Threads |-> NULL]
      /\ list = [t \in Threads |-> <<>>]
  BY DEF Init
<1>3. 2 * Len(<<>>) * K = 0 /\ K \in Nat
  BY KAssumption
<1>4. /\ records = <<>> /\ threshold = [t \in Threads |-> 0]
      /\ hp = [t \in Threads |-> [k \in 0 .. K - 1 |-> NULL]]
      /\ hsb = [t \in Threads |-> <<>>] /\ retired = [t \in Threads |-> {}]
      /\ walk = [t \in Threads |-> <<>>] /\ max_pointers = [t \in Threads |-> 0]
      /\ plist = [t \in Threads |-> <<>>] /\ free = Nodes \ {n}
  BY <1>1, <1>3 DEF HazardInit
<1>5. TypeOK
  BY <1>1, <1>2, <1>4 DEF TypeOK, HazardTypeOK, Labels
<1>6. N = 0 /\ 1 .. N = {}
  BY <1>4 DEF N
<1>7. Running
  BY <1>2 DEF Running
<1>8. RecordsInv /\ ThresholdInv
  BY <1>2, <1>6, <1>7 DEF RecordsInv, ThresholdInv
<1>9. ScanInv /\ PlistFits /\ RetiredBounded
  BY <1>2, <1>4 DEF ScanInv, PlistFits, RetiredBounded
<1>10. NodesInv
  BY <1>1, <1>4, FS_EmptySet DEF NodesInv
<1>11. AnnouncedInv
  <2>1. 0 \in 0 .. K - 1 /\ \A k \in 1 .. K - 1 : k \in 0 .. K - 1
    BY KAssumption
  <2>2. \A t \in Threads : Latest(t) = NULL /\ hsb[t] = <<>>
    BY <2>1, <1>4 DEF Latest
  <2> QED
    BY <2>1, <2>2, <1>2, <1>4 DEF AnnouncedInv
<1>12. UsedInv
  BY <1>2 DEF UsedInv
<1> QED
  BY <1>5, <1>8, <1>9, <1>10, <1>11, <1>12 DEF IInv

LEMMA StutterInv ==
    ASSUME IInv, UNCHANGED vars
    PROVE  IInv'
<1>1. UNCHANGED <<records, threshold, hp, hsb, retired, walk, max_pointers, plist, free,
                  shared, pc, node, list>>
  BY DEF vars, hazardVars, recordVars, scanVars
<1>2. TypeOK'
  BY <1>1 DEF IInv, TypeOK, HazardTypeOK
<1>3. RecordsInv' /\ ThresholdInv'
  BY <1>1, <1>2, RecordsKept DEF IInv, SamePlaces
<1> QED
  BY <1>1, <1>2, <1>3, SameRecords, QuietInv DEF IInv, scanVars

\* The inductive invariant holds with and without the fence, for any number of
\* threads and hazard pointers; with the fence it has UsedInv.
THEOREM Invariant == Spec => []IInv
<1>1. Init => IInv
  BY InitInv
<1>2. IInv /\ [Next]_vars => IInv'
  <2> SUFFICES ASSUME IInv, [Next]_vars PROVE IInv'
    OBVIOUS
  <2>1. ASSUME NEW t \in Threads, RegisterRead(t) PROVE IInv'
    BY <2>1, RegisterReadInv
  <2>2. ASSUME NEW t \in Threads, RegisterCAS(t) PROVE IInv'
    BY <2>2, RegisterCASInv
  <2>3. ASSUME NEW t \in Threads, RegisterRaise(t) PROVE IInv'
    BY <2>3, RegisterRaiseInv
  <2>4. ASSUME NEW t \in Threads, Grab(t) PROVE IInv'
    BY <2>4, GrabInv
  <2>5. ASSUME NEW t \in Threads, Check(t) PROVE IInv'
    BY <2>5, CheckInv
  <2>6. ASSUME NEW t \in Threads, Release(t) PROVE IInv'
    BY <2>6, ReleaseInv
  <2>7. ASSUME NEW t \in Threads, NEW n \in Nodes, Replace(t, n) PROVE IInv'
    BY <2>7, ReplaceInv
  <2>8. ASSUME NEW t \in Threads, ScanCall(t) PROVE IInv'
    BY <2>8, ScanCallInv
  <2>9. ASSUME NEW t \in Threads, Scan(t) PROVE IInv'
    BY <2>9, ScanActionInv
  <2>10. ASSUME NEW t \in Threads, Flush(t) PROVE IInv'
    BY <2>10, FlushInv
  <2>11. CASE DestroyRecord
    BY <2>11, DestroyRecordInv
  <2>12. CASE UNCHANGED vars
    BY <2>12, StutterInv
  <2> HIDE DEF IInv
  <2> QED
    BY <2>1, <2>2, <2>3, <2>4, <2>5, <2>6, <2>7, <2>8, <2>9, <2>10, <2>11, <2>12 DEF Next
<1> QED
  BY <1>1, <1>2, PTL DEF Spec

\* hazard_pointer_using, store_load_barrier and the check that follows them protect a
\* node: as long as a thread uses it no scan gives it to gc_function.  That is what
\* the barrier is for; without the fence the theorem's assumption is false.
THEOREM UsedNotFreedCorrect ==
    ASSUME Fenced
    PROVE  Spec => []UsedNotFreed
<1>1. IInv => UsedNotFreed
  BY DEF IInv, UsedInv, UsedNotFreed
<1> QED
  BY <1>1, Invariant, PTL

\* However registrations overlap, the newest record's threshold counts every record
\* (head->retire_threshold), and when all have ended every threshold does.
THEOREM ThresholdsCorrectAlways == Spec => []ThresholdsCorrect
<1>1. ASSUME IInv PROVE ThresholdsCorrect
  <2>1. /\ N \in Nat /\ K \in Nat /\ TypeOK
        /\ \A d \in 1 .. N : N - d + 1 \in 1 .. N /\ Rec(d) \in Threads
    BY <1>1, RecordType DEF IInv
  <2>2. (2 * K) * N = 2 * N * K
    BY <2>1, Multiples
  <2>3. HeadThresholdCorrect
    <3> SUFFICES ASSUME records # <<>>, pc # Stopped
                 PROVE  threshold[records[1]] = 2 * Len(records) * K
      BY DEF HeadThresholdCorrect
    <3>1. Running
      BY <1>1 DEF IInv, RecordsInv
    <3>2. N \in 1 .. N
      <4>1. Len(records) # 0
        BY <2>1, EmptySeq DEF TypeOK, HazardTypeOK
      <4> QED BY <4>1, <2>1 DEF N
    <3>3. threshold[Rec(N)] = (2 * K) * (N + Cardinality(Raised(N)))
      BY <1>1, <3>1, <3>2 DEF IInv, ThresholdInv
    <3>4. Cardinality(Raised(N)) = 0 /\ N + 0 = N /\ N - N + 1 = 1
      BY <2>1, RaisedLast
    <3>5. Rec(N) = records[1]
      BY <3>4 DEF Rec
    <3> QED BY <2>2, <3>3, <3>4, <3>5 DEF N
  <2>4. ThresholdsSettle
    <3> SUFFICES ASSUME \A t \in Threads : pc[t] \in Labels \ {"push", "raise", "stopped"},
                        NEW i \in 1 .. N
                 PROVE  threshold[records[i]] = 2 * N * K
      BY DEF ThresholdsSettle, N
    <3>1. Running
      BY DEF Running
    <3>2. PICK d \in 1 .. N : d = N - i + 1 /\ N - d + 1 = i
      BY <2>1
    <3>3. threshold[Rec(d)] = (2 * K) * (d + Cardinality(Raised(d)))
      BY <1>1, <3>1 DEF IInv, ThresholdInv
    <3>4. Raised(d) = d + 1 .. N
      <4>1. \A e \in d + 1 .. N : pc[Rec(e)] # "raise"
        <5>1. \A e \in d + 1 .. N : e \in 1 .. N
          BY <2>1
        <5> QED BY <5>1, <2>1
      <4> QED BY <4>1 DEF Raised
    <3>5. Cardinality(d + 1 .. N) = N - d
      <4>1. d + 1 \in Int /\ N \in Int /\ d <= N
        BY <2>1
      <4>2. Cardinality(d + 1 .. N) = IF d + 1 > N THEN 0 ELSE N - (d + 1) + 1
        BY <4>1, FS_Interval
      <4> QED BY <4>1, <4>2
    <3>6. d + (N - d) = N
      BY <2>1
    <3>7. threshold[Rec(d)] = 2 * N * K
      BY <2>2, <3>3, <3>4, <3>5, <3>6
    <3> QED BY <3>2, <3>7 DEF Rec
  <2> QED BY <2>1, <2>3, <2>4 DEF ThresholdsCorrect
<1> QED
  BY <1>1, Invariant, PTL

\* A scan never writes past its plist, and outside a scan nobody has as many as
\* 2 * N * K retired nodes.
THEOREM ListsBoundedAlways == Spec => []ListsBounded
<1>1. IInv => ListsBounded
  BY DEF IInv, ListsBounded
<1> QED
  BY <1>1, Invariant, PTL

\* destroy_all leaves no node behind, with or without the fence.
THEOREM AllGivenBackCorrect == Spec => []AllGivenBack
<1>1. ASSUME IInv PROVE AllGivenBack
  <2> SUFFICES ASSUME records = <<>> PROVE free = Nodes \ {shared}
    BY DEF AllGivenBack
  <2>1. 1 .. N = {}
    BY DEF N
  <2>2. free \subseteq Nodes /\ shared \notin free
    BY <1>1 DEF IInv, TypeOK, HazardTypeOK, NodesInv
  <2>3. \A n \in Nodes : n \in free \/ n = shared
    BY <1>1, <2>1 DEF IInv, NodesInv
  <2> QED BY <2>2, <2>3
<1> QED
  BY <1>1, Invariant, PTL

=============================================================================
