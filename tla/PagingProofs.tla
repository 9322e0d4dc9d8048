---------------------------- MODULE PagingProofs ----------------------------
(***************************************************************************)
(* What may be concluded of rows in an order, of the pages they are read   *)
(* in and of the lists these make. An order is given by what is before     *)
(* each row: an operator cannot be a parameter of a lemma.                 *)
(***************************************************************************)
EXTENDS Paging, FiniteSetTheorems, SequenceTheorems, TLAPS

-----------------------------------------------------------------------------
(* The rows: the i-th is the one with i - 1 others before it.              *)

\* In a strict total order of a finite set, Pre[x] being what is before x,
\* there is for every place the one member that belongs there.
Orders(Pre, S) ==
    /\ Pre \in [S -> SUBSET S]
    /\ \A x \in S : x \notin Pre[x]
    /\ \A x, y \in S : x # y => x \in Pre[y] \/ y \in Pre[x]
    /\ \A x, y, z \in S : x \in Pre[y] /\ y \in Pre[z] => x \in Pre[z]

\* Rows that have each as many before them as stand before them.
Placed(rows, Pre, S) ==
    /\ rows \in [1..Cardinality(S) -> S]
    /\ \A i \in 1..Cardinality(S) : Cardinality(Pre[rows[i]]) = i - 1

LEMMA PlacesDiffer ==
    ASSUME NEW S, IsFiniteSet(S), NEW Pre, Orders(Pre, S), NEW x \in S, NEW y \in S,
           x \in Pre[y]
    PROVE  Cardinality(Pre[x]) < Cardinality(Pre[y])
  <1>1. Pre[x] \subseteq Pre[y] /\ Pre[x] # Pre[y] /\ Pre[y] \subseteq S
    BY DEF Orders
  <1>2. IsFiniteSet(Pre[y])
    BY <1>1, FS_Subset
  <1>. QED BY <1>1, <1>2, FS_Subset, FS_CardinalityType

LEMMA EveryPlaceIsTaken ==
    ASSUME NEW S, IsFiniteSet(S), NEW Pre, Orders(Pre, S), NEW i \in 1..Cardinality(S)
    PROVE  \E x \in S : Cardinality(Pre[x]) = i - 1
  <1>. DEFINE n == Cardinality(S)
              place == [x \in S |-> Cardinality(Pre[x]) + 1]
  <1>1. n \in Nat /\ IsFiniteSet(1..n) /\ Cardinality(1..n) = n
    BY FS_CardinalityType, FS_Interval
  <1>2. ASSUME NEW x \in S PROVE Cardinality(Pre[x]) \in 0..(n - 1)
    <2>1. Pre[x] \subseteq S /\ Pre[x] # S
      BY DEF Orders
    <2>. QED BY <1>1, <2>1, FS_Subset, FS_CardinalityType
  <1>3. place \in [S -> 1..n]
    BY <1>1, <1>2
  <1>4. \A x, y \in S : place[x] = place[y] => x = y
    <2>1. \A x, y \in S : x \in Pre[y] => Cardinality(Pre[x]) < Cardinality(Pre[y])
      BY PlacesDiffer
    <2>2. \A x, y \in S : x # y => x \in Pre[y] \/ y \in Pre[x]
      BY DEF Orders
    <2>3. ASSUME NEW x \in S, NEW y \in S, x # y PROVE place[x] # place[y]
      <3>1. Cardinality(Pre[x]) < Cardinality(Pre[y])
            \/ Cardinality(Pre[y]) < Cardinality(Pre[x])
        BY <2>1, <2>2, <2>3
      <3>. QED BY <1>1, <1>2, <3>1
    <2>. QED BY <2>3
  <1>5. place \in Injection(S, 1..n)
    BY <1>3, <1>4 DEF Injection, IsInjective
  <1>6. place \in Surjection(S, 1..n)
    <2>. HIDE DEF place, n
    <2>. QED BY <1>1, <1>5, FS_Injection DEF n
  <1>7. PICK x \in S : place[x] = i
    BY <1>6 DEF Surjection
  <1>. QED BY <1>1, <1>2, <1>7

LEMMA RowsAreInOrder ==
    ASSUME NEW S, IsFiniteSet(S), NEW Pre, Orders(Pre, S), NEW rows, Placed(rows, Pre, S)
    PROVE  /\ rows \in Seq(S) /\ Len(rows) = Cardinality(S) /\ Cardinality(S) \in Nat
           /\ \A i, j \in DOMAIN rows : i < j => rows[i] \in Pre[rows[j]]
           /\ \A x \in S : \E i \in DOMAIN rows : rows[i] = x
  <1>. DEFINE n == Cardinality(S)
  <1>1. n \in Nat
    BY FS_CardinalityType
  <1>2. \A i \in 1..n : rows[i] \in S /\ Cardinality(Pre[rows[i]]) = i - 1
    BY DEF Placed
  <1>3. rows \in [1..n -> S] /\ DOMAIN rows = 1..n
    BY DEF Placed
  <1>4. rows \in Seq(S) /\ Len(rows) = n
    BY <1>1, <1>3
  <1>5. \A x, y \in S : x \in Pre[y] => Cardinality(Pre[x]) < Cardinality(Pre[y])
    BY PlacesDiffer
  <1>6. ASSUME NEW i \in 1..n, NEW j \in 1..n, i < j PROVE rows[i] \in Pre[rows[j]]
    <2>1. rows[i] # rows[j] /\ ~(Cardinality(Pre[rows[j]]) < Cardinality(Pre[rows[i]]))
      BY <1>1, <1>2, <1>6
    <2>. QED BY <1>2, <1>5, <2>1 DEF Orders
  <1>7. ASSUME NEW x \in S PROVE \E i \in 1..n : rows[i] = x
    <2>1. Cardinality(Pre[x]) \in 0..(n - 1)
      <3>1. Pre[x] \subseteq S /\ Pre[x] # S
        BY DEF Orders
      <3>. QED BY <1>1, <3>1, FS_Subset, FS_CardinalityType
    <2>2. PICK i \in 1..n : i = Cardinality(Pre[x]) + 1
      BY <1>1, <2>1
    <2>3. rows[i] \in S /\ Cardinality(Pre[rows[i]]) = Cardinality(Pre[x])
      BY <1>2, <2>1, <2>2
    <2>4. rows[i] = x
      BY <1>5, <2>1, <2>3 DEF Orders
    <2>. QED BY <2>4
  <1>. QED BY <1>1, <1>3, <1>4, <1>6, <1>7

-----------------------------------------------------------------------------
(* A page of them.                                                         *)

\* A list has a row at exactly one place, or at none.
Once(list, x) ==
    \E i \in DOMAIN list : list[i] = x /\ \A j \in DOMAIN list : list[j] = x => j = i
Nowhere(list, x) == \A i \in DOMAIN list : list[i] # x

\* A page without a next one has every row, once; a page with a next one has
\* its last row and those before it, once, and not those after it.
LEMMA PageHasItsRows ==
    ASSUME NEW S, IsFiniteSet(S), NEW Pre, Orders(Pre, S), NEW rows, Placed(rows, Pre, S),
           NEW limit \in Nat \ {0}
    PROVE  /\ rows \in Seq(S) /\ PageOf(rows, limit) \in Seq(S)
           /\ \A i \in DOMAIN PageOf(rows, limit) :
                 i \in DOMAIN rows /\ PageOf(rows, limit)[i] = rows[i]
           /\ \A i, j \in DOMAIN rows : i < j => rows[i] \in Pre[rows[j]]
           /\ ~(Len(rows) > limit) => \A x \in S : Once(PageOf(rows, limit), x)
           /\ Len(rows) > limit =>
                 /\ rows[limit] \in S /\ Len(PageOf(rows, limit)) = limit
                 /\ \A x \in S : x = rows[limit] \/ x \in Pre[rows[limit]]
                                    => Once(PageOf(rows, limit), x)
                 /\ \A x \in S : rows[limit] \in Pre[x] => Nowhere(PageOf(rows, limit), x)
  <1>. DEFINE page == PageOf(rows, limit)
              last == IF Len(rows) > limit THEN limit ELSE Len(rows)
              n == Len(rows)
  <1>1. /\ rows \in Seq(S)
        /\ \A i, j \in DOMAIN rows : i < j => rows[i] \in Pre[rows[j]]
        /\ \A x \in S : \E i \in DOMAIN rows : rows[i] = x
    BY RowsAreInOrder
  <1>2. n \in Nat /\ DOMAIN rows = 1..n /\ last \in 0..n /\ \A i \in 1..n : rows[i] \in S
    BY <1>1
  <1>3. page = SubSeq(rows, 1, last)
    BY DEF PageOf
  <1>. HIDE DEF page, last, n
  <1>4. page \in Seq(S) /\ Len(page) = last /\ DOMAIN page = 1..last
        /\ \A i \in 1..last : page[i] = rows[i]
    BY <1>1, <1>2, <1>3 DEF n
  <1>5. \A x \in S : x \notin Pre[x]
    BY DEF Orders
  <1>6. \A i, j \in 1..n : rows[i] = rows[j] => i = j
    <2>1. \A i, j \in 1..n : i < j => rows[i] # rows[j]
      BY <1>1, <1>2, <1>5
    <2>. QED BY <1>2, <2>1
  <1>7. ASSUME NEW x \in S, NEW i \in 1..last, rows[i] = x PROVE Once(page, x)
    <2>1. page[i] = x /\ i \in DOMAIN page
      BY <1>4, <1>7
    <2>2. ASSUME NEW j \in DOMAIN page, page[j] = x PROVE j = i
      BY <1>2, <1>4, <1>6, <1>7, <2>2
    <2>. QED BY <2>1, <2>2 DEF Once
  <1>8. ASSUME ~(n > limit), NEW x \in S PROVE Once(page, x)
    <2>1. last = n
      BY <1>8 DEF last, n
    <2>. QED BY <1>1, <1>2, <1>7, <2>1
  <1>9. ASSUME n > limit
        PROVE  /\ rows[limit] \in S /\ Len(page) = limit
               /\ \A x \in S : x = rows[limit] \/ x \in Pre[rows[limit]] => Once(page, x)
               /\ \A x \in S : rows[limit] \in Pre[x] => Nowhere(page, x)
    <2>1. last = limit /\ limit \in 1..n /\ rows[limit] \in S
      BY <1>2, <1>9 DEF last, n
    <2>2. ASSUME NEW x \in S, x = rows[limit] \/ x \in Pre[rows[limit]] PROVE Once(page, x)
      <3>1. PICK i \in 1..n : rows[i] = x
        BY <1>1, <1>2
      <3>2. ~(limit < i)
        <4>1. ASSUME limit < i PROVE FALSE
          <5>1. rows[limit] \in Pre[x]
            BY <1>1, <1>2, <2>1, <3>1, <4>1
          <5>2. x \notin Pre[rows[limit]] /\ x # rows[limit]
            BY <1>5, <2>1, <5>1 DEF Orders
          <5>. QED BY <2>2, <5>2
        <4>. QED BY <4>1
      <3>3. i \in 1..last
        BY <2>1, <3>2
      <3>. QED BY <1>7, <3>1, <3>3
    <2>3. ASSUME NEW x \in S, rows[limit] \in Pre[x], NEW i \in DOMAIN page
          PROVE  page[i] # x
      <3>1. i \in 1..limit /\ page[i] = rows[i] /\ i \in 1..n
        BY <1>2, <1>4, <2>1
      <3>2. rows[i] = rows[limit] \/ rows[i] \in Pre[rows[limit]]
        BY <1>1, <1>2, <2>1, <3>1
      <3>3. rows[i] # x
        BY <1>5, <2>1, <2>3, <3>2 DEF Orders
      <3>. QED BY <3>1, <3>3
    <2>. QED BY <1>4, <2>1, <2>2, <2>3 DEF Nowhere
  <1>10. \A i \in DOMAIN page : i \in DOMAIN rows /\ page[i] = rows[i]
    BY <1>2, <1>4
  <1>11. ~(n > limit) => \A x \in S : Once(page, x)
    BY <1>8
  <1>12. n > limit =>
           /\ rows[limit] \in S /\ Len(page) = limit
           /\ \A x \in S : x = rows[limit] \/ x \in Pre[rows[limit]] => Once(page, x)
           /\ \A x \in S : rows[limit] \in Pre[x] => Nowhere(page, x)
    BY <1>9
  <1>. QED BY <1>1, <1>4, <1>10, <1>11, <1>12 DEF page, n

-----------------------------------------------------------------------------
(* Pages put behind each other.                                            *)

LEMMA JoinedPlaces ==
    ASSUME NEW S, NEW a \in Seq(S), NEW b \in Seq(S)
    PROVE  /\ a \o b \in Seq(S) /\ DOMAIN a = 1..Len(a) /\ DOMAIN b = 1..Len(b)
           /\ DOMAIN (a \o b) = 1..(Len(a) + Len(b)) /\ Len(a) \in Nat /\ Len(b) \in Nat
           /\ \A i \in 1..(Len(a) + Len(b)) :
                 (a \o b)[i] = IF i <= Len(a) THEN a[i] ELSE b[i - Len(a)]
  BY ConcatProperties

LEMMA OnceBefore ==
    ASSUME NEW S, NEW a \in Seq(S), NEW b \in Seq(S), NEW x, Once(a, x), Nowhere(b, x)
    PROVE  Once(a \o b, x)
  <1>. DEFINE s == a \o b
              m == Len(a)
              n == Len(b)
  <1>1. /\ DOMAIN a = 1..m /\ DOMAIN b = 1..n /\ DOMAIN s = 1..(m + n)
        /\ m \in Nat /\ n \in Nat
        /\ \A i \in 1..(m + n) : s[i] = IF i <= m THEN a[i] ELSE b[i - m]
    BY JoinedPlaces
  <1>. HIDE DEF s, m, n
  <1>2. PICK i \in 1..m : a[i] = x /\ \A j \in 1..m : a[j] = x => j = i
    BY <1>1 DEF Once
  <1>3. \A j \in 1..n : b[j] # x
    BY <1>1 DEF Nowhere
  <1>4. i \in DOMAIN s /\ s[i] = x
    BY <1>1, <1>2
  <1>5. ASSUME NEW j \in DOMAIN s, s[j] = x PROVE j = i
    <2>1. CASE j <= m
      BY <1>1, <1>2, <1>5, <2>1
    <2>2. CASE ~(j <= m)
      <3>1. j - m \in 1..n /\ s[j] = b[j - m]
        BY <1>1, <2>2
      <3>. QED BY <1>3, <1>5, <3>1
    <2>. QED BY <2>1, <2>2
  <1>. QED BY <1>4, <1>5 DEF Once, s

LEMMA OnceBehind ==
    ASSUME NEW S, NEW a \in Seq(S), NEW b \in Seq(S), NEW x, Nowhere(a, x), Once(b, x)
    PROVE  Once(a \o b, x)
  <1>. DEFINE s == a \o b
              m == Len(a)
              n == Len(b)
  <1>1. /\ DOMAIN a = 1..m /\ DOMAIN b = 1..n /\ DOMAIN s = 1..(m + n)
        /\ m \in Nat /\ n \in Nat
        /\ \A i \in 1..(m + n) : s[i] = IF i <= m THEN a[i] ELSE b[i - m]
    BY JoinedPlaces
  <1>. HIDE DEF s, m, n
  <1>2. PICK i \in 1..n : b[i] = x /\ \A j \in 1..n : b[j] = x => j = i
    BY <1>1 DEF Once
  <1>3. \A j \in 1..m : a[j] # x
    BY <1>1 DEF Nowhere
  <1>4. i + m \in DOMAIN s /\ s[i + m] = x
    <2>1. i + m \in 1..(m + n) /\ ~(i + m <= m) /\ (i + m) - m = i
      BY <1>1
    <2>. QED BY <1>1, <1>2, <2>1
  <1>5. ASSUME NEW j \in DOMAIN s, s[j] = x PROVE j = i + m
    <2>1. ~(j <= m)
      BY <1>1, <1>3, <1>5
    <2>2. j - m \in 1..n /\ s[j] = b[j - m]
      BY <1>1, <2>1
    <2>3. j - m = i
      BY <1>2, <1>5, <2>2
    <2>. QED BY <1>1, <2>3
  <1>. QED BY <1>4, <1>5 DEF Once, s

LEMMA NowhereBoth ==
    ASSUME NEW S, NEW a \in Seq(S), NEW b \in Seq(S), NEW x, Nowhere(a, x), Nowhere(b, x)
    PROVE  Nowhere(a \o b, x)
  <1>. DEFINE s == a \o b
              m == Len(a)
              n == Len(b)
  <1>1. /\ DOMAIN a = 1..m /\ DOMAIN b = 1..n /\ DOMAIN s = 1..(m + n)
        /\ m \in Nat /\ n \in Nat
        /\ \A i \in 1..(m + n) : s[i] = IF i <= m THEN a[i] ELSE b[i - m]
    BY JoinedPlaces
  <1>. HIDE DEF s, m, n
  <1>2. ASSUME NEW j \in DOMAIN s PROVE s[j] # x
    <2>1. CASE j <= m
      BY <1>1, <2>1 DEF Nowhere
    <2>2. CASE ~(j <= m)
      <3>1. j - m \in 1..n /\ s[j] = b[j - m]
        BY <1>1, <2>2
      <3>. QED BY <1>1, <3>1 DEF Nowhere
    <2>. QED BY <2>1, <2>2
  <1>. QED BY <1>2 DEF Nowhere, s

\* How often a list has a row, as the models count it.
LEMMA OnceIsOne ==
    ASSUME NEW list, NEW x
    PROVE  /\ Once(list, x) => Cardinality({i \in DOMAIN list : list[i] = x}) = 1
           /\ Nowhere(list, x) => Cardinality({i \in DOMAIN list : list[i] = x}) = 0
  <1>1. ASSUME Once(list, x) PROVE Cardinality({i \in DOMAIN list : list[i] = x}) = 1
    <2>1. PICK i \in DOMAIN list : {j \in DOMAIN list : list[j] = x} = {i}
      BY <1>1 DEF Once
    <2>. QED BY <2>1, FS_Singleton
  <1>2. ASSUME Nowhere(list, x) PROVE Cardinality({i \in DOMAIN list : list[i] = x}) = 0
    <2>1. {j \in DOMAIN list : list[j] = x} = {}
      BY <1>2 DEF Nowhere
    <2>. QED BY <2>1, FS_EmptySet
  <1>. QED BY <1>1, <1>2

=============================================================================
