------------------------------ MODULE Counting ------------------------------
(***************************************************************************)
(* How many entries of a queue lie in a set, what the entries of a queue   *)
(* come to in all, and how these numbers change when entries are posted,   *)
(* taken, split off and changed: the lemmas on queues of completions and of*)
(* sends that the proofs share, with those on multiples of a buffer size.  *)
(***************************************************************************)
EXTENDS Integers, Sequences, FiniteSets, FiniteSetTheorems, SequenceTheorems, TLAPS

Count(q, K) == Cardinality({i \in DOMAIN q : q[i] \in K})

(* Counting gives a number. *)
LEMMA CountType ==
    ASSUME NEW S, NEW q \in Seq(S), NEW K
    PROVE  /\ IsFiniteSet({i \in DOMAIN q : q[i] \in K})
           /\ Count(q, K) \in Nat
<1>1. DOMAIN q = 1 .. Len(q) /\ Len(q) \in Nat
  OBVIOUS
<1>2. IsFiniteSet(1 .. Len(q))
  BY <1>1, FS_Interval
<1>3. {i \in DOMAIN q : q[i] \in K} \in SUBSET (1 .. Len(q))
  BY <1>1
<1>4. IsFiniteSet({i \in DOMAIN q : q[i] \in K})
  BY <1>2, <1>3, FS_Subset
<1> QED
  BY <1>4, FS_CardinalityType DEF Count

(* The empty queue has none. *)
LEMMA CountEmpty ==
    ASSUME NEW K
    PROVE  Count(<<>>, K) = 0
<1>1. {i \in DOMAIN <<>> : <<>>[i] \in K} = {}
  OBVIOUS
<1> QED
  BY <1>1, FS_EmptySet DEF Count

(* There are some exactly when one can be shown. *)
LEMMA CountPositive ==
    ASSUME NEW S, NEW q \in Seq(S), NEW K
    PROVE  Count(q, K) > 0 <=> \E i \in 1 .. Len(q) : q[i] \in K
<1> DEFINE D == {i \in DOMAIN q : q[i] \in K}
<1>1. IsFiniteSet(D) /\ Cardinality(D) \in Nat
  BY CountType DEF Count
<1>2. Cardinality(D) = 0 <=> D = {}
  BY <1>1, FS_EmptySet
<1>3. DOMAIN q = 1 .. Len(q)
  OBVIOUS
<1> QED
  BY <1>1, <1>2, <1>3 DEF Count

(* Moving a set of numbers by d keeps its size. *)
LEMMA ShiftCardinality ==
    ASSUME NEW D, IsFiniteSet(D), D \subseteq Int, NEW d \in Int
    PROVE  LET E == {i + d : i \in D} IN
           IsFiniteSet(E) /\ Cardinality(E) = Cardinality(D)
<1> DEFINE E == {i + d : i \in D}
<1> DEFINE f == [i \in D |-> i + d]
<1>1. f \in Bijection(D, E)
  <2>1. f \in [D -> E]
    OBVIOUS
  <2>2. \A i, j \in D : f[i] = f[j] => i = j
    OBVIOUS
  <2>3. \A e \in E : \E i \in D : f[i] = e
    OBVIOUS
  <2> QED
    BY <2>1, <2>2, <2>3 DEF Bijection, Injection, Surjection, IsInjective
<1>2. ExistsBijection(D, E)
  BY <1>1 DEF ExistsBijection
<1> QED
  BY <1>2, FS_Bijection

(* Two queues, one after the other. *)
LEMMA CountConcat ==
    ASSUME NEW S, NEW a \in Seq(S), NEW b \in Seq(S), NEW K
    PROVE  Count(a \o b, K) = Count(a, K) + Count(b, K)
<1> DEFINE A == {i \in DOMAIN a : a[i] \in K}
           B == {i \in DOMAIN b : b[i] \in K}
           M == {i + Len(a) : i \in B}
           C == {i \in DOMAIN (a \o b) : (a \o b)[i] \in K}
<1>1. /\ a \o b \in Seq(S) /\ Len(a \o b) = Len(a) + Len(b)
      /\ \A i \in 1 .. Len(a) + Len(b) :
            (a \o b)[i] = IF i <= Len(a) THEN a[i] ELSE b[i - Len(a)]
  BY ConcatProperties
<1>2. /\ Len(a) \in Nat /\ DOMAIN a = 1 .. Len(a)
      /\ Len(b) \in Nat /\ DOMAIN b = 1 .. Len(b)
      /\ DOMAIN (a \o b) = 1 .. Len(a) + Len(b)
  BY <1>1
<1>3. C = A \cup M
  <2>1. ASSUME NEW i \in C PROVE i \in A \cup M
    <3>1. i \in 1 .. Len(a) + Len(b) /\ (a \o b)[i] \in K
      BY <1>2
    <3>2. CASE i <= Len(a)
      BY <3>1, <3>2, <1>1, <1>2
    <3>3. CASE i > Len(a)
      <4>1. i - Len(a) \in DOMAIN b /\ b[i - Len(a)] \in K
        BY <3>1, <3>3, <1>1, <1>2
      <4>2. i - Len(a) \in B /\ i = (i - Len(a)) + Len(a)
        BY <4>1, <1>2, <3>1
      <4> QED
        BY <4>2
    <3> QED
      BY <3>1, <3>2, <3>3, <1>2
  <2>2. ASSUME NEW i \in A PROVE i \in C
    BY <1>1, <1>2
  <2>3. ASSUME NEW i \in M PROVE i \in C
    <3>1. PICK j \in B : i = j + Len(a)
      OBVIOUS
    <3>2. j \in 1 .. Len(b) /\ b[j] \in K
      BY <1>2
    <3>3. i \in 1 .. Len(a) + Len(b) /\ i > Len(a) /\ i - Len(a) = j
      BY <3>1, <3>2, <1>2
    <3> QED
      BY <3>2, <3>3, <1>1, <1>2
  <2> QED
    BY <2>1, <2>2, <2>3
<1>4. /\ IsFiniteSet(A) /\ IsFiniteSet(B)
      /\ Cardinality(A) = Count(a, K) /\ Cardinality(B) = Count(b, K)
      /\ Count(a, K) \in Nat /\ Count(b, K) \in Nat
  BY CountType DEF Count
<1>5. IsFiniteSet(M) /\ Cardinality(M) = Count(b, K)
  <2>1. B \subseteq Int /\ Len(a) \in Int
    BY <1>2
  <2> HIDE DEF B
  <2>2. IsFiniteSet(M) /\ Cardinality(M) = Cardinality(B)
    BY <2>1, <1>4, ShiftCardinality
  <2> QED
    BY <2>2, <1>4
<1>6. A \cap M = {}
  BY <1>2
<1>7. Cardinality(A \cup M) = Cardinality(A) + Cardinality(M) - Cardinality(A \cap M)
  BY <1>4, <1>5, FS_Union
<1>8. Cardinality(A \cap M) = 0
  BY <1>6, FS_EmptySet
<1>9. Count(a \o b, K) = Cardinality(C)
  BY DEF Count
<1> HIDE DEF A, B, C, M
<1> QED
  BY <1>3, <1>4, <1>5, <1>7, <1>8, <1>9

(* A queue of one entry. *)
LEMMA CountOne ==
    ASSUME NEW e, NEW K
    PROVE  Count(<<e>>, K) = IF e \in K THEN 1 ELSE 0
<1>1. CASE e \in K
  <2>1. {i \in DOMAIN <<e>> : <<e>>[i] \in K} = {1}
    BY <1>1
  <2> QED
    BY <2>1, <1>1, FS_Singleton DEF Count
<1>2. CASE e \notin K
  <2>1. {i \in DOMAIN <<e>> : <<e>>[i] \in K} = {}
    BY <1>2
  <2> QED
    BY <2>1, <1>2, FS_EmptySet DEF Count
<1> QED
  BY <1>1, <1>2

(* Posting one entry. *)
LEMMA CountAppend ==
    ASSUME NEW S, NEW q \in Seq(S), NEW e \in S, NEW K
    PROVE  Count(Append(q, e), K) = Count(q, K) + IF e \in K THEN 1 ELSE 0
<1>1. Append(q, e) = q \o <<e>> /\ <<e>> \in Seq(S)
  OBVIOUS
<1>2. Count(q \o <<e>>, K) = Count(q, K) + Count(<<e>>, K)
  BY <1>1, CountConcat
<1> QED
  BY <1>1, <1>2, CountOne

(* Taking one entry. *)
LEMMA CountTail ==
    ASSUME NEW S, NEW q \in Seq(S), q # <<>>, NEW K
    PROVE  Count(q, K) = Count(Tail(q), K) + IF Head(q) \in K THEN 1 ELSE 0
<1>1. q = <<Head(q)>> \o Tail(q) /\ <<Head(q)>> \in Seq(S) /\ Tail(q) \in Seq(S)
  <2>1. /\ Head(q) \in S /\ Tail(q) \in Seq(S) /\ Len(Tail(q)) = Len(q) - 1
        /\ \A i \in 1 .. Len(Tail(q)) : Tail(q)[i] = q[i + 1]
    BY HeadTailProperties
  <2>2. Head(q) = q[1] /\ Len(q) \in Nat /\ Len(q) > 0
    BY EmptySeq
  <2> DEFINE h == <<Head(q)>>
             r == h \o Tail(q)
  <2>3. h \in Seq(S) /\ Len(h) = 1 /\ h[1] = Head(q)
    BY <2>1
  <2> HIDE DEF h
  <2>4. /\ r \in Seq(S) /\ Len(r) = Len(h) + Len(Tail(q))
        /\ \A i \in 1 .. Len(h) + Len(Tail(q)) :
              r[i] = IF i <= Len(h) THEN h[i] ELSE Tail(q)[i - Len(h)]
    <3>1. h \in Seq(S) /\ Tail(q) \in Seq(S)
      BY <2>1, <2>3
    <3> QED
      BY <3>1, ConcatProperties, ZenonT(60)
  <2> HIDE DEF r
  <2>5. Len(r) = Len(q) /\ \A i \in 1 .. Len(q) : r[i] = q[i]
    BY <2>1, <2>2, <2>3, <2>4
  <2>6. r = q
    BY <2>4, <2>5, SeqEqual
  <2> QED
    BY <2>1, <2>3, <2>6 DEF h, r
<1>2. Count(<<Head(q)>> \o Tail(q), K) = Count(<<Head(q)>>, K) + Count(Tail(q), K)
  BY <1>1, CountConcat
<1>3. Count(Tail(q), K) \in Nat
  BY <1>1, CountType
<1>4. Count(<<Head(q)>>, K) = IF Head(q) \in K THEN 1 ELSE 0
  BY CountOne
<1>5. Count(q, K) = Count(<<Head(q)>>, K) + Count(Tail(q), K)
  BY <1>1, <1>2, Zenon
<1> QED
  BY ONLY <1>3, <1>4, <1>5
-----------------------------------------------------------------------------
(* Sums.  The entries of w at the places of D, drawn as columns: their sum is the
   number of points. *)
Columns(w, D) == UNION {{i} \X (1 .. w[i]) : i \in D}

Total(w) == Cardinality(Columns(w, DOMAIN w))

(* A point stands in the column of its place. *)
LEMMA ColumnPoints ==
    ASSUME NEW w, NEW D
    PROVE  \A p : p \in Columns(w, D) <=>
                     \E i \in D : \E k \in 1 .. w[i] : p = <<i, k>>
BY DEF Columns

(* Two functions that agree on the columns have the same points. *)
LEMMA SameColumns ==
    ASSUME NEW w, NEW v, NEW D, \A i \in D : v[i] = w[i]
    PROVE  Columns(v, D) = Columns(w, D)
<1>1. \A p : p \in Columns(v, D) <=> \E i \in D : \E k \in 1 .. v[i] : p = <<i, k>>
  BY ColumnPoints
<1>2. \A p : p \in Columns(w, D) <=> \E i \in D : \E k \in 1 .. w[i] : p = <<i, k>>
  BY ColumnPoints
<1>3. \A p : p \in Columns(v, D) <=> p \in Columns(w, D)
  BY <1>1, <1>2
<1> QED
  BY <1>3

(* Finitely many columns have finitely many points. *)
LEMMA ColumnsFinite ==
    ASSUME NEW w, NEW D, IsFiniteSet(D), \A i \in D : w[i] \in Nat
    PROVE  IsFiniteSet(Columns(w, D)) /\ Cardinality(Columns(w, D)) \in Nat
<1> DEFINE T == {{i} \X (1 .. w[i]) : i \in D}
           f == [i \in D |-> {i} \X (1 .. w[i])]
<1>1. f \in Surjection(D, T)
  BY DEF Surjection
<1>2. IsFiniteSet(T)
  <2> HIDE DEF f, T
  <2> QED
    BY <1>1, FS_Surjection
<1>3. ASSUME NEW t \in T PROVE IsFiniteSet(t)
  <2>1. PICK i \in D : t = {i} \X (1 .. w[i])
    OBVIOUS
  <2>2. IsFiniteSet({i}) /\ IsFiniteSet(1 .. w[i])
    <3>1. w[i] \in Int
      OBVIOUS
    <3>2. /\ IsFiniteSet(1 .. w[i])
          /\ Cardinality(1 .. w[i]) = IF 1 > w[i] THEN 0 ELSE w[i] - 1 + 1
      BY <3>1, FS_Interval, SMTT(60)
    <3> QED
      BY <3>2, FS_Singleton
  <2> QED
    BY <2>1, <2>2, FS_Product
<1>4. IsFiniteSet(UNION T)
  <2> HIDE DEF T
  <2> QED
    BY <1>2, <1>3, FS_UNION
<1> QED
  BY <1>4, FS_CardinalityType DEF Columns

(* One column apart from the others. *)
LEMMA ColumnApart ==
    ASSUME NEW w, NEW D, IsFiniteSet(D), \A j \in D : w[j] \in Nat, NEW i \in D
    PROVE  /\ Cardinality(Columns(w, D \ {i})) \in Nat
           /\ Cardinality(Columns(w, D)) = Cardinality(Columns(w, D \ {i})) + w[i]
<1> DEFINE A == Columns(w, D \ {i})
           B == {i} \X (1 .. w[i])
<1>1. IsFiniteSet(D \ {i}) /\ \A j \in D \ {i} : w[j] \in Nat
  BY FS_Difference
<1>2. IsFiniteSet(A) /\ Cardinality(A) \in Nat
  BY <1>1, ColumnsFinite
<1>3. IsFiniteSet(B) /\ Cardinality(B) = w[i]
  <2>1. IsFiniteSet({i}) /\ Cardinality({i}) = 1
    BY FS_Singleton
  <2>2. IsFiniteSet(1 .. w[i]) /\ Cardinality(1 .. w[i]) = IF 1 > w[i] THEN 0 ELSE w[i] - 1 + 1
    BY FS_Interval
  <2>3. Cardinality(1 .. w[i]) = w[i] /\ w[i] \in Nat
    BY <2>2
  <2>4. IsFiniteSet(B) /\ Cardinality(B) = 1 * w[i]
    BY <2>1, <2>2, <2>3, FS_Product, ZenonT(60)
  <2> QED
    BY <2>3, <2>4
<1>4. Columns(w, D) = A \cup B
  BY DEF Columns
<1>5. A \cap B = {}
  BY DEF Columns
<1> HIDE DEF A, B
<1>6. Cardinality(A \cup B) = Cardinality(A) + Cardinality(B) - Cardinality(A \cap B)
  BY <1>2, <1>3, FS_Union
<1>7. Cardinality(A \cap B) = 0
  BY <1>5, FS_EmptySet
<1>8. w[i] \in Nat
  OBVIOUS
<1>9. Cardinality(Columns(w, D)) = Cardinality(A) + w[i]
  BY <1>2, <1>3, <1>4, <1>6, <1>7, <1>8
<1> QED
  BY <1>2, <1>9 DEF A

(* A sum is a number. *)
LEMMA TotalType ==
    ASSUME NEW n \in Nat, NEW w \in [1 .. n -> Nat]
    PROVE  Total(w) \in Nat
<1>1. IsFiniteSet(1 .. n)
  BY FS_Interval
<1> QED
  BY <1>1, ColumnsFinite DEF Total

(* One entry changes. *)
LEMMA TotalUpdate ==
    ASSUME NEW n \in Nat, NEW w \in [1 .. n -> Nat], NEW v \in [1 .. n -> Nat],
           NEW i \in 1 .. n, \A j \in 1 .. n : j # i => v[j] = w[j]
    PROVE  Total(v) + w[i] = Total(w) + v[i]
<1> DEFINE D == 1 .. n
           R == Cardinality(Columns(w, D \ {i}))
<1>1. IsFiniteSet(D)
  BY FS_Interval
<1>2. Columns(v, D \ {i}) = Columns(w, D \ {i})
  <2>1. \A j \in D \ {i} : v[j] = w[j]
    OBVIOUS
  <2> QED
    BY <2>1, SameColumns
<1>3. R \in Nat /\ Total(w) = R + w[i] /\ Total(v) = R + v[i]
  BY <1>1, <1>2, ColumnApart DEF Total
<1>4. w[i] \in Nat /\ v[i] \in Nat
  OBVIOUS
<1> HIDE DEF R
<1> QED
  BY <1>3, <1>4

(* An entry is appended. *)
LEMMA TotalAppend ==
    ASSUME NEW n \in Nat, NEW w \in [1 .. n -> Nat], NEW v \in [1 .. n + 1 -> Nat],
           \A j \in 1 .. n : v[j] = w[j]
    PROVE  Total(v) = Total(w) + v[n + 1]
<1> DEFINE D == 1 .. n + 1
<1>1. IsFiniteSet(D) /\ n + 1 \in D /\ D \ {n + 1} = 1 .. n
  <2>1. n + 1 \in D /\ D \ {n + 1} = 1 .. n
    OBVIOUS
  <2>2. n + 1 \in Int
    OBVIOUS
  <2>3. /\ IsFiniteSet(1 .. n + 1)
        /\ Cardinality(1 .. n + 1) = IF 1 > n + 1 THEN 0 ELSE (n + 1) - 1 + 1
    BY <2>2, FS_Interval
  <2> QED
    BY <2>1, <2>3
<1>2. Columns(v, 1 .. n) = Columns(w, 1 .. n)
  <2>1. \A p : p \in Columns(v, 1 .. n) <=> p \in Columns(w, 1 .. n)
    BY ColumnPoints
  <2> QED
    BY <2>1
<1>3. Cardinality(Columns(v, D)) = Cardinality(Columns(v, D \ {n + 1})) + v[n + 1]
  BY <1>1, ColumnApart
<1>4. DOMAIN v = D /\ DOMAIN w = 1 .. n
  OBVIOUS
<1> HIDE DEF D
<1> QED
  BY <1>1, <1>2, <1>3, <1>4 DEF Total

(* The first entries are taken and others fall. *)
LEMMA TotalLe ==
    ASSUME NEW n \in Nat, NEW k \in Nat, NEW v \in [1 .. n -> Nat],
           NEW w \in [1 .. n + k -> Nat],
           \A j \in 1 .. n : v[j] <= w[j + k]
    PROVE  Total(v) <= Total(w)
<1> DEFINE A == Columns(w, 1 .. n + k)
           B == Columns(v, 1 .. n)
           f == [p \in B |-> <<p[1] + k, p[2]>>]
<1>1. IsFiniteSet(1 .. n + k) /\ IsFiniteSet(1 .. n)
  BY FS_Interval
<1>2. f \in Injection(B, A)
  <2>1. ASSUME NEW p \in B
        PROVE  /\ f[p] \in A /\ p = <<p[1], p[2]>> /\ p[1] \in Nat
    <3>1. PICK i \in 1 .. n : \E b \in 1 .. v[i] : p = <<i, b>>
      BY ColumnPoints
    <3>2. PICK b \in 1 .. v[i] : p = <<i, b>>
      BY <3>1
    <3>3. f[p] = <<i + k, b>> /\ i + k \in 1 .. n + k
      BY <3>2
    <3>4. b \in 1 .. w[i + k]
      <4>1. v[i] \in Nat /\ w[i + k] \in Nat /\ v[i] <= w[i + k]
        BY <3>3
      <4> QED
        BY <4>1
    <3>5. <<i + k, b>> \in A
      BY <3>3, <3>4, ColumnPoints
    <3>6. p = <<p[1], p[2]>> /\ p[1] \in Nat
      BY <3>2
    <3> QED
      BY <3>3, <3>5, <3>6
  <2>2. ASSUME NEW p \in B, NEW q \in B, f[p] = f[q] PROVE p = q
    <3>1. p[1] + k = q[1] + k /\ p[2] = q[2]
      BY <2>2
    <3>2. p[1] = q[1]
      <4>1. p[1] \in Nat /\ q[1] \in Nat
        BY <2>1
      <4> HIDE DEF A, B, f
      <4> QED
        BY <3>1, <4>1
    <3> QED
      BY <2>1, <3>1, <3>2
  <2>3. f \in [B -> A]
    BY <2>1
  <2> QED
    BY <2>2, <2>3 DEF Injection, IsInjective
<1>3. IsFiniteSet(A)
  BY <1>1, ColumnsFinite
<1>4. DOMAIN v = 1 .. n /\ DOMAIN w = 1 .. n + k
  OBVIOUS
<1> HIDE DEF A, B, f
<1>5. Cardinality(B) <= Cardinality(A)
  BY <1>2, <1>3, FS_Injection
<1> QED
  BY <1>4, <1>5 DEF Total, A, B

(* The first entry is taken. *)
LEMMA TotalTail ==
    ASSUME NEW n \in Nat, NEW w \in [1 .. n + 1 -> Nat], NEW v \in [1 .. n -> Nat],
           \A j \in 1 .. n : v[j] = w[j + 1]
    PROVE  Total(w) = w[1] + Total(v)
<1> DEFINE A == Columns(w, 2 .. n + 1)
           B == Columns(v, 1 .. n)
           f == [p \in B |-> <<p[1] + 1, p[2]>>]
<1>1. IsFiniteSet(1 .. n + 1) /\ IsFiniteSet(1 .. n)
  BY FS_Interval
<1>2. 1 \in 1 .. n + 1 /\ (1 .. n + 1) \ {1} = 2 .. n + 1
  OBVIOUS
<1>3. Total(w) = Cardinality(A) + w[1] /\ Cardinality(A) \in Nat
  <2>1. DOMAIN w = 1 .. n + 1 /\ \A j \in 1 .. n + 1 : w[j] \in Nat
    OBVIOUS
  <2>2. /\ Cardinality(Columns(w, (1 .. n + 1) \ {1})) \in Nat
        /\ Cardinality(Columns(w, 1 .. n + 1))
              = Cardinality(Columns(w, (1 .. n + 1) \ {1})) + w[1]
    BY <1>1, <1>2, <2>1, ColumnApart
  <2> QED
    BY <1>2, <2>1, <2>2 DEF Total
<1>4. f \in Bijection(B, A)
  <2>1. ASSUME NEW p \in B
        PROVE  /\ f[p] \in A /\ p = <<p[1], p[2]>> /\ p[1] \in Nat
    <3>1. PICK i \in 1 .. n : \E k \in 1 .. v[i] : p = <<i, k>>
      BY ColumnPoints
    <3>2. PICK k \in 1 .. v[i] : p = <<i, k>>
      BY <3>1
    <3>3. f[p] = <<i + 1, k>> /\ i + 1 \in 2 .. n + 1 /\ k \in 1 .. w[i + 1]
      BY <3>2
    <3>4. <<i + 1, k>> \in A
      BY <3>3, ColumnPoints
    <3>5. p = <<p[1], p[2]>> /\ p[1] \in Nat
      BY <3>2
    <3> QED
      BY <3>3, <3>4, <3>5
  <2>2. ASSUME NEW q \in A PROVE \E p \in B : f[p] = q
    <3>1. PICK i \in 2 .. n + 1 : \E k \in 1 .. w[i] : q = <<i, k>>
      BY ColumnPoints
    <3>2. PICK k \in 1 .. w[i] : q = <<i, k>>
      BY <3>1
    <3>3. i - 1 \in 1 .. n /\ (i - 1) + 1 = i /\ k \in 1 .. v[i - 1]
      BY <3>2
    <3>4. <<i - 1, k>> \in B
      BY <3>3, ColumnPoints
    <3>5. f[<<i - 1, k>>] = q
      BY <3>2, <3>3, <3>4
    <3> QED
      BY <3>4, <3>5
  <2>3. ASSUME NEW p \in B, NEW q \in B, f[p] = f[q] PROVE p = q
    <3>1. p[1] + 1 = q[1] + 1 /\ p[2] = q[2]
      BY <2>3
    <3>2. p[1] = q[1]
      <4>1. p[1] \in Nat /\ q[1] \in Nat
        BY <2>1
      <4> HIDE DEF A, B, f
      <4> QED
        BY <3>1, <4>1, SMTT(60)
    <3> QED
      BY <2>1, <3>1, <3>2
  <2>4. f \in [B -> A]
    BY <2>1
  <2> QED
    BY <2>2, <2>3, <2>4 DEF Bijection, Injection, IsInjective, Surjection
<1>5. IsFiniteSet(B)
  BY <1>1, ColumnsFinite
<1> HIDE DEF A, B, f
<1>6. Cardinality(A) = Cardinality(B)
  BY <1>4, <1>5, FS_Bijection DEF ExistsBijection
<1>7. Total(v) = Cardinality(B) /\ w[1] \in Nat
  BY <1>2 DEF Total, B
<1> QED
  BY <1>3, <1>6, <1>7
(* n entries of at most m come to no more than n times m. *)
LEMMA TotalBound ==
    ASSUME NEW n \in Nat, NEW m \in Nat, NEW w \in [1 .. n -> 0 .. m]
    PROVE  Total(w) \in Nat /\ Total(w) <= n * m
<1> DEFINE R == (1 .. n) \X (1 .. m)
<1>1. /\ IsFiniteSet(1 .. n) /\ Cardinality(1 .. n) = IF 1 <= n THEN n - 1 + 1 ELSE 0
      /\ IsFiniteSet(1 .. m) /\ Cardinality(1 .. m) = IF 1 <= m THEN m - 1 + 1 ELSE 0
  BY FS_Interval
<1>2. Cardinality(1 .. n) = n /\ Cardinality(1 .. m) = m
  BY <1>1
<1>3. IsFiniteSet(R) /\ Cardinality(R) = n * m
  <2>1. IsFiniteSet(R) /\ Cardinality(R) = Cardinality(1 .. n) * Cardinality(1 .. m)
    BY <1>1, FS_Product, Zenon
  <2> HIDE DEF R
  <2> QED
    BY <1>2, <2>1
<1>4. Columns(w, 1 .. n) \subseteq R
  <2> SUFFICES ASSUME NEW p \in Columns(w, 1 .. n) PROVE p \in R
    OBVIOUS
  <2>1. PICK i \in 1 .. n : \E k \in 1 .. w[i] : p = <<i, k>>
    BY ColumnPoints
  <2>2. PICK k \in 1 .. w[i] : p = <<i, k>>
    BY <2>1
  <2>3. w[i] \in 0 .. m
    OBVIOUS
  <2>4. k \in 1 .. m
    BY <2>2, <2>3
  <2> QED
    BY <2>2, <2>4
<1>5. Cardinality(Columns(w, 1 .. n)) <= Cardinality(R)
  BY <1>3, <1>4, FS_Subset
<1>6. w \in [1 .. n -> Nat]
  OBVIOUS
<1>7. Total(w) \in Nat
  BY <1>6, TotalType
<1> QED
  BY <1>3, <1>5, <1>7 DEF Total

-----------------------------------------------------------------------------
(* Multiples, and the buffer a position lies in.                           *)

(* Multiplication by a buffer size is monotonic. *)
LEMMA MulMono ==
    ASSUME NEW a \in Int, NEW b \in Int, NEW s \in Nat, a <= b
    PROVE  a * s <= b * s
<1>1. (b - a) * s >= 0
  OBVIOUS
<1>2. (b - a) * s = b * s - a * s
  OBVIOUS
<1> QED
  BY <1>1, <1>2

(* A position below another multiple lies in an earlier buffer. *)
LEMMA MulCancel ==
    ASSUME NEW a \in Int, NEW b \in Int, NEW s \in Nat, a * s < b * s
    PROVE  a < b
<1>1. CASE b <= a
  <2>1. b * s <= a * s
    BY <1>1, MulMono
  <2> QED
    BY <2>1
<1> QED
  BY <1>1

(* The position where a buffer begins determines the buffer. *)
LEMMA DivMul ==
    ASSUME NEW a \in Nat, NEW s \in Nat \ {0}
    PROVE  (a * s) \div s = a
OBVIOUS

(* Every position lies in one buffer. *)
LEMMA DivBounds ==
    ASSUME NEW a \in Nat, NEW s \in Nat \ {0}
    PROVE  /\ a \div s \in Nat /\ a % s \in 0 .. s - 1
           /\ a = (a \div s) * s + (a % s)
           /\ (a \div s) * s <= a /\ a < (a \div s) * s + s
OBVIOUS

(* In no other one. *)
LEMMA DivUnique ==
    ASSUME NEW q \in Nat, NEW s \in Nat \ {0}, NEW r \in 0 .. s - 1
    PROVE  (q * s + r) \div s = q /\ (q * s + r) % s = r
<1> DEFINE a == q * s + r
<1>1. a \in Nat /\ q * s <= a /\ a < (q + 1) * s
  OBVIOUS
<1>2. /\ a \div s \in Nat /\ a % s \in 0 .. s - 1 /\ a = (a \div s) * s + (a % s)
      /\ (a \div s) * s <= a /\ a < ((a \div s) + 1) * s
  <2>1. ((a \div s) + 1) * s = (a \div s) * s + s
    BY <1>1, DivBounds
  <2> QED
    BY <1>1, <2>1, DivBounds
<1> HIDE DEF a
<1>3. a \div s < q + 1
  <2>1. (a \div s) * s < (q + 1) * s
    BY <1>1, <1>2
  <2> QED
    BY <1>2, <2>1, MulCancel
<1>4. q < (a \div s) + 1
  <2>1. q * s < ((a \div s) + 1) * s
    BY <1>1, <1>2
  <2> QED
    BY <1>2, <2>1, MulCancel
<1>5. a \div s = q
  BY <1>2, <1>3, <1>4
<1>6. a % s = r
  BY <1>2, <1>5 DEF a
<1> QED
  BY <1>5, <1>6 DEF a

(* Multiples of s less than s apart are the same. *)
LEMMA MulGap ==
    ASSUME NEW a \in Int, NEW b \in Int, NEW s \in Nat \ {0},
           a * s < b * s + s, b * s < a * s + s
    PROVE  a = b
<1>1. a * s < (b + 1) * s /\ b * s < (a + 1) * s
  OBVIOUS
<1>2. a < b + 1 /\ b < a + 1
  BY <1>1, MulCancel
<1> QED
  BY <1>2
=============================================================================
