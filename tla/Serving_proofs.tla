---------------------------- MODULE Serving_proofs ----------------------------
(* What is served of a fitted bucket: its price never falls as the forecast  *)
(* rises, and the band, the floor and stage 2's evidence bound it, for any   *)
(* observations, lines, model and interval. It begins with what holds of     *)
(* numbers, loops and lists.                                                 *)
EXTENDS MCServing, Lists, FiniteSetTheorems, WellFoundedInduction, TLAPS

-----------------------------------------------------------------------------
(* Numbers *)

LEMMA LeastExists == ASSUME NEW S \in SUBSET Nat, S # {} PROVE \E x \in S : \A y \in S : x <= y
<1>1. PICK x \in S : \A y \in S : <<y, x>> \notin OpToRel(<, Nat)
  BY WFMin, NatLessThanWellFounded, Zenon
<1>2. \A y \in S : ~(y < x)
  BY <1>1 DEF OpToRel
<1> QED BY <1>2

\* What holds at first and of each next holds of all up to n.
LEMMA UpTo ==
  ASSUME NEW m \in Int, NEW n \in Int, NEW S,
         m \in S, \A i \in (m + 1)..n : i - 1 \in S => i \in S
  PROVE  \A i \in m..n : i \in S
<1> DEFINE Bad == {k \in Nat : m + k <= n /\ m + k \notin S}
<1> SUFFICES ASSUME NEW i \in m..n, i \notin S PROVE FALSE
  OBVIOUS
<1>1. i - m \in Bad
  <2>1. i - m \in Nat /\ m + (i - m) = i /\ i <= n
    OBVIOUS
  <2> QED BY <2>1
<1>2. PICK k \in Bad : \A j \in Bad : k <= j
  BY <1>1, LeastExists
<1>3. k # 0
  BY <1>2
<1>4. k - 1 \in Nat /\ k - 1 \notin Bad
  BY <1>2, <1>3
<1>5. m + (k - 1) \in S
  BY <1>2, <1>4
<1>6. m + k \in (m + 1)..n /\ (m + k) - 1 = m + (k - 1)
  BY <1>2, <1>3
<1>7. m + k \in S
  BY <1>5, <1>6
<1> QED BY <1>2, <1>7

\* Non-decreasing from each to the next is non-decreasing.
LEMMA Chain ==
  ASSUME NEW n \in Int, NEW f, \A k \in 1..n : f[k] \in Int,
         \A k \in 1..(n - 1) : f[k] <= f[k + 1]
  PROVE  \A k, l \in 1..n : k <= l => f[k] <= f[l]
<1> SUFFICES ASSUME NEW k \in 1..n PROVE \A l \in k..n : f[k] <= f[l]
  OBVIOUS
<1> DEFINE S == {l \in k..n : f[k] <= f[l]}
<1>1. k \in S
  OBVIOUS
<1>2. ASSUME NEW i \in (k + 1)..n, i - 1 \in S PROVE i \in S
  <2>1. i - 1 \in 1..(n - 1) /\ (i - 1) + 1 = i
    OBVIOUS
  <2>2. f[i - 1] <= f[i] /\ f[k] <= f[i - 1]
    BY <2>1, <1>2
  <2>3. f[k] \in Int /\ f[i] \in Int /\ f[i - 1] \in Int
    OBVIOUS
  <2>4. f[k] <= f[i]
    BY <2>2, <2>3
  <2> QED BY <2>4
<1> HIDE DEF S
<1>3. \A i \in k..n : i \in S
  BY <1>1, <1>2, UpTo
<1> QED BY <1>3 DEF S

\* The greatest and the smallest of integers with a bound are among them.
LEMMA MinIsOne ==
  ASSUME NEW n \in Int, NEW S \in SUBSET Int, S # {}, \A x \in S : n <= x
  PROVE  Min(S) \in S /\ \A x \in S : Min(S) <= x
<1> DEFINE T == {x - n : x \in S}
<1>1. \A x \in S : x \in Int /\ x - n \in Nat
  OBVIOUS
<1>2. T \in SUBSET Nat /\ T # {}
  BY <1>1
<1> HIDE DEF T
<1>3. PICK t \in T : \A u \in T : t <= u
  BY <1>2, LeastExists
<1>4. PICK m \in S : t = m - n
  BY <1>3 DEF T
<1>5. \A x \in S : m - n <= x - n
  BY <1>3, <1>4 DEF T
<1>6. \A x \in S : m <= x
  BY <1>1, <1>5
<1>7. \E x \in S : \A y \in S : x =< y
  BY <1>6
<1> QED BY <1>7 DEF Min

LEMMA MaxIsOne ==
  ASSUME NEW n \in Int, NEW S \in SUBSET Int, S # {}, \A x \in S : x <= n
  PROVE  Max(S) \in S /\ \A x \in S : x <= Max(S)
<1> DEFINE T == {n - x : x \in S}
<1>1. \A x \in S : x \in Int /\ n - x \in Nat
  OBVIOUS
<1>2. T \in SUBSET Nat /\ T # {}
  BY <1>1
<1> HIDE DEF T
<1>3. PICK t \in T : \A u \in T : t <= u
  BY <1>2, LeastExists
<1>4. PICK m \in S : t = n - m
  BY <1>3 DEF T
<1>5. \A x \in S : n - m <= n - x
  BY <1>3, <1>4 DEF T
<1>6. \A x \in S : m >= x
  BY <1>1, <1>5
<1>7. \E x \in S : \A y \in S : x >= y
  BY <1>6
<1>8. Max(S) \in S /\ \A x \in S : Max(S) >= x
  BY <1>7 DEF Max
<1>9. Max(S) \in Int
  BY <1>8
<1> QED BY <1>8, <1>9

\* Each value of f is good where the one before makes it so.
LEMMA Along ==
  ASSUME NEW n \in Nat, NEW Good, NEW f, f[0] \in Good[0],
         \A i \in 1..n : f[i - 1] \in Good[i - 1] => f[i] \in Good[i]
  PROVE  \A i \in 0..n : f[i] \in Good[i]
<1> DEFINE S == {i \in 0..n : f[i] \in Good[i]}
<1>1. 0 \in S
  OBVIOUS
<1>2. ASSUME NEW i \in (0 + 1)..n, i - 1 \in S PROVE i \in S
  <2>1. i \in 1..n /\ i \in 0..n /\ f[i - 1] \in Good[i - 1]
    BY <1>2
  <2> QED BY <2>1
<1> HIDE DEF S
<1>3. \A i \in 0..n : i \in S
  BY <1>1, <1>2, UpTo
<1> QED BY <1>3 DEF S

\* One minimum and one maximum.
LEMMA SameMin == \A S : Fits!Min(S) = Min(S) /\ Serving!Min(S) = Min(S) /\ Serving!Fits!Min(S) = Min(S)
BY DEF Min, Fits!Min, Serving!Min, Serving!Fits!Min

LEMMA SameMax == \A S : Fits!Max(S) = Max(S) /\ Serving!Max(S) = Max(S) /\ Serving!Fits!Max(S) = Max(S)
BY DEF Max, Fits!Max, Serving!Max, Serving!Fits!Max

LEMMA SameCardinality == \A S : Fits!Cardinality(S) = Cardinality(S) /\ Serving!Cardinality(S) = Cardinality(S)
BY DEF Cardinality, Fits!Cardinality, Serving!Cardinality

\* f is given by its first value, and each next value by the one before.
IsRec(f, n, base, step) == f = [i \in 0..n |-> IF i = 0 THEN base ELSE step[i][f[i - 1]]]

\* There is such a function.
LEMMA Recursion ==
  ASSUME NEW n \in Nat, NEW Good, NEW base, NEW step, base \in Good[0],
         \A i \in 1..n : \A b \in Good[i - 1] : step[i][b] \in Good[i]
  PROVE  \E f : IsRec(f, n, base, step) /\ \A i \in 0..n : f[i] \in Good[i]
<1> DEFINE Rec(f, k) == f = [i \in 0..k |-> IF i = 0 THEN base ELSE step[i][f[i - 1]]]
           S == {k \in 0..n : \E f : Rec(f, k)}
<1>1. 0 \in S
  <2>1. PICK f : f = [i \in 0..0 |-> base]
    OBVIOUS
  <2>2. \A i \in 0..0 : i = 0 /\ f[i] = base
    BY <2>1
  <2>3. f = [i \in 0..0 |-> IF i = 0 THEN base ELSE step[i][f[i - 1]]]
    BY <2>1, <2>2
  <2>4. Rec(f, 0)
    BY <2>3
  <2> HIDE DEF Rec
  <2> QED BY <2>4
<1>2. ASSUME NEW k \in (0 + 1)..n, k - 1 \in S PROVE k \in S
  <2>1. PICK f : Rec(f, k - 1)
    BY <1>2
  <2>2. PICK g : g = [i \in 0..k |-> IF i = k THEN step[k][f[k - 1]] ELSE f[i]]
    OBVIOUS
  <2>3. ASSUME NEW i \in 0..k PROVE g[i] = IF i = 0 THEN base ELSE step[i][g[i - 1]]
    <3>1. CASE i = k
      <4>1. g[i] = step[i][f[i - 1]] /\ i # 0 /\ i - 1 \in 0..k /\ i - 1 # k
        BY <2>2, <3>1
      <4>2. g[i - 1] = f[i - 1]
        BY <2>2, <4>1
      <4> QED BY <4>1, <4>2
    <3>2. CASE i # k
      <4>1. i \in 0..(k - 1) /\ g[i] = f[i]
        BY <2>2, <3>2
      <4>2. f[i] = IF i = 0 THEN base ELSE step[i][f[i - 1]]
        BY <2>1, <4>1
      <4>3. CASE i = 0
        BY <4>1, <4>2, <4>3
      <4>4. CASE i # 0
        <5>1. i - 1 \in 0..k /\ i - 1 # k
          BY <4>1, <4>4
        <5>2. g[i - 1] = f[i - 1]
          BY <2>2, <5>1
        <5> QED BY <4>1, <4>2, <4>4, <5>2
      <4> QED BY <4>3, <4>4
    <3> QED BY <3>1, <3>2
  <2>4. Rec(g, k)
    BY <2>2, <2>3
  <2> HIDE DEF Rec
  <2> QED BY <2>4
<1> HIDE DEF S
<1>3. \A k \in 0..n : k \in S
  BY <1>1, <1>2, UpTo
<1>4. n \in S
  BY <1>3
<1>5. \E f : Rec(f, n)
  BY <1>4, Zenon DEF S
<1>6. PICK f : IsRec(f, n, base, step)
  BY <1>5, Zenon DEF Rec, IsRec
<1>7. f[0] = base /\ \A i \in 1..n : f[i] = step[i][f[i - 1]]
  BY <1>6 DEF IsRec
<1>8. f[0] \in Good[0] /\ \A i \in 1..n : f[i - 1] \in Good[i - 1] => f[i] \in Good[i]
  BY <1>7
<1>9. \A i \in 0..n : f[i] \in Good[i]
  BY <1>8, Along
<1> QED BY <1>6, <1>9

-----------------------------------------------------------------------------
(* Lists *)

\* A loop over 1..n that starts from base and stays in G.
LEMMA Loop ==
  ASSUME NEW n \in Nat, NEW G, NEW base \in G, NEW step, \A i \in 1..n : \A b \in G : step[i][b] \in G
  PROVE  \E f : IsRec(f, n, base, step) /\ \A i \in 0..n : f[i] \in G
<1>1. PICK Good : Good = [i \in 0..n |-> G]
  OBVIOUS
<1>2. base \in Good[0]
  BY <1>1
<1>3. ASSUME NEW i \in 1..n, NEW b \in Good[i - 1] PROVE step[i][b] \in Good[i]
  <2>1. i - 1 \in 0..n /\ i \in 0..n
    OBVIOUS
  <2>2. Good[i - 1] = G /\ Good[i] = G
    BY <1>1, <2>1
  <2> QED BY <2>2
<1>4. PICK f : IsRec(f, n, base, step) /\ \A i \in 0..n : f[i] \in Good[i]
  BY <1>2, <1>3, Recursion
<1> QED BY <1>1, <1>4

IsAmong(f, s, S) ==
  f = [n \in 0..Len(s) |->
         IF n = 0 THEN <<>> ELSE IF s[n] \in S THEN Append(f[n - 1], s[n]) ELSE f[n - 1]]

\* The loop that Among is, and that what it has so far is a list of the same things.
LEMMA AmongLoop ==
  ASSUME NEW T, NEW s \in Seq(T), NEW S
  PROVE  \E f : IsAmong(f, s, S) /\ Among(s, S) = f[Len(s)] /\ \A n \in 0..Len(s) : f[n] \in Seq(T)
<1>1. PICK l \in Nat : l = Len(s)
  OBVIOUS
<1>2. PICK step : step = [n \in 1..l |-> [b \in Seq(T) |-> IF s[n] \in S THEN Append(b, s[n]) ELSE b]]
  OBVIOUS
<1>3. ASSUME NEW n \in 1..l, NEW b \in Seq(T) PROVE step[n][b] \in Seq(T)
  <2>1. s[n] \in T
    BY <1>1
  <2>2. Append(b, s[n]) \in Seq(T)
    BY <2>1
  <2> QED BY <1>2, <2>2
<1>4. PICK f : f = [n \in 0..l |-> IF n = 0 THEN <<>> ELSE step[n][f[n - 1]]] /\ \A n \in 0..l : f[n] \in Seq(T)
  <2>0. <<>> \in Seq(T)
    OBVIOUS
  <2>1. PICK none \in Seq(T) : none = <<>>
    BY <2>0
  <2>2. \E f : IsRec(f, l, none, step) /\ \A n \in 0..l : f[n] \in Seq(T)
    BY <1>3, Loop
  <2> QED BY <2>1, <2>2 DEF IsRec
<1>5. ASSUME NEW n \in 1..l PROVE step[n][f[n - 1]] = IF s[n] \in S THEN Append(f[n - 1], s[n]) ELSE f[n - 1]
  <2>1. f[n - 1] \in Seq(T)
    BY <1>4
  <2> QED BY <1>2, <2>1
<1>6. IsAmong(f, s, S)
  <2>1. f = [n \in 0..l |-> IF n = 0 THEN <<>> ELSE IF s[n] \in S THEN Append(f[n - 1], s[n]) ELSE f[n - 1]]
    BY <1>4, <1>5
  <2> QED BY <1>1, <2>1 DEF IsAmong
<1>7. PICK g : g = CHOOSE h : IsAmong(h, s, S)
  OBVIOUS
<1>8. IsAmong(g, s, S)
  BY <1>6, <1>7, Zenon
<1>9. Among(s, S) = g[Len(s)]
  BY <1>7, Zenon DEF Among, IsAmong
<1>10. \A n \in 0..l : g[n] \in Seq(T)
  <2> DEFINE Q == {n \in 0..l : g[n] \in Seq(T)}
  <2>1. 0 \in Q
    BY <1>1, <1>8 DEF IsAmong
  <2>2. ASSUME NEW n \in (0 + 1)..l, n - 1 \in Q PROVE n \in Q
    <3>1. n \in 0..Len(s) /\ n # 0 /\ s[n] \in T /\ g[n - 1] \in Seq(T)
      BY <1>1, <2>2
    <3>2. g[n] = IF s[n] \in S THEN Append(g[n - 1], s[n]) ELSE g[n - 1]
      BY <1>8, <3>1 DEF IsAmong
    <3>3. g[n] \in Seq(T)
      BY <3>1, <3>2
    <3> QED BY <2>2, <3>3
  <2> HIDE DEF Q
  <2>3. \A n \in 0..l : n \in Q
    BY <2>1, <2>2, UpTo
  <2> QED BY <2>3 DEF Q
<1> QED BY <1>1, <1>8, <1>9, <1>10

\* The elements of s in S, at the places g of s, in their order.
Picks(r, g, s, S) ==
  /\ g \in [1..Len(r) -> 1..Len(s)]
  /\ \A i \in 1..Len(r) : r[i] = s[g[i]] /\ s[g[i]] \in S
  /\ \A i, j \in 1..Len(r) : i < j => g[i] < g[j]
  /\ \A k \in 1..Len(s) : s[k] \in S => \E i \in 1..Len(r) : g[i] = k

\* What Among picks, and from where: all that is in S, in the order of s.
LEMMA AmongIs ==
  ASSUME NEW T, NEW s \in Seq(T), NEW S
  PROVE  Among(s, S) \in Seq(T) /\ \E g : Picks(Among(s, S), g, s, S)
<1>1. PICK l \in Nat : l = Len(s)
  OBVIOUS
<1>2. PICK f : IsAmong(f, s, S) /\ Among(s, S) = f[l] /\ \A n \in 0..l : f[n] \in Seq(T)
  BY <1>1, AmongLoop
<1> DEFINE To(r, g, n) ==
             /\ g \in [1..Len(r) -> 1..n]
             /\ \A i \in 1..Len(r) : r[i] = s[g[i]] /\ s[g[i]] \in S
             /\ \A i, j \in 1..Len(r) : i < j => g[i] < g[j]
             /\ \A k \in 1..n : s[k] \in S => \E i \in 1..Len(r) : g[i] = k
           Q == {n \in 0..l : \E g : To(f[n], g, n)}
<1>3. 0 \in Q
  <2>1. f[0] = <<>>
    BY <1>1, <1>2 DEF IsAmong
  <2>2. PICK e : e = [i \in 1..0 |-> i]
    OBVIOUS
  <2>3. To(f[0], e, 0)
    BY <2>1, <2>2
  <2> QED BY <2>3
<1>4. ASSUME NEW n \in (0 + 1)..l, n - 1 \in Q PROVE n \in Q
  <2>1. n \in 1..l /\ n \in 0..Len(s) /\ n # 0 /\ n - 1 \in 0..l
    BY <1>1
  <2>2. f[n] = IF s[n] \in S THEN Append(f[n - 1], s[n]) ELSE f[n - 1]
    BY <1>2, <2>1 DEF IsAmong
  <2>3. PICK g : To(f[n - 1], g, n - 1)
    BY <1>4
  <2>4. PICK r \in Seq(T), m \in Nat : r = f[n - 1] /\ m = Len(r)
    BY <1>2, <2>1
  <2>5. g \in [1..m -> 1..(n - 1)] /\ \A i \in 1..m : g[i] \in 1..(n - 1)
    BY <2>3, <2>4
  <2>6. CASE s[n] \notin S
    <3>1. f[n] = r
      BY <2>2, <2>4, <2>6
    <3>2. \A k \in 1..n : s[k] \in S => k \in 1..(n - 1)
      BY <2>6
    <3>3. g \in [1..m -> 1..n]
      BY <2>1, <2>5
    <3>4. To(r, g, n)
      BY <2>3, <2>4, <3>2, <3>3
    <3> QED BY <2>1, <3>1, <3>4
  <2>7. CASE s[n] \in S
    <3>1. f[n] = Append(r, s[n]) /\ s[n] \in T
      BY <1>1, <2>1, <2>2, <2>4, <2>7
    <3>2. Len(f[n]) = m + 1 /\ f[n][m + 1] = s[n] /\ \A i \in 1..m : f[n][i] = r[i]
      BY <2>4, <3>1, SMTT(20)
    <3>3. PICK h : h = [i \in 1..(m + 1) |-> IF i = m + 1 THEN n ELSE g[i]]
      OBVIOUS
    <3>4. h[m + 1] = n /\ \A i \in 1..m : h[i] = g[i]
      BY <2>4, <3>3
    <3>5. h \in [1..(m + 1) -> 1..n]
      <4>1. \A i \in 1..(m + 1) : h[i] \in 1..n
        <5> SUFFICES ASSUME NEW i \in 1..(m + 1) PROVE h[i] \in 1..n
          OBVIOUS
        <5>1. i = m + 1 \/ i \in 1..m
          BY <2>4
        <5> QED BY <2>1, <2>5, <3>4, <5>1
      <4> QED BY <3>3, <4>1
    <3>6. \A i \in 1..(m + 1) : f[n][i] = s[h[i]] /\ s[h[i]] \in S
      <4> SUFFICES ASSUME NEW i \in 1..(m + 1) PROVE f[n][i] = s[h[i]] /\ s[h[i]] \in S
        OBVIOUS
      <4>1. CASE i = m + 1
        BY <2>7, <3>2, <3>4, <4>1
      <4>2. CASE i \in 1..m
        BY <2>3, <2>4, <3>2, <3>4, <4>2
      <4> QED BY <2>4, <4>1, <4>2
    <3>7. \A i, j \in 1..(m + 1) : i < j => h[i] < h[j]
      <4> SUFFICES ASSUME NEW i \in 1..(m + 1), NEW j \in 1..(m + 1), i < j PROVE h[i] < h[j]
        OBVIOUS
      <4>1. i \in 1..m /\ h[i] = g[i] /\ g[i] \in 1..(n - 1)
        BY <2>4, <2>5, <3>4
      <4>2. CASE j = m + 1
        BY <2>1, <3>4, <4>1, <4>2
      <4>3. CASE j \in 1..m
        BY <2>3, <2>4, <3>4, <4>1, <4>3
      <4> QED BY <2>4, <4>2, <4>3
    <3>8. \A k \in 1..n : s[k] \in S => \E i \in 1..(m + 1) : h[i] = k
      <4> SUFFICES ASSUME NEW k \in 1..n, s[k] \in S PROVE \E i \in 1..(m + 1) : h[i] = k
        OBVIOUS
      <4>1. CASE k = n
        BY <2>4, <3>4, <4>1
      <4>2. CASE k \in 1..(n - 1)
        <5>1. PICK i \in 1..m : g[i] = k
          BY <2>3, <2>4, <4>2
        <5> QED BY <2>4, <3>4, <5>1
      <4> QED BY <2>1, <4>1, <4>2
    <3>9. To(f[n], h, n)
      BY <3>2, <3>5, <3>6, <3>7, <3>8
    <3> QED BY <2>1, <3>9
  <2> QED BY <2>6, <2>7
<1> HIDE DEF Q
<1>5. \A n \in 0..l : n \in Q
  BY <1>3, <1>4, UpTo
<1> HIDE DEF To
<1>6. \E g : To(f[l], g, l)
  BY <1>5 DEF Q
<1>7. PICK g : To(f[l], g, l)
  BY <1>6
<1>8. Picks(f[l], g, s, S)
  BY <1>1, <1>7 DEF To, Picks
<1> QED BY <1>1, <1>2, <1>8

\* Sets that agree on a list pick the same of it.
LEMMA AmongSame ==
  ASSUME NEW T, NEW s \in Seq(T), NEW S, NEW R, \A n \in 1..Len(s) : s[n] \in S <=> s[n] \in R
  PROVE  Among(s, S) = Among(s, R)
<1>1. PICK l \in Nat : l = Len(s)
  OBVIOUS
<1>2. PICK f : IsAmong(f, s, S) /\ Among(s, S) = f[l]
  BY <1>1, AmongLoop
<1>3. PICK g : IsAmong(g, s, R) /\ Among(s, R) = g[l]
  BY <1>1, AmongLoop
<1> DEFINE Q == {n \in 0..l : f[n] = g[n]}
<1>4. 0 \in Q
  BY <1>1, <1>2, <1>3 DEF IsAmong
<1>5. ASSUME NEW n \in (0 + 1)..l, n - 1 \in Q PROVE n \in Q
  <2>1. n \in 0..Len(s) /\ n # 0 /\ n \in 1..Len(s) /\ n \in 0..l
    BY <1>1
  <2>2. f[n] = IF s[n] \in S THEN Append(f[n - 1], s[n]) ELSE f[n - 1]
    BY <1>2, <2>1 DEF IsAmong
  <2>3. g[n] = IF s[n] \in R THEN Append(g[n - 1], s[n]) ELSE g[n - 1]
    BY <1>3, <2>1 DEF IsAmong
  <2>4. f[n - 1] = g[n - 1] /\ (s[n] \in S <=> s[n] \in R)
    BY <1>5, <2>1
  <2>5. f[n] = g[n]
    BY <2>2, <2>3, <2>4
  <2> QED BY <2>1, <2>5
<1> HIDE DEF Q
<1>6. \A n \in 0..l : n \in Q
  BY <1>4, <1>5, UpTo
<1> QED BY <1>2, <1>3, <1>6 DEF Q

\* Nothing is picked when nothing is in the set.
LEMMA AmongNone ==
  ASSUME NEW T, NEW s \in Seq(T), NEW S, \A n \in 1..Len(s) : s[n] \notin S
  PROVE  Among(s, S) = <<>>
<1>1. PICK r \in Seq(T) : r = Among(s, S)
  BY AmongIs
<1>2. PICK g : Picks(r, g, s, S)
  BY <1>1, AmongIs
<1>3. \A i \in 1..Len(r) : FALSE
  BY <1>2 DEF Picks
<1>4. Len(r) = 0
  BY <1>3
<1> QED BY <1>1, <1>4

\* One place only of s is in S.
LEMMA AmongOne ==
  ASSUME NEW T, NEW s \in Seq(T), NEW S, NEW k \in 1..Len(s), \A n \in 1..Len(s) : s[n] \in S <=> n = k
  PROVE  Among(s, S) = <<s[k]>>
<1>1. PICK r \in Seq(T) : r = Among(s, S)
  BY AmongIs
<1>2. PICK g : Picks(r, g, s, S)
  BY <1>1, AmongIs
<1>3. PICK m \in Nat : m = Len(r)
  BY <1>1
<1>4. \A i \in 1..m : g[i] = k
  <2>1. \A i \in 1..m : g[i] \in 1..Len(s) /\ s[g[i]] \in S
    BY <1>2, <1>3 DEF Picks
  <2> QED BY <2>1
<1>5. \A i, j \in 1..m : i < j => g[i] < g[j]
  BY <1>2, <1>3 DEF Picks
<1>6. m <= 1
  <2> SUFFICES ASSUME m > 1 PROVE FALSE
    OBVIOUS
  <2>1. 1 \in 1..m /\ 2 \in 1..m /\ 1 < 2
    OBVIOUS
  <2>2. g[1] = k /\ g[2] = k /\ g[1] < g[2]
    BY <1>4, <1>5, <2>1
  <2> QED BY <2>2
<1>7. m # 0
  <2>1. \E i \in 1..m : g[i] = k
    BY <1>2, <1>3 DEF Picks
  <2> QED BY <2>1
<1>8. m = 1 /\ r[1] = s[k]
  <2>1. m = 1 /\ 1 \in 1..Len(r)
    BY <1>3, <1>6, <1>7
  <2>2. r[1] = s[g[1]] /\ g[1] = k
    BY <1>2, <1>4, <2>1 DEF Picks
  <2> QED BY <2>1, <2>2
<1>9. r = <<s[k]>>
  <2>1. PICK x \in T : x = s[k]
    OBVIOUS
  <2>2. r \in Seq(T) /\ Len(r) = 1 /\ r[1] = x
    BY <1>3, <1>8, <2>1
  <2>3. <<x>> \in Seq(T) /\ Len(<<x>>) = 1 /\ <<x>>[1] = x
    OBVIOUS
  <2>4. r = <<x>>
    BY <2>2, <2>3, SMTT(20)
  <2> QED BY <2>1, <2>4
<1> QED BY <1>1, <1>9

\* The loop, step by step.
Steps(f, s, S, n) ==
  /\ f[0] = <<>> /\ Among(s, S) = f[n]
  /\ \A i \in 1..n : f[i] = IF s[i] \in S THEN Append(f[i - 1], s[i]) ELSE f[i - 1]

LEMMA AmongSteps ==
  ASSUME NEW T, NEW s \in Seq(T), NEW S, NEW n \in Nat, n = Len(s)
  PROVE  \E f : Steps(f, s, S, n) /\ \A i \in 0..n : f[i] \in Seq(T)
<1>1. PICK f : IsAmong(f, s, S) /\ Among(s, S) = f[Len(s)] /\ \A i \in 0..Len(s) : f[i] \in Seq(T)
  BY AmongLoop
<1>2. f[0] = <<>>
  BY <1>1 DEF IsAmong
<1>3. ASSUME NEW i \in 1..n PROVE f[i] = IF s[i] \in S THEN Append(f[i - 1], s[i]) ELSE f[i - 1]
  <2>1. i \in 0..Len(s) /\ i # 0
    OBVIOUS
  <2> QED BY <1>1, <2>1 DEF IsAmong
<1>4. Steps(f, s, S, n)
  BY <1>1, <1>2, <1>3 DEF Steps
<1> QED BY <1>1, <1>4

\* Lists of the same things at the same places are the same.
LEMMA AppendJoins ==
  ASSUME NEW T, NEW p \in Seq(T), NEW x \in T
  PROVE  Append(p, x) = p \o <<x>>
<1>1. Append(p, x) \in Seq(T) /\ p \o <<x>> \in Seq(T)
  OBVIOUS
<1> QED BY <1>1

\* Appending to the second of two lists joined.
LEMMA AppendToJoin ==
  ASSUME NEW T, NEW a \in Seq(T), NEW b \in Seq(T), NEW x \in T
  PROVE  a \o Append(b, x) = Append(a \o b, x)
<1>1. a \o Append(b, x) \in Seq(T) /\ Append(a \o b, x) \in Seq(T)
  OBVIOUS
<1> QED BY <1>1

\* Picking from two lists joined joins what is picked from each.
LEMMA AmongJoined ==
  ASSUME NEW T, NEW p \in Seq(T), NEW q \in Seq(T), NEW S
  PROVE  Among(p \o q, S) = Among(p, S) \o Among(q, S)
<1>0. p \o q \in Seq(T)
  OBVIOUS
<1>1. PICK s : s = p \o q /\ s \in Seq(T)
  BY <1>0
<1>2. PICK l \in Nat : l = Len(p)
  OBVIOUS
<1>a. PICK m \in Nat : m = Len(q)
  OBVIOUS
<1>3. Len(s) = l + m /\ (\A n \in 1..l : s[n] = p[n]) /\ (\A n \in 1..m : s[l + n] = q[n])
  BY <1>1, <1>2, <1>a
<1>4. PICK f : Steps(f, s, S, l + m)
  <2>1. l + m \in Nat
    OBVIOUS
  <2> QED BY <1>1, <1>3, <2>1, AmongSteps
<1>5. PICK g : Steps(g, p, S, l) /\ \A n \in 0..l : g[n] \in Seq(T)
  BY <1>2, AmongSteps
<1>6. PICK h : Steps(h, q, S, m) /\ \A n \in 0..m : h[n] \in Seq(T)
  BY <1>a, AmongSteps
<1>7. f[0] = <<>> /\ \A n \in 1..(l + m) : f[n] = IF s[n] \in S THEN Append(f[n - 1], s[n]) ELSE f[n - 1]
  BY <1>4 DEF Steps
<1>8. g[0] = <<>> /\ \A n \in 1..l : g[n] = IF p[n] \in S THEN Append(g[n - 1], p[n]) ELSE g[n - 1]
  BY <1>5 DEF Steps
<1>9. h[0] = <<>> /\ \A n \in 1..m : h[n] = IF q[n] \in S THEN Append(h[n - 1], q[n]) ELSE h[n - 1]
  BY <1>6 DEF Steps
<1> DEFINE P == {n \in 0..l : f[n] = g[n]}
           Q == {n \in 0..m : f[l + n] = g[l] \o h[n]}
<1>10. 0 \in P
  BY <1>7, <1>8
<1>11. ASSUME NEW n \in (0 + 1)..l, n - 1 \in P PROVE n \in P
  <2>1. n \in 1..l /\ n \in 1..(l + m) /\ n \in 0..l /\ f[n - 1] = g[n - 1]
    BY <1>11
  <2>2. f[n] = IF s[n] \in S THEN Append(f[n - 1], s[n]) ELSE f[n - 1]
    BY <1>7, <2>1
  <2>3. g[n] = IF p[n] \in S THEN Append(g[n - 1], p[n]) ELSE g[n - 1]
    BY <1>8, <2>1
  <2>4. f[n] = g[n]
    BY <1>3, <2>1, <2>2, <2>3
  <2> QED BY <2>1, <2>4
<1>12. l \in P
  <2> HIDE DEF P
  <2>0. 0 \in Int /\ l \in Int
    OBVIOUS
  <2>1. \A n \in 0..l : n \in P
    BY <2>0, <1>10, <1>11, UpTo
  <2> QED BY <2>1
<1>13. 0 \in Q
  <2>1. g[l] \in Seq(T)
    BY <1>5
  <2>2. g[l] \o <<>> = g[l]
    BY <2>1
  <2>3. f[l + 0] = g[l] \o h[0]
    <3>1. l + 0 = l /\ h[0] = <<>>
      BY <1>9
    <3>2. f[l] = g[l]
      BY <1>12
    <3>3. f[l + 0] = f[l]
      BY <3>1
    <3> QED BY <2>2, <3>1, <3>2, <3>3, Zenon
  <2>4. 0 \in 0..m
    OBVIOUS
  <2> QED BY <2>3, <2>4
<1>14. ASSUME NEW n \in (0 + 1)..m, n - 1 \in Q PROVE n \in Q
  <2>1. n \in 1..m /\ l + n \in 1..(l + m) /\ n \in 0..m /\ n - 1 \in 0..m /\ (l + n) - 1 = l + (n - 1)
    OBVIOUS
  <2>2. f[l + (n - 1)] = g[l] \o h[n - 1]
    BY <1>14
  <2>3. f[l + n] = IF s[l + n] \in S THEN Append(f[l + (n - 1)], s[l + n]) ELSE f[l + (n - 1)]
    <3>1. f[l + n] = IF s[l + n] \in S THEN Append(f[(l + n) - 1], s[l + n]) ELSE f[(l + n) - 1]
      BY <1>7, <2>1
    <3> QED BY <2>1, <3>1
  <2>4. s[l + n] = q[n] /\ q[n] \in T
    BY <1>a, <1>3, <2>1
  <2>5. h[n] = IF q[n] \in S THEN Append(h[n - 1], q[n]) ELSE h[n - 1]
    BY <1>9, <2>1
  <2>6. g[l] \in Seq(T) /\ h[n - 1] \in Seq(T)
    BY <1>5, <1>6, <2>1
  <2>7. g[l] \o Append(h[n - 1], q[n]) = Append(g[l] \o h[n - 1], q[n])
    <3>1. PICK a \in Seq(T), b \in Seq(T), x \in T : a = g[l] /\ b = h[n - 1] /\ x = q[n]
      BY <2>4, <2>6
    <3>2. a \o Append(b, x) = Append(a \o b, x)
      BY AppendToJoin
    <3> QED BY <3>1, <3>2, Zenon
  <2>8. f[l + n] = g[l] \o h[n]
    BY <2>2, <2>3, <2>4, <2>5, <2>7
  <2> QED BY <2>1, <2>8
<1>15. m \in Q
  <2> HIDE DEF Q
  <2>0. 0 \in Int /\ m \in Int
    OBVIOUS
  <2>1. \A n \in 0..m : n \in Q
    BY <2>0, <1>13, <1>14, UpTo
  <2> QED BY <2>1
<1> QED BY <1>1, <1>4, <1>5, <1>6, <1>15 DEF Steps

-----------------------------------------------------------------------------
(* Blocks *)

\* The blocks are the rows 1..n, each once and in order.
Tiles(bs, n) ==
  /\ Len(bs) = 0 <=> n = 0
  /\ \A k \in 1..Len(bs) : bs[k].from \in 1..n /\ bs[k].to \in bs[k].from..n
  /\ n # 0 => bs[1].from = 1 /\ bs[Len(bs)].to = n
  /\ \A k \in 1..(Len(bs) - 1) : bs[k + 1].from = bs[k].to + 1

\* r is p with its last m blocks, and a new one, merged into b.
Merged(p, m, b, r) ==
  /\ Len(r) = Len(p) - m + 1
  /\ \A k \in 1..(Len(p) - m) : r[k] = p[k]
  /\ r[Len(p) - m + 1] = b

LEMMA AppendIs ==
  ASSUME NEW B, NEW s \in Seq(B), NEW b \in B
  PROVE  /\ Append(s, b) \in Seq(B) /\ Len(Append(s, b)) = Len(s) + 1
         /\ Append(s, b)[Len(s) + 1] = b /\ \A k \in 1..Len(s) : Append(s, b)[k] = s[k]
OBVIOUS

LEMMA MergedIs ==
  ASSUME NEW B, NEW p \in Seq(B), NEW x \in B, NEW b \in B, NEW m \in 0..Len(p), NEW r,
         r = Append(SubSeq(Append(p, x), 1, Len(Append(p, x)) - m - 1), b)
  PROVE  r \in Seq(B) /\ Merged(p, m, b, r)
<1>1. PICK n \in Nat : n = Len(p)
  OBVIOUS
<1>2. Append(p, x) \in Seq(B) /\ Len(Append(p, x)) = n + 1 /\ \A k \in 1..n : Append(p, x)[k] = p[k]
  BY <1>1
<1>3. PICK s : s = SubSeq(Append(p, x), 1, Len(Append(p, x)) - m - 1)
  OBVIOUS
<1>4. (n + 1) - m - 1 = n - m /\ n - m \in 0..n
  BY <1>1
<1>5. s = SubSeq(Append(p, x), 1, n - m)
  BY <1>2, <1>3, <1>4
<1>6. s \in Seq(B) /\ Len(s) = n - m /\ \A k \in 1..(n - m) : s[k] = Append(p, x)[k]
  BY <1>2, <1>4, <1>5
<1>7. \A k \in 1..(n - m) : s[k] = p[k]
  BY <1>2, <1>4, <1>6
<1>8. r = Append(s, b)
  BY <1>3
<1>9. r \in Seq(B) /\ Len(r) = n - m + 1 /\ r[n - m + 1] = b /\ \A k \in 1..(n - m) : r[k] = s[k]
  <2>1. r \in Seq(B) /\ Len(r) = Len(s) + 1 /\ r[Len(s) + 1] = b /\ \A k \in 1..Len(s) : r[k] = s[k]
    <3>1. s \in Seq(B)
      BY <1>6
    <3>2. /\ Append(s, b) \in Seq(B) /\ Len(Append(s, b)) = Len(s) + 1
          /\ Append(s, b)[Len(s) + 1] = b /\ \A k \in 1..Len(s) : Append(s, b)[k] = s[k]
      BY <3>1, SMTT(20)
    <3> QED BY <1>8, <3>2, Zenon
  <2> QED BY <1>6, <2>1
<1>10. \A k \in 1..(n - m) : r[k] = p[k]
  BY <1>7, <1>9
<1> QED BY <1>1, <1>9, <1>10, Zenon DEF Merged

\* Merging keeps the rows covered.
LEMMA MergedTiles ==
  ASSUME NEW n \in Nat \ {0}, NEW B, NEW p \in Seq(B), Tiles(p, n - 1), NEW m \in 0..Len(p),
         NEW b, b.from = (IF m = 0 THEN n ELSE p[Len(p) + 1 - m].from), b.to = n,
         NEW r, Merged(p, m, b, r)
  PROVE  Tiles(r, n)
<1>1. PICK l \in Nat : l = Len(p)
  OBVIOUS
<1>2. PICK j \in 1..(l + 1) : j = l - m + 1
  BY <1>1
<1>3. Len(r) = j /\ r[j] = b /\ \A k \in 1..(j - 1) : r[k] = p[k]
  BY <1>1, <1>2 DEF Merged
<1>4. \A k \in 1..l : p[k].from \in 1..(n - 1) /\ p[k].to \in p[k].from..(n - 1)
  BY <1>1 DEF Tiles
<1>5. b.from = IF j = l + 1 THEN n ELSE p[j].from
  BY <1>1, <1>2
<1>6. b.from \in 1..n
  BY <1>2, <1>4, <1>5
<1>7. \A k \in 1..j : r[k].from \in 1..n /\ r[k].to \in r[k].from..n
  <2> SUFFICES ASSUME NEW k \in 1..j PROVE r[k].from \in 1..n /\ r[k].to \in r[k].from..n
    OBVIOUS
  <2>1. CASE k = j
    BY <1>3, <1>6, <2>1
  <2>2. CASE k # j
    <3>1. k \in 1..(j - 1) /\ k \in 1..l
      BY <1>2, <2>2
    <3> QED BY <1>3, <1>4, <3>1
  <2> QED BY <2>1, <2>2
<1>8. r[1].from = 1
  <2>1. CASE j = 1 /\ j = l + 1
    <3>1. l = 0 /\ n - 1 = 0
      BY <1>1, <2>1 DEF Tiles
    <3> QED BY <1>3, <1>5, <2>1, <3>1
  <2>2. CASE ~(j = 1 /\ j = l + 1)
    <3>1. l # 0 /\ n - 1 # 0
      BY <1>1, <1>2, <2>2 DEF Tiles
    <3>2. p[1].from = 1
      BY <1>1, <3>1 DEF Tiles
    <3> QED BY <1>2, <1>3, <1>5, <2>2, <3>2
  <2> QED BY <2>1, <2>2
<1>9. \A k \in 1..(j - 1) : r[k + 1].from = r[k].to + 1
  <2> SUFFICES ASSUME NEW k \in 1..(j - 1) PROVE r[k + 1].from = r[k].to + 1
    OBVIOUS
  <2>1. r[k] = p[k]
    BY <1>3
  <2>2. CASE k + 1 = l + 1
    <3>1. n - 1 # 0 /\ k = l /\ j = l + 1
      BY <1>1, <1>2, <2>2 DEF Tiles
    <3>2. p[l].to = n - 1
      BY <1>1, <3>1 DEF Tiles
    <3> QED BY <1>3, <1>5, <2>1, <3>1, <3>2
  <2>3. CASE k + 1 # l + 1
    <3>1. k \in 1..(l - 1)
      BY <1>2, <2>3
    <3>2. p[k + 1].from = p[k].to + 1
      BY <1>1, <3>1 DEF Tiles
    <3>3. CASE k + 1 = j
      BY <1>3, <1>5, <2>1, <2>3, <3>2, <3>3
    <3>4. CASE k + 1 # j
      <4>1. k + 1 \in 1..(j - 1)
        BY <3>4
      <4> QED BY <1>3, <2>1, <3>2, <4>1
    <3> QED BY <3>3, <3>4
  <2> QED BY <2>2, <2>3
<1> QED BY <1>2, <1>3, <1>7, <1>8, <1>9 DEF Tiles

\* Every row has a block, and blocks of later rows come later.
LEMMA TilesCover ==
  ASSUME NEW n \in Nat, NEW B, NEW bs \in Seq(B), Tiles(bs, n)
  PROVE  /\ \A i \in 1..n : \E k \in 1..Len(bs) : i \in bs[k].from..bs[k].to
         /\ \A k, l \in 1..Len(bs) : k < l => bs[k].to < bs[l].from
<1>1. PICK L \in Nat : L = Len(bs)
  OBVIOUS
<1>2. \A k \in 1..L : bs[k].from \in 1..n /\ bs[k].to \in bs[k].from..n
  BY <1>1 DEF Tiles
<1>3. \A k \in 1..(L - 1) : bs[k + 1].from = bs[k].to + 1
  BY <1>1 DEF Tiles
<1>4. \A k, l \in 1..L : k < l => bs[k].to < bs[l].from
  <2> DEFINE f == [k \in 1..L |-> bs[k].from]
  <2>3. \A k \in 1..L : f[k] = bs[k].from
    OBVIOUS
  <2> HIDE DEF f
  <2>1. \A k \in 1..L : f[k] \in Int
    BY <1>2, <2>3
  <2>2. \A k \in 1..(L - 1) : f[k] <= f[k + 1]
    <3> SUFFICES ASSUME NEW k \in 1..(L - 1) PROVE f[k] <= f[k + 1]
      OBVIOUS
    <3>1. k \in 1..L /\ k + 1 \in 1..L
      OBVIOUS
    <3>2. bs[k + 1].from = bs[k].to + 1 /\ bs[k].to \in bs[k].from..n /\ bs[k].from \in Int
      BY <1>2, <1>3, <3>1
    <3>3. bs[k].from <= bs[k + 1].from
      BY <3>2
    <3> QED BY <2>3, <3>1, <3>3
  <2>4. \A k, l \in 1..L : k <= l => f[k] <= f[l]
    <3>1. L \in Int
      OBVIOUS
    <3> QED BY <3>1, <2>1, <2>2, Chain
  <2> SUFFICES ASSUME NEW k \in 1..L, NEW l \in 1..L, k < l PROVE bs[k].to < bs[l].from
    OBVIOUS
  <2>5. k \in 1..(L - 1) /\ k + 1 \in 1..L /\ k + 1 <= l
    OBVIOUS
  <2>6. bs[k + 1].from <= bs[l].from
    BY <2>3, <2>4, <2>5
  <2> QED BY <1>2, <1>3, <2>5, <2>6
<1>5. ASSUME NEW i \in 1..n PROVE \E k \in 1..L : i \in bs[k].from..bs[k].to
  <2> DEFINE S == {k \in 1..L : bs[k].from <= i}
  <2>1. L # 0 /\ bs[1].from = 1 /\ bs[L].to = n
    BY <1>1, <1>5 DEF Tiles
  <2>2. 1 \in S
    BY <2>1
  <2>3. S \in SUBSET Int /\ \A k \in S : k <= L
    OBVIOUS
  <2>4. PICK k \in S : \A l \in S : l <= k
    <3> HIDE DEF S
    <3>1. Max(S) \in S /\ \A x \in S : x <= Max(S)
      <4>1. S # {} /\ L \in Int
        BY <2>2
      <4> QED BY <4>1, <2>3, MaxIsOne
    <3> QED BY <3>1
  <2>5. k \in 1..L /\ bs[k].from <= i
    OBVIOUS
  <2>6. CASE k = L
    BY <1>2, <2>1, <2>5, <2>6
  <2>7. CASE k # L
    <3>1. k \in 1..(L - 1) /\ k + 1 \in 1..L /\ k + 1 \notin S
      BY <2>4, <2>5, <2>7
    <3>2. ~(bs[k + 1].from <= i)
      BY <3>1
    <3>3. bs[k + 1].from = bs[k].to + 1 /\ bs[k].to \in Int /\ bs[k].from \in Int
      BY <1>2, <1>3, <2>5, <3>1
    <3>4. i <= bs[k].to
      BY <3>2, <3>3
    <3> QED BY <2>5, <3>3, <3>4
  <2> QED BY <2>6, <2>7
<1> QED BY <1>1, <1>4, <1>5

-----------------------------------------------------------------------------
(* Means *)

MeanBlock == [from : Nat, to : Nat, sum : Int, w : Nat \ {0}]
Rises(a, b) == a.sum * b.w <= b.sum * a.w
Rising(bs) == \A k \in 1..(Len(bs) - 1) : Rises(bs[k], bs[k + 1])

\* The last blocks merged into one, and what Settle makes of the blocks with it.
IsLastMean(f, bs) ==
  f = [k \in 0..(Len(bs) - 1) |-> IF k = 0 THEN bs[Len(bs)] ELSE Fits!MergeMeans(bs[Len(bs) - k], f[k - 1])]
LastMean(bs) == CHOOSE f : IsLastMean(f, bs)
Undone(bs) == Fits!Min({k \in 0..(Len(bs) - 1) : k = Len(bs) - 1 \/ Rises(bs[Len(bs) - k - 1], LastMean(bs)[k])})
SettledMeans(bs) == Append(SubSeq(bs, 1, Len(bs) - Undone(bs) - 1), LastMean(bs)[Undone(bs)])

LEMMA MergeMeansIs ==
  ASSUME NEW a \in MeanBlock, NEW b \in MeanBlock
  PROVE  /\ Fits!MergeMeans(a, b) \in MeanBlock
         /\ Fits!MergeMeans(a, b).from = a.from /\ Fits!MergeMeans(a, b).to = b.to
BY DEF Fits!MergeMeans, MeanBlock

LEMMA LastMeanIs ==
  ASSUME NEW n \in Nat, NEW p \in Seq(MeanBlock), NEW x \in MeanBlock, x.from = n, x.to = n
  PROVE  \A k \in 0..Len(p) :
           /\ LastMean(Append(p, x))[k] \in MeanBlock
           /\ LastMean(Append(p, x))[k].from = (IF k = 0 THEN n ELSE p[Len(p) + 1 - k].from)
           /\ LastMean(Append(p, x))[k].to = n
<1>1. PICK l \in Nat : l = Len(p)
  OBVIOUS
<1>2. PICK bs : bs = Append(p, x)
  OBVIOUS
<1>3. Len(bs) = l + 1 /\ bs[l + 1] = x /\ \A k \in 1..l : bs[k] = p[k]
  BY <1>1, <1>2, SMTT(20)
<1> DEFINE good(k) == {q \in MeanBlock : q.from = (IF k = 0 THEN n ELSE p[l + 1 - k].from) /\ q.to = n}
           Good == [k \in 0..l |-> good(k)]
           step == [k \in 1..l |-> [q \in Good[k - 1] |-> Fits!MergeMeans(bs[l + 1 - k], q)]]
<1>4. ASSUME NEW k \in 1..l, NEW q \in MeanBlock, q.to = n
      PROVE  Fits!MergeMeans(bs[l + 1 - k], q) \in Good[k]
  <2>1. l + 1 - k \in 1..l /\ k # 0 /\ k \in 0..l
    OBVIOUS
  <2>2. bs[l + 1 - k] = p[l + 1 - k] /\ p[l + 1 - k] \in MeanBlock
    BY <1>1, <1>3, <2>1
  <2>3. Fits!MergeMeans(bs[l + 1 - k], q) \in good(k)
    BY <1>4, <2>1, <2>2, MergeMeansIs
  <2> QED BY <2>1, <2>3
<1>5. ASSUME NEW k \in 0..l, NEW q PROVE q \in Good[k] <=> q \in good(k)
  OBVIOUS
<1>6. x \in Good[0]
  OBVIOUS
<1>7. \A k \in 1..l : \A q \in Good[k - 1] :
        step[k][q] = Fits!MergeMeans(bs[l + 1 - k], q) /\ q \in MeanBlock /\ q.to = n
  <2> SUFFICES ASSUME NEW k \in 1..l, NEW q \in Good[k - 1]
               PROVE  step[k][q] = Fits!MergeMeans(bs[l + 1 - k], q) /\ q \in MeanBlock /\ q.to = n
    OBVIOUS
  <2>1. k - 1 \in 0..l /\ step[k][q] = Fits!MergeMeans(bs[l + 1 - k], q)
    OBVIOUS
  <2>2. q \in good(k - 1)
    BY <1>5, <2>1
  <2> QED BY <2>1, <2>2
<1>8. \A k \in 0..l : \A q \in Good[k] :
        q \in MeanBlock /\ q.from = (IF k = 0 THEN n ELSE p[l + 1 - k].from) /\ q.to = n
  BY <1>5
<1> HIDE DEF Good, step, good
<1>9. \A k \in 1..l : \A q \in Good[k - 1] : step[k][q] \in Good[k]
  BY <1>4, <1>7
<1>10. PICK f : IsRec(f, l, x, step) /\ \A k \in 0..l : f[k] \in Good[k]
  BY <1>6, <1>9, Recursion
<1>11. IsLastMean(f, bs)
  <2>1. \A k \in 0..l : f[k] = IF k = 0 THEN bs[l + 1] ELSE Fits!MergeMeans(bs[l + 1 - k], f[k - 1])
    <3> SUFFICES ASSUME NEW k \in 0..l
                 PROVE  f[k] = IF k = 0 THEN bs[l + 1] ELSE Fits!MergeMeans(bs[l + 1 - k], f[k - 1])
      OBVIOUS
    <3>1. CASE k = 0
      BY <1>3, <1>10, <3>1 DEF IsRec
    <3>2. CASE k # 0
      <4>1. k \in 1..l /\ k - 1 \in 0..l
        BY <3>2
      <4>2. f[k] = step[k][f[k - 1]] /\ f[k - 1] \in Good[k - 1]
        BY <1>10, <3>2, <4>1 DEF IsRec
      <4> QED BY <1>7, <3>2, <4>1, <4>2
    <3> QED BY <3>1, <3>2
  <2>2. f = [k \in 0..l |-> f[k]]
    BY <1>10 DEF IsRec
  <2>3. f = [k \in 0..l |-> IF k = 0 THEN bs[l + 1] ELSE Fits!MergeMeans(bs[l + 1 - k], f[k - 1])]
    BY <2>1, <2>2
  <2>4. (l + 1) - 1 = l
    OBVIOUS
  <2> QED BY <1>3, <2>3, <2>4 DEF IsLastMean
<1>12. PICK g : g = LastMean(bs)
  OBVIOUS
<1>13. IsLastMean(g, bs)
  BY <1>11, <1>12, Zenon DEF LastMean
<1>14. g[0] = x /\ \A k \in 1..l : g[k] = Fits!MergeMeans(bs[l + 1 - k], g[k - 1])
  BY <1>3, <1>13 DEF IsLastMean
<1>15. \A k \in 1..l : g[k - 1] \in Good[k - 1] => g[k] \in Good[k]
  BY <1>4, <1>7, <1>14
<1>16. \A k \in 0..l : g[k] \in Good[k]
  BY <1>6, <1>14, <1>15, Along
<1> QED BY <1>1, <1>2, <1>8, <1>12, <1>16

LEMMA SettledMeansAre ==
  ASSUME NEW n \in Nat \ {0}, NEW p \in Seq(MeanBlock), Tiles(p, n - 1), Rising(p),
         NEW x \in MeanBlock, x.from = n, x.to = n,
         NEW r, r = SettledMeans(Append(p, x))
  PROVE  r \in Seq(MeanBlock) /\ Tiles(r, n) /\ Rising(r)
<1>1. PICK l \in Nat : l = Len(p)
  OBVIOUS
<1>2. PICK bs : bs = Append(p, x)
  OBVIOUS
<1>3. Len(bs) = l + 1 /\ bs[l + 1] = x /\ \A k \in 1..l : bs[k] = p[k]
  BY <1>1, <1>2, SMTT(20)
<1>4. PICK g : g = LastMean(bs)
  OBVIOUS
<1>5. \A k \in 0..l : g[k] \in MeanBlock /\ g[k].from = (IF k = 0 THEN n ELSE p[l + 1 - k].from) /\ g[k].to = n
  BY <1>1, <1>2, <1>4, LastMeanIs
<1>6. PICK S : S = {k \in 0..(Len(bs) - 1) : k = Len(bs) - 1 \/ Rises(bs[Len(bs) - k - 1], g[k])}
  OBVIOUS
<1>7. S = {k \in 0..l : k = l \/ Rises(bs[l + 1 - k - 1], g[k])}
  <2>1. (l + 1) - 1 = l /\ Len(bs) = l + 1
    BY <1>3
  <2> QED BY <1>6, <2>1
<1>8. PICK m : m = Min(S)
  OBVIOUS
<1>9. m \in S
  <2>1. S \in SUBSET Int /\ S # {} /\ 0 \in Int /\ \A k \in S : 0 <= k
    <3>1. l \in S
      BY <1>7
    <3>2. \A k \in S : k \in Int /\ 0 <= k
      BY <1>7
    <3> QED BY <3>1, <3>2
  <2>2. Min(S) \in S
    BY <2>1, MinIsOne, Zenon
  <2> QED BY <1>8, <2>2, Zenon
<1>10. m \in 0..l /\ (m = l \/ Rises(bs[l + 1 - m - 1], g[m]))
  BY <1>7, <1>9
<1>11. Undone(bs) = m
  BY <1>4, <1>6, <1>8, SameMin DEF Undone
<1>12. r = Append(SubSeq(Append(p, x), 1, Len(Append(p, x)) - m - 1), g[m])
  BY <1>2, <1>4, <1>11 DEF SettledMeans
<1>13. m \in 0..Len(p) /\ g[m] \in MeanBlock
  BY <1>1, <1>5, <1>10
<1>14. r \in Seq(MeanBlock) /\ Merged(p, m, g[m], r)
  BY <1>12, <1>13, MergedIs
<1>15. g[m].from = (IF m = 0 THEN n ELSE p[Len(p) + 1 - m].from) /\ g[m].to = n
  BY <1>1, <1>5, <1>10
<1>16. Tiles(r, n)
  BY <1>13, <1>14, <1>15, MergedTiles
<1>17. PICK j \in 1..(l + 1) : j = l - m + 1
  BY <1>10
<1>18. Len(r) = j /\ r[j] = g[m] /\ \A k \in 1..(j - 1) : r[k] = p[k]
  <2>1. Len(p) - m + 1 = j /\ Len(p) - m = j - 1
    BY <1>1, <1>10, <1>17
  <2> QED BY <1>14, <2>1 DEF Merged
<1>19. Rising(r)
  <2> SUFFICES ASSUME NEW k \in 1..(j - 1) PROVE Rises(r[k], r[k + 1])
    BY <1>18 DEF Rising
  <2>1. CASE k + 1 = j
    <3>1. m # l /\ l + 1 - m - 1 = k /\ k \in 1..l
      BY <1>10, <1>17, <2>1
    <3>2. Rises(bs[k], g[m]) /\ bs[k] = p[k]
      BY <1>3, <1>10, <3>1
    <3> QED BY <1>18, <2>1, <3>2
  <2>2. CASE k + 1 # j
    <3>1. k \in 1..(l - 1) /\ k + 1 \in 1..(j - 1)
      BY <1>17, <2>2
    <3>2. Rises(p[k], p[k + 1])
      BY <1>1, <3>1 DEF Rising
    <3> QED BY <1>18, <3>1, <3>2
  <2> QED BY <2>1, <2>2
<1> QED BY <1>14, <1>16, <1>19

\* The rows of a fit: what its values are computed of.
RowSet == [x : Int, y : Int, w : Nat \ {0}, day : Nat, p50 : Int]

\* The numbers of such a row.
LEMMA RowNumbers == \A r \in RowSet : r.x \in Int /\ r.y \in Int /\ r.w \in Nat /\ r.w \in Int /\ r.w # 0
BY DEF RowSet

IsPooledMeans(f, v, rows) ==
  f = [i \in 0..Len(rows) |->
         IF i = 0 THEN <<>>
         ELSE SettledMeans(Append(f[i - 1], [from |-> i, to |-> i, sum |-> v[i] * rows[i].w, w |-> rows[i].w]))]
PooledMeans(v, rows) == CHOOSE f : IsPooledMeans(f, v, rows)

LEMMA MeanBlocksArePooled ==
  ASSUME NEW v, NEW rows PROVE Fits!MeanBlocks(v, rows) = PooledMeans(v, rows)[Len(rows)]
BY DEF Fits!MeanBlocks, Fits!Settle, PooledMeans, IsPooledMeans, SettledMeans, Undone, LastMean, IsLastMean,
       Rises

\* _pav_blocks(): blocks of rising means that cover the rows.
LEMMA MeanBlocksAre ==
  ASSUME NEW rows \in Seq(RowSet), NEW v \in [1..Len(rows) -> Int],
         NEW bs, bs = Fits!MeanBlocks(v, rows)
  PROVE  bs \in Seq(MeanBlock) /\ Tiles(bs, Len(rows)) /\ Rising(bs)
<1>1. PICK n \in Nat : n = Len(rows)
  OBVIOUS
<1> DEFINE new(i) == [from |-> i, to |-> i, sum |-> v[i] * rows[i].w, w |-> rows[i].w]
           Good == [i \in 0..n |-> {q \in Seq(MeanBlock) : Tiles(q, i) /\ Rising(q)}]
           step == [i \in 1..n |-> [q \in Good[i - 1] |-> SettledMeans(Append(q, new(i)))]]
<1>2. ASSUME NEW i \in 1..n PROVE new(i) \in MeanBlock /\ new(i).from = i /\ new(i).to = i
  <2>1. rows[i] \in RowSet /\ v[i] \in Int
    BY <1>1
  <2>2. rows[i].w \in Nat \ {0}
    BY <2>1 DEF RowSet
  <2>3. v[i] * rows[i].w \in Int
    BY <2>1, <2>2
  <2> QED BY <2>2, <2>3 DEF MeanBlock
<1>3. <<>> \in Good[0]
  BY DEF Tiles, Rising
<1>4. \A i \in 0..n : \A q \in Good[i] : q \in Seq(MeanBlock) /\ Tiles(q, i) /\ Rising(q)
  OBVIOUS
<1>5. \A i \in 1..n : \A q \in Good[i - 1] : step[i][q] = SettledMeans(Append(q, new(i)))
  OBVIOUS
<1>6. \A i \in 0..n : \A q \in Seq(MeanBlock) : Tiles(q, i) /\ Rising(q) => q \in Good[i]
  OBVIOUS
<1> HIDE DEF Good, step, new
<1>7. \A i \in 1..n : \A q \in Good[i - 1] : SettledMeans(Append(q, new(i))) \in Good[i]
  <2> SUFFICES ASSUME NEW i \in 1..n, NEW q \in Good[i - 1] PROVE SettledMeans(Append(q, new(i))) \in Good[i]
    OBVIOUS
  <2>1. i - 1 \in 0..n /\ i \in 0..n /\ i \in Nat \ {0}
    OBVIOUS
  <2>2. q \in Seq(MeanBlock) /\ Tiles(q, i - 1) /\ Rising(q)
    BY <1>4, <2>1
  <2>3. PICK r : r = SettledMeans(Append(q, new(i)))
    OBVIOUS
  <2>4. r \in Seq(MeanBlock) /\ Tiles(r, i) /\ Rising(r)
    BY <1>2, <2>1, <2>2, <2>3, SettledMeansAre
  <2> QED BY <1>6, <2>1, <2>3, <2>4
<1>8. PICK f : IsRec(f, n, <<>>, step) /\ \A i \in 0..n : f[i] \in Good[i]
  <2>1. \A i \in 1..n : \A q \in Good[i - 1] : step[i][q] \in Good[i]
    BY <1>5, <1>7
  <2> QED BY <1>3, <2>1, Recursion
<1>9. \A i \in 0..n : f[i] = IF i = 0 THEN <<>> ELSE SettledMeans(Append(f[i - 1], new(i)))
  BY <1>5, <1>8 DEF IsRec
<1>10. IsPooledMeans(f, v, rows)
  <2>1. f = [i \in 0..n |-> f[i]]
    BY <1>8 DEF IsRec
  <2>2. f = [i \in 0..n |-> IF i = 0 THEN <<>> ELSE SettledMeans(Append(f[i - 1], new(i)))]
    BY <1>9, <2>1
  <2> QED BY <1>1, <2>2 DEF IsPooledMeans, new
<1>11. PICK g : g = PooledMeans(v, rows)
  OBVIOUS
<1>12. IsPooledMeans(g, v, rows)
  BY <1>10, <1>11, Zenon DEF PooledMeans
<1>13. g[0] = <<>> /\ \A i \in 1..n : g[i] = SettledMeans(Append(g[i - 1], new(i)))
  BY <1>1, <1>12 DEF IsPooledMeans, new
<1>14. \A i \in 1..n : g[i - 1] \in Good[i - 1] => g[i] \in Good[i]
  BY <1>7, <1>13
<1>15. \A i \in 0..n : g[i] \in Good[i]
  BY <1>3, <1>13, <1>14, Along
<1>16. bs = g[n] /\ n \in 0..n
  BY <1>1, <1>11, MeanBlocksArePooled
<1> QED BY <1>1, <1>4, <1>15, <1>16

-----------------------------------------------------------------------------
(* The pooled values *)

LEMMA TimesGrows == ASSUME NEW a \in Int, NEW b \in Int, NEW c \in Nat, a <= b PROVE a * c <= b * c
<1>1. PICK t \in Nat : b = a + t
  <2>1. b - a \in Nat /\ b = a + (b - a)
    OBVIOUS
  <2> QED BY <2>1
<1>2. PICK u \in Nat : u = t * c
  OBVIOUS
<1>3. b * c = a * c + u
  BY <1>1, <1>2
<1>4. a * c \in Int
  OBVIOUS
<1> QED BY <1>3, <1>4

LEMMA FloorIs ==
  ASSUME NEW d \in Nat \ {0}, NEW a \in Int
  PROVE  a \div d \in Int /\ d * (a \div d) <= a /\ a < d * (a \div d) + d
<1>1. a \div d \in Int
  OBVIOUS
<1>2. PICK q \in Int : q = a \div d
  BY <1>1
<1>3. d * q <= a
  BY <1>2
<1>4. a < d * q + d
  BY <1>2
<1> QED BY <1>2, <1>3, <1>4

\* The floor of a smaller ratio is no greater.
LEMMA RatioGrows ==
  ASSUME NEW s \in Int, NEW t \in Int, NEW v \in Nat \ {0}, NEW w \in Nat \ {0}, s * w <= t * v
  PROVE  s \div v <= t \div w
<1>1. PICK p \in Int : p = s \div v
  BY FloorIs
<1>2. PICK q \in Int : q = t \div w
  BY FloorIs
<1>3. v * p <= s /\ t < w * q + w
  BY <1>1, <1>2, FloorIs
<1> SUFFICES ASSUME p > q PROVE FALSE
  BY <1>1, <1>2
<1>4. q + 1 <= p /\ q + 1 \in Int
  OBVIOUS
<1>5. PICK vw \in Nat : vw = v * w
  OBVIOUS
<1>6. (q + 1) * vw <= p * vw
  BY <1>4, TimesGrows
<1>7. (v * p) * w <= s * w
  <2>1. v * p \in Int
    OBVIOUS
  <2> QED BY <1>3, <2>1, TimesGrows
<1>8. (v * p) * w = p * vw
  BY <1>5
<1>9. (t + 1) * v <= (w * q + w) * v
  <2>1. t + 1 <= w * q + w /\ t + 1 \in Int /\ w * q + w \in Int
    BY <1>3
  <2> QED BY <2>1, TimesGrows
<1>10. (w * q + w) * v = (q + 1) * vw
  BY <1>5
<1>11. (t + 1) * v = t * v + v
  OBVIOUS
<1>12. PICK a \in Int : a = s * w
  OBVIOUS
<1>13. PICK b \in Int : b = t * v
  OBVIOUS
<1>14. PICK x \in Int : x = p * vw
  OBVIOUS
<1>15. PICK y \in Int : y = (q + 1) * vw
  OBVIOUS
<1>16. y <= x /\ x <= a /\ a <= b /\ b + v <= y
  BY <1>6, <1>7, <1>8, <1>9, <1>10, <1>11, <1>12, <1>13, <1>14, <1>15
<1> QED BY <1>16

LEMMA BlockIs ==
  ASSUME NEW n \in Nat, NEW B, NEW bs \in Seq(B), Tiles(bs, n), NEW i \in 1..n
  PROVE  \E k \in 1..Len(bs) : Fits!BlockOf(bs, i) = bs[k] /\ i \in bs[k].from..bs[k].to
<1>1. PICK k \in 1..Len(bs) : i \in bs[k].from..bs[k].to
  BY TilesCover
<1>2. DOMAIN bs = 1..Len(bs)
  OBVIOUS
<1>3. bs[k] \in Fits!ToSet(bs)
  BY <1>1, <1>2 DEF Fits!ToSet
<1>4. PICK b : b = Fits!BlockOf(bs, i)
  OBVIOUS
<1>5. b \in Fits!ToSet(bs) /\ i \in b.from..b.to
  BY <1>1, <1>3, <1>4, Zenon DEF Fits!BlockOf
<1>6. PICK j \in 1..Len(bs) : b = bs[j]
  BY <1>2, <1>5 DEF Fits!ToSet
<1> QED BY <1>4, <1>5, <1>6

\* _pav(): never falling, whatever the values.
LEMMA PavIs ==
  ASSUME NEW rows \in Seq(RowSet), NEW v \in [1..Len(rows) -> Int]
  PROVE  Fits!Pav(v, rows) \in [1..Len(rows) -> Int] /\ Fits!Monotone(Fits!Pav(v, rows))
<1>1. PICK n \in Nat : n = Len(rows)
  OBVIOUS
<1>2. PICK bs : bs = Fits!MeanBlocks(v, rows)
  OBVIOUS
<1>3. bs \in Seq(MeanBlock) /\ Tiles(bs, n) /\ Rising(bs)
  BY <1>1, <1>2, MeanBlocksAre
<1>4. PICK L \in Nat : L = Len(bs)
  BY <1>3
<1> DEFINE level == [k \in 1..L |-> bs[k].sum \div bs[k].w]
<1>16. \A k \in 1..L : bs[k] \in MeanBlock
  BY <1>3, <1>4
<1>5. \A k \in 1..L : bs[k].sum \in Int /\ bs[k].w \in Nat \ {0} /\ bs[k].from \in Int /\ bs[k].to \in Int
  BY <1>16 DEF MeanBlock
<1>6. \A k \in 1..L : level[k] = bs[k].sum \div bs[k].w
  OBVIOUS
<1> HIDE DEF level
<1>7. ASSUME NEW k \in 1..L PROVE level[k] \in Int
  <2>1. bs[k].sum \in Int /\ bs[k].w \in Nat \ {0}
    BY <1>5
  <2>2. bs[k].sum \div bs[k].w \in Int
    BY <2>1
  <2> QED BY <1>6, <2>2
<1>8. \A k \in 1..(L - 1) : level[k] <= level[k + 1]
  <2> SUFFICES ASSUME NEW k \in 1..(L - 1) PROVE level[k] <= level[k + 1]
    OBVIOUS
  <2>1. k \in 1..L /\ k + 1 \in 1..L
    OBVIOUS
  <2>2. bs[k].sum * bs[k + 1].w <= bs[k + 1].sum * bs[k].w
    BY <1>3, <1>4 DEF Rising, Rises
  <2>3. bs[k].sum \div bs[k].w <= bs[k + 1].sum \div bs[k + 1].w
    BY <1>5, <2>1, <2>2, RatioGrows
  <2> QED BY <1>6, <2>1, <2>3
<1>9. \A k, l \in 1..L : k <= l => level[k] <= level[l]
  <2>1. L \in Int
    OBVIOUS
  <2> QED BY <1>7, <1>8, <2>1, Chain
<1>10. PICK r : r = Fits!Pav(v, rows)
  OBVIOUS
<1>11. r = [i \in 1..n |-> Fits!BlockOf(bs, i).sum \div Fits!BlockOf(bs, i).w]
  <2>1. DOMAIN rows = 1..n
    BY <1>1
  <2> QED BY <1>2, <1>10, <2>1 DEF Fits!Pav
<1>12. \A i \in 1..n : \E k \in 1..L : r[i] = level[k] /\ i \in bs[k].from..bs[k].to
  <2> SUFFICES ASSUME NEW i \in 1..n PROVE \E k \in 1..L : r[i] = level[k] /\ i \in bs[k].from..bs[k].to
    OBVIOUS
  <2>1. PICK k \in 1..L : Fits!BlockOf(bs, i) = bs[k] /\ i \in bs[k].from..bs[k].to
    BY <1>3, <1>4, BlockIs
  <2>2. r[i] = bs[k].sum \div bs[k].w
    BY <1>11, <2>1
  <2> QED BY <1>6, <2>1, <2>2
<1>13. r \in [1..n -> Int]
  <2>1. \A i \in 1..n : r[i] \in Int
    BY <1>7, <1>12
  <2>2. r = [i \in 1..n |-> r[i]]
    BY <1>11
  <2> QED BY <2>1, <2>2
<1>14. ASSUME NEW i \in 1..n, NEW j \in 1..n, i < j PROVE r[i] <= r[j]
  <2>1. PICK k \in 1..L : r[i] = level[k] /\ i \in bs[k].from..bs[k].to
    BY <1>12
  <2>2. PICK l \in 1..L : r[j] = level[l] /\ j \in bs[l].from..bs[l].to
    BY <1>12
  <2>3. k <= l
    <3> SUFFICES ASSUME l < k PROVE FALSE
      OBVIOUS
    <3>1. bs[l].to < bs[k].from
      BY <1>3, <1>4, TilesCover
    <3>2. bs[l].to \in Int /\ bs[k].from \in Int
      BY <1>5
    <3> QED BY <1>14, <2>1, <2>2, <3>1, <3>2
  <2> QED BY <1>9, <2>1, <2>2, <2>3
<1>15. Fits!Monotone(r)
  <2>1. DOMAIN r = 1..n
    BY <1>11
  <2> QED BY <1>14, <2>1 DEF Fits!Monotone
<1> QED BY <1>1, <1>10, <1>13, <1>15

-----------------------------------------------------------------------------
(* Rows in order *)

\* The rows that come before row i, and how many do.
Before(rows, i) == {j \in DOMAIN rows : rows[j].x < rows[i].x \/ (rows[j].x = rows[i].x /\ j < i)}
Rank(rows, i) == Fits!Cardinality(Before(rows, i))

LEMMA RankGrows ==
  ASSUME NEW rows \in Seq(RowSet), NEW i \in 1..Len(rows), NEW j \in 1..Len(rows)
  PROVE  /\ Rank(rows, i) \in 0..(Len(rows) - 1)
         /\ i \in Before(rows, j) => Rank(rows, i) < Rank(rows, j)
         /\ i # j => i \in Before(rows, j) \/ j \in Before(rows, i)
<1>1. PICK n \in Nat : n = Len(rows) /\ DOMAIN rows = 1..n
  OBVIOUS
<1>2. \A k \in 1..n : rows[k].x \in Int
  <2>1. \A k \in 1..n : rows[k] \in RowSet
    BY <1>1
  <2> QED BY <2>1 DEF RowSet
<1>3. IsFiniteSet(1..n) /\ Cardinality(1..n) = n
  <2>1. IsFiniteSet(1..n) /\ Cardinality(1..n) = IF 1 > n THEN 0 ELSE n - 1 + 1
    BY FS_Interval
  <2> QED BY <2>1
<1>4. ASSUME NEW k \in 1..n
      PROVE  /\ Before(rows, k) \in SUBSET (1..n) /\ k \notin Before(rows, k)
             /\ IsFiniteSet(Before(rows, k)) /\ Rank(rows, k) \in Nat
  <2>1. Before(rows, k) \in SUBSET (1..n) /\ k \notin Before(rows, k)
    BY <1>1, <1>2 DEF Before
  <2>2. IsFiniteSet(Before(rows, k))
    BY <1>3, <2>1, FS_Subset
  <2> QED BY <2>1, <2>2, FS_CardinalityType, SameCardinality DEF Rank
<1>5. Rank(rows, i) <= n - 1
  <2>1. i \in 1..n /\ Before(rows, i) \in SUBSET ((1..n) \ {i})
    BY <1>1, <1>4
  <2>2. IsFiniteSet((1..n) \ {i}) /\ Cardinality((1..n) \ {i}) = n - 1
    BY <1>3, <2>1, FS_RemoveElement
  <2>3. Cardinality(Before(rows, i)) <= Cardinality((1..n) \ {i})
    BY <2>1, <2>2, FS_Subset
  <2> QED BY <2>2, <2>3, SameCardinality DEF Rank
<1>6. ASSUME i \in Before(rows, j) PROVE Rank(rows, i) < Rank(rows, j)
  <2>1. \A k \in Before(rows, i) : k \in Before(rows, j)
    BY <1>1, <1>2, <1>6 DEF Before
  <2>2. Before(rows, i) \cup {i} \in SUBSET Before(rows, j)
    BY <1>6, <2>1
  <2>3. /\ IsFiniteSet(Before(rows, i)) /\ i \notin Before(rows, i) /\ Rank(rows, i) \in Nat
        /\ IsFiniteSet(Before(rows, j)) /\ Rank(rows, j) \in Nat
    BY <1>1, <1>4
  <2>4. Cardinality(Before(rows, i) \cup {i}) = Cardinality(Before(rows, i)) + 1
    BY <2>3, FS_AddElement
  <2>5. Cardinality(Before(rows, i) \cup {i}) <= Cardinality(Before(rows, j))
    BY <2>2, <2>3, FS_Subset
  <2> QED BY <2>3, <2>4, <2>5, SameCardinality DEF Rank
<1>7. i # j => i \in Before(rows, j) \/ j \in Before(rows, i)
  BY <1>1, <1>2 DEF Before
<1>8. Rank(rows, i) \in Nat
  BY <1>1, <1>4
<1> QED BY <1>1, <1>5, <1>6, <1>7, <1>8

\* There is a row of every rank.
LEMMA RanksAreTaken ==
  ASSUME NEW rows \in Seq(RowSet), NEW k \in 1..Len(rows)
  PROVE  \E i \in 1..Len(rows) : Rank(rows, i) = k - 1
<1>1. PICK n \in Nat : n = Len(rows) /\ DOMAIN rows = 1..n
  OBVIOUS
<1>2. IsFiniteSet(1..n) /\ Cardinality(1..n) = n /\ IsFiniteSet(0..(n - 1)) /\ Cardinality(0..(n - 1)) = n
  <2>1. IsFiniteSet(1..n) /\ Cardinality(1..n) = IF 1 > n THEN 0 ELSE n - 1 + 1
    BY FS_Interval
  <2>2. IsFiniteSet(0..(n - 1)) /\ Cardinality(0..(n - 1)) = IF 0 > n - 1 THEN 0 ELSE (n - 1) - 0 + 1
    BY FS_Interval
  <2> QED BY <2>1, <2>2
<1> DEFINE f == [i \in 1..n |-> Rank(rows, i)]
<1>3. \A i \in 1..n : f[i] = Rank(rows, i)
  OBVIOUS
<1>4. f \in [1..n -> 0..(n - 1)]
  BY <1>1, RankGrows
<1> HIDE DEF f
<1>5. \A i, j \in 1..n : f[i] = f[j] => i = j
  <2> SUFFICES ASSUME NEW i \in 1..n, NEW j \in 1..n, i # j PROVE f[i] # f[j]
    OBVIOUS
  <2>1. f[i] < f[j] \/ f[j] < f[i]
    BY <1>1, <1>3, RankGrows
  <2>2. f[i] \in Int /\ f[j] \in Int
    BY <1>4
  <2> QED BY <2>1, <2>2
<1>6. f \in Injection(1..n, 0..(n - 1))
  BY <1>4, <1>5 DEF Injection, IsInjective
<1>7. f \in Surjection(1..n, 0..(n - 1))
  BY <1>2, <1>6, FS_Injection
<1>8. k - 1 \in 0..(n - 1)
  BY <1>1
<1>9. \E i \in 1..n : f[i] = k - 1
  BY <1>7, <1>8 DEF Surjection
<1> QED BY <1>1, <1>3, <1>9

\* fit() takes the rows by their forecast.
LEMMA OrderedIs ==
  ASSUME NEW rows \in Seq(RowSet), NEW r, r = Fits!Ordered(rows)
  PROVE  /\ r \in Seq(RowSet) /\ Len(r) = Len(rows)
         /\ \A k, l \in 1..Len(r) : k <= l => r[k].x <= r[l].x
<1>1. PICK n \in Nat : n = Len(rows)
  OBVIOUS
<1> DEFINE At(k) == CHOOSE i \in DOMAIN rows : Rank(rows, i) = k - 1
<1>2. r = [k \in 1..n |-> rows[At(k)]]
  <2>1. DOMAIN rows = 1..n
    BY <1>1
  <2>2. r = [k \in DOMAIN rows |-> rows[At(k)]]
    BY Zenon DEF Fits!Ordered, Rank, Before
  <2> QED BY <2>1, <2>2
<1>3. ASSUME NEW k \in 1..n PROVE At(k) \in 1..n /\ Rank(rows, At(k)) = k - 1
  <2>1. \E i \in 1..n : Rank(rows, i) = k - 1
    BY <1>1, RanksAreTaken
  <2>2. DOMAIN rows = 1..n
    BY <1>1
  <2> QED BY <2>1, <2>2, Zenon
<1> HIDE DEF At
<1>4. \A k \in 1..n : r[k] = rows[At(k)] /\ r[k] \in RowSet
  BY <1>1, <1>2, <1>3
<1>5. r \in [1..n -> RowSet]
  BY <1>2, <1>4
<1>6. r \in Seq(RowSet) /\ Len(r) = n
  BY <1>2, <1>5
<1>7. ASSUME NEW k \in 1..n, NEW l \in 1..n, k <= l PROVE r[k].x <= r[l].x
  <2>1. r[k].x \in Int /\ r[l].x \in Int
    BY <1>4 DEF RowSet
  <2> SUFFICES ASSUME r[l].x < r[k].x PROVE FALSE
    BY <2>1
  <2>2. At(l) \in Before(rows, At(k))
    <3>1. DOMAIN rows = 1..n
      BY <1>1
    <3> QED BY <3>1, <1>3, <1>4 DEF Before
  <2>3. Rank(rows, At(l)) < Rank(rows, At(k))
    BY <1>1, <1>3, <2>2, RankGrows
  <2> QED BY <1>3, <1>7, <2>3
<1> QED BY <1>1, <1>6, <1>7

-----------------------------------------------------------------------------
(* Sums *)

AnyOf(s) == CHOOSE x \in s : TRUE
IsSum(g, f, S) == g = [s \in SUBSET S |-> IF s = {} THEN 0 ELSE f[AnyOf(s)] + g[s \ {AnyOf(s)}]]
SumIter(f, S) == CHOOSE g : IsSum(g, f, S)

LEMMA SumIs == ASSUME NEW f, NEW S PROVE Fits!SumFunctionOnSet(f, S) = SumIter(f, S)[S]
BY DEF Fits!SumFunctionOnSet, Fits!FoldFunctionOnSet, Fits!MapThenFoldSet, SumIter, IsSum, AnyOf

LEMMA LessOne ==
  ASSUME NEW S, IsFiniteSet(S), NEW s \in SUBSET S, s # {}
  PROVE  /\ AnyOf(s) \in s /\ s \ {AnyOf(s)} \in SUBSET S
         /\ Cardinality(s) \in Nat /\ Cardinality(s \ {AnyOf(s)}) = Cardinality(s) - 1
<1>1. AnyOf(s) \in s
  BY Zenon DEF AnyOf
<1>2. IsFiniteSet(s)
  BY FS_Subset
<1>3. Cardinality(s) \in Nat /\ Cardinality(s \ {AnyOf(s)}) = Cardinality(s) - 1
  BY <1>1, <1>2, FS_CardinalityType, FS_RemoveElement
<1> QED BY <1>1, <1>3

\* What holds of a finite set once it holds of every smaller one holds of all.
LEMMA BySize ==
  ASSUME NEW S, IsFiniteSet(S), NEW Right,
         \A s \in SUBSET S : (\A t \in SUBSET S : Cardinality(t) < Cardinality(s) => t \in Right) => s \in Right
  PROVE  \A s \in SUBSET S : s \in Right
<1> DEFINE Bad == {c \in Nat : \E t \in SUBSET S : Cardinality(t) = c /\ t \notin Right}
<1> SUFFICES ASSUME NEW s \in SUBSET S, s \notin Right PROVE FALSE
  OBVIOUS
<1>1. \A t \in SUBSET S : Cardinality(t) \in Nat
  BY FS_Subset, FS_CardinalityType
<1>2. Cardinality(s) \in Bad /\ Bad \in SUBSET Nat
  BY <1>1
<1>3. PICK c \in Bad : \A d \in Bad : c <= d
  BY <1>2, LeastExists
<1>4. PICK t \in SUBSET S : c \in Nat /\ Cardinality(t) = c /\ t \notin Right
  BY <1>3
<1>5. ASSUME NEW u \in SUBSET S, Cardinality(u) < Cardinality(t) PROVE u \in Right
  BY <1>1, <1>3, <1>4, <1>5
<1> QED BY <1>4, <1>5

\* Such a sum exists, and is a number.
LEMMA SumIterIs ==
  ASSUME NEW S, IsFiniteSet(S), NEW f, \A x \in S : f[x] \in Int
  PROVE  /\ \A s \in SUBSET S : SumIter(f, S)[s] = IF s = {} THEN 0 ELSE f[AnyOf(s)] + SumIter(f, S)[s \ {AnyOf(s)}]
         /\ \A s \in SUBSET S : SumIter(f, S)[s] \in Int
<1>1. PICK N \in Nat : N = Cardinality(S)
  BY FS_CardinalityType
<1> DEFINE next(g) == [s \in SUBSET S |-> IF s = {} THEN 0 ELSE f[AnyOf(s)] + g[s \ {AnyOf(s)}]]
           Good == [k \in 0..(N + 1) |-> [SUBSET S -> Int]]
           step == [k \in 1..(N + 1) |-> [g \in [SUBSET S -> Int] |-> next(g)]]
           zero == [s \in SUBSET S |-> 0]
<1>2. \A g \in [SUBSET S -> Int] : next(g) \in [SUBSET S -> Int]
  <2> SUFFICES ASSUME NEW g \in [SUBSET S -> Int], NEW s \in SUBSET S, s # {}
               PROVE  f[AnyOf(s)] + g[s \ {AnyOf(s)}] \in Int
    OBVIOUS
  <2>1. AnyOf(s) \in S /\ s \ {AnyOf(s)} \in SUBSET S
    BY LessOne
  <2> QED BY <2>1
<1>3. \A k \in 0..(N + 1) : Good[k] = [SUBSET S -> Int]
  OBVIOUS
<1>4. \A k \in 1..(N + 1) : \A g \in [SUBSET S -> Int] : step[k][g] = next(g)
  OBVIOUS
<1>5. zero \in [SUBSET S -> Int] /\ zero[{}] = 0
  OBVIOUS
<1>6. \A g : \A s \in SUBSET S : next(g)[s] = IF s = {} THEN 0 ELSE f[AnyOf(s)] + g[s \ {AnyOf(s)}]
  OBVIOUS
<1>7. \A g : IsSum(g, f, S) <=> g = next(g)
  BY DEF IsSum
<1> HIDE DEF Good, step, zero, next
<1>8. PICK h : IsRec(h, N + 1, zero, step) /\ \A k \in 0..(N + 1) : h[k] \in Good[k]
  <2>1. zero \in Good[0] /\ N + 1 \in Nat
    BY <1>3, <1>5
  <2>2. \A k \in 1..(N + 1) : \A g \in Good[k - 1] : step[k][g] \in Good[k]
    <3> SUFFICES ASSUME NEW k \in 1..(N + 1), NEW g \in Good[k - 1] PROVE step[k][g] \in Good[k]
      OBVIOUS
    <3>1. k - 1 \in 0..(N + 1) /\ k \in 0..(N + 1)
      OBVIOUS
    <3>2. g \in [SUBSET S -> Int]
      BY <1>3, <3>1
    <3>3. step[k][g] = next(g) /\ next(g) \in [SUBSET S -> Int]
      BY <1>2, <1>4, <3>2
    <3> QED BY <1>3, <3>1, <3>3
  <2> QED BY <2>1, <2>2, Recursion
<1>9. h[0] = zero /\ \A k \in 0..N : h[k + 1] = next(h[k]) /\ h[k] \in [SUBSET S -> Int]
  <2>1. h[0] = zero
    BY <1>8 DEF IsRec
  <2>2. ASSUME NEW k \in 0..N PROVE h[k + 1] = next(h[k]) /\ h[k] \in [SUBSET S -> Int]
    <3>1. k \in 0..(N + 1) /\ k + 1 \in 1..(N + 1) /\ k + 1 \in 0..(N + 1) /\ k + 1 # 0 /\ (k + 1) - 1 = k
      OBVIOUS
    <3>2. h[k] \in [SUBSET S -> Int]
      BY <1>3, <1>8, <3>1
    <3>3. h[k + 1] = step[k + 1][h[k]]
      BY <1>8, <3>1 DEF IsRec
    <3> QED BY <1>4, <3>1, <3>2, <3>3
  <2> QED BY <2>1, <2>2
<1> DEFINE Stable == {k \in 0..N : \A s \in SUBSET S : Cardinality(s) <= k => h[k + 1][s] = h[k][s]}
<1>10. 0 \in Stable
  <2> SUFFICES ASSUME NEW s \in SUBSET S, Cardinality(s) <= 0 PROVE h[0 + 1][s] = h[0][s]
    OBVIOUS
  <2>1. IsFiniteSet(s) /\ Cardinality(s) \in Nat
    BY FS_Subset, FS_CardinalityType
  <2>2. s = {}
    BY <2>1, FS_EmptySet
  <2>3. h[0][s] = 0
    BY <1>5, <1>9, <2>2
  <2>4. h[0 + 1] = next(h[0])
    BY <1>9
  <2> QED BY <1>6, <2>2, <2>3, <2>4
<1>11. ASSUME NEW k \in (0 + 1)..N, k - 1 \in Stable PROVE k \in Stable
  <2> SUFFICES ASSUME NEW s \in SUBSET S, Cardinality(s) <= k PROVE h[k + 1][s] = h[k][s]
    OBVIOUS
  <2>1. k \in 0..N /\ k - 1 \in 0..N /\ (k - 1) + 1 = k
    OBVIOUS
  <2>2. h[k + 1] = next(h[k]) /\ h[k] = next(h[k - 1])
    BY <1>9, <2>1
  <2>3. CASE s = {}
    BY <1>6, <2>2, <2>3
  <2>4. CASE s # {}
    <3>1. PICK t \in SUBSET S : t = s \ {AnyOf(s)}
      BY <2>4, LessOne
    <3>2. Cardinality(t) <= k - 1
      BY <2>4, <3>1, LessOne
    <3>3. h[k][t] = h[k - 1][t]
      BY <1>11, <2>1, <3>2
    <3>4. h[k + 1][s] = f[AnyOf(s)] + h[k][t] /\ h[k][s] = f[AnyOf(s)] + h[k - 1][t]
      BY <1>6, <2>2, <2>4, <3>1
    <3> QED BY <3>3, <3>4
  <2> QED BY <2>3, <2>4
<1> HIDE DEF Stable
<1>12. N \in Stable
  <2>1. \A k \in 0..N : k \in Stable
    BY <1>10, <1>11, UpTo
  <2> QED BY <2>1
<1>13. h[N + 1] = h[N]
  <2>1. ASSUME NEW s \in SUBSET S PROVE h[N + 1][s] = h[N][s]
    <3>1. Cardinality(s) <= N
      BY <1>1, FS_Subset
    <3> QED BY <1>12, <3>1 DEF Stable
  <2>2. h[N] \in [SUBSET S -> Int] /\ h[N + 1] \in [SUBSET S -> Int]
    <3>1. N \in 0..N
      OBVIOUS
    <3> QED BY <1>2, <1>9, <3>1
  <2> QED BY <2>1, <2>2
<1>14. IsSum(h[N], f, S)
  <2>1. N \in 0..N
    OBVIOUS
  <2> QED BY <1>7, <1>9, <1>13, <2>1
<1>15. PICK g : g = SumIter(f, S)
  OBVIOUS
<1>16. IsSum(g, f, S)
  BY <1>14, <1>15, Zenon DEF SumIter
<1>17. \A s \in SUBSET S : g[s] = IF s = {} THEN 0 ELSE f[AnyOf(s)] + g[s \ {AnyOf(s)}]
  BY <1>6, <1>7, <1>16
<1>18. \A s \in SUBSET S : g[s] \in Int
  <2>1. ASSUME NEW s \in SUBSET S, \A t \in SUBSET S : Cardinality(t) < Cardinality(s) => g[t] \in Int
        PROVE  g[s] \in Int
    <3>1. CASE s = {}
      BY <1>17, <3>1
    <3>2. CASE s # {}
      <4>1. PICK t \in SUBSET S : t = s \ {AnyOf(s)}
        BY <3>2, LessOne
      <4>2. Cardinality(t) < Cardinality(s) /\ AnyOf(s) \in S
        BY <3>2, <4>1, LessOne
      <4>3. g[t] \in Int
        BY <2>1, <4>2
      <4> QED BY <1>17, <3>2, <4>1, <4>2, <4>3
    <3> QED BY <3>1, <3>2
  <2> DEFINE Right == {s \in SUBSET S : g[s] \in Int}
  <2>2. \A s \in SUBSET S : (\A t \in SUBSET S : Cardinality(t) < Cardinality(s) => t \in Right) => s \in Right
    BY <2>1
  <2> HIDE DEF Right
  <2>3. \A s \in SUBSET S : s \in Right
    BY <2>2, BySize
  <2> QED BY <2>3 DEF Right
<1> QED BY <1>15, <1>17, <1>18

\* The sum over a subset is that of the whole's recursion at the subset.
LEMMA SumOfPart ==
  ASSUME NEW S, IsFiniteSet(S), NEW f, \A x \in S : f[x] \in Int, NEW s \in SUBSET S
  PROVE  Fits!SumFunctionOnSet(f, s) = SumIter(f, S)[s]
<1>1. PICK g : g = SumIter(f, S)
  OBVIOUS
<1>2. PICK h : h = SumIter(f, s)
  OBVIOUS
<1>3. \A t \in SUBSET S : g[t] = IF t = {} THEN 0 ELSE f[AnyOf(t)] + g[t \ {AnyOf(t)}]
  BY <1>1, SumIterIs
<1>4. IsFiniteSet(s) /\ \A x \in s : f[x] \in Int
  BY FS_Subset
<1>5. \A t \in SUBSET s : h[t] = IF t = {} THEN 0 ELSE f[AnyOf(t)] + h[t \ {AnyOf(t)}]
  BY <1>2, <1>4, SumIterIs
<1> DEFINE Right == {t \in SUBSET s : h[t] = g[t]}
<1>6. ASSUME NEW t \in SUBSET s, \A u \in SUBSET s : Cardinality(u) < Cardinality(t) => u \in Right
      PROVE  t \in Right
  <2>1. CASE t = {}
    BY <1>3, <1>5, <2>1
  <2>2. CASE t # {}
    <3>1. PICK u \in SUBSET s : u = t \ {AnyOf(t)}
      BY <1>4, <2>2, LessOne
    <3>2. Cardinality(u) < Cardinality(t)
      BY <1>4, <2>2, <3>1, LessOne
    <3>3. h[u] = g[u]
      BY <1>6, <3>2
    <3>4. h[t] = f[AnyOf(t)] + h[u]
      BY <1>5, <2>2, <3>1
    <3>5. g[t] = f[AnyOf(t)] + g[u]
      BY <1>3, <2>2, <3>1
    <3> QED BY <3>3, <3>4, <3>5
  <2> QED BY <2>1, <2>2
<1> HIDE DEF Right
<1>7. \A t \in SUBSET s : t \in Right
  BY <1>4, <1>6, BySize
<1>8. s \in Right
  BY <1>7
<1>9. Fits!SumFunctionOnSet(f, s) = h[s]
  BY <1>2, SumIs
<1> QED BY <1>1, <1>8, <1>9 DEF Right

\* Whichever number is taken first.
LEMMA SumWithout ==
  ASSUME NEW S, IsFiniteSet(S), NEW f, \A x \in S : f[x] \in Int
  PROVE  /\ Fits!SumFunctionOnSet(f, S) \in Int
         /\ S = {} => Fits!SumFunctionOnSet(f, S) = 0
         /\ \A x \in S : Fits!SumFunctionOnSet(f, S) = f[x] + Fits!SumFunctionOnSet(f, S \ {x})
<1>1. PICK g : g = SumIter(f, S)
  OBVIOUS
<1>2. \A s \in SUBSET S : g[s] = IF s = {} THEN 0 ELSE f[AnyOf(s)] + g[s \ {AnyOf(s)}]
  BY <1>1, SumIterIs
<1>3. \A s \in SUBSET S : g[s] \in Int
  BY <1>1, SumIterIs
<1> DEFINE Right == {s \in SUBSET S : \A x \in s : g[s] = f[x] + g[s \ {x}]}
<1>4. ASSUME NEW s \in SUBSET S, \A t \in SUBSET S : Cardinality(t) < Cardinality(s) => t \in Right
      PROVE  s \in Right
  <2> SUFFICES ASSUME NEW x \in s PROVE g[s] = f[x] + g[s \ {x}]
    OBVIOUS
  <2>1. PICK a \in s : a = AnyOf(s)
    BY LessOne
  <2>2. g[s] = f[a] + g[s \ {a}]
    BY <1>2, <2>1
  <2>3. CASE x = a
    BY <2>2, <2>3
  <2>4. CASE x # a
    <3>1. Cardinality(s \ {a}) < Cardinality(s) /\ Cardinality(s \ {x}) < Cardinality(s)
      <4>1. IsFiniteSet(s) /\ Cardinality(s) \in Nat
        BY FS_Subset, FS_CardinalityType
      <4>2. Cardinality(s \ {a}) = Cardinality(s) - 1 /\ Cardinality(s \ {x}) = Cardinality(s) - 1
        BY <4>1, FS_RemoveElement
      <4> QED BY <4>1, <4>2
    <3>2. PICK u \in SUBSET S : u = s \ {a, x}
      OBVIOUS
    <3>3. u = (s \ {a}) \ {x} /\ u = (s \ {x}) \ {a}
      BY <3>2
    <3>4. g[s \ {a}] = f[x] + g[u]
      <4>1. s \ {a} \in Right /\ x \in s \ {a}
        BY <1>4, <2>4, <3>1
      <4> QED BY <3>3, <4>1
    <3>5. g[s \ {x}] = f[a] + g[u]
      <4>1. s \ {x} \in Right /\ a \in s \ {x}
        BY <1>4, <2>4, <3>1
      <4> QED BY <3>3, <4>1
    <3>6. f[a] \in Int /\ f[x] \in Int /\ g[u] \in Int
      BY <1>3
    <3> QED BY <2>2, <3>4, <3>5, <3>6
  <2> QED BY <2>3, <2>4
<1> HIDE DEF Right
<1>5. \A s \in SUBSET S : s \in Right
  BY <1>4, BySize
<1>6. S \in Right
  BY <1>5
<1>7. \A s \in SUBSET S : Fits!SumFunctionOnSet(f, s) = g[s]
  BY <1>1, SumOfPart
<1>8. Fits!SumFunctionOnSet(f, S) = g[S]
  BY <1>7
<1>9. \A x \in S : Fits!SumFunctionOnSet(f, S \ {x}) = g[S \ {x}]
  BY <1>7
<1>10. \A x \in S : g[S] = f[x] + g[S \ {x}]
  BY <1>6 DEF Right
<1> QED BY <1>2, <1>3, <1>8, <1>9, <1>10

\* A sum of numbers not below zero is not below zero.
LEMMA SumIsNat ==
  ASSUME NEW S, IsFiniteSet(S), NEW f, \A x \in S : f[x] \in Nat
  PROVE  Fits!SumFunctionOnSet(f, S) \in Nat
<1>1. PICK g : g = SumIter(f, S)
  OBVIOUS
<1>2. \A s \in SUBSET S : g[s] = IF s = {} THEN 0 ELSE f[AnyOf(s)] + g[s \ {AnyOf(s)}]
  <2>1. \A x \in S : f[x] \in Int
    OBVIOUS
  <2> QED BY <1>1, <2>1, SumIterIs
<1> DEFINE Right == {s \in SUBSET S : g[s] \in Nat}
<1>3. ASSUME NEW s \in SUBSET S, \A t \in SUBSET S : Cardinality(t) < Cardinality(s) => t \in Right
      PROVE  s \in Right
  <2>1. CASE s = {}
    <3>1. g[s] = 0
      BY <1>2, <2>1
    <3> QED BY <3>1
  <2>2. CASE s # {}
    <3>1. PICK t \in SUBSET S : t = s \ {AnyOf(s)}
      BY <2>2, LessOne
    <3>2. Cardinality(t) < Cardinality(s) /\ AnyOf(s) \in S
      <4>1. AnyOf(s) \in s /\ Cardinality(s) \in Nat /\ Cardinality(t) = Cardinality(s) - 1
        BY <2>2, <3>1, LessOne
      <4> QED BY <4>1
    <3>3. g[t] \in Nat
      BY <1>3, <3>2
    <3>4. g[s] = f[AnyOf(s)] + g[t]
      BY <1>2, <2>2, <3>1
    <3> QED BY <3>2, <3>3, <3>4
  <2> QED BY <2>1, <2>2
<1> HIDE DEF Right
<1>4. \A s \in SUBSET S : s \in Right
  BY <1>3, BySize
<1>5. S \in Right
  BY <1>4
<1> QED BY <1>1, <1>5, SumIs DEF Right

-----------------------------------------------------------------------------
(* Medians *)

\* One of the values of an interval is the greatest, and one the smallest.
LEMMA Extremes ==
  ASSUME NEW a \in Int, NEW b \in Int, a <= b, NEW f, \A i \in a..b : f[i] \in Int
  PROVE  /\ \E m \in a..b : \A i \in a..b : f[i] <= f[m]
         /\ \E m \in a..b : \A i \in a..b : f[m] <= f[i]
<1> DEFINE Top == {k \in a..b : \E m \in a..k : \A i \in a..k : f[i] <= f[m]}
           Low == {k \in a..b : \E m \in a..k : \A i \in a..k : f[m] <= f[i]}
<1>1. a \in Top /\ a \in Low
  <2>1. a \in a..b /\ f[a] \in Int /\ \A i \in a..a : i = a
    OBVIOUS
  <2>2. a \in a..a /\ f[a] <= f[a]
    BY <2>1
  <2> QED BY <2>1, <2>2
<1>2. ASSUME NEW k \in (a + 1)..b
      PROVE  (k - 1 \in Top => k \in Top) /\ (k - 1 \in Low => k \in Low)
  <2>1. k \in a..b /\ k \in a..k /\ \A i \in a..k : i \in a..b /\ (i = k \/ i \in a..(k - 1))
    OBVIOUS
  <2>2. \A i \in a..(k - 1) : i \in a..k
    OBVIOUS
  <2>3. ASSUME k - 1 \in Top PROVE k \in Top
    <3>1. PICK m \in a..(k - 1) : \A i \in a..(k - 1) : f[i] <= f[m]
      BY <2>3
    <3>2. f[m] \in Int /\ f[k] \in Int
      BY <2>1, <2>2
    <3>3. CASE f[k] <= f[m]
      <4>1. \A i \in a..k : f[i] <= f[m]
        BY <2>1, <3>1, <3>3
      <4> QED BY <2>1, <2>2, <4>1
    <3>4. CASE f[m] <= f[k]
      <4>1. \A i \in a..k : f[i] \in Int
        BY <2>1
      <4>2. \A i \in a..k : f[i] <= f[k]
        BY <2>1, <3>1, <3>2, <3>4, <4>1
      <4> QED BY <2>1, <4>2
    <3> QED BY <3>2, <3>3, <3>4
  <2>4. ASSUME k - 1 \in Low PROVE k \in Low
    <3>1. PICK m \in a..(k - 1) : \A i \in a..(k - 1) : f[m] <= f[i]
      BY <2>4
    <3>2. f[m] \in Int /\ f[k] \in Int
      BY <2>1, <2>2
    <3>3. CASE f[m] <= f[k]
      <4>1. \A i \in a..k : f[m] <= f[i]
        BY <2>1, <3>1, <3>3
      <4> QED BY <2>1, <2>2, <4>1
    <3>4. CASE f[k] <= f[m]
      <4>1. \A i \in a..k : f[i] \in Int
        BY <2>1
      <4>2. \A i \in a..k : f[k] <= f[i]
        BY <2>1, <3>1, <3>2, <3>4, <4>1
      <4> QED BY <2>1, <4>2
    <3> QED BY <3>2, <3>3, <3>4
  <2> QED BY <2>3, <2>4
<1> HIDE DEF Top, Low
<1>3. \A k \in a..b : k \in Top
  BY <1>1, <1>2, UpTo
<1>4. \A k \in a..b : k \in Low
  BY <1>1, <1>2, UpTo
<1>5. b \in Top /\ b \in Low
  BY <1>3, <1>4
<1> QED BY <1>5 DEF Top, Low

LEMMA WeightIsNat ==
  ASSUME NEW rows \in Seq(RowSet), NEW S \in SUBSET (1..Len(rows))
  PROVE  Fits!WeightOf(rows, S) \in Nat
<1>1. PICK n \in Nat : n = Len(rows) /\ DOMAIN rows = 1..n
  OBVIOUS
<1>2. IsFiniteSet(1..n)
  BY FS_Interval
<1>3. IsFiniteSet(S)
  BY <1>1, <1>2, FS_Subset
<1>4. PICK f : f = [i \in 1..n |-> rows[i].w]
  OBVIOUS
<1>5. \A i \in S : f[i] \in Nat
  <2>1. \A i \in 1..n : rows[i] \in RowSet
    BY <1>1
  <2>2. \A i \in 1..n : rows[i].w \in Nat
    BY <2>1 DEF RowSet
  <2> QED BY <1>1, <1>4, <2>2
<1>6. Fits!SumFunctionOnSet(f, S) \in Nat
  BY <1>3, <1>5, SumIsNat
<1>7. Fits!WeightOf(rows, S) = Fits!SumFunctionOnSet(f, S)
  BY <1>1, <1>4 DEF Fits!WeightOf
<1> QED BY <1>6, <1>7

\* _weighted_median() is a price: the largest actual, at least, holds half the weight.
LEMMA MedianIs ==
  ASSUME NEW rows \in Seq(RowSet), NEW a \in 1..Len(rows), NEW b \in a..Len(rows)
  PROVE  Fits!WeightedMedian(rows, a, b) \in Int
<1>1. PICK n \in Nat : n = Len(rows)
  OBVIOUS
<1>2. \A i \in a..b : i \in 1..n /\ rows[i].y \in Int
  <2>1. \A i \in a..b : i \in 1..n /\ rows[i] \in RowSet
    BY <1>1
  <2> QED BY <2>1 DEF RowSet
<1> DEFINE f == [i \in a..b |-> rows[i].y]
<1>3. \A i \in a..b : f[i] = rows[i].y
  OBVIOUS
<1> HIDE DEF f
<1>4. a \in Int /\ b \in Int /\ a <= b /\ \A i \in a..b : f[i] \in Int
  BY <1>1, <1>2, <1>3
<1>5. PICK m \in a..b : \A i \in a..b : f[i] <= f[m]
  BY <1>4, Extremes
<1>6. PICK l \in a..b : \A i \in a..b : f[l] <= f[i]
  BY <1>4, Extremes
<1>7. PICK S : S = {y \in {rows[i].y : i \in a..b} :
                     2 * Fits!WeightOf(rows, {i \in a..b : rows[i].y <= y}) >= Fits!WeightOf(rows, a..b)}
  OBVIOUS
<1>8. rows[m].y \in S
  <2>1. {i \in a..b : rows[i].y <= rows[m].y} = a..b
    BY <1>3, <1>5
  <2>2. Fits!WeightOf(rows, a..b) \in Nat
    <3>1. a..b \in SUBSET (1..Len(rows))
      BY <1>1, <1>2
    <3> QED BY <3>1, WeightIsNat
  <2>3. 2 * Fits!WeightOf(rows, a..b) >= Fits!WeightOf(rows, a..b)
    BY <2>2
  <2> QED BY <1>7, <2>1, <2>3
<1>9. \A y \in S : y \in Int /\ rows[l].y <= y
  BY <1>2, <1>3, <1>6, <1>7
<1>10. Min(S) \in S
  <2>1. S \in SUBSET Int /\ S # {} /\ rows[l].y \in Int
    BY <1>2, <1>8, <1>9
  <2> QED BY <1>9, <2>1, MinIsOne
<1>11. Fits!WeightedMedian(rows, a, b) = Min(S)
  BY <1>7, SameMin DEF Fits!WeightedMedian
<1> QED BY <1>9, <1>10, <1>11

MedianBlock == [from : Nat, to : Nat, level : Int]

-----------------------------------------------------------------------------
(* Weight held *)

\* By how much the rows of a..b that are at most t outweigh the others.
Held(rows, t, a, b) ==
  2 * Fits!WeightOf(rows, {i \in a..b : rows[i].y <= t}) - Fits!WeightOf(rows, a..b)

\* One row more.
LEMMA WeightWith ==
  ASSUME NEW rows \in Seq(RowSet), NEW S \in SUBSET (1..Len(rows)), NEW x \in S
  PROVE  Fits!WeightOf(rows, S) = rows[x].w + Fits!WeightOf(rows, S \ {x})
<1>1. PICK n \in Nat : n = Len(rows) /\ DOMAIN rows = 1..n
  OBVIOUS
<1>2. IsFiniteSet(S)
  <2>1. IsFiniteSet(1..n)
    BY FS_Interval
  <2> QED BY <1>1, <2>1, FS_Subset
<1>3. PICK f : f = [i \in 1..n |-> rows[i].w]
  OBVIOUS
<1>4. \A i \in 1..n : f[i] = rows[i].w /\ f[i] \in Int
  <2>1. \A i \in 1..n : rows[i] \in RowSet
    BY <1>1
  <2>2. \A i \in 1..n : rows[i].w \in Int
    BY <2>1, RowNumbers
  <2> QED BY <1>3, <2>2
<1>5. \A s : Fits!WeightOf(rows, s) = Fits!SumFunctionOnSet(f, s)
  BY <1>1, <1>3 DEF Fits!WeightOf
<1>6. \A i \in S : f[i] \in Int
  BY <1>1, <1>4
<1>7. Fits!SumFunctionOnSet(f, S) = f[x] + Fits!SumFunctionOnSet(f, S \ {x})
  BY <1>2, <1>6, SumWithout
<1> QED BY <1>1, <1>4, <1>5, <1>7

LEMMA NoWeight == ASSUME NEW rows \in Seq(RowSet) PROVE Fits!WeightOf(rows, {}) = 0
<1>1. PICK f : f = [i \in DOMAIN rows |-> rows[i].w]
  OBVIOUS
<1>2. IsFiniteSet({}) /\ \A x \in {} : f[x] \in Int
  BY FS_EmptySet
<1>3. Fits!SumFunctionOnSet(f, {}) = 0
  BY <1>2, SumWithout
<1> QED BY <1>1, <1>3 DEF Fits!WeightOf

\* What a row adds to what is held.
Tilt(row, t) == IF row.y <= t THEN row.w ELSE -row.w

LEMMA TiltIs ==
  ASSUME NEW row \in RowSet, NEW t \in Int, NEW u \in Int, t <= u
  PROVE  Tilt(row, t) \in Int /\ Tilt(row, t) <= Tilt(row, u)
<1>1. PICK y \in Int : y = row.y
  BY DEF RowSet
<1>2. PICK w \in Nat : w = row.w
  BY DEF RowSet
<1>3. Tilt(row, t) = (IF y <= t THEN w ELSE -w) /\ Tilt(row, u) = (IF y <= u THEN w ELSE -w)
  BY <1>1, <1>2 DEF Tilt
<1> QED BY <1>3

LEMMA HeldIs ==
  ASSUME NEW rows \in Seq(RowSet), NEW t \in Int, NEW a \in 1..Len(rows)
  PROVE  /\ Held(rows, t, a, a - 1) = 0
         /\ \A b \in (a - 1)..Len(rows) : Held(rows, t, a, b) \in Int
         /\ \A b \in a..Len(rows) : Held(rows, t, a, b) = Held(rows, t, a, b - 1) + Tilt(rows[b], t)
<1>1. PICK n \in Nat : n = Len(rows) /\ a \in 1..n
  OBVIOUS
<1>2. Held(rows, t, a, a - 1) = 0
  <2>1. a..(a - 1) = {}
    OBVIOUS
  <2>2. {i \in a..(a - 1) : rows[i].y <= t} = {}
    BY <2>1
  <2>3. Held(rows, t, a, a - 1) = 2 * Fits!WeightOf(rows, {}) - Fits!WeightOf(rows, {})
    BY <2>1, <2>2, Zenon DEF Held
  <2>4. Fits!WeightOf(rows, {}) = 0
    BY NoWeight
  <2> QED BY <2>3, <2>4
<1>3. ASSUME NEW b \in (a - 1)..n
      PROVE  /\ Fits!WeightOf(rows, {i \in a..b : rows[i].y <= t}) \in Nat
             /\ Fits!WeightOf(rows, a..b) \in Nat
             /\ Held(rows, t, a, b) \in Int
  <2>1. a..b \in SUBSET (1..Len(rows)) /\ {i \in a..b : rows[i].y <= t} \in SUBSET (1..Len(rows))
    BY <1>1
  <2>2. /\ Fits!WeightOf(rows, {i \in a..b : rows[i].y <= t}) \in Nat
        /\ Fits!WeightOf(rows, a..b) \in Nat
    BY <2>1, WeightIsNat
  <2> QED BY <2>2 DEF Held
<1>4. ASSUME NEW b \in a..n PROVE Held(rows, t, a, b) = Held(rows, t, a, b - 1) + Tilt(rows[b], t)
  <2>1. rows[b].y \in Int /\ rows[b].w \in Int
    <3>1. rows[b] \in RowSet
      BY <1>1
    <3> QED BY <3>1, RowNumbers
  <2>2. a..b \in SUBSET (1..Len(rows)) /\ {i \in a..b : rows[i].y <= t} \in SUBSET (1..Len(rows)) /\ b \in a..b
    BY <1>1
  <2>3. (a..b) \ {b} = a..(b - 1)
    OBVIOUS
  <2>4. Fits!WeightOf(rows, a..b) = rows[b].w + Fits!WeightOf(rows, a..(b - 1))
    BY <2>2, <2>3, WeightWith
  <2>5. b \in (a - 1)..n /\ b - 1 \in (a - 1)..n
    OBVIOUS
  <2>6. CASE rows[b].y <= t
    <3>1. {i \in a..b : rows[i].y <= t} \ {b} = {i \in a..(b - 1) : rows[i].y <= t}
      BY <2>3
    <3>2. Fits!WeightOf(rows, {i \in a..b : rows[i].y <= t})
            = rows[b].w + Fits!WeightOf(rows, {i \in a..(b - 1) : rows[i].y <= t})
      <4>1. b \in {i \in a..b : rows[i].y <= t}
        BY <2>2, <2>6
      <4> QED BY <2>2, <3>1, <4>1, WeightWith
    <3>3. Fits!WeightOf(rows, {i \in a..(b - 1) : rows[i].y <= t}) \in Nat /\ Fits!WeightOf(rows, a..(b - 1)) \in Nat
      BY <1>3, <2>5
    <3> QED BY <2>1, <2>4, <2>6, <3>2, <3>3 DEF Held, Tilt
  <2>7. CASE ~(rows[b].y <= t)
    <3>1. {i \in a..b : rows[i].y <= t} = {i \in a..(b - 1) : rows[i].y <= t}
      BY <2>3, <2>7
    <3>2. PICK h : h = Fits!WeightOf(rows, {i \in a..(b - 1) : rows[i].y <= t})
      OBVIOUS
    <3>3. PICK l : l = Fits!WeightOf(rows, a..(b - 1))
      OBVIOUS
    <3>4. h \in Nat /\ l \in Nat
      BY <1>3, <2>5, <3>2, <3>3
    <3>5. Held(rows, t, a, b - 1) = 2 * h - l
      BY <3>2, <3>3, Zenon DEF Held
    <3>6. Held(rows, t, a, b) = 2 * h - (rows[b].w + l)
      BY <2>4, <3>1, <3>2, <3>3, Zenon DEF Held
    <3> QED BY <2>1, <2>7, <3>4, <3>5, <3>6 DEF Tilt
  <2> QED BY <2>6, <2>7
<1> QED BY <1>1, <1>2, <1>3, <1>4

\* What the first k rows hold.
Lead(rows, t) == [k \in 0..Len(rows) |-> Held(rows, t, 1, k)]

\* What the first k rows hold at t.
LEMMA LeadIs ==
  ASSUME NEW rows \in Seq(RowSet), rows # <<>>, NEW t \in Int, NEW f, f = Lead(rows, t)
  PROVE  /\ f[0] = 0 /\ \A k \in 0..Len(rows) : f[k] \in Int
         /\ \A k \in 1..Len(rows) : f[k] = f[k - 1] + Tilt(rows[k], t)
<1>1. PICK n \in Nat : n = Len(rows) /\ 1 \in 1..n
  OBVIOUS
<1>2. \A k \in 0..n : f[k] = Held(rows, t, 1, k)
  BY <1>1 DEF Lead
<1>3. /\ Held(rows, t, 1, 1 - 1) = 0
      /\ \A b \in (1 - 1)..n : Held(rows, t, 1, b) \in Int
      /\ \A b \in 1..n : Held(rows, t, 1, b) = Held(rows, t, 1, b - 1) + Tilt(rows[b], t)
  BY <1>1, HeldIs
<1>4. \A k \in 1..n : k - 1 \in 0..n /\ k \in 0..n
  OBVIOUS
<1> HIDE DEF Held
<1> QED BY <1>1, <1>2, <1>3, <1>4

LEMMA HeldIsLead ==
  ASSUME NEW rows \in Seq(RowSet), rows # <<>>, NEW t \in Int, NEW f, f = Lead(rows, t), NEW a \in 1..Len(rows)
  PROVE  \A b \in (a - 1)..Len(rows) : Held(rows, t, a, b) = f[b] - f[a - 1]
<1>1. PICK n \in Nat : n = Len(rows) /\ a \in 1..n
  OBVIOUS
<1>2. /\ \A k \in 0..n : f[k] \in Int
      /\ \A k \in 1..n : f[k] = f[k - 1] + Tilt(rows[k], t)
  BY <1>1, LeadIs
<1>3. /\ Held(rows, t, a, a - 1) = 0
      /\ \A b \in a..n : Held(rows, t, a, b) = Held(rows, t, a, b - 1) + Tilt(rows[b], t)
  BY <1>1, HeldIs
<1> DEFINE S == {b \in (a - 1)..n : Held(rows, t, a, b) = f[b] - f[a - 1]}
<1>4. a - 1 \in S
  <2>1. a - 1 \in 0..n /\ a - 1 \in (a - 1)..n
    BY <1>1
  <2>2. f[a - 1] \in Int
    BY <1>2, <2>1
  <2> QED BY <1>3, <2>1, <2>2
<1>5. ASSUME NEW b \in ((a - 1) + 1)..n, b - 1 \in S PROVE b \in S
  <2>1. b \in a..n /\ b \in 1..n /\ b - 1 \in 0..n /\ b \in 0..n /\ a - 1 \in 0..n /\ b \in (a - 1)..n
    OBVIOUS
  <2>2. PICK d : d = Tilt(rows[b], t)
    OBVIOUS
  <2>3. f[b] = f[b - 1] + d /\ f[b - 1] \in Int /\ f[a - 1] \in Int /\ f[b] \in Int
    BY <1>2, <2>1, <2>2
  <2>4. Held(rows, t, a, b) = (f[b - 1] - f[a - 1]) + d
    BY <1>3, <1>5, <2>1, <2>2
  <2>5. d \in Int
    <3>1. rows[b] \in RowSet
      BY <1>1, <2>1
    <3> QED BY <2>2, <3>1, TiltIs
  <2>6. Held(rows, t, a, b) = f[b] - f[a - 1]
    BY <2>3, <2>4, <2>5
  <2> QED BY <2>1, <2>6
<1> HIDE DEF S
<1>6. \A b \in (a - 1)..n : b \in S
  <2>1. a - 1 \in Int
    BY <1>1
  <2> QED BY <1>4, <1>5, <2>1, UpTo
<1> QED BY <1>1, <1>6 DEF S

\* At a higher price more is held.
LEMMA LeadGrows ==
  ASSUME NEW rows \in Seq(RowSet), rows # <<>>, NEW t \in Int, NEW u \in Int, t <= u,
         NEW k \in 0..Len(rows), NEW l \in k..Len(rows)
  PROVE  Lead(rows, t)[l] - Lead(rows, t)[k] <= Lead(rows, u)[l] - Lead(rows, u)[k]
<1>1. PICK n \in Nat : n = Len(rows) /\ k \in 0..n /\ l \in k..n
  OBVIOUS
<1>2. PICK f : f = Lead(rows, t)
  OBVIOUS
<1>3. PICK g : g = Lead(rows, u)
  OBVIOUS
<1>4. \A i \in 0..n : f[i] \in Int /\ g[i] \in Int
  BY <1>1, <1>2, <1>3, LeadIs
<1>5. \A i \in 1..n : f[i] = f[i - 1] + Tilt(rows[i], t) /\ g[i] = g[i - 1] + Tilt(rows[i], u)
  BY <1>1, <1>2, <1>3, LeadIs
<1> DEFINE S == {i \in k..n : f[i] - f[k] <= g[i] - g[k]}
<1>6. k \in S
  <2>1. k \in k..n /\ f[k] \in Int /\ g[k] \in Int
    BY <1>1, <1>4
  <2> QED BY <2>1
<1>7. ASSUME NEW i \in (k + 1)..n, i - 1 \in S PROVE i \in S
  <2>1. i \in 1..n /\ i - 1 \in 0..n /\ i \in 0..n /\ i \in k..n
    OBVIOUS
  <2>2. Tilt(rows[i], t) \in Int /\ Tilt(rows[i], u) \in Int /\ Tilt(rows[i], t) <= Tilt(rows[i], u)
    <3>1. rows[i] \in RowSet
      BY <1>1, <2>1
    <3> QED BY <3>1, TiltIs
  <2>3. f[i - 1] - f[k] <= g[i - 1] - g[k]
    BY <1>7
  <2>4. f[i] = f[i - 1] + Tilt(rows[i], t) /\ g[i] = g[i - 1] + Tilt(rows[i], u)
    BY <1>5, <2>1
  <2>5. f[i - 1] \in Int /\ g[i - 1] \in Int /\ f[k] \in Int /\ g[k] \in Int
    BY <1>4, <2>1
  <2>6. f[i] - f[k] <= g[i] - g[k]
    <3>1. PICK d \in Int : d = Tilt(rows[i], t)
      BY <2>2
    <3>2. PICK e \in Int : e = Tilt(rows[i], u)
      BY <2>2
    <3>3. f[i] = f[i - 1] + d /\ g[i] = g[i - 1] + e /\ d <= e
      BY <2>2, <2>4, <3>1, <3>2
    <3>4. \A a, b, c, e1 \in Int : a - b <= c - e1 => (a + d) - b <= (c + e) - e1
      BY <3>3
    <3> QED BY <2>3, <2>5, <3>3, <3>4
  <2> QED BY <2>1, <2>6
<1> HIDE DEF S
<1>8. \A i \in k..n : i \in S
  <2>1. k \in Int /\ n \in Int
    BY <1>1
  <2> QED BY <1>6, <1>7, <2>1, UpTo
<1> QED BY <1>1, <1>2, <1>3, <1>8 DEF S

-----------------------------------------------------------------------------
(* Poised blocks *)

Leads(rows) == [t \in Int |-> Lead(rows, t)]

\* L counts rows 1..n by price.
Counts(L, n) ==
  /\ \A t \in Int : \A k \in 0..n : L[t][k] \in Int
  /\ \A t, u \in Int : t <= u => \A k \in 0..n : \A l \in k..n : L[t][l] - L[t][k] <= L[u][l] - L[u][k]

LEMMA LeadsCount ==
  ASSUME NEW rows \in Seq(RowSet), rows # <<>> PROVE Counts(Leads(rows), Len(rows))
<1>1. \A t \in Int : Leads(rows)[t] = Lead(rows, t)
  BY DEF Leads
<1>2. \A t \in Int : \A k \in 0..Len(rows) : Lead(rows, t)[k] \in Int
  BY LeadIs
<1>3. \A t, u \in Int : t <= u => \A k \in 0..Len(rows) : \A l \in k..Len(rows) :
        Lead(rows, t)[l] - Lead(rows, t)[k] <= Lead(rows, u)[l] - Lead(rows, u)[k]
  BY LeadGrows
<1> QED BY <1>1, <1>2, <1>3, Zenon DEF Counts

\* No rows at the end of s..e outweigh the others from above m, and none at its beginning
\* from below: moving either end away would not pay.
Placed(L, m, s, e) ==
  \A k \in s..e : 0 <= L[m][e] - L[m][k - 1] /\ L[m - 1][k] - L[m - 1][s - 1] < 0
Poised(rows, b) == Placed(Leads(rows), b.level, b.from, b.to)

\* The weighted median is where the held weight passes the half.
LEMMA MedianHolds ==
  ASSUME NEW rows \in Seq(RowSet), NEW a \in 1..Len(rows), NEW b \in a..Len(rows),
         NEW m, m = Fits!WeightedMedian(rows, a, b)
  PROVE  0 <= Held(rows, m, a, b) /\ Held(rows, m - 1, a, b) < 0
<1>1. PICK n \in Nat : n = Len(rows) /\ a \in 1..n /\ b \in a..n
  OBVIOUS
<1>2. m \in Int
  BY MedianIs
<1>3. \A i \in a..b : i \in 1..n /\ rows[i].y \in Int /\ rows[i].w \in Nat \ {0}
  <2>1. \A i \in a..b : i \in 1..n /\ rows[i] \in RowSet
    BY <1>1
  <2> QED BY <2>1 DEF RowSet
<1>4. PICK W \in Nat : W = Fits!WeightOf(rows, a..b)
  <2>1. a..b \in SUBSET (1..Len(rows))
    BY <1>1, <1>3
  <2> QED BY <2>1, WeightIsNat
<1>5. PICK Y : Y = {rows[i].y : i \in a..b}
  OBVIOUS
<1>6. Y \in SUBSET Int
  BY <1>3, <1>5
<1>7. PICK S : S = {y \in Y : 2 * Fits!WeightOf(rows, {i \in a..b : rows[i].y <= y}) >= W}
  OBVIOUS
<1>8. m = Min(S)
  BY <1>4, <1>5, <1>7, SameMin DEF Fits!WeightedMedian
<1>9. \A y : Held(rows, y, a, b) = 2 * Fits!WeightOf(rows, {i \in a..b : rows[i].y <= y}) - W
  BY <1>4, Zenon DEF Held
<1>10. \A y : Fits!WeightOf(rows, {i \in a..b : rows[i].y <= y}) \in Nat
  <2> SUFFICES ASSUME NEW y PROVE Fits!WeightOf(rows, {i \in a..b : rows[i].y <= y}) \in Nat
    OBVIOUS
  <2>1. {i \in a..b : rows[i].y <= y} \in SUBSET (1..Len(rows))
    BY <1>1, <1>3
  <2> QED BY <2>1, WeightIsNat
<1>11. \A y \in Y : y \in S <=> 0 <= Held(rows, y, a, b)
  <2> SUFFICES ASSUME NEW y \in Y PROVE y \in S <=> 0 <= Held(rows, y, a, b)
    OBVIOUS
  <2>1. PICK h \in Nat : h = Fits!WeightOf(rows, {i \in a..b : rows[i].y <= y})
    BY <1>10
  <2>2. Held(rows, y, a, b) = 2 * h - W
    BY <1>9, <2>1
  <2>3. y \in S <=> 2 * h >= W
    BY <1>7, <2>1
  <2> QED BY <2>2, <2>3
<1>12. S \in SUBSET Y /\ S # {} /\ \E l \in Int : \A y \in S : l <= y
  <2> DEFINE f == [i \in a..b |-> rows[i].y]
  <2>1. \A i \in a..b : f[i] = rows[i].y
    OBVIOUS
  <2> HIDE DEF f
  <2>2. a \in Int /\ b \in Int /\ a <= b /\ \A i \in a..b : f[i] \in Int
    BY <1>1, <1>3, <2>1
  <2>3. PICK k \in a..b : \A i \in a..b : f[i] <= f[k]
    BY <2>2, Extremes
  <2>4. PICK l \in a..b : \A i \in a..b : f[l] <= f[i]
    BY <2>2, Extremes
  <2>5. {i \in a..b : rows[i].y <= rows[k].y} = a..b
    BY <2>1, <2>3
  <2>6. 2 * Fits!WeightOf(rows, {i \in a..b : rows[i].y <= rows[k].y}) >= W
    <3>1. Fits!WeightOf(rows, {i \in a..b : rows[i].y <= rows[k].y}) = W
      BY <1>4, <2>5
    <3> QED BY <3>1
  <2>7. rows[k].y \in S
    <3>1. rows[k].y \in Y
      BY <1>5
    <3> QED BY <1>7, <2>6, <3>1
  <2>8. \A y \in Y : rows[l].y <= y
    BY <1>5, <2>1, <2>4
  <2>9. S \in SUBSET Y
    BY <1>7
  <2> QED BY <1>3, <2>7, <2>8, <2>9
<1>13. m \in S /\ \A y \in S : m <= y
  <2>1. S \in SUBSET Int /\ S # {}
    BY <1>6, <1>12
  <2>2. PICK l \in Int : \A y \in S : l <= y
    BY <1>12
  <2>3. Min(S) \in S /\ \A y \in S : Min(S) <= y
    BY <2>1, <2>2, MinIsOne, Zenon
  <2> QED BY <1>8, <2>3, Zenon
<1>14. 0 <= Held(rows, m, a, b)
  BY <1>11, <1>12, <1>13
<1>15. ASSUME 0 <= Held(rows, m - 1, a, b) PROVE FALSE
  <2>1. PICK V : V = {y \in Y : y <= m - 1}
    OBVIOUS
  <2>2. V # {}
    <3>1. CASE V # {}
      BY <3>1
    <3>2. CASE V = {}
      <4>1. {i \in a..b : rows[i].y <= m - 1} = {}
        BY <1>5, <2>1, <3>2
      <4>2. Held(rows, m - 1, a, b) = 2 * Fits!WeightOf(rows, {}) - W
        BY <1>9, <4>1
      <4>3. Fits!WeightOf(rows, {}) = 0
        BY NoWeight
      <4>4. W # 0
        <5>1. a \in a..b /\ a..b \in SUBSET (1..Len(rows)) /\ (a..b) \ {a} \in SUBSET (1..Len(rows))
          BY <1>1, <1>3
        <5>2. W = rows[a].w + Fits!WeightOf(rows, (a..b) \ {a})
          BY <1>4, <5>1, WeightWith
        <5>3. Fits!WeightOf(rows, (a..b) \ {a}) \in Nat
          BY <5>1, WeightIsNat
        <5>4. rows[a].w \in Nat \ {0}
          BY <1>3, <5>1
        <5> QED BY <5>2, <5>3, <5>4
      <4> QED BY <1>15, <4>2, <4>3, <4>4
    <3> QED BY <3>1, <3>2
  <2>3. PICK y \in V : \A v \in V : v <= y
    <3>1. V \in SUBSET Int /\ \A v \in V : v <= m - 1
      BY <1>6, <2>1
    <3>2. m - 1 \in Int
      BY <1>2
    <3>3. Max(V) \in V /\ \A v \in V : v <= Max(V)
      BY <2>2, <3>1, <3>2, MaxIsOne
    <3> QED BY <3>3
  <2>4. {i \in a..b : rows[i].y <= y} = {i \in a..b : rows[i].y <= m - 1}
    <3>1. y \in Int /\ y <= m - 1
      BY <1>6, <2>1
    <3>2. \A i \in a..b : rows[i].y <= m - 1 => rows[i].y <= y
      BY <1>5, <2>1, <2>3
    <3>3. \A i \in a..b : rows[i].y <= y => rows[i].y <= m - 1
      BY <1>2, <1>3, <3>1
    <3> QED BY <3>2, <3>3
  <2>5. Held(rows, y, a, b) = Held(rows, m - 1, a, b)
    BY <1>9, <2>4
  <2>6. y \in Y /\ y \in Int /\ y <= m - 1
    BY <1>6, <2>1
  <2>7. y \in S
    BY <1>11, <1>15, <2>5, <2>6
  <2> QED BY <1>2, <1>13, <2>6, <2>7
<1>16. Held(rows, m - 1, a, b) \in Int
  <2>1. PICK h \in Nat : h = Fits!WeightOf(rows, {i \in a..b : rows[i].y <= m - 1})
    BY <1>10
  <2> QED BY <1>9, <2>1
<1> QED BY <1>14, <1>15, <1>16

\* Rows s..e are split evenly at m.
Balanced(L, m, s, e) == 0 <= L[m][e] - L[m][s - 1] /\ L[m - 1][e] - L[m - 1][s - 1] < 0

\* Where rows s..c are placed at p and c+1..e at q, no higher, all are placed at m.
LEMMA PlacedTogether ==
  ASSUME NEW n \in Nat, NEW s \in 1..n, NEW c \in s..n, NEW e \in (c + 1)..n,
         NEW p \in Int, NEW q \in Int, q <= p, NEW m \in Int, p = q => m = q, NEW L, Counts(L, n),
         Placed(L, p, s, c), Placed(L, q, c + 1, e), p # q => Balanced(L, m, s, e)
  PROVE  Placed(L, m, s, e)
<1>11. \A t \in Int : \A k \in 0..n : L[t][k] \in Int
  BY DEF Counts
<1>12. \A t, u \in Int : t <= u => \A k \in 0..n : \A l \in k..n : L[t][l] - L[t][k] <= L[u][l] - L[u][k]
  BY DEF Counts
<1>13. \A k \in s..c : 0 <= L[p][c] - L[p][k - 1] /\ L[p - 1][k] - L[p - 1][s - 1] < 0
  BY DEF Placed
<1>14. \A k \in (c + 1)..e : 0 <= L[q][e] - L[q][k - 1] /\ L[q - 1][k] - L[q - 1][c] < 0
  <2>1. (c + 1) - 1 = c
    OBVIOUS
  <2> QED BY <2>1 DEF Placed
<1>15. p # q => 0 <= L[m][e] - L[m][s - 1] /\ L[m - 1][e] - L[m - 1][s - 1] < 0
  BY DEF Balanced
<1>16. s - 1 \in 0..n /\ c \in 0..n /\ e \in 0..n /\ p - 1 \in Int /\ q - 1 \in Int /\ m - 1 \in Int
  OBVIOUS
<1>17. q <= m
  <2>1. CASE p = q
    BY <2>1
  <2>2. CASE p # q /\ m <= q - 1
    <3>1. L[m][c] - L[m][s - 1] <= L[p - 1][c] - L[p - 1][s - 1]
      <4>1. m <= p - 1 /\ c \in (s - 1)..n
        BY <2>2
      <4> QED BY <1>12, <1>16, <4>1
    <3>2. L[m][e] - L[m][c] <= L[q - 1][e] - L[q - 1][c]
      <4>1. e \in c..n
        OBVIOUS
      <4> QED BY <1>12, <1>16, <2>2, <4>1
    <3>3. L[p - 1][c] - L[p - 1][s - 1] < 0 /\ L[q - 1][e] - L[q - 1][c] < 0
      <4>1. c \in s..c /\ e \in (c + 1)..e
        OBVIOUS
      <4> QED BY <1>13, <1>14, <4>1
    <3>4. 0 <= L[m][e] - L[m][s - 1]
      BY <1>15, <2>2
    <3>5. /\ L[m][s - 1] \in Int /\ L[m][c] \in Int /\ L[m][e] \in Int
          /\ L[p - 1][s - 1] \in Int /\ L[p - 1][c] \in Int /\ L[p - 1][e] \in Int
          /\ L[q - 1][s - 1] \in Int /\ L[q - 1][c] \in Int /\ L[q - 1][e] \in Int
      BY <1>11, <1>16
    <3> QED BY <3>1, <3>2, <3>3, <3>4, <3>5
  <2> QED BY <2>1, <2>2
<1>18. m <= p
  <2>1. CASE p = q
    BY <2>1
  <2>2. CASE p # q /\ p <= m - 1
    <3>1. L[p][c] - L[p][s - 1] <= L[m - 1][c] - L[m - 1][s - 1]
      <4>1. c \in (s - 1)..n
        OBVIOUS
      <4> QED BY <1>12, <1>16, <2>2, <4>1
    <3>2. L[q][e] - L[q][c] <= L[m - 1][e] - L[m - 1][c]
      <4>1. e \in c..n /\ q <= m - 1
        BY <2>2
      <4> QED BY <1>12, <1>16, <4>1
    <3>3. 0 <= L[p][c] - L[p][s - 1] /\ 0 <= L[q][e] - L[q][c]
      <4>1. s \in s..c /\ c + 1 \in (c + 1)..e /\ (c + 1) - 1 = c
        OBVIOUS
      <4> QED BY <1>13, <1>14, <4>1
    <3>4. L[m - 1][e] - L[m - 1][s - 1] < 0
      BY <1>15, <2>2
    <3>5. /\ L[m - 1][s - 1] \in Int /\ L[m - 1][c] \in Int /\ L[m - 1][e] \in Int
          /\ L[p][s - 1] \in Int /\ L[p][c] \in Int /\ L[p][e] \in Int
          /\ L[q][s - 1] \in Int /\ L[q][c] \in Int /\ L[q][e] \in Int
      BY <1>11, <1>16
    <3> QED BY <3>1, <3>2, <3>3, <3>4, <3>5
  <2> QED BY <2>1, <2>2
<1>19. ASSUME NEW k \in s..e PROVE 0 <= L[m][e] - L[m][k - 1]
  <2>1. /\ s - 1 \in 0..n /\ k - 1 \in 0..n /\ c \in 0..n /\ e \in 0..n
        /\ L[m][s - 1] \in Int /\ L[m][k - 1] \in Int /\ L[m][c] \in Int /\ L[m][e] \in Int
        /\ L[p][s - 1] \in Int /\ L[p][k - 1] \in Int /\ L[p][c] \in Int /\ L[p][e] \in Int
        /\ L[q][s - 1] \in Int /\ L[q][k - 1] \in Int /\ L[q][c] \in Int /\ L[q][e] \in Int
        /\ L[p - 1][s - 1] \in Int /\ L[p - 1][k - 1] \in Int /\ L[p - 1][c] \in Int /\ L[p - 1][e] \in Int
    <3>1. k - 1 \in 0..n
      OBVIOUS
    <3> QED BY <1>11, <1>16, <3>1
  <2>2. CASE k \in (c + 1)..e
    <3>1. L[q][e] - L[q][k - 1] <= L[m][e] - L[m][k - 1]
      <4>1. e \in (k - 1)..n
        OBVIOUS
      <4> QED BY <1>12, <1>17, <2>1, <4>1
    <3> QED BY <1>14, <2>1, <2>2, <3>1
  <2>3. CASE k \in s..c /\ m = p
    <3>1. 0 <= L[p][c] - L[p][k - 1]
      BY <1>13, <2>3
    <3>2. L[q][e] - L[q][c] <= L[m][e] - L[m][c]
      <4>1. e \in c..n
        OBVIOUS
      <4> QED BY <1>12, <1>16, <1>17, <4>1
    <3>3. 0 <= L[q][e] - L[q][c]
      <4>1. c + 1 \in (c + 1)..e /\ (c + 1) - 1 = c
        OBVIOUS
      <4> QED BY <1>14, <4>1
    <3> QED BY <2>1, <2>3, <3>1, <3>2, <3>3
  <2>4. CASE k \in s..c /\ m <= p - 1
    <3>1. p # q
      BY <1>17, <2>4
    <3>2. 0 <= L[m][e] - L[m][s - 1]
      BY <1>15, <3>1
    <3>3. CASE k = s
      BY <3>2, <3>3
    <3>4. CASE k # s
      <4>1. k - 1 \in s..c /\ k - 1 \in (s - 1)..n
        BY <2>4, <3>4
      <4>2. L[m][k - 1] - L[m][s - 1] <= L[p - 1][k - 1] - L[p - 1][s - 1]
        BY <1>12, <1>16, <2>4, <4>1
      <4>3. L[p - 1][k - 1] - L[p - 1][s - 1] < 0
        BY <1>13, <4>1
      <4> QED BY <2>1, <3>2, <4>2, <4>3
    <3> QED BY <3>3, <3>4
  <2> QED BY <1>18, <2>2, <2>3, <2>4
<1>20. ASSUME NEW k \in s..e PROVE L[m - 1][k] - L[m - 1][s - 1] < 0
  <2>1. /\ s - 1 \in 0..n /\ k \in 0..n /\ c \in 0..n /\ e \in 0..n
        /\ L[m - 1][s - 1] \in Int /\ L[m - 1][k] \in Int /\ L[m - 1][c] \in Int /\ L[m - 1][e] \in Int
        /\ L[p - 1][s - 1] \in Int /\ L[p - 1][k] \in Int /\ L[p - 1][c] \in Int /\ L[p - 1][e] \in Int
        /\ L[q][s - 1] \in Int /\ L[q][k] \in Int /\ L[q][c] \in Int /\ L[q][e] \in Int
        /\ L[q - 1][s - 1] \in Int /\ L[q - 1][k] \in Int /\ L[q - 1][c] \in Int /\ L[q - 1][e] \in Int
    <3>1. k \in 0..n
      OBVIOUS
    <3> QED BY <1>11, <1>16, <3>1
  <2>2. CASE k \in s..c
    <3>1. L[m - 1][k] - L[m - 1][s - 1] <= L[p - 1][k] - L[p - 1][s - 1]
      <4>1. k \in (s - 1)..n /\ m - 1 <= p - 1
        BY <1>18
      <4> QED BY <1>12, <1>16, <4>1
    <3> QED BY <1>13, <2>1, <2>2, <3>1
  <2>3. CASE k \in (c + 1)..e /\ m = q
    <3>1. L[m - 1][c] - L[m - 1][s - 1] <= L[p - 1][c] - L[p - 1][s - 1]
      <4>1. c \in (s - 1)..n /\ m - 1 <= p - 1
        BY <1>18
      <4> QED BY <1>12, <1>16, <4>1
    <3>2. L[p - 1][c] - L[p - 1][s - 1] < 0
      <4>1. c \in s..c
        OBVIOUS
      <4> QED BY <1>13, <4>1
    <3>3. L[m - 1][k] - L[m - 1][c] < 0
      BY <1>14, <2>3
    <3> QED BY <2>1, <3>1, <3>2, <3>3
  <2>4. CASE k \in (c + 1)..e /\ q <= m - 1
    <3>1. p # q
      BY <1>18, <2>4
    <3>2. L[m - 1][e] - L[m - 1][s - 1] < 0
      BY <1>15, <3>1
    <3>3. CASE k = e
      BY <3>2, <3>3
    <3>4. CASE k # e
      <4>1. k + 1 \in (c + 1)..e /\ (k + 1) - 1 = k /\ e \in k..n
        BY <2>4, <3>4
      <4>2. L[q][e] - L[q][k] <= L[m - 1][e] - L[m - 1][k]
        BY <1>12, <1>16, <2>1, <2>4, <4>1
      <4>3. 0 <= L[q][e] - L[q][k]
        BY <1>14, <4>1
      <4> QED BY <2>1, <3>2, <4>2, <4>3
    <3> QED BY <3>3, <3>4
  <2> QED BY <1>17, <2>2, <2>3, <2>4
<1> QED BY <1>19, <1>20 DEF Placed

\* Two blocks that are not in order merge into one that is as well placed.
LEMMA MergePoised ==
  ASSUME NEW rows \in Seq(RowSet), rows # <<>>, NEW a \in MedianBlock, NEW b \in MedianBlock,
         a.from \in 1..Len(rows), a.to \in a.from..Len(rows), b.from = a.to + 1, b.to \in b.from..Len(rows),
         Poised(rows, a), Poised(rows, b), b.level <= a.level
  PROVE  Poised(rows, Fits!MergeMedians(rows, a, b))
<1>1. PICK n \in Nat : n = Len(rows)
  OBVIOUS
<1>2. PICK s \in 1..n : s = a.from
  BY <1>1
<1>3. PICK c \in s..n : c = a.to
  BY <1>1, <1>2
<1>4. PICK e \in (c + 1)..n : e = b.to
  BY <1>1, <1>3
<1>5. PICK p \in Int : p = a.level
  BY DEF MedianBlock
<1>6. PICK q \in Int : q = b.level /\ q <= p
  BY <1>5 DEF MedianBlock
<1>7. PICK r : r = Fits!MergeMedians(rows, a, b)
  OBVIOUS
<1>8. PICK m : m = r.level
  OBVIOUS
<1>9. r.from = s /\ r.to = e /\ m = IF p = q THEN q ELSE Fits!WeightedMedian(rows, s, e)
  BY <1>2, <1>4, <1>5, <1>6, <1>7, <1>8 DEF Fits!MergeMedians
<1>10. m \in Int
  <2>1. s \in 1..Len(rows) /\ e \in s..Len(rows)
    BY <1>1
  <2> QED BY <1>9, <2>1, MedianIs
<1>11. PICK L : L = Leads(rows)
  OBVIOUS
<1>12. \A t \in Int : L[t] = Lead(rows, t)
  BY <1>11 DEF Leads
<1>13. Counts(L, n)
  BY <1>1, <1>11, LeadsCount
<1>14. Placed(L, p, s, c) /\ Placed(L, q, c + 1, e)
  BY <1>2, <1>3, <1>4, <1>5, <1>6, <1>11 DEF Poised
<1>15. p # q => Balanced(L, m, s, e)
  <2> SUFFICES ASSUME p # q PROVE Balanced(L, m, s, e)
    OBVIOUS
  <2>1. s \in 1..Len(rows) /\ e \in s..Len(rows) /\ e \in (s - 1)..Len(rows) /\ m - 1 \in Int
    BY <1>1, <1>10
  <2>2. 0 <= Held(rows, m, s, e) /\ Held(rows, m - 1, s, e) < 0
    BY <1>9, <2>1, MedianHolds
  <2>3. Held(rows, m, s, e) = L[m][e] - L[m][s - 1]
    BY <1>10, <1>12, <2>1, HeldIsLead
  <2>4. Held(rows, m - 1, s, e) = L[m - 1][e] - L[m - 1][s - 1]
    BY <1>12, <2>1, HeldIsLead
  <2> QED BY <2>2, <2>3, <2>4 DEF Balanced
<1>16. p = q => m = q
  BY <1>9
<1>17. Placed(L, m, s, e)
  BY <1>6, <1>10, <1>13, <1>14, <1>15, <1>16, PlacedTogether
<1> QED BY <1>7, <1>8, <1>9, <1>11, <1>17 DEF Poised

-----------------------------------------------------------------------------
(* Pooled blocks *)

IsLastMedian(f, bs, rows) ==
  f = [k \in 0..(Len(bs) - 1) |->
         IF k = 0 THEN bs[Len(bs)] ELSE Fits!MergeMedians(rows, bs[Len(bs) - k], f[k - 1])]
LastMedian(bs, rows) == CHOOSE f : IsLastMedian(f, bs, rows)
UndoneMedians(bs, rows) ==
  Fits!Min({k \in 0..(Len(bs) - 1) :
              k = Len(bs) - 1 \/ bs[Len(bs) - k - 1].level < LastMedian(bs, rows)[k].level})
SettledMedians(bs, rows) ==
  Append(SubSeq(bs, 1, Len(bs) - UndoneMedians(bs, rows) - 1), LastMedian(bs, rows)[UndoneMedians(bs, rows)])

LEMMA MergeMediansIs ==
  ASSUME NEW rows \in Seq(RowSet), NEW a \in MedianBlock, NEW b \in MedianBlock,
         a.from \in 1..Len(rows), b.to \in a.from..Len(rows)
  PROVE  /\ Fits!MergeMedians(rows, a, b) \in MedianBlock
         /\ Fits!MergeMedians(rows, a, b).from = a.from /\ Fits!MergeMedians(rows, a, b).to = b.to
<1>1. Fits!WeightedMedian(rows, a.from, b.to) \in Int
  BY MedianIs
<1> QED BY <1>1 DEF Fits!MergeMedians, MedianBlock

LEMMA LastMedianIs ==
  ASSUME NEW rows \in Seq(RowSet), NEW n \in 1..Len(rows),
         NEW p \in Seq(MedianBlock), Tiles(p, n - 1), NEW x \in MedianBlock, x.from = n, x.to = n
  PROVE  /\ \A k \in 0..Len(p) :
              /\ LastMedian(Append(p, x), rows)[k] \in MedianBlock
              /\ LastMedian(Append(p, x), rows)[k].from = (IF k = 0 THEN n ELSE p[Len(p) + 1 - k].from)
              /\ LastMedian(Append(p, x), rows)[k].to = n
         /\ LastMedian(Append(p, x), rows)[0] = x
         /\ \A k \in 1..Len(p) :
              LastMedian(Append(p, x), rows)[k]
                = Fits!MergeMedians(rows, p[Len(p) + 1 - k], LastMedian(Append(p, x), rows)[k - 1])
<1>1. PICK l \in Nat : l = Len(p)
  OBVIOUS
<1>2. PICK bs : bs = Append(p, x)
  OBVIOUS
<1>3. Len(bs) = l + 1 /\ bs[l + 1] = x /\ \A k \in 1..l : bs[k] = p[k]
  BY <1>1, <1>2, SMTT(20)
<1>17. \A k \in 1..l : p[k].from \in 1..(n - 1)
  BY <1>1 DEF Tiles
<1> DEFINE good(k) == {q \in MedianBlock : q.from = (IF k = 0 THEN n ELSE p[l + 1 - k].from) /\ q.to = n}
           Good == [k \in 0..l |-> good(k)]
           step == [k \in 1..l |-> [q \in Good[k - 1] |-> Fits!MergeMedians(rows, bs[l + 1 - k], q)]]
<1>4. ASSUME NEW k \in 1..l, NEW q \in MedianBlock, q.to = n
      PROVE  Fits!MergeMedians(rows, bs[l + 1 - k], q) \in Good[k]
  <2>1. l + 1 - k \in 1..l /\ k # 0 /\ k \in 0..l
    OBVIOUS
  <2>2. bs[l + 1 - k] = p[l + 1 - k] /\ p[l + 1 - k] \in MedianBlock
    BY <1>1, <1>3, <2>1
  <2>3. p[l + 1 - k].from \in 1..(n - 1)
    BY <1>17, <2>1
  <2>4. p[l + 1 - k].from \in 1..Len(rows) /\ q.to \in p[l + 1 - k].from..Len(rows)
    BY <1>4, <2>3
  <2>5. Fits!MergeMedians(rows, bs[l + 1 - k], q) \in good(k)
    BY <1>4, <2>1, <2>2, <2>4, MergeMediansIs
  <2> QED BY <2>1, <2>5
<1>5. ASSUME NEW k \in 0..l, NEW q PROVE q \in Good[k] <=> q \in good(k)
  OBVIOUS
<1>6. x \in Good[0]
  OBVIOUS
<1>7. \A k \in 1..l : \A q \in Good[k - 1] :
        step[k][q] = Fits!MergeMedians(rows, bs[l + 1 - k], q) /\ q \in MedianBlock /\ q.to = n
  <2> SUFFICES ASSUME NEW k \in 1..l, NEW q \in Good[k - 1]
               PROVE  step[k][q] = Fits!MergeMedians(rows, bs[l + 1 - k], q) /\ q \in MedianBlock /\ q.to = n
    OBVIOUS
  <2>1. k - 1 \in 0..l /\ step[k][q] = Fits!MergeMedians(rows, bs[l + 1 - k], q)
    OBVIOUS
  <2>2. q \in good(k - 1)
    BY <1>5, <2>1
  <2> QED BY <2>1, <2>2
<1>8. \A k \in 0..l : \A q \in Good[k] :
        q \in MedianBlock /\ q.from = (IF k = 0 THEN n ELSE p[l + 1 - k].from) /\ q.to = n
  BY <1>5
<1> HIDE DEF Good, step, good
<1>9. \A k \in 1..l : \A q \in Good[k - 1] : step[k][q] \in Good[k]
  BY <1>4, <1>7
<1>10. PICK f : IsRec(f, l, x, step) /\ \A k \in 0..l : f[k] \in Good[k]
  BY <1>6, <1>9, Recursion
<1>11. IsLastMedian(f, bs, rows)
  <2>1. \A k \in 0..l : f[k] = IF k = 0 THEN bs[l + 1] ELSE Fits!MergeMedians(rows, bs[l + 1 - k], f[k - 1])
    <3> SUFFICES ASSUME NEW k \in 0..l
                 PROVE  f[k] = IF k = 0 THEN bs[l + 1] ELSE Fits!MergeMedians(rows, bs[l + 1 - k], f[k - 1])
      OBVIOUS
    <3>1. CASE k = 0
      BY <1>3, <1>10, <3>1 DEF IsRec
    <3>2. CASE k # 0
      <4>1. k \in 1..l /\ k - 1 \in 0..l
        BY <3>2
      <4>2. f[k] = step[k][f[k - 1]] /\ f[k - 1] \in Good[k - 1]
        BY <1>10, <3>2, <4>1 DEF IsRec
      <4> QED BY <1>7, <3>2, <4>1, <4>2
    <3> QED BY <3>1, <3>2
  <2>2. f = [k \in 0..l |-> f[k]]
    BY <1>10 DEF IsRec
  <2>3. f = [k \in 0..l |-> IF k = 0 THEN bs[l + 1] ELSE Fits!MergeMedians(rows, bs[l + 1 - k], f[k - 1])]
    BY <2>1, <2>2
  <2>4. (l + 1) - 1 = l
    OBVIOUS
  <2> QED BY <1>3, <2>3, <2>4 DEF IsLastMedian
<1>12. PICK g : g = LastMedian(bs, rows)
  OBVIOUS
<1>13. IsLastMedian(g, bs, rows)
  BY <1>11, <1>12, Zenon DEF LastMedian
<1>14. g[0] = x /\ \A k \in 1..l : g[k] = Fits!MergeMedians(rows, bs[l + 1 - k], g[k - 1])
  BY <1>3, <1>13 DEF IsLastMedian
<1>15. \A k \in 1..l : g[k - 1] \in Good[k - 1] => g[k] \in Good[k]
  BY <1>4, <1>7, <1>14
<1>16. \A k \in 0..l : g[k] \in Good[k]
  BY <1>6, <1>14, <1>15, Along
<1>18. \A k \in 1..l : bs[l + 1 - k] = p[l + 1 - k]
  BY <1>3
<1>19. g[0] = x /\ \A k \in 1..l : g[k] = Fits!MergeMedians(rows, p[l + 1 - k], g[k - 1])
  BY <1>14, <1>18
<1>20. \A k \in 0..l : g[k] \in MedianBlock /\ g[k].from = (IF k = 0 THEN n ELSE p[l + 1 - k].from) /\ g[k].to = n
  BY <1>8, <1>16
<1> QED BY <1>1, <1>2, <1>12, <1>19, <1>20

\* Every block is well placed, each above the one before.
Sound(rows, bs) ==
  /\ \A k \in 1..Len(bs) : Poised(rows, bs[k])
  /\ \A k \in 1..(Len(bs) - 1) : bs[k].level < bs[k + 1].level

LEMMA SettledMediansAre ==
  ASSUME NEW rows \in Seq(RowSet), NEW n \in 1..Len(rows), NEW p \in Seq(MedianBlock), Tiles(p, n - 1),
         NEW x \in MedianBlock, x.from = n, x.to = n,
         Sound(rows, p), Poised(rows, x), NEW r, r = SettledMedians(Append(p, x), rows)
  PROVE  r \in Seq(MedianBlock) /\ Tiles(r, n) /\ Sound(rows, r)
<1>1. PICK l \in Nat : l = Len(p)
  OBVIOUS
<1>2. PICK bs : bs = Append(p, x)
  OBVIOUS
<1>3. Len(bs) = l + 1
  BY <1>1, <1>2, SMTT(20)
<1>4. PICK g : g = LastMedian(bs, rows)
  OBVIOUS
<1>5. \A k \in 0..l :
        g[k] \in MedianBlock /\ g[k].from = (IF k = 0 THEN n ELSE p[l + 1 - k].from) /\ g[k].to = n
  BY <1>1, <1>2, <1>4, LastMedianIs
<1>6. PICK S : S = {k \in 0..(Len(bs) - 1) : k = Len(bs) - 1 \/ bs[Len(bs) - k - 1].level < g[k].level}
  OBVIOUS
<1>7. l \in S /\ \A k \in S : k \in 0..l
  <2>1. (l + 1) - 1 = l /\ Len(bs) = l + 1
    BY <1>3
  <2> QED BY <1>6, <2>1
<1>8. PICK m : m = Min(S)
  OBVIOUS
<1>9. m \in S
  <2>1. S \in SUBSET Int /\ S # {} /\ 0 \in Int /\ \A k \in S : 0 <= k
    BY <1>7
  <2>2. Min(S) \in S
    BY <2>1, MinIsOne, Zenon
  <2> QED BY <1>8, <2>2, Zenon
<1>10. m \in 0..l
  BY <1>7, <1>9
<1>11. UndoneMedians(bs, rows) = m
  BY <1>4, <1>6, <1>8, SameMin DEF UndoneMedians
<1>12. r = Append(SubSeq(Append(p, x), 1, Len(Append(p, x)) - m - 1), g[m])
  BY <1>2, <1>4, <1>11 DEF SettledMedians
<1>13. m \in 0..Len(p) /\ g[m] \in MedianBlock
  BY <1>1, <1>5, <1>10
<1>14. r \in Seq(MedianBlock) /\ Merged(p, m, g[m], r)
  BY <1>12, <1>13, MergedIs
<1>15. g[m].from = (IF m = 0 THEN n ELSE p[Len(p) + 1 - m].from) /\ g[m].to = n
  BY <1>1, <1>5, <1>10
<1>16. n \in Nat \ {0}
  OBVIOUS
<1>17. Tiles(r, n)
  BY <1>13, <1>14, <1>15, <1>16, MergedTiles
<1>18. \A k \in 0..(m - 1) : g[k].level <= p[l - k].level
  <2> SUFFICES ASSUME NEW k \in 0..(m - 1) PROVE g[k].level <= p[l - k].level
    OBVIOUS
  <2>1. k \in 0..l /\ k # l /\ k < m /\ l - k \in 1..l /\ (l + 1) - k - 1 = l - k /\ k \in 0..((l + 1) - 1)
    BY <1>10
  <2>2. k \notin S
    <3>1. \A j \in S : m <= j
      <4>1. S \in SUBSET Int /\ S # {} /\ 0 \in Int /\ \A j \in S : 0 <= j
        BY <1>7
      <4>2. \A j \in S : Min(S) <= j
        BY <4>1, MinIsOne, Zenon
      <4> QED BY <1>8, <4>2, Zenon
    <3> QED BY <1>10, <2>1, <3>1
  <2>3. ~(bs[Len(bs) - k - 1].level < g[k].level)
    BY <1>3, <1>6, <2>1, <2>2
  <2>4. bs[l - k] = p[l - k]
    BY <1>1, <1>2, <2>1, SMTT(20)
  <2>5. Len(bs) - k - 1 = l - k
    BY <1>3, <2>1
  <2>6. ~(p[l - k].level < g[k].level)
    BY <2>3, <2>4, <2>5
  <2>7. g[k].level \in Int /\ p[l - k].level \in Int
    <3>1. g[k] \in MedianBlock /\ p[l - k] \in MedianBlock
      BY <1>1, <1>5, <2>1
    <3> QED BY <3>1 DEF MedianBlock
  <2> QED BY <2>6, <2>7
<1>19. \A k \in 0..m : Poised(rows, g[k])
  <2> DEFINE Placed1 == {k \in 0..m : Poised(rows, g[k])}
  <2>1. 0 \in Placed1
    <3>1. g[0] = x
      BY <1>2, <1>4, LastMedianIs
    <3> QED BY <1>10, <3>1
  <2>2. ASSUME NEW k \in (0 + 1)..m, k - 1 \in Placed1 PROVE k \in Placed1
    <3>1. k \in 1..l /\ k \in 0..m /\ k - 1 \in 0..(m - 1) /\ k - 1 \in 0..l /\ l - (k - 1) = l + 1 - k /\ l + 1 - k \in 1..l
      BY <1>10
    <3>2. PICK a \in MedianBlock : a = p[l + 1 - k]
      BY <1>1, <3>1
    <3>3. PICK b \in MedianBlock : b = g[k - 1] /\ b.from = (IF k - 1 = 0 THEN n ELSE p[l + 1 - (k - 1)].from) /\ b.to = n
      BY <1>5, <3>1
    <3>4. g[k] = Fits!MergeMedians(rows, a, b)
      <4>1. \A j \in 1..Len(p) : g[j] = Fits!MergeMedians(rows, p[Len(p) + 1 - j], g[j - 1])
        BY <1>2, <1>4, LastMedianIs
      <4> QED BY <1>1, <3>1, <3>2, <3>3, <4>1
    <3>5. Poised(rows, a) /\ Poised(rows, b) /\ b.level <= a.level
      <4>1. Poised(rows, a)
        BY <1>1, <3>1, <3>2 DEF Sound
      <4>2. b.level <= a.level
        BY <1>18, <3>1, <3>2, <3>3
      <4> QED BY <2>2, <3>3, <4>1, <4>2
    <3>6. a.from \in 1..(n - 1) /\ a.to \in a.from..(n - 1)
      BY <1>1, <3>1, <3>2 DEF Tiles
    <3>7. b.from = a.to + 1
      <4>1. CASE k = 1
        <5>1. p[l].to = n - 1 /\ l + 1 - k = l
          <6>1. l # 0
            BY <3>1
          <6>2. n - 1 # 0
            BY <1>1, <6>1 DEF Tiles
          <6> QED BY <1>1, <4>1, <6>2 DEF Tiles
        <5> QED BY <3>2, <3>3, <4>1, <5>1
      <4>2. CASE k # 1
        <5>1. l + 1 - k \in 1..(l - 1) /\ l + 1 - (k - 1) = (l + 1 - k) + 1 /\ k - 1 # 0
          BY <3>1, <4>2
        <5>2. p[(l + 1 - k) + 1].from = p[l + 1 - k].to + 1
          BY <1>1, <5>1 DEF Tiles
        <5>3. b.from = p[l + 1 - (k - 1)].from
          BY <3>3, <5>1, Zenon
        <5>4. b.from = p[l + 1 - k].to + 1
          BY <5>1, <5>2, <5>3, Zenon
        <5> QED BY <3>2, <5>4, Zenon
      <4> QED BY <4>1, <4>2
    <3>8. rows # <<>> /\ a.from \in 1..Len(rows) /\ a.to \in a.from..Len(rows) /\ b.to \in b.from..Len(rows)
      <4>1. PICK s \in 1..(n - 1), e \in 1..(n - 1) : s = a.from /\ e = a.to /\ s <= e
        BY <3>6
      <4>2. b.from = e + 1 /\ b.to = n
        BY <3>3, <3>7, <4>1
      <4>3. PICK d \in Nat : d = Len(rows) /\ n \in 1..d
        OBVIOUS
      <4>4. rows # <<>> /\ s \in 1..d /\ e \in s..d /\ n \in (e + 1)..d
        BY <4>1, <4>3
      <4> QED BY <4>1, <4>2, <4>3, <4>4
    <3>9. Poised(rows, g[k])
      BY <3>4, <3>5, <3>7, <3>8, MergePoised
    <3> QED BY <3>1, <3>9
  <2> HIDE DEF Placed1
  <2>3. \A k \in 0..m : k \in Placed1
    <3>1. 0 \in Int /\ m \in Int
      BY <1>10
    <3> QED BY <2>1, <2>2, <3>1, UpTo
  <2> QED BY <2>3 DEF Placed1
<1>20. Sound(rows, r)
  <2>1. Len(r) = l - m + 1 /\ r[l - m + 1] = g[m] /\ \A k \in 1..(l - m) : r[k] = p[k]
    BY <1>1, <1>14 DEF Merged
  <2>2. \A k \in 1..Len(r) : Poised(rows, r[k])
    <3> SUFFICES ASSUME NEW k \in 1..(l - m + 1) PROVE Poised(rows, r[k])
      BY <2>1
    <3>1. CASE k = l - m + 1
      <4>1. m \in 0..m
        BY <1>10
      <4> QED BY <1>19, <2>1, <3>1, <4>1
    <3>2. CASE k # l - m + 1
      <4>1. k \in 1..(l - m) /\ k \in 1..l
        BY <1>10, <3>2
      <4> QED BY <1>1, <2>1, <4>1 DEF Sound
    <3> QED BY <3>1, <3>2
  <2>3. \A k \in 1..(Len(r) - 1) : r[k].level < r[k + 1].level
    <3> SUFFICES ASSUME NEW k \in 1..(l - m) PROVE r[k].level < r[k + 1].level
      <4>1. Len(r) - 1 = l - m
        BY <1>10, <2>1
      <4> QED BY <4>1
    <3>1. CASE k = l - m
      <4>1. m # l /\ l - m \in 1..l /\ Len(bs) - m - 1 = l - m /\ m # Len(bs) - 1
        BY <1>3, <1>10, <3>1
      <4>2. bs[l - m].level < g[m].level
        BY <1>6, <1>9, <4>1
      <4>3. bs[l - m] = p[l - m]
        BY <1>1, <1>2, <4>1, SMTT(20)
      <4> QED BY <2>1, <3>1, <4>2, <4>3
    <3>2. CASE k # l - m
      <4>1. k \in 1..(l - m) /\ k + 1 \in 1..(l - m) /\ k \in 1..(l - 1)
        BY <1>10, <3>2
      <4>2. p[k].level < p[k + 1].level
        BY <1>1, <4>1 DEF Sound
      <4> QED BY <2>1, <4>1, <4>2
    <3> QED BY <3>1, <3>2
  <2> QED BY <2>2, <2>3, Zenon DEF Sound
<1> QED BY <1>14, <1>17, <1>20

IsPooledMedians(f, rows) ==
  f = [i \in 0..Len(rows) |->
         IF i = 0 THEN <<>>
         ELSE SettledMedians(Append(f[i - 1], [from |-> i, to |-> i, level |-> rows[i].y]), rows)]
PooledMedians(rows) == CHOOSE f : IsPooledMedians(f, rows)

LEMMA MedianBlocksArePooled ==
  ASSUME NEW rows PROVE Fits!MedianBlocks(rows) = PooledMedians(rows)[Len(rows)]
BY DEF Fits!MedianBlocks, Fits!Settle, PooledMedians, IsPooledMedians, SettledMedians, UndoneMedians,
       LastMedian, IsLastMedian

\* One row is well placed at its own price.
LEMMA RowPoised ==
  ASSUME NEW rows \in Seq(RowSet), NEW i \in 1..Len(rows)
  PROVE  Poised(rows, [from |-> i, to |-> i, level |-> rows[i].y])
<1>1. rows # <<>> /\ rows[i] \in RowSet
  OBVIOUS
<1>2. PICK y \in Int : y = rows[i].y
  BY <1>1 DEF RowSet
<1>3. PICK w \in Nat \ {0} : w = rows[i].w
  BY <1>1 DEF RowSet
<1>4. PICK f : f = Lead(rows, y)
  OBVIOUS
<1>5. PICK g : g = Lead(rows, y - 1)
  OBVIOUS
<1>6. f[i] = f[i - 1] + Tilt(rows[i], y) /\ g[i] = g[i - 1] + Tilt(rows[i], y - 1)
  BY <1>1, <1>4, <1>5, LeadIs
<1>7. f[i - 1] \in Int /\ g[i - 1] \in Int
  <2>1. i - 1 \in 0..Len(rows)
    OBVIOUS
  <2> QED BY <1>1, <1>4, <1>5, <2>1, LeadIs
<1>8. Tilt(rows[i], y) = w /\ Tilt(rows[i], y - 1) = -w
  BY <1>2, <1>3 DEF Tilt
<1>9. 0 <= f[i] - f[i - 1] /\ g[i] - g[i - 1] < 0
  <2>1. \A u \in Int : 0 <= (u + w) - u /\ (u + (-w)) - u < 0
    OBVIOUS
  <2> QED BY <1>6, <1>7, <1>8, <2>1
<1>10. Leads(rows)[y] = f /\ Leads(rows)[y - 1] = g
  BY <1>4, <1>5 DEF Leads
<1>11. Placed(Leads(rows), y, i, i)
  <2>1. \A k \in i..i : k = i
    OBVIOUS
  <2> QED BY <1>9, <1>10, <2>1 DEF Placed
<1> QED BY <1>2, <1>11 DEF Poised

\* _pav_median_blocks(): blocks that cover the rows, each well placed, in rising order.
LEMMA MedianBlocksAre ==
  ASSUME NEW rows \in Seq(RowSet), NEW bs, bs = Fits!MedianBlocks(rows)
  PROVE  bs \in Seq(MedianBlock) /\ Tiles(bs, Len(rows)) /\ Sound(rows, bs)
<1>1. PICK n \in Nat : n = Len(rows)
  OBVIOUS
<1> DEFINE new(i) == [from |-> i, to |-> i, level |-> rows[i].y]
           Good == [i \in 0..n |-> {q \in Seq(MedianBlock) : Tiles(q, i) /\ Sound(rows, q)}]
           step == [i \in 1..n |-> [q \in Good[i - 1] |-> SettledMedians(Append(q, new(i)), rows)]]
<1>2. ASSUME NEW i \in 1..n PROVE new(i) \in MedianBlock /\ new(i).from = i /\ new(i).to = i /\ Poised(rows, new(i))
  <2>1. rows[i] \in RowSet
    BY <1>1
  <2>2. rows[i].y \in Int
    BY <2>1 DEF RowSet
  <2>3. Poised(rows, new(i))
    BY <1>1, RowPoised
  <2> QED BY <2>2, <2>3 DEF MedianBlock
<1>3. <<>> \in Good[0]
  BY DEF Tiles, Sound
<1>4. \A i \in 0..n : \A q \in Good[i] : q \in Seq(MedianBlock) /\ Tiles(q, i) /\ Sound(rows, q)
  OBVIOUS
<1>5. \A i \in 1..n : \A q \in Good[i - 1] : step[i][q] = SettledMedians(Append(q, new(i)), rows)
  OBVIOUS
<1>6. \A i \in 0..n : \A q \in Seq(MedianBlock) : Tiles(q, i) /\ Sound(rows, q) => q \in Good[i]
  OBVIOUS
<1> HIDE DEF Good, step, new
<1>7. \A i \in 1..n : \A q \in Good[i - 1] : SettledMedians(Append(q, new(i)), rows) \in Good[i]
  <2> SUFFICES ASSUME NEW i \in 1..n, NEW q \in Good[i - 1]
               PROVE  SettledMedians(Append(q, new(i)), rows) \in Good[i]
    OBVIOUS
  <2>1. i - 1 \in 0..n /\ i \in 0..n /\ i \in 1..Len(rows)
    BY <1>1
  <2>2. q \in Seq(MedianBlock) /\ Tiles(q, i - 1) /\ Sound(rows, q)
    BY <1>4, <2>1
  <2>3. PICK r : r = SettledMedians(Append(q, new(i)), rows)
    OBVIOUS
  <2>4. r \in Seq(MedianBlock) /\ Tiles(r, i) /\ Sound(rows, r)
    BY <1>2, <2>1, <2>2, <2>3, SettledMediansAre
  <2> QED BY <1>6, <2>1, <2>3, <2>4
<1>8. PICK f : IsRec(f, n, <<>>, step) /\ \A i \in 0..n : f[i] \in Good[i]
  <2>1. \A i \in 1..n : \A q \in Good[i - 1] : step[i][q] \in Good[i]
    BY <1>5, <1>7
  <2> QED BY <1>3, <2>1, Recursion
<1>9. \A i \in 0..n : f[i] = IF i = 0 THEN <<>> ELSE SettledMedians(Append(f[i - 1], new(i)), rows)
  BY <1>5, <1>8 DEF IsRec
<1>10. IsPooledMedians(f, rows)
  <2>1. f = [i \in 0..n |-> f[i]]
    BY <1>8 DEF IsRec
  <2>2. f = [i \in 0..n |-> IF i = 0 THEN <<>> ELSE SettledMedians(Append(f[i - 1], new(i)), rows)]
    BY <1>9, <2>1
  <2> QED BY <1>1, <2>2 DEF IsPooledMedians, new
<1>11. PICK g : g = PooledMedians(rows)
  OBVIOUS
<1>12. IsPooledMedians(g, rows)
  BY <1>10, <1>11, Zenon DEF PooledMedians
<1>13. g[0] = <<>> /\ \A i \in 1..n : g[i] = SettledMedians(Append(g[i - 1], new(i)), rows)
  BY <1>1, <1>12 DEF IsPooledMedians, new
<1>14. \A i \in 1..n : g[i - 1] \in Good[i - 1] => g[i] \in Good[i]
  BY <1>7, <1>13
<1>15. \A i \in 0..n : g[i] \in Good[i]
  BY <1>3, <1>13, <1>14, Along
<1>16. bs = g[n] /\ n \in 0..n
  BY <1>1, <1>11, MedianBlocksArePooled
<1> QED BY <1>1, <1>4, <1>15, <1>16

-----------------------------------------------------------------------------
(* The served map *)

\* What the code's constants are.
LEMMA Constants ==
  /\ Unit \in Nat \ {0} /\ FullDays \in Nat \ {0} /\ RawLow \in Int /\ RawHigh \in Int
  /\ Floor \in Int /\ None \notin Int
BY ServingRulesAssumption DEF Serving!ServingAssumption, Serving!Fits!FitAssumption

\* A share of the way between two integers is between them.
LEMMA TowardIs ==
  ASSUME NEW v \in Int, NEW u \in Int, NEW num \in Int, NEW den \in Nat \ {0}
  PROVE  /\ Fits!Toward(v, u, num, den) \in Int
         /\ v <= u /\ num \in 0..den => v <= Fits!Toward(v, u, num, den) /\ Fits!Toward(v, u, num, den) <= u
         /\ v <= u => (u - v) \div den \in Nat
<1>1. u - v \in Int
  OBVIOUS
<1>2. PICK q \in Int : q = (u - v) \div den
  BY <1>1, FloorIs
<1>3. den * q <= u - v /\ u - v < den * q + den
  BY <1>1, <1>2, FloorIs
<1>4. Fits!Toward(v, u, num, den) = v + q * num
  BY <1>2 DEF Fits!Toward
<1>5. PICK d \in Int : d = q * num
  OBVIOUS
<1>6. v + d \in Int
  OBVIOUS
<1>7. ASSUME v <= u PROVE q \in Nat
  <2> SUFFICES ASSUME q <= -1 PROVE FALSE
    OBVIOUS
  <2>1. q * den <= (-1) * den
    BY TimesGrows
  <2>2. (-1) * den = -den /\ q * den = den * q
    OBVIOUS
  <2>3. PICK e \in Int : e = den * q
    OBVIOUS
  <2>4. e <= -den /\ u - v < e + den /\ 0 <= u - v
    BY <1>3, <1>7, <2>1, <2>2, <2>3
  <2> QED BY <2>4
<1>8. ASSUME v <= u, num \in 0..den PROVE v <= v + d /\ v + d <= u
  <2>1. q \in Nat
    BY <1>7, <1>8
  <2>2. num * q <= den * q /\ 0 * q <= num * q
    BY <1>8, <2>1, TimesGrows
  <2>3. num * q = d /\ 0 * q = 0
    BY <1>5, <2>1
  <2>4. PICK e \in Int : e = den * q
    OBVIOUS
  <2>5. d <= e /\ e <= u - v /\ 0 <= d
    BY <1>3, <2>2, <2>3, <2>4
  <2> QED BY <2>5
<1> QED BY <1>2, <1>4, <1>5, <1>6, <1>7, <1>8

LEMMA DaysAre ==
  ASSUME NEW rows, NEW b, b.from \in Int, b.to \in Int
  PROVE  Fits!DaysOf(rows, b) \in Nat
<1>1. IsFiniteSet(b.from..b.to)
  BY FS_Interval
<1>2. PICK f : f = [i \in b.from..b.to |-> rows[i].day]
  OBVIOUS
<1>3. PICK D : D = {rows[i].day : i \in b.from..b.to}
  OBVIOUS
<1>4. f \in Surjection(b.from..b.to, D)
  BY <1>2, <1>3 DEF Surjection
<1>5. IsFiniteSet(D)
  BY <1>1, <1>4, FS_Surjection
<1>6. Cardinality(D) \in Nat
  BY <1>5, FS_CardinalityType
<1> QED BY <1>3, <1>6, SameCardinality DEF Fits!DaysOf

\* Rows of a fit in order, and their blocks.
Blocked(rows, blocks) ==
  /\ rows \in Seq(RowSet) /\ \A k, l \in 1..Len(rows) : k <= l => rows[k].x <= rows[l].x
  /\ blocks \in Seq(MedianBlock) /\ Tiles(blocks, Len(rows))

LEMMA BlockedIs ==
  ASSUME NEW rows, NEW blocks, Blocked(rows, blocks), NEW c \in Fits!ToSet(blocks)
  PROVE  c.from \in 1..Len(rows) /\ c.to \in c.from..Len(rows) /\ c.level \in Int
<1>1. PICK k \in 1..Len(blocks) : c = blocks[k]
  <2>1. DOMAIN blocks = 1..Len(blocks)
    BY DEF Blocked
  <2> QED BY <2>1 DEF Fits!ToSet
<1>2. blocks[k] \in MedianBlock
  BY <1>1 DEF Blocked
<1>3. blocks[k].from \in 1..Len(rows) /\ blocks[k].to \in blocks[k].from..Len(rows)
  BY <1>1 DEF Blocked, Tiles
<1> QED BY <1>1, <1>2, <1>3 DEF MedianBlock

LEMMA RowBlockIs ==
  ASSUME NEW rows, NEW blocks, Blocked(rows, blocks), NEW i \in 1..Len(rows)
  PROVE  Fits!BlockOf(blocks, i) \in Fits!ToSet(blocks)
<1>1. Len(rows) \in Nat /\ blocks \in Seq(MedianBlock) /\ Tiles(blocks, Len(rows))
  BY DEF Blocked
<1>2. PICK k \in 1..Len(blocks) : Fits!BlockOf(blocks, i) = blocks[k]
  BY <1>1, BlockIs
<1>3. DOMAIN blocks = 1..Len(blocks)
  BY <1>1
<1> QED BY <1>2, <1>3 DEF Fits!ToSet

\* _pull_toward_supported_neighbours(): the line between two supported steps never
\* divides by nothing.
LEMMA PriorIs ==
  ASSUME NEW rows, NEW blocks, Blocked(rows, blocks), NEW i \in 1..Len(rows)
  PROVE  Fits!Prior(rows, blocks, i) \in Int
<1>1. PICK n \in Nat : n = Len(rows)
  BY DEF Blocked
<1>2. \A k \in 1..n : rows[k].x \in Int /\ rows[k].p50 \in Int
  <2>1. \A k \in 1..n : rows[k] \in RowSet
    BY <1>1 DEF Blocked
  <2> QED BY <2>1 DEF RowSet
<1>3. \A c \in Fits!ToSet(blocks) :
        c.from \in 1..n /\ c.to \in c.from..n /\ Unit * c.level \in Int
  <2> SUFFICES ASSUME NEW c \in Fits!ToSet(blocks)
               PROVE  c.from \in 1..n /\ c.to \in c.from..n /\ Unit * c.level \in Int
    OBVIOUS
  <2>1. c.from \in 1..n /\ c.to \in c.from..n /\ c.level \in Int
    BY <1>1, BlockedIs
  <2> QED BY <2>1, Constants
<1>4. PICK b : b = Fits!BlockOf(blocks, i)
  OBVIOUS
<1>5. b \in Fits!ToSet(blocks)
  BY <1>4, RowBlockIs
<1>6. PICK below : below = Fits!Below(rows, blocks, b)
  OBVIOUS
<1>7. PICK above : above = Fits!Above(rows, blocks, b)
  OBVIOUS
<1>8. \A c \in below : c \in Fits!ToSet(blocks) /\ c.to < b.from
  BY <1>6 DEF Fits!Below
<1>9. \A c \in above : c \in Fits!ToSet(blocks) /\ c.from > b.to
  BY <1>7 DEF Fits!Above
<1>10. PICK lo : lo = CHOOSE c \in below : \A d \in below : d.to <= c.to
  OBVIOUS
<1>11. PICK up : up = CHOOSE c \in above : \A d \in above : c.from <= d.from
  OBVIOUS
<1>12. ASSUME below # {} PROVE lo \in below
  <2>1. PICK S : S = {c.to : c \in below}
    OBVIOUS
  <2>2. S \in SUBSET Int /\ S # {} /\ n \in Int /\ \A x \in S : x <= n
    BY <1>3, <1>8, <1>12, <2>1
  <2>3. Max(S) \in S /\ \A x \in S : x <= Max(S)
    BY <2>2, MaxIsOne
  <2>4. \E c \in below : \A d \in below : d.to <= c.to
    BY <2>1, <2>3
  <2> QED BY <1>10, <2>4
<1>13. ASSUME above # {} PROVE up \in above
  <2>1. PICK S : S = {c.from : c \in above}
    OBVIOUS
  <2>2. S \in SUBSET Int /\ S # {} /\ 1 \in Int /\ \A x \in S : 1 <= x
    BY <1>3, <1>9, <1>13, <2>1
  <2>3. Min(S) \in S /\ \A x \in S : Min(S) <= x
    BY <2>2, MinIsOne
  <2>4. \E c \in above : \A d \in above : c.from <= d.from
    BY <2>1, <2>3
  <2> QED BY <1>11, <2>4
<1>14. PICK lx : lx = rows[lo.to].x
  OBVIOUS
<1>15. PICK ux : ux = rows[up.from].x
  OBVIOUS
<1>16. Fits!Prior(rows, blocks, i) =
         IF Fits!FullySupported(rows, b) \/ below = {} THEN rows[i].p50
         ELSE IF above = {} THEN Unit * lo.level
         ELSE IF ux = lx THEN Unit * up.level
         ELSE Fits!Toward(Unit * lo.level, Unit * up.level, rows[i].x - lx, ux - lx)
  BY <1>4, <1>6, <1>7, <1>10, <1>11, <1>14, <1>15 DEF Fits!Prior
<1>17. rows[i].p50 \in Int /\ rows[i].x \in Int
  BY <1>1, <1>2
<1>18. below # {} => Unit * lo.level \in Int
  BY <1>3, <1>8, <1>12
<1>19. above # {} => Unit * up.level \in Int
  BY <1>3, <1>9, <1>13
<1>20. ASSUME below # {}, above # {}, ux # lx
       PROVE  Fits!Toward(Unit * lo.level, Unit * up.level, rows[i].x - lx, ux - lx) \in Int
  <2>1. lo \in Fits!ToSet(blocks) /\ up \in Fits!ToSet(blocks) /\ lo.to < b.from /\ up.from > b.to
    BY <1>8, <1>9, <1>12, <1>13, <1>20
  <2>2. lo.to \in 1..n /\ up.from \in 1..n /\ b.from \in 1..n /\ b.to \in b.from..n
    BY <1>3, <1>5, <2>1
  <2>3. lo.to <= up.from
    BY <2>1, <2>2
  <2>4. lx <= ux /\ lx \in Int /\ ux \in Int
    BY <1>1, <1>2, <1>14, <1>15, <2>2, <2>3 DEF Blocked
  <2>5. ux - lx \in Nat \ {0} /\ rows[i].x - lx \in Int
    BY <1>17, <1>20, <2>4
  <2> QED BY <1>18, <1>19, <1>20, <2>5, TowardIs
<1> QED BY <1>16, <1>17, <1>18, <1>19, <1>20

LEMMA PulledIs ==
  ASSUME NEW rows, NEW blocks, Blocked(rows, blocks), NEW i \in 1..Len(rows), NEW prior \in Int
  PROVE  Fits!Pulled(rows, blocks, i, prior) \in Int
<1>1. PICK b : b = Fits!BlockOf(blocks, i)
  OBVIOUS
<1>2. b \in Fits!ToSet(blocks)
  BY <1>1, RowBlockIs
<1>3. b.from \in Int /\ b.to \in Int /\ b.level \in Int
  BY <1>2, BlockedIs
<1>4. PICK d \in Nat : d = Fits!DaysOf(rows, b)
  BY <1>3, DaysAre
<1>5. PICK S : S = {Fits!DaysOf(rows, b), FullDays}
  OBVIOUS
<1>6. S \in SUBSET Int /\ S # {} /\ 0 \in Int /\ \A x \in S : 0 <= x
  BY <1>4, <1>5, Constants
<1>7. Min(S) \in S
  BY <1>6, MinIsOne, Zenon
<1>8. Fits!Min(S) \in Int
  BY <1>6, <1>7, SameMin
<1>9. Unit * b.level \in Int
  BY <1>3, Constants
<1>10. Fits!Toward(prior, Unit * b.level, Fits!Min(S), FullDays) \in Int
  BY <1>8, <1>9, Constants, TowardIs
<1> QED BY <1>1, <1>5, <1>10 DEF Fits!Pulled

\* Both maps of a fit are levels that never fall.
LEMMA MapsAre ==
  ASSUME NEW rows, NEW blocks, Blocked(rows, blocks)
  PROVE  /\ Fits!FeatureMap(rows, blocks) \in [1..Len(rows) -> Int] /\ Fits!Monotone(Fits!FeatureMap(rows, blocks))
         /\ Fits!ServedMap(rows, blocks) \in [1..Len(rows) -> Int] /\ Fits!Monotone(Fits!ServedMap(rows, blocks))
<1>1. PICK n \in Nat : n = Len(rows) /\ DOMAIN rows = 1..n
  BY DEF Blocked
<1>2. rows \in Seq(RowSet)
  BY DEF Blocked
<1>3. \A k \in 1..n : rows[k].x \in Int /\ rows[k].p50 \in Int
  <2>1. \A k \in 1..n : rows[k] \in RowSet
    BY <1>1, <1>2
  <2> QED BY <2>1 DEF RowSet
<1>4. PICK f : f = [i \in 1..n |-> Fits!Pulled(rows, blocks, i, rows[i].p50)]
  OBVIOUS
<1>5. f \in [1..Len(rows) -> Int]
  BY <1>1, <1>3, <1>4, PulledIs
<1>6. Fits!FeatureMap(rows, blocks) = Fits!Pav(f, rows)
  BY <1>1, <1>4 DEF Fits!FeatureMap
<1>7. PICK g : g = [i \in 1..n |-> Fits!Pulled(rows, blocks, i, Fits!Prior(rows, blocks, i))]
  OBVIOUS
<1>8. g \in [1..Len(rows) -> Int]
  BY <1>1, <1>7, PulledIs, PriorIs
<1>9. PICK fitted : fitted = Fits!Pav(g, rows)
  OBVIOUS
<1>10. fitted \in [1..Len(rows) -> Int] /\ Fits!Monotone(fitted)
  BY <1>2, <1>8, <1>9, PavIs
<1>11. PICK h : h = [i \in 1..n |-> IF Fits!IsRaw(rows, blocks, i) THEN Unit * rows[i].x ELSE fitted[i]]
  OBVIOUS
<1>12. h \in [1..Len(rows) -> Int]
  <2>1. \A i \in 1..n : Unit * rows[i].x \in Int
    BY <1>3, Constants
  <2> QED BY <1>1, <1>10, <1>11, <2>1
<1>13. Fits!ServedMap(rows, blocks) = fitted \/ Fits!ServedMap(rows, blocks) = Fits!Pav(h, rows)
  BY <1>1, <1>7, <1>9, <1>11 DEF Fits!ServedMap
<1>14. Fits!Pav(h, rows) \in [1..Len(rows) -> Int] /\ Fits!Monotone(Fits!Pav(h, rows))
  BY <1>2, <1>12, PavIs
<1>15. Fits!Pav(f, rows) \in [1..Len(rows) -> Int] /\ Fits!Monotone(Fits!Pav(f, rows))
  BY <1>2, <1>5, PavIs
<1> QED BY <1>6, <1>10, <1>13, <1>14, <1>15

-----------------------------------------------------------------------------
(* What a map predicts *)

\* Training points in order with a value each.
Points(xs, ys) ==
  /\ xs \in Seq(Int) /\ Len(xs) # 0 /\ ys \in [1..Len(xs) -> Int]
  /\ \A i, j \in 1..Len(xs) : i <= j => xs[i] <= xs[j] /\ ys[i] <= ys[j]

\* i is the last training point up to x.
LastUpTo(xs, x, i) ==
  i \in 1..Len(xs) /\ xs[i] <= x /\ (i # Len(xs) => x < xs[i + 1])

LEMMA InterpIs ==
  ASSUME NEW xs, NEW ys, xs \in Seq(Int), Len(xs) # 0, NEW x \in Int
  PROVE  \/ x < xs[1] /\ Fits!Interp(xs, ys, x) = ys[1]
         \/ \E i : /\ LastUpTo(xs, x, i)
                  /\ Fits!Interp(xs, ys, x) =
                       IF i = Len(xs) \/ xs[i] = x THEN ys[i]
                       ELSE Fits!Toward(ys[i], ys[i + 1], x - xs[i], xs[i + 1] - xs[i])
<1>1. PICK n \in Nat \ {0} : n = Len(xs) /\ DOMAIN xs = 1..n
  OBVIOUS
<1>2. \A i \in 1..n : xs[i] \in Int
  BY <1>1
<1>3. PICK S : S = {i \in DOMAIN xs : xs[i] <= x}
  OBVIOUS
<1>4. PICK m : m = Fits!Max(S)
  OBVIOUS
<1>5. Fits!Interp(xs, ys, x) =
        IF S = {} THEN ys[1]
        ELSE IF m = Len(xs) \/ xs[m] = x THEN ys[m]
        ELSE Fits!Toward(ys[m], ys[m + 1], x - xs[m], xs[m + 1] - xs[m])
  BY <1>3, <1>4 DEF Fits!Interp
<1>6. CASE S = {}
  <2>1. x < xs[1]
    BY <1>1, <1>2, <1>3, <1>6
  <2> QED BY <1>5, <1>6, <2>1
<1>7. CASE S # {}
  <2>1. S \in SUBSET Int /\ n \in Int /\ \A i \in S : i <= n
    BY <1>1, <1>3
  <2>2. Max(S) \in S /\ \A i \in S : i <= Max(S)
    BY <1>7, <2>1, MaxIsOne
  <2>3. m \in S /\ \A i \in S : i <= m
    BY <1>4, <2>2, SameMax
  <2>4. m \in 1..n /\ xs[m] <= x
    BY <1>1, <1>3, <2>3
  <2>5. ASSUME m # n PROVE x < xs[m + 1]
    <3>1. m + 1 \in 1..n /\ m + 1 \notin S
      BY <2>3, <2>4, <2>5
    <3> QED BY <1>1, <1>2, <1>3, <3>1
  <2>6. LastUpTo(xs, x, m)
    BY <1>1, <2>4, <2>5 DEF LastUpTo
  <2> QED BY <1>5, <1>7, <2>6
<1> QED BY <1>6, <1>7

\* Between two training points, what is predicted is between their values.
LEMMA InterpIsBetween ==
  ASSUME NEW xs, NEW ys, Points(xs, ys), NEW x \in Int, NEW i, LastUpTo(xs, x, i),
         NEW v, v = IF i = Len(xs) \/ xs[i] = x THEN ys[i]
                    ELSE Fits!Toward(ys[i], ys[i + 1], x - xs[i], xs[i + 1] - xs[i])
  PROVE  v \in Int /\ ys[i] <= v /\ (i # Len(xs) => v <= ys[i + 1])
<1>1. PICK n \in Nat \ {0} : n = Len(xs)
  BY DEF Points
<1>2. \A k \in 1..n : xs[k] \in Int /\ ys[k] \in Int
  BY <1>1 DEF Points
<1>3. i \in 1..n /\ xs[i] <= x
  BY <1>1 DEF LastUpTo
<1>4. CASE i = n
  BY <1>1, <1>2, <1>3, <1>4
<1>5. CASE i # n
  <2>1. i + 1 \in 1..n /\ i <= i + 1
    BY <1>3, <1>5
  <2>2. x < xs[i + 1] /\ ys[i] <= ys[i + 1]
    BY <1>1, <1>3, <1>5, <2>1 DEF LastUpTo, Points
  <2>3. x - xs[i] \in Int /\ xs[i + 1] - xs[i] \in Nat \ {0} /\ x - xs[i] \in 0..(xs[i + 1] - xs[i])
    BY <1>2, <1>3, <2>1, <2>2
  <2>4. PICK t : t = Fits!Toward(ys[i], ys[i + 1], x - xs[i], xs[i + 1] - xs[i])
    OBVIOUS
  <2>5. t \in Int /\ ys[i] <= t /\ t <= ys[i + 1]
    BY <1>2, <1>3, <2>1, <2>2, <2>3, <2>4, TowardIs
  <2>6. v = IF xs[i] = x THEN ys[i] ELSE t
    BY <1>1, <1>5, <2>4
  <2> QED BY <1>2, <1>3, <2>1, <2>2, <2>5, <2>6
<1> QED BY <1>4, <1>5

\* Never falling between, at and outside the training points.
LEMMA InterpGrows ==
  ASSUME NEW xs, NEW ys, Points(xs, ys), NEW a \in Int, NEW b \in Int, a <= b
  PROVE  /\ Fits!Interp(xs, ys, a) \in Int /\ Fits!Interp(xs, ys, b) \in Int
         /\ Fits!Interp(xs, ys, a) <= Fits!Interp(xs, ys, b)
<1>1. PICK n \in Nat \ {0} : n = Len(xs)
  BY DEF Points
<1>2. \A k \in 1..n : xs[k] \in Int /\ ys[k] \in Int
  BY <1>1 DEF Points
<1>3. \A k, l \in 1..n : k <= l => xs[k] <= xs[l] /\ ys[k] <= ys[l]
  BY <1>1 DEF Points
<1>4. xs \in Seq(Int) /\ Len(xs) # 0
  BY DEF Points
<1>5. PICK p : p = Fits!Interp(xs, ys, a)
  OBVIOUS
<1>6. PICK q : q = Fits!Interp(xs, ys, b)
  OBVIOUS
<1> DEFINE At(i, x) == IF i = Len(xs) \/ xs[i] = x THEN ys[i]
                       ELSE Fits!Toward(ys[i], ys[i + 1], x - xs[i], xs[i + 1] - xs[i])
<1>7. (a < xs[1] /\ p = ys[1]) \/ \E i : LastUpTo(xs, a, i) /\ p = At(i, a)
  BY <1>4, <1>5, InterpIs
<1>8. (b < xs[1] /\ q = ys[1]) \/ \E i : LastUpTo(xs, b, i) /\ q = At(i, b)
  BY <1>4, <1>6, InterpIs
<1>9. \A x \in Int : \A i : LastUpTo(xs, x, i) =>
        At(i, x) \in Int /\ ys[i] <= At(i, x) /\ (i # n => At(i, x) <= ys[i + 1])
  BY <1>1, InterpIsBetween
<1>10. \A x \in Int : \A i : LastUpTo(xs, x, i) => i \in 1..n /\ xs[i] <= x /\ (i # n => x < xs[i + 1])
  BY <1>1 DEF LastUpTo
<1>11. ASSUME NEW i, LastUpTo(xs, a, i), p = At(i, a), NEW j, LastUpTo(xs, b, j), q = At(j, b)
       PROVE  p <= q
  <2>1. i \in 1..n /\ xs[i] <= a /\ (i # n => a < xs[i + 1])
    BY <1>10, <1>11
  <2>2. j \in 1..n /\ xs[j] <= b /\ (j # n => b < xs[j + 1])
    BY <1>10, <1>11
  <2>3. p \in Int /\ ys[i] <= p /\ (i # n => p <= ys[i + 1])
    BY <1>9, <1>11
  <2>4. q \in Int /\ ys[j] <= q /\ (j # n => q <= ys[j + 1])
    BY <1>9, <1>11
  <2> HIDE DEF At
  <2>5. i <= j
    <3> SUFFICES ASSUME j < i PROVE FALSE
      BY <2>1, <2>2
    <3>1. j # n /\ j + 1 \in 1..n /\ j + 1 <= i
      BY <2>1, <2>2
    <3>2. xs[j + 1] <= xs[i] /\ b < xs[j + 1]
      BY <1>3, <2>1, <2>2, <3>1
    <3> QED BY <1>2, <2>1, <3>1, <3>2
  <2>6. CASE i < j
    <3>1. i # n /\ i + 1 \in 1..n /\ i + 1 <= j
      BY <2>1, <2>2, <2>6
    <3>2. ys[i + 1] <= ys[j] /\ p <= ys[i + 1]
      BY <1>3, <2>2, <2>3, <3>1
    <3> QED BY <1>2, <2>2, <2>3, <2>4, <3>1, <3>2
  <2>7. CASE i = j /\ (i = n \/ xs[i] = a)
    <3>1. p = ys[i]
      BY <1>1, <1>11, <2>7 DEF At
    <3> QED BY <2>4, <2>7, <3>1
  <2>8. CASE i = j /\ i # n /\ xs[i] # a
    <3>1. i + 1 \in 1..n
      BY <2>1, <2>8
    <3>2. xs[i] # b
      BY <1>2, <2>1, <2>8
    <3>3. PICK d \in Nat \ {0} : d = xs[i + 1] - xs[i]
      BY <1>2, <2>1, <2>8, <3>1
    <3>4. PICK s \in Nat : s = (ys[i + 1] - ys[i]) \div d
      <4>1. i <= i + 1
        BY <2>1
      <4>2. ys[i] \in Int /\ ys[i + 1] \in Int /\ ys[i] <= ys[i + 1] /\ d \in Nat \ {0} /\ 0 \in Int
        BY <1>2, <1>3, <2>1, <3>1, <4>1
      <4>3. (ys[i + 1] - ys[i]) \div d \in Nat
        BY <4>2, TowardIs
      <4> QED BY <4>3
    <3>5. p = ys[i] + s * (a - xs[i]) /\ q = ys[i] + s * (b - xs[i])
      BY <1>1, <1>11, <2>8, <3>2, <3>3, <3>4 DEF At, Fits!Toward
    <3>6. PICK u \in Int : u = a - xs[i]
      BY <1>2, <2>1
    <3>7. PICK w \in Int : w = b - xs[i]
      BY <1>2, <2>1
    <3>8. u <= w
      BY <1>2, <2>1, <3>6, <3>7
    <3>9. u * s <= w * s
      BY <3>8, TimesGrows
    <3>10. p = ys[i] + u * s /\ q = ys[i] + w * s
      BY <3>5, <3>6, <3>7
    <3>11. PICK e \in Int : e = u * s
      OBVIOUS
    <3>12. PICK g \in Int : g = w * s
      OBVIOUS
    <3> QED BY <1>2, <2>1, <3>9, <3>10, <3>11, <3>12
  <2> QED BY <2>1, <2>2, <2>5, <2>6, <2>7, <2>8
<1>12. 1 \in 1..n
  OBVIOUS
<1>13. p \in Int /\ ys[1] <= p
  <2>1. CASE a < xs[1] /\ p = ys[1]
    BY <1>2, <1>12, <2>1
  <2>2. ASSUME NEW i, LastUpTo(xs, a, i), p = At(i, a) PROVE p \in Int /\ ys[1] <= p
    <3>1. i \in 1..n /\ p \in Int /\ ys[i] <= p
      BY <1>9, <1>10, <2>2
    <3>2. 1 <= i /\ ys[1] <= ys[i]
      BY <1>3, <1>12, <3>1
    <3> QED BY <1>2, <1>12, <3>1, <3>2
  <2> QED BY <1>7, <2>1, <2>2
<1>14. q \in Int /\ ys[1] <= q
  <2>1. CASE b < xs[1] /\ q = ys[1]
    BY <1>2, <1>12, <2>1
  <2>2. ASSUME NEW i, LastUpTo(xs, b, i), q = At(i, b) PROVE q \in Int /\ ys[1] <= q
    <3>1. i \in 1..n /\ q \in Int /\ ys[i] <= q
      BY <1>9, <1>10, <2>2
    <3>2. 1 <= i /\ ys[1] <= ys[i]
      BY <1>3, <1>12, <3>1
    <3> QED BY <1>2, <1>12, <3>1, <3>2
  <2> QED BY <1>8, <2>1, <2>2
<1>15. p <= q
  <2>1. CASE a < xs[1] /\ p = ys[1]
    BY <1>14, <2>1
  <2>2. CASE b < xs[1] /\ q = ys[1]
    <3>1. a < xs[1]
      BY <1>2, <1>12, <2>2
    <3>2. ~(\E i : LastUpTo(xs, a, i))
      <4> SUFFICES ASSUME NEW i, LastUpTo(xs, a, i) PROVE FALSE
        OBVIOUS
      <4>1. i \in 1..n /\ xs[i] <= a
        BY <1>10
      <4>2. 1 <= i /\ xs[1] <= xs[i]
        BY <1>3, <1>12, <4>1
      <4> QED BY <1>2, <1>12, <3>1, <4>1, <4>2
    <3>3. p = ys[1]
      BY <1>7, <3>2
    <3> QED BY <1>14, <3>3
  <2>3. CASE (\E i : LastUpTo(xs, a, i) /\ p = At(i, a)) /\ (\E i : LastUpTo(xs, b, i) /\ q = At(i, b))
    BY <1>11, <2>3
  <2> QED BY <1>7, <1>8, <2>1, <2>2, <2>3
<1> QED BY <1>5, <1>6, <1>13, <1>14, <1>15

\* What a fit of at least one row is.
LEMMA FitIs ==
  ASSUME NEW rows \in Seq(RowSet), rows # <<>>, NEW m, m = Fits!Fit(rows)
  PROVE  /\ m = [x |-> m.x, served |-> m.served, feature |-> m.feature]
         /\ Points(m.x, m.served) /\ Points(m.x, m.feature)
         /\ Fits!Monotone(m.served) /\ Fits!Monotone(m.feature)
<1>1. PICK r : r = Fits!Ordered(rows)
  OBVIOUS
<1>2. /\ r \in Seq(RowSet) /\ Len(r) = Len(rows)
      /\ \A k, l \in 1..Len(r) : k <= l => r[k].x <= r[l].x
  BY <1>1, OrderedIs
<1>3. PICK blocks : blocks = Fits!MedianBlocks(r)
  OBVIOUS
<1>4. Blocked(r, blocks)
  BY <1>2, <1>3, MedianBlocksAre DEF Blocked
<1>5. PICK n \in Nat \ {0} : n = Len(r) /\ DOMAIN r = 1..n
  BY <1>2
<1>6. PICK xs : xs = [i \in 1..n |-> r[i].x]
  OBVIOUS
<1>7. PICK s : s = Fits!ServedMap(r, blocks)
  OBVIOUS
<1>8. PICK f : f = Fits!FeatureMap(r, blocks)
  OBVIOUS
<1>9. m = [x |-> xs, served |-> s, feature |-> f]
  BY <1>1, <1>3, <1>5, <1>6, <1>7, <1>8 DEF Fits!Fit
<1>10. \A i \in 1..n : xs[i] = r[i].x /\ xs[i] \in Int
  <2>1. \A i \in 1..n : r[i] \in RowSet
    BY <1>2, <1>5
  <2> QED BY <1>6, <2>1 DEF RowSet
<1>11. xs \in [1..n -> Int]
  BY <1>6, <1>10
<1>12. xs \in Seq(Int) /\ Len(xs) = n
  BY <1>11
<1>13. /\ s \in [1..n -> Int] /\ f \in [1..n -> Int] /\ Fits!Monotone(s) /\ Fits!Monotone(f)
  BY <1>4, <1>5, <1>7, <1>8, MapsAre
<1>14. ASSUME NEW v \in [1..n -> Int], Fits!Monotone(v), NEW i \in 1..n, NEW j \in 1..n, i <= j
       PROVE  v[i] <= v[j]
  <2>1. DOMAIN v = 1..n /\ v[i] \in Int
    OBVIOUS
  <2>2. CASE i = j
    BY <2>1, <2>2
  <2>3. CASE i < j
    BY <1>14, <2>1, <2>3 DEF Fits!Monotone
  <2> QED BY <1>14, <2>2, <2>3
<1>15. \A i, j \in 1..n : i <= j => xs[i] <= xs[j]
  BY <1>2, <1>5, <1>10
<1>16. Points(xs, s) /\ Points(xs, f)
  BY <1>12, <1>13, <1>14, <1>15 DEF Points
<1> QED BY <1>9, <1>13, <1>16

\* The published price never falls as the forecast rises, and neither does the value
\* stage 2 reads, whatever rows the bucket was fitted on: their order, weights, days
\* and p50 line, thin steps and raw ones included (IsotonicRegression.fit, predict).
THEOREM ServingIsMonotone ==
  ASSUME NEW rows \in Seq(RowSet), rows # <<>>, NEW forecasts \in SUBSET Int
  PROVE  Fits!ServedIsMonotone(rows, forecasts)
<1>1. PICK m : m = Fits!Fit(rows)
  OBVIOUS
<1>2. Points(m.x, m.served) /\ Fits!Monotone(m.served) /\ Fits!Monotone(m.feature)
  BY <1>1, FitIs
<1>3. ASSUME NEW a \in forecasts, NEW b \in forecasts, a <= b
      PROVE  Fits!Predict(m, a) <= Fits!Predict(m, b)
  <2>1. a \in Int /\ b \in Int
    OBVIOUS
  <2>2. Fits!Interp(m.x, m.served, a) <= Fits!Interp(m.x, m.served, b)
    BY <1>2, <1>3, <2>1, InterpGrows
  <2> QED BY <2>2 DEF Fits!Predict
<1> QED BY <1>1, <1>2, <1>3 DEF Fits!ServedIsMonotone

-----------------------------------------------------------------------------
(* Bands *)

MaybeInt == Int \cup {None}

LEMMA TwoIs ==
  ASSUME NEW a \in Int, NEW b \in Int
  PROVE  /\ Serving!Min({a, b}) = (IF a <= b THEN a ELSE b)
         /\ Serving!Max({a, b}) = (IF a <= b THEN b ELSE a)
<1>1. PICK S \in SUBSET Int : S = {a, b}
  OBVIOUS
<1>2. PICK l \in Int : l = IF a <= b THEN a ELSE b
  OBVIOUS
<1>3. PICK h \in Int : h = IF a <= b THEN b ELSE a
  OBVIOUS
<1>4. S # {} /\ \A x \in S : l <= x /\ x <= h
  BY <1>1, <1>2, <1>3
<1>5. Min(S) \in S /\ \A x \in S : Min(S) <= x
  BY <1>4, MinIsOne
<1>6. Max(S) \in S /\ \A x \in S : x <= Max(S)
  BY <1>4, MaxIsOne
<1>7. Min(S) = l
  BY <1>1, <1>2, <1>5
<1>8. Max(S) = h
  BY <1>1, <1>3, <1>6
<1> QED BY <1>1, <1>2, <1>3, <1>7, <1>8, SameMin, SameMax

\* _clamp_band(): whatever was fitted, the band is in order and contains the price, and
\* is floored at the market floor.
LEMMA ClampIs ==
  ASSUME NEW price \in Int, NEW band, \A i \in 1..3 : band[i] \in MaybeInt,
         NEW r, r = Serving!ClampBand(price, band)
  PROVE  /\ Serving!Ascending(r) /\ Serving!Covers(r, price)
         /\ r[1] # None => r[1] >= Floor \/ r[1] = price
         /\ \A i \in 1..3 : r[i] \in MaybeInt
         /\ band[1] \in Int /\ Floor <= band[1] /\ band[1] <= price => r[1] = band[1]
         /\ band[3] \in Int /\ price <= band[3] => r[3] = band[3]
<1>1. None \notin Int /\ Floor \in Int
  BY Constants
<1>2. band[1] \in MaybeInt /\ band[2] \in MaybeInt /\ band[3] \in MaybeInt
  OBVIOUS
<1> DEFINE low == IF Floor <= band[1] THEN band[1] ELSE Floor
           p10 == IF band[1] = None THEN None ELSE IF low <= price THEN low ELSE price
           p90 == IF band[3] = None THEN None ELSE IF price <= band[3] THEN band[3] ELSE price
           lo == IF p10 = None THEN IF Floor <= price THEN Floor ELSE price ELSE p10
           cap == IF p90 = None THEN band[2] ELSE IF p90 <= band[2] THEN p90 ELSE band[2]
           p50 == IF band[2] = None THEN None ELSE IF lo <= cap THEN cap ELSE lo
<1>3. PICK x : x = Serving!Min({Serving!Max({Floor, band[1]}), price})
  OBVIOUS
<1>4. band[1] # None => x = (IF low <= price THEN low ELSE price) /\ x \in Int
  <2> SUFFICES ASSUME band[1] # None PROVE x = (IF low <= price THEN low ELSE price) /\ x \in Int
    OBVIOUS
  <2>1. band[1] \in Int
    BY <1>2 DEF MaybeInt
  <2>2. Serving!Max({Floor, band[1]}) = low /\ low \in Int
    BY <1>1, <2>1, TwoIs
  <2> HIDE DEF low
  <2> QED BY <1>3, <2>2, TwoIs
<1>5. PICK z : z = Serving!Max({price, band[3]})
  OBVIOUS
<1>6. band[3] # None => z = (IF price <= band[3] THEN band[3] ELSE price) /\ z \in Int
  BY <1>2, <1>5, TwoIs DEF MaybeInt
<1>7. PICK a : a = IF band[1] = None THEN None ELSE x
  OBVIOUS
<1>8. PICK c : c = IF band[3] = None THEN None ELSE z
  OBVIOUS
<1>9. PICK l : l = IF a = None THEN Serving!Min({Floor, price}) ELSE a
  OBVIOUS
<1>10. l \in Int /\ l <= price
  <2>1. Serving!Min({Floor, price}) = (IF Floor <= price THEN Floor ELSE price)
    BY <1>1, TwoIs
  <2>2. band[1] # None => low \in Int
    BY <1>1, <1>2 DEF MaybeInt
  <2> QED BY <1>1, <1>4, <1>7, <1>9, <2>1, <2>2
<1>11. PICK m : m = IF c = None THEN band[2] ELSE Serving!Min({c, band[2]})
  OBVIOUS
<1>12. band[2] # None => m \in Int /\ (c # None => m <= c)
  <2> SUFFICES ASSUME band[2] # None PROVE m \in Int /\ (c # None => m <= c)
    OBVIOUS
  <2>1. band[2] \in Int
    BY <1>2 DEF MaybeInt
  <2>2. CASE c = None
    BY <1>11, <2>1, <2>2
  <2>3. CASE c # None
    <3>1. c \in Int
      BY <1>6, <1>8, <2>3
    <3>2. m = IF c <= band[2] THEN c ELSE band[2]
      BY <1>11, <2>1, <2>3, <3>1, TwoIs
    <3> QED BY <2>1, <2>3, <3>1, <3>2
  <2> QED BY <2>2, <2>3
<1>13. PICK b : b = IF band[2] = None THEN None ELSE Serving!Max({l, m})
  OBVIOUS
<1>14. band[2] # None => b \in Int /\ l <= b /\ (c # None => b <= c)
  <2> SUFFICES ASSUME band[2] # None PROVE b \in Int /\ l <= b /\ (c # None => b <= c)
    OBVIOUS
  <2>1. m \in Int /\ (c # None => m <= c)
    BY <1>12
  <2>2. b = IF l <= m THEN m ELSE l
    BY <1>10, <1>13, <2>1, TwoIs
  <2>3. c # None => c \in Int /\ price <= c
    BY <1>2, <1>6, <1>8 DEF MaybeInt
  <2> QED BY <1>10, <2>1, <2>2, <2>3
<1>15. r = <<a, b, c>>
  BY <1>3, <1>5, <1>7, <1>8, <1>9, <1>11, <1>13 DEF Serving!ClampBand
<1>16. r[1] = a /\ r[2] = b /\ r[3] = c
  BY <1>15
<1>17. /\ a \in MaybeInt /\ b \in MaybeInt /\ c \in MaybeInt
  BY <1>4, <1>6, <1>7, <1>8, <1>13, <1>14 DEF MaybeInt
<1>18. c # None => c \in Int /\ price <= c
  BY <1>2, <1>6, <1>8 DEF MaybeInt
<1>19. a # None => a \in Int /\ a = l /\ a <= price
  BY <1>9, <1>10, <1>17 DEF MaybeInt
<1>20. b # None => band[2] # None
  BY <1>13
<1>21. Serving!Ascending(r)
  <2> SUFFICES ASSUME NEW i \in 1..3, NEW j \in 1..3, i < j, None \notin {r[i], r[j]} PROVE r[i] <= r[j]
    BY DEF Serving!Ascending
  <2>1. CASE i = 1 /\ j = 2
    BY <1>14, <1>16, <1>19, <1>20, <2>1
  <2>2. CASE i = 1 /\ j = 3
    BY <1>16, <1>18, <1>19, <2>2
  <2>3. CASE i = 2 /\ j = 3
    BY <1>14, <1>16, <1>18, <1>20, <2>3
  <2> QED BY <2>1, <2>2, <2>3
<1>22. Serving!Covers(r, price)
  BY <1>16, <1>18, <1>19 DEF Serving!Covers
<1>23. r[1] # None => r[1] >= Floor \/ r[1] = price
  <2> SUFFICES ASSUME a # None PROVE a >= Floor \/ a = price
    BY <1>16
  <2>1. band[1] # None /\ band[1] \in Int /\ a = x
    BY <1>2, <1>7 DEF MaybeInt
  <2> QED BY <1>1, <1>4, <2>1
<1>24. band[1] \in Int /\ Floor <= band[1] /\ band[1] <= price => r[1] = band[1]
  BY <1>1, <1>4, <1>7, <1>16
<1>25. band[3] \in Int /\ price <= band[3] => r[3] = band[3]
  BY <1>1, <1>6, <1>8, <1>16
<1>26. \A i \in 1..3 : r[i] \in MaybeInt
  BY <1>16, <1>17
<1> QED BY <1>21, <1>22, <1>23, <1>24, <1>25, <1>26

\* _order_band(): the fitted levels of a band that was not clamped are in order.
LEMMA OrderedBandIs ==
  ASSUME NEW band, \A i \in 1..3 : band[i] \in MaybeInt, NEW r, r = Serving!OrderBand(band)
  PROVE  Serving!Ascending(r) /\ \A i \in 1..3 : r[i] \in MaybeInt
<1>1. PICK F : F = {i \in 1..3 : band[i] # None}
  OBVIOUS
<1>2. IsFiniteSet(1..3)
  <2>1. PICK n \in Int : n = 3
    OBVIOUS
  <2>2. IsFiniteSet(1..n)
    BY FS_Interval
  <2> QED BY <2>1, <2>2
<1>3. F \in SUBSET (1..3) /\ \A i \in F : band[i] \in Int
  BY <1>1 DEF MaybeInt
<1> DEFINE below(v) == {i \in F : band[i] <= v}
           ranked(k) == {v \in {band[i] : i \in F} : Cardinality(below(v)) >= k}
           place(i) == Cardinality({j \in F : j <= i})
<1>4. r = [i \in 1..3 |-> IF band[i] = None THEN None ELSE Serving!Min(ranked(place(i)))]
  BY <1>1, SameCardinality DEF Serving!OrderBand
<1>5. ASSUME NEW S \in SUBSET F PROVE IsFiniteSet(S) /\ Cardinality(S) \in Nat /\ Cardinality(S) <= Cardinality(F)
  <2>1. IsFiniteSet(F)
    BY <1>2, <1>3, FS_Subset
  <2>2. IsFiniteSet(S)
    BY <2>1, FS_Subset
  <2> QED BY <2>1, <2>2, FS_Subset, FS_CardinalityType
<1>6. ASSUME NEW o \in F
      PROVE  \E m \in F, l \in F : \A i \in F : band[l] <= band[i] /\ band[i] <= band[m]
  <2>1. PICK f : f = [i \in 1..3 |-> IF i \in F THEN band[i] ELSE band[o]]
    OBVIOUS
  <2>2. 1 \in Int /\ 3 \in Int /\ 1 <= 3 /\ \A i \in 1..3 : f[i] \in Int
    BY <1>3, <2>1
  <2>3. PICK m \in 1..3 : \A i \in 1..3 : f[i] <= f[m]
    BY <2>2, Extremes
  <2>4. PICK l \in 1..3 : \A i \in 1..3 : f[l] <= f[i]
    BY <2>2, Extremes
  <2>5. PICK mm \in F : f[m] = band[mm]
    BY <2>1
  <2>6. PICK ll \in F : f[l] = band[ll]
    BY <2>1
  <2>7. \A i \in F : i \in 1..3 /\ f[i] = band[i]
    BY <1>3, <2>1
  <2>8. \A i \in F : band[ll] <= band[i] /\ band[i] <= band[mm]
    BY <2>3, <2>4, <2>5, <2>6, <2>7
  <2> QED BY <2>8
<1>7. ASSUME NEW i \in F
      PROVE  /\ Min(ranked(place(i))) \in ranked(place(i)) /\ Min(ranked(place(i))) \in Int
             /\ \A v \in ranked(place(i)) : Min(ranked(place(i))) <= v
  <2>1. PICK m \in F, l \in F : \A k \in F : band[l] <= band[k] /\ band[k] <= band[m]
    BY <1>6
  <2>2. below(band[m]) = F
    BY <2>1
  <2>3. place(i) <= Cardinality(F) /\ place(i) \in Nat /\ Cardinality(F) \in Nat
    BY <1>5
  <2>4. band[m] \in ranked(place(i))
    BY <2>2, <2>3
  <2>5. ranked(place(i)) \in SUBSET Int /\ band[l] \in Int /\ \A v \in ranked(place(i)) : band[l] <= v
    BY <1>3, <2>1
  <2> HIDE DEF ranked, place
  <2>6. ranked(place(i)) # {}
    BY <2>4
  <2> QED BY <2>5, <2>6, MinIsOne
<1>8. ASSUME NEW i \in 1..3, band[i] # None PROVE i \in F /\ r[i] = Min(ranked(place(i)))
  BY <1>1, <1>4, <1>8, SameMin
<1>9. \A i \in 1..3 : band[i] = None => r[i] = None
  BY <1>4
<1>10. Serving!Ascending(r)
  <2> SUFFICES ASSUME NEW i \in 1..3, NEW j \in 1..3, i < j, None \notin {r[i], r[j]} PROVE r[i] <= r[j]
    BY DEF Serving!Ascending
  <2>1. band[i] # None /\ band[j] # None
    BY <1>9
  <2>2. i \in F /\ j \in F /\ r[i] = Min(ranked(place(i))) /\ r[j] = Min(ranked(place(j)))
    BY <1>8, <2>1
  <2>3. place(i) <= place(j) /\ place(i) \in Nat /\ place(j) \in Nat
    <3>1. PICK A \in SUBSET F : A = {k \in F : k <= i}
      OBVIOUS
    <3>2. PICK B \in SUBSET F : B = {k \in F : k <= j}
      OBVIOUS
    <3>3. \A k \in A : k \in B
      BY <1>3, <3>1, <3>2
    <3>4. IsFiniteSet(B) /\ A \in SUBSET B
      BY <1>5, <3>2, <3>3
    <3>5. Cardinality(A) <= Cardinality(B) /\ Cardinality(A) \in Nat /\ Cardinality(B) \in Nat
      BY <1>5, <3>4, FS_Subset
    <3> QED BY <3>1, <3>2, <3>5
  <2>4. ranked(place(j)) \in SUBSET ranked(place(i))
    <3> SUFFICES ASSUME NEW v \in ranked(place(j)) PROVE v \in ranked(place(i))
      OBVIOUS
    <3>1. below(v) \in SUBSET F
      OBVIOUS
    <3>2. Cardinality(below(v)) \in Nat
      BY <1>5, <3>1
    <3>3. Cardinality(below(v)) >= place(j)
      OBVIOUS
    <3> HIDE DEF place, below
    <3>4. Cardinality(below(v)) >= place(i)
      BY <2>3, <3>2, <3>3
    <3> QED BY <3>4
  <2>5. Min(ranked(place(j))) \in ranked(place(i))
    BY <1>7, <2>2, <2>4
  <2> QED BY <1>7, <2>2, <2>5
<1>11. ASSUME NEW i \in 1..3 PROVE r[i] \in MaybeInt
  <2>1. CASE band[i] = None
    BY <1>9, <2>1 DEF MaybeInt
  <2>2. CASE band[i] # None
    BY <1>7, <1>8, <2>2 DEF MaybeInt
  <2> QED BY <2>1, <2>2
<1> QED BY <1>10, <1>11

-----------------------------------------------------------------------------
(* What is published *)

\* A bucket: its map, if it has one, and a line or none for each level.
IsBucket(b) ==
  /\ b.iso # None => Points(b.iso.x, b.iso.served) /\ Points(b.iso.x, b.iso.feature)
  /\ \A i \in 1..3 : b.lines[i] # None => b.lines[i][1] \in Int /\ b.lines[i][2] \in Int

\* A stage 2 model: four coefficients or none, any ranges, residual quantiles or none.
IsModel(ols) ==
  /\ ols.coef # <<>> => \A i \in 1..4 : ols.coef[i] \in Int
  /\ ols.resid # None => {ols.resid.q10, ols.resid.q50, ols.resid.q90, ols.resid.n} \subseteq Int

IsInterval(v) == v.x \in Int /\ v.horizon \in Int /\ v.run \in MaybeInt /\ v.stpasa \in MaybeInt

LEMMA SameInterp ==
  ASSUME NEW xs, NEW ys, NEW x PROVE Serving!Fits!Interp(xs, ys, x) = Fits!Interp(xs, ys, x)
BY DEF Serving!Fits!Interp, Fits!Interp, Serving!Fits!Max, Fits!Max, Serving!Fits!Toward, Fits!Toward

LEMMA RawBandIs ==
  ASSUME NEW b, IsBucket(b), NEW x \in Int
  PROVE  \A i \in 1..3 : Serving!RawBand(b, x)[i] \in MaybeInt
<1> SUFFICES ASSUME NEW i \in 1..3, b.lines[i] # None
             PROVE  b.lines[i][1] * Unit * x + b.lines[i][2] \in Int
  BY DEF Serving!RawBand, MaybeInt
<1>1. b.lines[i][1] \in Int /\ b.lines[i][2] \in Int /\ Unit \in Int
  BY Constants DEF IsBucket
<1> QED BY <1>1

\* What stage 1 serves, on each of its paths.
LEMMA Stage1Is ==
  ASSUME NEW b, IsBucket(b), NEW x \in Int, NEW r, r = Serving!Stage1(b, x)
  PROVE  /\ r = [price |-> r.price, band |-> r.band, feature |-> r.feature, source |-> r.source, bandFrom |-> r.bandFrom]
         /\ r.price \in Int /\ r.feature \in Int /\ \A i \in 1..3 : r.band[i] \in MaybeInt
         /\ Serving!Ascending(r.band)
         /\ r.source # "passthrough" =>
              Serving!Covers(r.band, r.price) /\ (r.band[1] # None => r.band[1] >= Floor \/ r.band[1] = r.price)
         /\ r.source \in {"passthrough", "isotonic_below_domain", "isotonic"}
         /\ Serving!IsBelowDomain(b, x) => r.source = "isotonic_below_domain"
         /\ r.bandFrom # "stage2_residual"
<1>1. Unit \in Int /\ Floor \in Int
  BY Constants
<1>2. CASE b.iso = None
  <2>1. r = [price |-> Unit * x, band |-> Serving!OrderBand(Serving!RawBand(b, x)), feature |-> Unit * x,
             source |-> "passthrough", bandFrom |-> "stage1_quantile_unclamped"]
    BY <1>2 DEF Serving!Stage1, Serving!NoMap, Serving!Passthrough
  <2>2. PICK o : o = Serving!OrderBand(Serving!RawBand(b, x))
    OBVIOUS
  <2>3. Serving!Ascending(o) /\ \A i \in 1..3 : o[i] \in MaybeInt
    BY <2>2, RawBandIs, OrderedBandIs
  <2>4. Unit * x \in Int
    BY <1>1
  <2>5. ~Serving!IsBelowDomain(b, x)
    BY <1>2 DEF Serving!IsBelowDomain, Serving!NoMap
  <2> QED BY <2>1, <2>2, <2>3, <2>4, <2>5
<1>3. ASSUME b.iso # None, NEW y \in Int, NEW ys, Points(b.iso.x, ys)
      PROVE  Serving!Max({Serving!Fits!Interp(b.iso.x, ys, y), Floor}) \in Int
  <2>1. Fits!Interp(b.iso.x, ys, y) \in Int
    BY <1>3, InterpGrows
  <2> QED BY <1>1, <2>1, SameInterp, TwoIs
<1>4. ASSUME NEW price \in Int, NEW band, \A i \in 1..3 : band[i] \in MaybeInt,
             NEW c, c = Serving!ClampBand(price, band)
      PROVE  /\ Serving!Ascending(c) /\ Serving!Covers(c, price) /\ (c[1] # None => c[1] >= Floor \/ c[1] = price)
             /\ \A i \in 1..3 : c[i] \in MaybeInt
  BY <1>4, ClampIs
<1>5. CASE b.iso # None /\ Serving!IsBelowDomain(b, x)
  <2>1. PICK lo : lo = b.iso.x[1]
    OBVIOUS
  <2>2. lo \in Int
    BY <1>5, <2>1 DEF IsBucket, Points
  <2>3. PICK price \in Int : price = Serving!Max({Serving!Fits!Predict(b.iso, lo), Floor})
    BY <1>3, <1>5, <2>2 DEF IsBucket, Serving!Fits!Predict
  <2>4. PICK raw : raw = Serving!RawBand(b, lo)
    OBVIOUS
  <2>5. \A i \in 1..3 : raw[i] \in MaybeInt
    BY <2>2, <2>4, RawBandIs
  <2>6. PICK c : c = Serving!ClampBand(price, raw)
    OBVIOUS
  <2>7. r = [price |-> price, band |-> c, feature |-> price, source |-> "isotonic_below_domain",
             bandFrom |-> IF raw = <<None, None, None>> THEN "raw_passthrough" ELSE "stage1_quantile"]
    BY <1>5, <2>1, <2>3, <2>4, <2>6 DEF Serving!Stage1, Serving!NoMap, Serving!BelowDomain
  <2>8. /\ Serving!Ascending(c) /\ Serving!Covers(c, price) /\ (c[1] # None => c[1] >= Floor \/ c[1] = price)
        /\ \A i \in 1..3 : c[i] \in MaybeInt
    BY <1>4, <2>5, <2>6
  <2> QED BY <2>7, <2>8
<1>6. CASE b.iso # None /\ ~Serving!IsBelowDomain(b, x)
  <2>1. PICK price \in Int : price = Serving!Max({Serving!Fits!Predict(b.iso, x), Floor})
    BY <1>3, <1>6 DEF IsBucket, Serving!Fits!Predict
  <2>2. PICK feature \in Int : feature = Serving!Max({Serving!Fits!PredictFeature(b.iso, x), Floor})
    BY <1>3, <1>6 DEF IsBucket, Serving!Fits!PredictFeature
  <2>3. PICK raw : raw = Serving!RawBand(b, x)
    OBVIOUS
  <2>4. \A i \in 1..3 : raw[i] \in MaybeInt
    BY <2>3, RawBandIs
  <2>5. PICK c : c = Serving!ClampBand(price, raw)
    OBVIOUS
  <2>6. r = [price |-> price, band |-> c, feature |-> feature, source |-> "isotonic", bandFrom |-> "stage1_quantile"]
    BY <1>6, <2>1, <2>2, <2>3, <2>5 DEF Serving!Stage1, Serving!NoMap, Serving!Isotonic
  <2>7. /\ Serving!Ascending(c) /\ Serving!Covers(c, price) /\ (c[1] # None => c[1] >= Floor \/ c[1] = price)
        /\ \A i \in 1..3 : c[i] \in MaybeInt
    BY <1>4, <2>4, <2>5
  <2> QED BY <1>6, <2>6, <2>7
<1> QED BY <1>2, <1>5, <1>6

\* What stage 2 serves once its gates admit its prediction p.
LEMMA Stage2Is ==
  ASSUME NEW b, IsBucket(b), NEW ols, IsModel(ols), NEW v, IsInterval(v),
         NEW s, s = Serving!Stage1(b, v.x), Serving!Admitted(s, v, ols),
         NEW p, p = Serving!Prediction(ols, Serving!Features(s, v.run, v.stpasa)),
         NEW r, r = Serving!Stage2(s, b, v.x, ols, p)
  PROVE  /\ p \in Int /\ r.price = p /\ r.source = "isotonic+stpasa"
         /\ Serving!Ascending(r.band) /\ Serving!Covers(r.band, p)
         /\ r.band[1] # None => r.band[1] >= Floor \/ r.band[1] = p
         /\ r.bandFrom = "stage2_residual" /\ p + ols.resid.q10 >= Floor =>
              r.band[3] - r.band[1] = ols.resid.q90 - ols.resid.q10
<1>1. None \notin Int /\ Floor \in Int
  BY Constants
<1>2. v.run \in Int /\ v.stpasa \in Int /\ v.x \in Int
  BY DEF Serving!Admitted, Serving!InputsAdmit, IsInterval, MaybeInt
<1>3. s.feature \in Int
  BY <1>2, Stage1Is
<1>4. /\ s = [price |-> s.price, band |-> s.band, feature |-> s.feature, source |-> s.source, bandFrom |-> s.bandFrom]
  BY <1>2, Stage1Is
<1>5. \A i \in 1..4 : ols.coef[i] \in Int
  BY DEF Serving!Admitted, Serving!Fitted, IsModel
<1>6. p \in Int
  <2>1. ols.coef[1] \in Int /\ ols.coef[2] \in Int /\ ols.coef[3] \in Int /\ ols.coef[4] \in Int
    BY <1>5
  <2>2. p = ols.coef[1] + ols.coef[2] * s.feature + ols.coef[3] * v.run + ols.coef[4] * v.stpasa
    BY DEF Serving!Prediction, Serving!Features
  <2>3. PICK x \in Int : x = ols.coef[2] * s.feature
    BY <1>3, <2>1
  <2>4. PICK y \in Int : y = ols.coef[3] * v.run
    BY <1>2, <2>1
  <2>5. PICK z \in Int : z = ols.coef[4] * v.stpasa
    BY <1>2, <2>1
  <2> QED BY <2>1, <2>2, <2>3, <2>4, <2>5
<1>7. PICK own \in BOOLEAN : own = Serving!ResidFitted(ols.resid)
  BY DEF Serving!ResidFitted
<1>8. PICK raw : raw = IF own THEN <<p + ols.resid.q10, p + ols.resid.q50, p + ols.resid.q90>>
                       ELSE Serving!RawBand(b, v.x)
  OBVIOUS
<1>9. own => /\ ols.resid.q10 \in Int /\ ols.resid.q50 \in Int /\ ols.resid.q90 \in Int
             /\ ols.resid.q10 <= 0 /\ 0 <= ols.resid.q90
  BY <1>7 DEF Serving!ResidFitted, IsModel
<1>10. \A i \in 1..3 : raw[i] \in MaybeInt
  <2>1. CASE own
    <3>1. raw = <<p + ols.resid.q10, p + ols.resid.q50, p + ols.resid.q90>>
      BY <1>8, <2>1
    <3>2. raw[1] \in Int /\ raw[2] \in Int /\ raw[3] \in Int
      BY <1>6, <1>9, <2>1, <3>1
    <3> QED BY <3>2 DEF MaybeInt
  <2>2. CASE ~own
    BY <1>2, <1>8, <2>2, RawBandIs
  <2> QED BY <2>1, <2>2
<1>11. PICK c : c = Serving!ClampBand(p, raw)
  OBVIOUS
<1>12. /\ Serving!Ascending(c) /\ Serving!Covers(c, p) /\ (c[1] # None => c[1] >= Floor \/ c[1] = p)
       /\ (raw[1] \in Int /\ Floor <= raw[1] /\ raw[1] <= p => c[1] = raw[1])
       /\ (raw[3] \in Int /\ p <= raw[3] => c[3] = raw[3])
  BY <1>6, <1>10, <1>11, ClampIs
<1>13. r = [s EXCEPT !.price = p, !.source = "isotonic+stpasa", !.band = c,
                     !.bandFrom = IF own THEN "stage2_residual" ELSE "stage1_quantile_reclamped"]
  BY <1>7, <1>8, <1>11 DEF Serving!Stage2
<1>14. r.price = p /\ r.source = "isotonic+stpasa" /\ r.band = c
       /\ r.bandFrom = (IF own THEN "stage2_residual" ELSE "stage1_quantile_reclamped")
  BY <1>4, <1>13
<1>15. ASSUME r.bandFrom = "stage2_residual", p + ols.resid.q10 >= Floor
       PROVE  c[3] - c[1] = ols.resid.q90 - ols.resid.q10
  <2>1. own
    BY <1>14, <1>15
  <2>2. raw[1] = p + ols.resid.q10 /\ raw[3] = p + ols.resid.q90
    BY <1>8, <2>1
  <2>3. c[1] = p + ols.resid.q10
    BY <1>1, <1>6, <1>9, <1>12, <1>15, <2>1, <2>2
  <2>4. c[3] = p + ols.resid.q90
    BY <1>6, <1>9, <1>12, <2>1, <2>2
  <2> QED BY <1>6, <1>9, <2>1, <2>3, <2>4
<1> QED BY <1>6, <1>12, <1>14, <1>15

\* Whichever path serves a price, its band is in order, contains it and is floored (#69,
\* #114), and stage 2 moves it no further than stage 1's sign, band and domain and its
\* own training ranges allow: for any fitted bucket, model and interval
\* (CalibrationResult.apply, SERVING_GATES).
THEOREM PublishedIsBounded ==
  ASSUME NEW b, IsBucket(b), NEW ols, IsModel(ols), NEW v, IsInterval(v)
  PROVE  Serving!BandHolds(b, ols, v) /\ Serving!Stage2IsHeld(b, ols, v)
<1>1. PICK s : s = Serving!Stage1(b, v.x)
  OBVIOUS
<1>2. v.x \in Int
  BY DEF IsInterval
<1>3. /\ s.price \in Int /\ \A i \in 1..3 : s.band[i] \in MaybeInt
      /\ Serving!Ascending(s.band)
      /\ (s.source # "passthrough" =>
            Serving!Covers(s.band, s.price) /\ (s.band[1] # None => s.band[1] >= Floor \/ s.band[1] = s.price))
      /\ s.source \in {"passthrough", "isotonic_below_domain", "isotonic"}
      /\ (Serving!IsBelowDomain(b, v.x) => s.source = "isotonic_below_domain")
  BY <1>1, <1>2, Stage1Is
<1>4. PICK f : f = Serving!Features(s, v.run, v.stpasa)
  OBVIOUS
<1>5. PICK p : p = Serving!Prediction(ols, f)
  OBVIOUS
<1>6. PICK r : r = Serving!Apply(b, ols, v)
  OBVIOUS
<1>7. r = IF Serving!Admitted(s, v, ols) THEN Serving!Stage2(s, b, v.x, ols, p) ELSE s
  BY <1>1, <1>4, <1>5, <1>6 DEF Serving!Apply
<1>8. CASE ~Serving!Admitted(s, v, ols)
  <2>1. r = s
    BY <1>7, <1>8
  <2>2. Serving!BandHolds(b, ols, v)
    BY <1>3, <1>6, <2>1 DEF Serving!BandHolds
  <2>3. r.source # "isotonic+stpasa"
    BY <1>3, <2>1
  <2>4. Serving!Stage2IsHeld(b, ols, v)
    BY <1>6, <2>3 DEF Serving!Stage2IsHeld
  <2> QED BY <2>2, <2>4
<1>9. CASE Serving!Admitted(s, v, ols)
  <2>1. r = Serving!Stage2(s, b, v.x, ols, p)
    BY <1>7, <1>9
  <2>2. /\ p \in Int /\ r.price = p /\ r.source = "isotonic+stpasa"
        /\ Serving!Ascending(r.band) /\ Serving!Covers(r.band, p)
        /\ (r.band[1] # None => r.band[1] >= Floor \/ r.band[1] = p)
        /\ (r.bandFrom = "stage2_residual" /\ p + ols.resid.q10 >= Floor =>
              r.band[3] - r.band[1] = ols.resid.q90 - ols.resid.q10)
    BY <1>1, <1>4, <1>5, <1>9, <2>1, Stage2Is
  <2>3. Serving!BandHolds(b, ols, v)
    BY <1>6, <2>2 DEF Serving!BandHolds
  <2>4. /\ s.source # "isotonic_below_domain" /\ Serving!Serves(ols, f)
        /\ (p < 0) = (s.price < 0) /\ (s.band[3] = None \/ p <= s.band[3])
    BY <1>4, <1>5, <1>9 DEF Serving!Admitted, Serving!SignAgrees, Serving!WithinBand
  <2>5. ~Serving!IsBelowDomain(b, v.x)
    BY <1>3, <2>4
  <2>6. ols.min # <<>> => Len(ols.min) = Len(f)
    BY <2>4 DEF Serving!Serves
  <2>7. ASSUME ols.min # <<>>, Serving!ResidFitted(ols.resid)
        PROVE  2 * Serving!ExtrapolationCost(ols, f) <= ols.resid.q90 - ols.resid.q10
    <3>1. CASE Serving!ExtrapolationCost(ols, f) = 0
      <4>1. ols.resid.q10 \in Int /\ ols.resid.q90 \in Int /\ ols.resid.q10 <= 0 /\ 0 <= ols.resid.q90
        BY <2>7 DEF Serving!ResidFitted, IsModel
      <4> QED BY <3>1, <4>1
    <3>2. CASE Serving!ExtrapolationCost(ols, f) # 0
      BY <2>4, <2>7, <3>2 DEF Serving!Serves
    <3> QED BY <3>1, <3>2
  <2>8. Serving!Stage2IsHeld(b, ols, v)
    <3>1. /\ ~Serving!IsBelowDomain(b, v.x)
          /\ (r.price < 0) = (s.price < 0)
          /\ (s.band[3] # None => r.price <= s.band[3])
          /\ (ols.min # <<>> => Len(ols.min) = Len(f))
          /\ (ols.min # <<>> /\ Serving!ResidFitted(ols.resid) =>
                2 * Serving!ExtrapolationCost(ols, f) <= ols.resid.q90 - ols.resid.q10)
          /\ (r.bandFrom = "stage2_residual" /\ r.price + ols.resid.q10 >= Floor =>
                r.band[3] - r.band[1] = ols.resid.q90 - ols.resid.q10)
      BY <2>2, <2>4, <2>5, <2>6, <2>7
    <3> QED BY <1>1, <1>4, <1>6, <3>1, Zenon DEF Serving!Stage2IsHeld
  <2> QED BY <2>3, <2>8
<1> QED BY <1>8, <1>9

-----------------------------------------------------------------------------
(* The best monotone fit *)

\* One row more of a block: what was gained before is scaled to what this row moves.
LEMMA GainsStep ==
  ASSUME NEW d \in Nat, NEW d1 \in Nat, d <= d1, NEW u \in Nat, NEW u1 \in Nat, u1 <= u,
         NEW a0 \in Int, NEW a1 \in Int, NEW a2 \in Int, NEW b0 \in Int, NEW b1 \in Int, NEW b2 \in Int,
         NEW D0 \in Int, NEW D1 \in Int, NEW D2 \in Int, a1 <= a0, b1 <= b0,
         d1 * (a0 - a1) - u1 * (b0 - b1) <= D1 - D0,
         d * (a1 - a2) + u * (b2 - b1) <= D2 - D1
  PROVE  d * (a0 - a2) - u * (b0 - b2) <= D2 - D0
<1>1. PICK X \in Nat : X = a0 - a1
  OBVIOUS
<1>2. PICK Y \in Nat : Y = b0 - b1
  OBVIOUS
<1>3. d * X <= d1 * X /\ u1 * Y <= u * Y
  BY TimesGrows
<1>4. PICK x \in Int, y \in Int : x = a1 - a2 /\ y = b2 - b1
  OBVIOUS
<1>5. a0 - a2 = X + x /\ b0 - b2 = Y - y
  BY <1>1, <1>2, <1>4
<1>6. d * (X + x) = d * X + d * x /\ u * (Y - y) = u * Y - u * y
  OBVIOUS
<1>7. PICK dX \in Int, dx \in Int, uY \in Int, uy \in Int, eX \in Int, eY \in Int :
        dX = d * X /\ dx = d * x /\ uY = u * Y /\ uy = u * y /\ eX = d1 * X /\ eY = u1 * Y
  OBVIOUS
<1>8. eX - eY <= D1 - D0 /\ dx + uy <= D2 - D1 /\ dX <= eX /\ eY <= uY
  BY <1>1, <1>2, <1>3, <1>4, <1>7
<1>9. (dX + dx) - (uY - uy) <= D2 - D0
  BY <1>8
<1>10. d * (a0 - a2) = dX + dx /\ u * (b0 - b2) = uY - uy
  BY <1>5, <1>6, <1>7
<1> QED BY <1>9, <1>10

\* D grows over s..e at least by what the moves d down and u up weigh.
Gains(D, d, u, f, g, s, e) ==
  \A k \in s..e : d[k] * (f[k - 1] - f[k]) + u[k] * (g[k] - g[k - 1]) <= D[k] - D[k - 1]
\* D, f and g count, d falls and u rises.
Moves(D, d, u, f, g, s, e) ==
  /\ \A k \in (s - 1)..e : D[k] \in Int /\ f[k] \in Int /\ g[k] \in Int
  /\ \A k \in s..e : d[k] \in Nat /\ u[k] \in Nat
  /\ \A k \in (s + 1)..e : d[k] <= d[k - 1] /\ u[k - 1] <= u[k]

LEMMA PlacedGains ==
  ASSUME NEW s \in Nat \ {0}, NEW e \in Nat, s <= e, NEW D, NEW d, NEW u, NEW L, NEW m,
         Moves(D, d, u, L[m - 1], L[m], s, e), Gains(D, d, u, L[m - 1], L[m], s, e), Placed(L, m, s, e)
  PROVE  D[s - 1] <= D[e]
<1>1. PICK f : f = L[m - 1]
  OBVIOUS
<1>2. PICK g : g = L[m]
  OBVIOUS
<1>3. \A k \in (s - 1)..e : D[k] \in Int /\ f[k] \in Int /\ g[k] \in Int
  BY <1>1, <1>2 DEF Moves
<1>4. \A k \in s..e : d[k] \in Nat /\ u[k] \in Nat
  BY DEF Moves
<1>5. \A k \in (s + 1)..e : d[k] <= d[k - 1] /\ u[k - 1] <= u[k]
  BY DEF Moves
<1>6. \A k \in s..e : d[k] * (f[k - 1] - f[k]) + u[k] * (g[k] - g[k - 1]) <= D[k] - D[k - 1]
  BY <1>1, <1>2 DEF Gains
<1>7. \A k \in s..e : 0 <= g[e] - g[k - 1] /\ f[k] - f[s - 1] < 0
  BY <1>1, <1>2 DEF Placed
<1>8. \A k \in s..e : g[k - 1] <= g[e] /\ f[k] <= f[s - 1]
  <2> SUFFICES ASSUME NEW k \in s..e PROVE g[k - 1] <= g[e] /\ f[k] <= f[s - 1]
    OBVIOUS
  <2>1. k - 1 \in (s - 1)..e /\ k \in (s - 1)..e /\ e \in (s - 1)..e /\ s - 1 \in (s - 1)..e
    OBVIOUS
  <2>2. g[k - 1] \in Int /\ g[e] \in Int /\ f[k] \in Int /\ f[s - 1] \in Int
    BY <1>3, <2>1
  <2>3. 0 <= g[e] - g[k - 1] /\ f[k] - f[s - 1] < 0
    BY <1>7
  <2>4. \A x, y \in Int : (0 <= x - y => y <= x) /\ (x - y < 0 => x <= y)
    OBVIOUS
  <2> QED BY <2>2, <2>3, <2>4
<1> DEFINE S == {k \in s..e : d[k] * (f[s - 1] - f[k]) - u[k] * (g[e] - g[k]) <= D[k] - D[s - 1]}
<1>9. s \in S
  <2>1. s \in s..e /\ s \in (s - 1)..e /\ e \in (s - 1)..e /\ s - 1 \in (s - 1)..e
    OBVIOUS
  <2>2. PICK c \in Nat, v \in Nat, a0 \in Int, a2 \in Int, b0 \in Int, b1 \in Int, b2 \in Int, D0 \in Int, D2 \in Int :
          /\ c = d[s] /\ v = u[s] /\ a0 = f[s - 1] /\ a2 = f[s] /\ b0 = g[e] /\ b1 = g[s - 1] /\ b2 = g[s]
          /\ D0 = D[s - 1] /\ D2 = D[s]
    BY <1>3, <1>4, <2>1
  <2>3. c * (a0 - a2) + v * (b2 - b1) <= D2 - D0 /\ b1 <= b0
    BY <1>6, <1>8, <2>1, <2>2
  <2>4. c * (a0 - a0) - v * (b0 - b1) <= D0 - D0
    <3>1. PICK Y \in Nat : Y = b0 - b1
      BY <2>3
    <3>2. v * Y \in Nat /\ c * 0 = 0
      OBVIOUS
    <3>3. a0 - a0 = 0 /\ D0 - D0 = 0
      OBVIOUS
    <3> QED BY <3>1, <3>2, <3>3
  <2>5. c * (a0 - a2) - v * (b0 - b2) <= D2 - D0
    BY <2>3, <2>4, GainsStep
  <2> QED BY <2>1, <2>2, <2>5
<1>10. ASSUME NEW k \in (s + 1)..e, k - 1 \in S PROVE k \in S
  <2>1. k \in s..e /\ k - 1 \in s..e /\ k \in (s - 1)..e /\ k - 1 \in (s - 1)..e /\ e \in (s - 1)..e /\ s - 1 \in (s - 1)..e
    OBVIOUS
  <2>2. PICK c \in Nat, c1 \in Nat, v \in Nat, v1 \in Nat : c = d[k] /\ c1 = d[k - 1] /\ v = u[k] /\ v1 = u[k - 1]
    BY <1>4, <2>1
  <2>3. PICK a0 \in Int, a1 \in Int, a2 \in Int : a0 = f[s - 1] /\ a1 = f[k - 1] /\ a2 = f[k]
    BY <1>3, <2>1
  <2>4. PICK b0 \in Int, b1 \in Int, b2 \in Int : b0 = g[e] /\ b1 = g[k - 1] /\ b2 = g[k]
    BY <1>3, <2>1
  <2>5. PICK D0 \in Int, D1 \in Int, D2 \in Int : D0 = D[s - 1] /\ D1 = D[k - 1] /\ D2 = D[k]
    BY <1>3, <2>1
  <2>6. c <= c1 /\ v1 <= v /\ a1 <= a0 /\ b1 <= b0
    BY <1>5, <1>8, <2>1, <2>2, <2>3, <2>4
  <2>7. c1 * (a0 - a1) - v1 * (b0 - b1) <= D1 - D0
    BY <1>10, <2>2, <2>3, <2>4, <2>5
  <2>8. c * (a1 - a2) + v * (b2 - b1) <= D2 - D1
    BY <1>6, <2>1, <2>2, <2>3, <2>4, <2>5
  <2>9. c * (a0 - a2) - v * (b0 - b2) <= D2 - D0
    BY <2>6, <2>7, <2>8, GainsStep
  <2> QED BY <2>1, <2>2, <2>3, <2>4, <2>5, <2>9
<1> HIDE DEF S
<1>11. e \in S
  <2>1. \A k \in s..e : k \in S
    BY <1>9, <1>10, UpTo
  <2> QED BY <2>1
<1>12. PICK c \in Nat, v \in Nat, a \in Nat, x \in Int, y \in Int :
         c = d[e] /\ v = u[e] /\ a = f[s - 1] - f[e] /\ x = D[s - 1] /\ y = D[e]
  <2>1. e \in s..e /\ e \in (s - 1)..e /\ s - 1 \in (s - 1)..e
    OBVIOUS
  <2>2. f[s - 1] \in Int /\ f[e] \in Int /\ f[e] <= f[s - 1]
    BY <1>3, <1>8, <2>1
  <2>3. f[s - 1] - f[e] \in Nat
    BY <2>2
  <2> QED BY <1>3, <1>4, <2>1, <2>3
<1>13. c * a - v * (g[e] - g[e]) <= y - x
  BY <1>11, <1>12 DEF S
<1>14. g[e] - g[e] = 0
  <2>1. g[e] \in Int
    BY <1>3
  <2> QED BY <2>1
<1>15. c * a \in Nat /\ v * 0 = 0
  OBVIOUS
<1>16. x <= y
  BY <1>13, <1>14, <1>15
<1> QED BY <1>12, <1>16

\* What a level at x instead of m costs at one row.
LEMMA PointGains ==
  ASSUME NEW row \in RowSet, NEW m \in Int, NEW x \in Int,
         NEW d \in Nat, NEW u \in Nat, d = (IF x < m THEN m - x ELSE 0), u = (IF m < x THEN x - m ELSE 0)
  PROVE  /\ Fits!Off(row, x) \in Int /\ Fits!Off(row, m) \in Int
         /\ d * (-Tilt(row, m - 1)) + u * Tilt(row, m) <= Fits!Off(row, x) - Fits!Off(row, m)
<1>1. PICK y \in Int : y = row.y
  BY DEF RowSet
<1>2. PICK w \in Nat : w = row.w
  BY DEF RowSet
<1>3. PICK a \in Int : a = IF x > y THEN x - y ELSE y - x
  <2>1. x - y \in Int /\ y - x \in Int
    OBVIOUS
  <2> QED BY <2>1, Zenon
<1>4. PICK b \in Int : b = IF m > y THEN m - y ELSE y - m
  <2>1. m - y \in Int /\ y - m \in Int
    OBVIOUS
  <2> QED BY <2>1, Zenon
<1>5. Fits!Off(row, x) = w * a /\ Fits!Off(row, m) = w * b
  BY <1>1, <1>2, <1>3, <1>4 DEF Fits!Off
<1>6. PICK p \in {-1, 1} : p = IF y <= m - 1 THEN -1 ELSE 1
  OBVIOUS
<1>7. PICK q \in {-1, 1} : q = IF y <= m THEN 1 ELSE -1
  OBVIOUS
<1>8. -Tilt(row, m - 1) = w * p /\ Tilt(row, m) = w * q
  BY <1>1, <1>2, <1>6, <1>7 DEF Tilt
<1>9. d * p + u * q <= a - b
  <2>1. CASE y <= m - 1
    BY <1>3, <1>4, <1>6, <1>7, <2>1
  <2>2. CASE y = m
    BY <1>3, <1>4, <1>6, <1>7, <2>2
  <2>3. CASE m + 1 <= y
    BY <1>3, <1>4, <1>6, <1>7, <2>3
  <2> QED BY <2>1, <2>2, <2>3
<1>10. (d * p + u * q) * w <= (a - b) * w
  <2>1. PICK i \in Int : i = d * p + u * q
    OBVIOUS
  <2>2. PICK j \in Int : j = a - b
    OBVIOUS
  <2>3. i * w <= j * w
    BY <1>9, <2>1, <2>2, TimesGrows
  <2> QED BY <2>1, <2>2, <2>3
<1>11. (d * p + u * q) * w = d * (w * p) + u * (w * q) /\ (a - b) * w = w * a - w * b
  OBVIOUS
<1>12. d * (w * p) + u * (w * q) <= w * a - w * b
  BY <1>10, <1>11
<1>13. w * a \in Int /\ w * b \in Int
  OBVIOUS
<1> QED BY <1>5, <1>8, <1>12, <1>13

Running(h, n) == [k \in 0..n |-> Fits!SumFunctionOnSet(h, 1..k)]

\* A running total.
LEMMA RunningTotal ==
  ASSUME NEW n \in Nat, NEW h, \A i \in 1..n : h[i] \in Int,
         NEW t, t = Running(h, n)
  PROVE  /\ t[0] = 0 /\ \A k \in 0..n : t[k] \in Int
         /\ \A k \in 1..n : t[k] = h[k] + t[k - 1]
<1>1. ASSUME NEW k \in 0..n
      PROVE  /\ t[k] = Fits!SumFunctionOnSet(h, 1..k) /\ t[k] \in Int /\ (k = 0 => t[k] = 0)
             /\ k # 0 => t[k] = h[k] + Fits!SumFunctionOnSet(h, (1..k) \ {k})
  <2>1. IsFiniteSet(1..k) /\ \A i \in 1..k : h[i] \in Int
    <3>1. IsFiniteSet(1..k)
      BY FS_Interval
    <3> QED BY <3>1
  <2>2. t[k] = Fits!SumFunctionOnSet(h, 1..k)
    BY DEF Running
  <2>3. Fits!SumFunctionOnSet(h, 1..k) \in Int
    BY <2>1, SumWithout
  <2>4. k = 0 => Fits!SumFunctionOnSet(h, 1..k) = 0
    <3>1. k = 0 => 1..k = {}
      OBVIOUS
    <3> QED BY <2>1, <3>1, SumWithout
  <2>5. k # 0 => Fits!SumFunctionOnSet(h, 1..k) = h[k] + Fits!SumFunctionOnSet(h, (1..k) \ {k})
    <3>1. k # 0 => k \in 1..k
      OBVIOUS
    <3> QED BY <2>1, <3>1, SumWithout
  <2> QED BY <2>2, <2>3, <2>4, <2>5
<1>2. ASSUME NEW k \in 1..n PROVE t[k] = h[k] + t[k - 1]
  <2>1. k \in 0..n /\ k - 1 \in 0..n /\ k # 0 /\ (1..k) \ {k} = 1..(k - 1)
    OBVIOUS
  <2>2. t[k - 1] = Fits!SumFunctionOnSet(h, 1..(k - 1))
    BY <1>1, <2>1
  <2>3. t[k] = h[k] + Fits!SumFunctionOnSet(h, (1..k) \ {k})
    BY <1>1, <2>1
  <2> QED BY <2>1, <2>2, <2>3
<1>3. 0 \in 0..n
  OBVIOUS
<1> QED BY <1>1, <1>2, <1>3

\* What v costs more than the levels l, over the first k rows.
Excess(rows, v, l) ==
  [k \in 0..Len(rows) |-> Fits!SumFunctionOnSet([i \in DOMAIN rows |-> Fits!Off(rows[i], v[i])], 1..k)
                           - Fits!SumFunctionOnSet([i \in DOMAIN rows |-> Fits!Off(rows[i], l[i])], 1..k)]

LEMMA ExcessIs ==
  ASSUME NEW rows \in Seq(RowSet), NEW v, NEW l, \A i \in 1..Len(rows) : v[i] \in Int /\ l[i] \in Int,
         NEW D, D = Excess(rows, v, l)
  PROVE  /\ D[0] = 0 /\ \A k \in 0..Len(rows) : D[k] \in Int
         /\ \A k \in 1..Len(rows) : D[k] - D[k - 1] = Fits!Off(rows[k], v[k]) - Fits!Off(rows[k], l[k])
         /\ D[Len(rows)] = Fits!Loss(rows, v) - Fits!Loss(rows, l)
         /\ Fits!Loss(rows, v) \in Int /\ Fits!Loss(rows, l) \in Int
<1>1. PICK n \in Nat : n = Len(rows) /\ DOMAIN rows = 1..n
  OBVIOUS
<1>2. PICK h : h = [i \in DOMAIN rows |-> Fits!Off(rows[i], v[i])]
  OBVIOUS
<1>3. PICK g : g = [i \in DOMAIN rows |-> Fits!Off(rows[i], l[i])]
  OBVIOUS
<1>4. \A i \in 1..n : h[i] = Fits!Off(rows[i], v[i]) /\ g[i] = Fits!Off(rows[i], l[i])
  BY <1>1, <1>2, <1>3
<1>5. \A i \in 1..n : h[i] \in Int /\ g[i] \in Int
  <2> SUFFICES ASSUME NEW i \in 1..n PROVE h[i] \in Int /\ g[i] \in Int
    OBVIOUS
  <2>1. rows[i] \in RowSet /\ v[i] \in Int /\ l[i] \in Int
    BY <1>1
  <2>2. \A x \in Int : Fits!Off(rows[i], x) \in Int
    <3>1. PICK y \in Int : y = rows[i].y
      BY <2>1 DEF RowSet
    <3>2. PICK w \in Nat : w = rows[i].w
      BY <2>1 DEF RowSet
    <3>3. \A x : Fits!Off(rows[i], x) = w * (IF x > y THEN x - y ELSE y - x)
      BY <3>1, <3>2, Zenon DEF Fits!Off
    <3>4. \A x \in Int : w * (IF x > y THEN x - y ELSE y - x) \in Int
      OBVIOUS
    <3> QED BY <3>3, <3>4
  <2> QED BY <1>4, <2>1, <2>2
<1>6. PICK s : s = Running(h, n)
  OBVIOUS
<1>7. PICK t : t = Running(g, n)
  OBVIOUS
<1>8. /\ s[0] = 0 /\ \A k \in 0..n : s[k] \in Int
      /\ \A k \in 1..n : s[k] = h[k] + s[k - 1]
  <2>1. \A i \in 1..n : h[i] \in Int
    BY <1>5
  <2> QED BY <1>6, <2>1, RunningTotal
<1>9. /\ t[0] = 0 /\ \A k \in 0..n : t[k] \in Int
      /\ \A k \in 1..n : t[k] = g[k] + t[k - 1]
  <2>1. \A i \in 1..n : g[i] \in Int
    BY <1>5
  <2> QED BY <1>7, <2>1, RunningTotal
<1>10. \A k \in 0..n : D[k] = s[k] - t[k]
  BY <1>1, <1>2, <1>3, <1>6, <1>7 DEF Excess, Running
<1>11. ASSUME NEW k \in 1..n PROVE D[k] - D[k - 1] = Fits!Off(rows[k], v[k]) - Fits!Off(rows[k], l[k])
  <2>1. k \in 0..n /\ k - 1 \in 0..n
    OBVIOUS
  <2>2. PICK a \in Int, b \in Int, x \in Int, y \in Int : a = s[k - 1] /\ b = t[k - 1] /\ x = h[k] /\ y = g[k]
    BY <1>5, <1>8, <1>9, <2>1
  <2>3. D[k] = (x + a) - (y + b) /\ D[k - 1] = a - b
    BY <1>8, <1>9, <1>10, <2>1, <2>2
  <2>4. D[k] - D[k - 1] = x - y
    BY <2>3
  <2> QED BY <1>4, <2>2, <2>4
<1>12. Fits!Loss(rows, v) = s[n] /\ Fits!Loss(rows, l) = t[n]
  <2>1. Fits!Loss(rows, v) = Fits!SumFunctionOnSet(h, DOMAIN h) /\ Fits!Loss(rows, l) = Fits!SumFunctionOnSet(g, DOMAIN g)
    BY <1>2, <1>3, Zenon DEF Fits!Loss, Fits!SumFunction
  <2>2. DOMAIN h = 1..n /\ DOMAIN g = 1..n /\ n \in 0..n
    BY <1>1, <1>2, <1>3
  <2>3. s[n] = Fits!SumFunctionOnSet(h, 1..n) /\ t[n] = Fits!SumFunctionOnSet(g, 1..n)
    BY <1>6, <1>7, <2>2 DEF Running
  <2> QED BY <2>1, <2>2, <2>3, Zenon
<1>13. n \in 0..n /\ 0 \in 0..n
  OBVIOUS
<1>14. D[0] = 0 /\ D[n] = s[n] - t[n] /\ s[n] \in Int /\ t[n] \in Int
  BY <1>8, <1>9, <1>10, <1>13
<1>15. \A k \in 0..n : D[k] \in Int
  BY <1>8, <1>9, <1>10
<1> QED BY <1>1, <1>11, <1>12, <1>14, <1>15

\* A block's level costs no more over its rows than levels that rise.
LEMMA BlockIsBest ==
  ASSUME NEW rows \in Seq(RowSet), NEW v, NEW l, \A i \in 1..Len(rows) : v[i] \in Int /\ l[i] \in Int,
         \A i, j \in 1..Len(rows) : i < j => v[i] <= v[j],
         NEW b \in MedianBlock, b.from \in 1..Len(rows), b.to \in b.from..Len(rows), Poised(rows, b),
         \A i \in b.from..b.to : l[i] = b.level
  PROVE  Excess(rows, v, l)[b.from - 1] <= Excess(rows, v, l)[b.to]
<1>1. PICK n \in Nat : n = Len(rows)
  OBVIOUS
<1>2. PICK s \in 1..n : s = b.from
  BY <1>1
<1>3. PICK e \in s..n : e = b.to
  BY <1>1, <1>2
<1>4. PICK m \in Int : m = b.level
  BY DEF MedianBlock
<1>5. PICK D : D = Excess(rows, v, l)
  OBVIOUS
<1>6. PICK L : L = Leads(rows)
  OBVIOUS
<1>7. PICK d : d = [i \in 1..n |-> IF v[i] < m THEN m - v[i] ELSE 0]
  OBVIOUS
<1>8. PICK u : u = [i \in 1..n |-> IF m < v[i] THEN v[i] - m ELSE 0]
  OBVIOUS
<1>9. \A i \in s..e : i \in 1..n /\ v[i] \in Int /\ l[i] = m
  BY <1>1, <1>2, <1>3, <1>4
<1>10. ASSUME NEW i \in s..e
       PROVE  /\ d[i] = (IF v[i] < m THEN m - v[i] ELSE 0) /\ u[i] = (IF m < v[i] THEN v[i] - m ELSE 0)
              /\ d[i] \in Nat /\ u[i] \in Nat
  <2>1. i \in 1..n
    BY <1>9
  <2>2. PICK x \in Int : x = v[i]
    BY <1>9
  <2>3. d[i] = (IF x < m THEN m - x ELSE 0) /\ u[i] = (IF m < x THEN x - m ELSE 0)
    BY <1>7, <1>8, <2>1, <2>2
  <2>4. (IF x < m THEN m - x ELSE 0) \in Nat /\ (IF m < x THEN x - m ELSE 0) \in Nat
    OBVIOUS
  <2> QED BY <2>2, <2>3, <2>4
<1>11. ASSUME NEW i \in (s + 1)..e PROVE d[i] <= d[i - 1] /\ u[i - 1] <= u[i]
  <2>1. i \in s..e /\ i - 1 \in s..e /\ i - 1 < i
    OBVIOUS
  <2>2. PICK x \in Int, y \in Int : x = v[i - 1] /\ y = v[i]
    BY <1>9, <2>1
  <2>3. x <= y
    <3>1. i \in 1..Len(rows) /\ i - 1 \in 1..Len(rows)
      BY <1>1, <1>9, <2>1
    <3> QED BY <2>1, <2>2, <3>1
  <2>4. d[i] = (IF y < m THEN m - y ELSE 0) /\ u[i] = (IF m < y THEN y - m ELSE 0)
    BY <1>10, <2>1, <2>2
  <2>5. d[i - 1] = (IF x < m THEN m - x ELSE 0) /\ u[i - 1] = (IF m < x THEN x - m ELSE 0)
    BY <1>10, <2>1, <2>2
  <2>6. /\ (IF y < m THEN m - y ELSE 0) <= (IF x < m THEN m - x ELSE 0)
        /\ (IF m < x THEN x - m ELSE 0) <= (IF m < y THEN y - m ELSE 0)
    BY <2>3
  <2> QED BY <2>4, <2>5, <2>6
<1>12. /\ \A k \in 0..n : D[k] \in Int
       /\ \A k \in 1..n : D[k] - D[k - 1] = Fits!Off(rows[k], v[k]) - Fits!Off(rows[k], l[k])
  <2>1. \A k \in 0..Len(rows) : D[k] \in Int
    BY <1>5, ExcessIs
  <2>2. \A k \in 1..Len(rows) : D[k] - D[k - 1] = Fits!Off(rows[k], v[k]) - Fits!Off(rows[k], l[k])
    BY <1>5, ExcessIs
  <2> QED BY <1>1, <2>1, <2>2, Zenon
<1>13. m - 1 \in Int /\ L[m] = Lead(rows, m) /\ L[m - 1] = Lead(rows, m - 1) /\ rows # <<>>
  BY <1>1, <1>6 DEF Leads
<1>14. \A k \in 0..n : L[m][k] \in Int /\ L[m - 1][k] \in Int
  BY <1>1, <1>13, LeadIs
<1>15. \A k \in 1..n : L[m][k] = L[m][k - 1] + Tilt(rows[k], m) /\ L[m - 1][k] = L[m - 1][k - 1] + Tilt(rows[k], m - 1)
  <2>1. \A k \in 1..Len(rows) : L[m][k] = L[m][k - 1] + Tilt(rows[k], m)
    BY <1>13, LeadIs, Zenon
  <2>2. \A k \in 1..Len(rows) : L[m - 1][k] = L[m - 1][k - 1] + Tilt(rows[k], m - 1)
    BY <1>13, LeadIs, Zenon
  <2> QED BY <1>1, <2>1, <2>2, Zenon
<1>16. Moves(D, d, u, L[m - 1], L[m], s, e)
  <2>1. \A k \in (s - 1)..e : k \in 0..n
    OBVIOUS
  <2>2. \A k \in (s - 1)..e : D[k] \in Int /\ L[m - 1][k] \in Int /\ L[m][k] \in Int
    BY <1>12, <1>14, <2>1
  <2>3. \A k \in s..e : d[k] \in Nat /\ u[k] \in Nat
    BY <1>10
  <2>4. \A k \in (s + 1)..e : d[k] <= d[k - 1] /\ u[k - 1] <= u[k]
    BY <1>11
  <2> QED BY <2>2, <2>3, <2>4, Zenon DEF Moves
<1>17. Gains(D, d, u, L[m - 1], L[m], s, e)
  <2> SUFFICES ASSUME NEW k \in s..e
               PROVE  d[k] * (L[m - 1][k - 1] - L[m - 1][k]) + u[k] * (L[m][k] - L[m][k - 1]) <= D[k] - D[k - 1]
    BY DEF Gains
  <2>1. k \in 1..n /\ k - 1 \in 0..n
    OBVIOUS
  <2>2. rows[k] \in RowSet
    BY <1>1, <2>1
  <2>3. PICK x \in Int : x = v[k]
    BY <1>9
  <2>4. PICK c \in Nat, z \in Nat : c = d[k] /\ z = u[k] /\ c = (IF x < m THEN m - x ELSE 0) /\ z = (IF m < x THEN x - m ELSE 0)
    BY <1>10, <2>3
  <2>5. c * (-Tilt(rows[k], m - 1)) + z * Tilt(rows[k], m) <= Fits!Off(rows[k], x) - Fits!Off(rows[k], m)
    BY <2>2, <2>4, PointGains
  <2>6. PICK p \in Int, q \in Int : p = Tilt(rows[k], m - 1) /\ q = Tilt(rows[k], m)
    BY <1>13, <2>2, TiltIs
  <2>7. L[m - 1][k - 1] - L[m - 1][k] = -p /\ L[m][k] - L[m][k - 1] = q
    <3>1. PICK a \in Int, g \in Int : a = L[m - 1][k - 1] /\ g = L[m][k - 1]
      BY <1>14, <2>1
    <3>2. L[m - 1][k] = a + p /\ L[m][k] = g + q
      BY <1>15, <2>1, <2>6, <3>1
    <3>3. a - (a + p) = -p /\ (g + q) - g = q
      OBVIOUS
    <3> QED BY <3>1, <3>2, <3>3
  <2>8. D[k] - D[k - 1] = Fits!Off(rows[k], x) - Fits!Off(rows[k], m)
    BY <1>9, <1>12, <2>1, <2>3
  <2>9. c * (-p) + z * q <= D[k] - D[k - 1]
    BY <2>5, <2>6, <2>8
  <2> QED BY <2>4, <2>7, <2>9
<1>18. Placed(L, m, s, e)
  BY <1>2, <1>3, <1>4, <1>6 DEF Poised
<1>19. s \in Nat \ {0} /\ e \in Nat /\ s <= e
  OBVIOUS
<1>20. D[s - 1] <= D[e]
  BY <1>16, <1>17, <1>18, <1>19, PlacedGains
<1> QED BY <1>2, <1>3, <1>5, <1>20

\* Of all the rising levels a bucket's rows could be given, the pooled medians are the
\* cheapest, and they rise (calibration_engine.py, _pav_median_blocks()).
THEOREM PoolingIsOptimal ==
  ASSUME NEW rows \in Seq(RowSet), rows # <<>> PROVE Fits!PoolingIsBest(rows)
<1>1. PICK r : r = Fits!Ordered(rows)
  OBVIOUS
<1>2. r \in Seq(RowSet) /\ Len(r) = Len(rows)
  BY <1>1, OrderedIs
<1>3. PICK n \in Nat : n = Len(r) /\ n # 0 /\ DOMAIN r = 1..n
  BY <1>2
<1>4. PICK bs : bs = Fits!MedianBlocks(r)
  OBVIOUS
<1>5. bs \in Seq(MedianBlock) /\ Tiles(bs, n) /\ Sound(r, bs)
  BY <1>2, <1>3, <1>4, MedianBlocksAre
<1>6. PICK N \in Nat : N = Len(bs) /\ N # 0
  BY <1>3, <1>5 DEF Tiles
<1>7. \A k \in 1..N : bs[k] \in MedianBlock /\ bs[k].from \in 1..n /\ bs[k].to \in bs[k].from..n
  BY <1>5, <1>6 DEF Tiles
<1>8. PICK l : l = [i \in DOMAIN r |-> Fits!BlockOf(bs, i).level]
  OBVIOUS
<1>9. ASSUME NEW k \in 1..N, NEW i, i \in bs[k].from..bs[k].to PROVE l[i] = bs[k].level
  <2>1. PICK s \in 1..n, e \in 1..n : s = bs[k].from /\ e = bs[k].to
    BY <1>7
  <2>2. i \in 1..n /\ i \in s..e
    BY <1>9, <2>1
  <2>3. PICK j \in 1..N : Fits!BlockOf(bs, i) = bs[j] /\ i \in bs[j].from..bs[j].to
    BY <1>5, <1>6, <2>2, BlockIs
  <2>4. PICK s2 \in 1..n, e2 \in 1..n : s2 = bs[j].from /\ e2 = bs[j].to
    BY <1>7
  <2>5. \A a, b \in 1..N : a < b => bs[a].to < bs[b].from
    BY <1>5, <1>6, TilesCover
  <2>6. ~(j < k) /\ ~(k < j)
    <3>1. j < k => e2 < s
      BY <2>1, <2>4, <2>5
    <3>2. k < j => e < s2
      BY <2>1, <2>4, <2>5
    <3>3. s <= i /\ i <= e /\ s2 <= i /\ i <= e2
      BY <2>2, <2>3, <2>4
    <3> QED BY <2>2, <3>1, <3>2, <3>3
  <2>7. j = k
    BY <2>6
  <2> QED BY <1>3, <1>8, <2>2, <2>3, <2>7
<1>10. ASSUME NEW i \in 1..n PROVE l[i] \in Int
  <2>1. PICK j \in 1..N : Fits!BlockOf(bs, i) = bs[j] /\ i \in bs[j].from..bs[j].to
    BY <1>5, <1>6, BlockIs
  <2>2. bs[j].level \in Int
    BY <1>7 DEF MedianBlock
  <2> QED BY <1>3, <1>8, <2>1, <2>2
<1>11. ASSUME NEW v \in [DOMAIN r -> {r[i].y : i \in DOMAIN r}], Fits!Monotone(v)
       PROVE  Fits!Loss(r, l) <= Fits!Loss(r, v)
  <2>1. \A i \in 1..n : v[i] \in Int
    <3>1. \A i \in 1..n : r[i] \in RowSet
      BY <1>2, <1>3
    <3>2. \A i \in 1..n : r[i].y \in Int
      BY <3>1, RowNumbers
    <3> QED BY <1>3, <3>2
  <2>2. \A i, j \in 1..n : i < j => v[i] <= v[j]
    BY <1>3, <1>11 DEF Fits!Monotone
  <2>3. PICK D : D = Excess(r, v, l)
    OBVIOUS
  <2>4. /\ D[0] = 0 /\ \A k \in 0..n : D[k] \in Int
        /\ D[n] = Fits!Loss(r, v) - Fits!Loss(r, l)
        /\ Fits!Loss(r, v) \in Int /\ Fits!Loss(r, l) \in Int
    BY <1>2, <1>3, <1>10, <2>1, <2>3, ExcessIs
  <2>5. ASSUME NEW k \in 1..N PROVE D[bs[k].from - 1] <= D[bs[k].to]
    <3>1. Poised(r, bs[k])
      BY <1>5, <1>6 DEF Sound
    <3>2. bs[k] \in MedianBlock /\ bs[k].from \in 1..Len(r) /\ bs[k].to \in bs[k].from..Len(r)
      BY <1>3, <1>7
    <3>3. \A i \in bs[k].from..bs[k].to : l[i] = bs[k].level
      BY <1>9
    <3>4. \A i \in 1..Len(r) : v[i] \in Int /\ l[i] \in Int
      BY <1>3, <1>10, <2>1
    <3>5. \A i, j \in 1..Len(r) : i < j => v[i] <= v[j]
      BY <1>3, <2>2
    <3> QED BY <1>2, <2>3, <3>1, <3>2, <3>3, <3>4, <3>5, BlockIsBest
  <2> DEFINE S == {k \in 1..N : 0 <= D[bs[k].to]}
  <2>6. 1 \in S
    <3>1. 1 \in 1..N /\ bs[1].from = 1
      BY <1>3, <1>5, <1>6 DEF Tiles
    <3>2. D[bs[1].from - 1] <= D[bs[1].to]
      BY <2>5, <3>1
    <3>3. bs[1].from - 1 = 0
      BY <3>1
    <3> QED BY <2>4, <3>1, <3>2, <3>3
  <2>7. ASSUME NEW k \in (1 + 1)..N, k - 1 \in S PROVE k \in S
    <3>1. k \in 1..N /\ k - 1 \in 1..(N - 1) /\ (k - 1) + 1 = k /\ k - 1 \in 1..N
      OBVIOUS
    <3>2. bs[(k - 1) + 1].from = bs[k - 1].to + 1
      <4>1. \A j \in 1..(N - 1) : bs[j + 1].from = bs[j].to + 1
        BY <1>5, <1>6 DEF Tiles
      <4> QED BY <3>1, <4>1
    <3>3. PICK e \in 1..n : e = bs[k - 1].to
      <4>1. PICK s \in 1..n : s = bs[k - 1].from /\ bs[k - 1].to \in s..n
        BY <1>7, <3>1
      <4> QED BY <4>1
    <3>4. bs[k].from - 1 = e
      BY <3>1, <3>2, <3>3
    <3>5. D[e] <= D[bs[k].to]
      BY <2>5, <3>1, <3>4
    <3>6. 0 <= D[e] /\ D[e] \in Int
      BY <2>4, <2>7, <3>3
    <3>7. D[bs[k].to] \in Int
      <4>1. bs[k].to \in 0..n
        BY <1>7, <3>1
      <4> QED BY <2>4, <4>1
    <3>8. 0 <= D[bs[k].to]
      BY <3>5, <3>6, <3>7
    <3> QED BY <3>1, <3>8
  <2> HIDE DEF S
  <2>8. N \in S
    <3>1. \A k \in 1..N : k \in S
      <4>1. 1 \in Int /\ N \in Int
        BY <1>6
      <4> QED BY <2>6, <2>7, <4>1, UpTo
    <3> QED BY <1>6, <3>1
  <2>9. bs[N].to = n
    BY <1>3, <1>5, <1>6 DEF Tiles
  <2>10. 0 <= Fits!Loss(r, v) - Fits!Loss(r, l)
    BY <2>4, <2>8, <2>9 DEF S
  <2>11. \A x, y \in Int : 0 <= x - y => y <= x
    OBVIOUS
  <2> QED BY <2>4, <2>10, <2>11
<1>12. \A k \in 1..(Len(bs) - 1) : bs[k].level < bs[k + 1].level
  BY <1>5 DEF Sound
<1> QED BY <1>1, <1>4, <1>8, <1>11, <1>12, Zenon DEF Fits!PoolingIsBest

-----------------------------------------------------------------------------
(* What is enumerated *)

\* Every input a behaviour builds is one the theorems above are about.
InputsTyped ==
  /\ probe.rule = "fit" => probe.in \in Seq(RowSet) /\ probe.in # <<>>
  /\ probe.rule = "serve" => IsBucket(probe.in.bucket) /\ IsModel(probe.in.ols) /\ IsInterval(probe.in.v)

LEMMA RowIs ==
  ASSUME NEW x \in Int, NEW y \in Int, NEW d \in Nat \ {0} PROVE Row(x, y, d) \in RowSet
<1>1. Unit * x \in Int
  BY Constants
<1> QED BY <1>1 DEF Row, RowSet

LEMMA RowsOfAFit == ASSUME NEW s \in Thin \cup Settled PROVE s \in Seq(RowSet) /\ s # <<>>
<1>1. CASE s \in Thin
  <2>1. PICK x \in {-1, 1, 2}, y \in 0..2, d \in 1..2 : s = <<Row(x, y, d)>>
    BY <1>1 DEF Thin
  <2>2. Row(x, y, d) \in RowSet
    BY RowIs
  <2> QED BY <2>1, <2>2
<1>2. CASE s \in Settled
  <2>1. PICK x \in {-1, 1, 2}, y \in 0..2 : s = <<Row(x, y, 1), Row(x, y, 2)>>
    BY <1>2 DEF Settled
  <2>2. Row(x, y, 1) \in RowSet /\ Row(x, y, 2) \in RowSet
    BY RowIs
  <2> QED BY <2>1, <2>2
<1> QED BY <1>1, <1>2

\* The map of a row sequence of triples.
LEMMA MapIs ==
  ASSUME NEW s, NEW n \in 2..3, s \in [1..n -> Int \X Int \X (Nat \ {0})],
         NEW m, m = Fits!Fit(Rows(s))
  PROVE  Points(m.x, m.served) /\ Points(m.x, m.feature)
<1>1. PICK rows : rows = Rows(s)
  OBVIOUS
<1>2. rows = [i \in 1..n |-> Row(s[i][1], s[i][2], s[i][3])]
  BY <1>1 DEF Rows
<1>3. \A i \in 1..n : s[i][1] \in Int /\ s[i][2] \in Int /\ s[i][3] \in Nat \ {0}
  OBVIOUS
<1>4. \A i \in 1..n : Row(s[i][1], s[i][2], s[i][3]) \in RowSet
  BY <1>3, RowIs
<1>5. rows \in [1..n -> RowSet] /\ n \in Nat
  BY <1>2, <1>4
<1>6. rows \in Seq(RowSet) /\ Len(rows) = n
  BY <1>5
<1>7. rows # <<>>
  BY <1>6
<1> QED BY <1>1, <1>6, <1>7, FitIs

LEMMA TripleIs ==
  ASSUME NEW x \in -3..2, NEW y \in -3..2, NEW d \in 1..2
  PROVE  \E t \in Int \X Int \X (Nat \ {0}) : t = <<x, y, d>>
<1>1. <<x, y, d>> \in Int \X Int \X (Nat \ {0})
  <2>1. x \in Int /\ y \in Int /\ d \in Nat \ {0}
    OBVIOUS
  <2> QED BY <2>1
<1> QED BY <1>1

LEMMA MapsArePoints == ASSUME NEW m \in Maps PROVE Points(m.x, m.served) /\ Points(m.x, m.feature)
<1>1. PICK a \in Int \X Int \X (Nat \ {0}) : a = <<-1, 0, 1>>
  BY TripleIs
<1>2. PICK b \in Int \X Int \X (Nat \ {0}) : b = <<1, 1, 2>>
  BY TripleIs
<1>3. PICK c \in Int \X Int \X (Nat \ {0}) : c = <<-1, -3, 1>>
  BY TripleIs
<1>4. PICK d \in Int \X Int \X (Nat \ {0}) : d = <<-1, -3, 2>>
  BY TripleIs
<1>5. PICK e \in Int \X Int \X (Nat \ {0}) : e = <<2, 2, 1>>
  BY TripleIs
<1>6. PICK f \in Int \X Int \X (Nat \ {0}) : f = <<0, -1, 1>>
  BY TripleIs
<1>7. PICK g \in Int \X Int \X (Nat \ {0}) : g = <<1, 2, 1>>
  BY TripleIs
<1>8. PICK h \in Int \X Int \X (Nat \ {0}) : h = <<1, 2, 2>>
  BY TripleIs
<1>9. PICK s \in {<<a, b>>, <<c, d, e>>, <<f, g, h>>} : m = Fits!Fit(Rows(s))
  BY <1>1, <1>2, <1>3, <1>4, <1>5, <1>6, <1>7, <1>8 DEF Maps
<1>10. \E n \in 2..3 : s \in [1..n -> Int \X Int \X (Nat \ {0})]
  <2>1. CASE s = <<a, b>>
    <3>1. s \in [1..2 -> Int \X Int \X (Nat \ {0})] /\ 2 \in 2..3
      BY <1>1, <1>2, <2>1
    <3> QED BY <3>1
  <2>2. CASE s = <<c, d, e>>
    <3>1. s \in [1..3 -> Int \X Int \X (Nat \ {0})] /\ 3 \in 2..3
      BY <1>3, <1>4, <1>5, <2>2
    <3> QED BY <3>1
  <2>3. CASE s = <<f, g, h>>
    <3>1. s \in [1..3 -> Int \X Int \X (Nat \ {0})] /\ 3 \in 2..3
      BY <1>6, <1>7, <1>8, <2>3
    <3> QED BY <3>1
  <2> QED BY <1>9, <2>1, <2>2, <2>3
<1>11. PICK n \in 2..3 : s \in [1..n -> Int \X Int \X (Nat \ {0})]
  BY <1>10
<1> QED BY <1>9, <1>11, MapIs

LEMMA BandsAreLines ==
  ASSUME NEW l \in Bands, NEW i \in 1..3, l[i] # None PROVE l[i][1] \in Int /\ l[i][2] \in Int
<1>1. PICK u \in Int : u = Unit
  BY Constants
<1>2. -u \in Int /\ -3 * u \in Int
  OBVIOUS
<1>3. \A k \in {u, -u, -3 * u, 0} : k \in Int
  BY <1>2
<1>4. i = 1 \/ i = 2 \/ i = 3
  OBVIOUS
<1>5. \/ l = <<None, None, None>>
      \/ l = <<<<1, -u>>, <<1, 0>>, <<1, u>>>>
      \/ l = <<<<0, u>>, <<0, 0>>, <<1, 0>>>>
      \/ l = <<<<2, 0>>, None, <<0, 0>>>>
      \/ l = <<None, <<0, u>>, <<1, -u>>>>
      \/ l = <<<<1, -3 * u>>, <<0, 0>>, None>>
  BY <1>1 DEF Bands
<1>6. l[i] = None \/ \E p \in {0, 1, 2}, q \in {u, -u, -3 * u, 0} : l[i] = <<p, q>>
  BY <1>4, <1>5
<1>7. PICK p \in {0, 1, 2}, q \in {u, -u, -3 * u, 0} : l[i] = <<p, q>>
  BY <1>6
<1> QED BY <1>3, <1>7

LEMMA BucketsAre == ASSUME NEW b \in Buckets PROVE IsBucket(b) /\ IsBucket(Serving!Restored(b))
<1>1. PICK m \in Maps, l \in Bands : b = [iso |-> m, lines |-> l]
  BY DEF Buckets
<1>2. b.iso = m /\ b.lines = l
  BY <1>1
<1>3. PICK r : r = Serving!Restored(b)
  OBVIOUS
<1>4. r.iso = None /\ r.lines = l
  BY <1>1, <1>3 DEF Serving!Restored, Serving!NoMap
<1>5. Points(m.x, m.served) /\ Points(m.x, m.feature)
  BY MapsArePoints
<1>6. \A i \in 1..3 : l[i] # None => l[i][1] \in Int /\ l[i][2] \in Int
  BY BandsAreLines
<1>7. IsBucket(b)
  BY <1>2, <1>5, <1>6 DEF IsBucket
<1>8. IsBucket(r)
  BY <1>4, <1>6 DEF IsBucket
<1> QED BY <1>3, <1>7, <1>8

LEMMA ModelsAre == ASSUME NEW o \in Models PROVE IsModel(o)
<1>1. PICK c \in Coefs, r \in Ranges, q \in Resids : o = [coef |-> c, min |-> r[1], max |-> r[2], resid |-> q]
  BY DEF Models
<1>2. o.coef = c /\ o.resid = q
  BY <1>1
<1>3. PICK u \in Int : u = Unit
  BY Constants
<1>4. -u \in Int
  OBVIOUS
<1>5. ASSUME c # <<>>, NEW i \in 1..4 PROVE c[i] \in Int
  <2>1. c = <<0, 1, 0, 0>> \/ c = <<u, 1, 0, -1>> \/ c = <<-u, 2, 1, 0>> \/ c = <<0, 0, 0, 2>>
    BY <1>3, <1>5 DEF Coefs
  <2>2. i = 1 \/ i = 2 \/ i = 3 \/ i = 4
    OBVIOUS
  <2> QED BY <1>4, <2>1, <2>2
<1>6. ASSUME q # None PROVE {q.q10, q.q50, q.q90, q.n} \subseteq Int
  <2>1. PICK x \in Int, y \in Int, z \in Int, n \in Int : q = Resid(x, y, z, n)
    BY <1>6 DEF Resids
  <2>2. x * u \in Int /\ y * u \in Int /\ z * u \in Int
    OBVIOUS
  <2>3. q.q10 = x * u /\ q.q50 = y * u /\ q.q90 = z * u /\ q.n = n
    BY <1>3, <2>1 DEF Resid
  <2> QED BY <2>2, <2>3
<1> QED BY <1>2, <1>5, <1>6 DEF IsModel

LEMMA ServedAre == ASSUME NEW x \in Int, NEW v \in Served(x) PROVE IsInterval(v)
<1>1. PICK u \in Int : u = Unit
  BY Constants
<1>2. PICK w \in Int : w = 3 * u
  OBVIOUS
<1>3. v.x = x /\ v.horizon \in {21, 24} /\ v.run \in {0, u, None} /\ v.stpasa \in {0, w, None}
  BY <1>1, <1>2 DEF Served
<1>4. v.run \in MaybeInt /\ v.stpasa \in MaybeInt
  BY <1>3 DEF MaybeInt
<1> QED BY <1>3, <1>4 DEF IsInterval

\* The inputs of ServingIsBounded are among those of the two theorems.
LEMMA BoundedOfTyped == InputsTyped => ServingIsBounded
<1> SUFFICES ASSUME InputsTyped PROVE ServingIsBounded
  OBVIOUS
<1>1. -2..3 \subseteq Int
  OBVIOUS
<1>2. ASSUME probe.rule = "fit" PROVE Fits!ServedIsMonotone(probe.in, -2..3)
  BY <1>1, <1>2, ServingIsMonotone DEF InputsTyped
<1>3. ASSUME probe.rule = "serve"
      PROVE  /\ Serving!BandHolds(probe.in.bucket, probe.in.ols, probe.in.v)
             /\ Serving!Stage2IsHeld(probe.in.bucket, probe.in.ols, probe.in.v)
  BY <1>3, PublishedIsBounded DEF InputsTyped
<1> QED BY <1>2, <1>3 DEF ServingIsBounded

LEMMA InputsStayTyped == InputsTyped /\ [FitRows \/ Serve]_probe => InputsTyped'
<1> SUFFICES ASSUME InputsTyped, [FitRows \/ Serve]_probe PROVE InputsTyped'
  OBVIOUS
<1>1. CASE FitRows
  <2>1. CASE Start /\ \E s \in Thin \cup Settled : Ask("fit", s)
    <3>1. PICK s \in Thin \cup Settled : probe' = [rule |-> "fit", in |-> s]
      BY <2>1 DEF Ask
    <3>2. s \in Seq(RowSet) /\ s # <<>>
      BY RowsOfAFit
    <3> QED BY <3>1, <3>2 DEF InputsTyped
  <2>2. CASE /\ probe.rule = "fit" /\ Len(probe.in) < 3
             /\ \E s \in Thin \cup Settled : Ask("fit", probe.in \o s)
    <3>1. PICK s \in Thin \cup Settled : probe' = [rule |-> "fit", in |-> probe.in \o s]
      BY <2>2 DEF Ask
    <3>2. s \in Seq(RowSet) /\ s # <<>>
      BY RowsOfAFit
    <3>3. PICK p \in Seq(RowSet) : p = probe.in /\ p # <<>>
      BY <2>2 DEF InputsTyped
    <3>4. p \o s \in Seq(RowSet) /\ Len(p \o s) = Len(p) + Len(s) /\ Len(s) # 0
      BY <3>2
    <3>5. p \o s # <<>>
      BY <3>2, <3>3, <3>4
    <3> QED BY <3>1, <3>3, <3>4, <3>5 DEF InputsTyped
  <2> QED BY <1>1, <2>1, <2>2 DEF FitRows
<1>2. CASE Serve
  <2>1. PICK b \in Buckets \cup {Serving!Restored(c) : c \in Buckets}, o \in Models, x \in {-2, -1, 0, 2} :
          \E v \in Served(x) : Ask("serve", [bucket |-> b, ols |-> o, v |-> v])
    BY <1>2 DEF Serve
  <2>2. PICK v \in Served(x) : probe' = [rule |-> "serve", in |-> [bucket |-> b, ols |-> o, v |-> v]]
    BY <2>1 DEF Ask
  <2>3. IsBucket(b)
    <3>1. CASE b \in Buckets
      BY <3>1, BucketsAre
    <3>2. CASE b \notin Buckets
      <4>1. PICK c \in Buckets : b = Serving!Restored(c)
        BY <2>1, <3>2
      <4> QED BY <4>1, BucketsAre
    <3> QED BY <3>1, <3>2
  <2>4. IsModel(o)
    BY ModelsAre
  <2>5. IsInterval(v)
    <3>1. x \in Int
      OBVIOUS
    <3> QED BY <3>1, ServedAre
  <2> QED BY <2>2, <2>3, <2>4, <2>5 DEF InputsTyped
<1>3. CASE UNCHANGED probe
  BY <1>3 DEF InputsTyped
<1> QED BY <1>1, <1>2, <1>3

\* ServingIsBounded for every value of the constants: what a fit serves never falls as
\* the forecast rises, and every price published is inside its own band and as far from
\* stage 1 as its evidence allows (calibration_engine.py).
THEOREM ServingBounded == ServingSpec => []ServingIsBounded
<1>1. ServingInit => InputsTyped
  BY DEF ServingInit, InputsTyped
<1> QED BY <1>1, InputsStayTyped, BoundedOfTyped, PTL DEF ServingSpec

\* The inputs of FitIsSound are among those of PoolingIsOptimal.
LEMMA SoundOfTyped == InputsTyped => FitIsSound
BY PoolingIsOptimal DEF InputsTyped, FitIsSound

\* FitIsSound for every value of the constants: the pooled medians rise from block to
\* block, and no other rising levels are closer to the observations a bucket was fitted
\* to, by decay weight (calibration_engine.py, _pav_median_blocks()).
THEOREM FitSound == ServingSpec => []FitIsSound
<1>1. ServingInit => InputsTyped
  BY DEF ServingInit, InputsTyped
<1> QED BY <1>1, InputsStayTyped, SoundOfTyped, PTL DEF ServingSpec
=============================================================================
