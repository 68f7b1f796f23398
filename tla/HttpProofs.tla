----------------------------- MODULE HttpProofs -----------------------------
(***************************************************************************)
(* Proofs about Http: the date cache, and the requests of a connection.    *)
(* The second rests on what the sums and the stream of units are, which    *)
(* are recursive functions: the lemmas about them are by induction on the  *)
(* elements of a set, which needs no operator to be instantiated.          *)
(***************************************************************************)
EXTENDS Http, WellFoundedInduction, TLAPS

LEMMA Least ==
    ASSUME NEW S \in SUBSET Nat, S # {}
    PROVE  \E x \in S : \A y \in S : x <= y
<1>1. PICK x \in S : \A y \in S : ~(<<y, x>> \in OpToRel(<, Nat))
  BY NatLessThanWellFounded, WFMin, Zenon
<1>2. \A y \in Nat : y < x => <<y, x>> \in OpToRel(<, Nat)
  BY Zenon DEF OpToRel
<1>3. \A y \in S : ~(y < x)
  BY <1>1, <1>2
<1> QED BY <1>3

\* Induction: a set that has a number with its predecessor has all from 0 to m.
LEMMA Upwards ==
    ASSUME NEW T, 0 \in T, NEW m \in Nat, \A n \in 0..m : n \in T /\ n < m => n + 1 \in T
    PROVE  \A n \in 0..m : n \in T
<1> DEFINE S == {n \in 0..m : n \notin T}
<1> SUFFICES ASSUME S # {} PROVE FALSE
  OBVIOUS
<1>1. S \in SUBSET Nat
  OBVIOUS
<1>2. PICK x \in S : \A y \in S : x <= y
  BY <1>1, Least
<1>3. x # 0 /\ x \in 0..m /\ x \notin T
  OBVIOUS
<1>4. x - 1 \in 0..m /\ x - 1 < m /\ (x - 1) + 1 = x
  BY <1>3
<1>5. x - 1 \notin S
  BY <1>2, <1>4
<1>6. x - 1 \in T
  BY <1>4, <1>5
<1> QED BY <1>3, <1>4, <1>6
-----------------------------------------------------------------------------
\* Sums.  Sums(f, n) is the function Total defines.

IsSums(s, f, n) == s = [i \in 0..n |-> IF i = 0 THEN 0 ELSE s[i - 1] + f[i]]
Sums(f, n) == CHOOSE s : IsSums(s, f, n)

LEMMA SumsExist ==
    ASSUME NEW f, NEW m \in Nat
    PROVE  \E s : IsSums(s, f, m)
<1> DEFINE T == {n \in 0..m : \E s : IsSums(s, f, n)}
<1>1. 0 \in T
  <2> DEFINE s == [i \in 0..0 |-> 0]
  <2>1. IsSums(s, f, 0)
    BY DEF IsSums
  <2> QED BY <2>1
<1>2. ASSUME NEW n \in 0..m, n \in T, n < m PROVE n + 1 \in T
  <2>1. PICK s : IsSums(s, f, n)
    BY <1>2
  <2> DEFINE t == [i \in 0..(n + 1) |-> IF i = n + 1 THEN s[n] + f[n + 1] ELSE s[i]]
  <2>2. \A i \in 0..n : s[i] = IF i = 0 THEN 0 ELSE s[i - 1] + f[i]
    BY <2>1 DEF IsSums
  <2>3. ASSUME NEW i \in 0..(n + 1) PROVE t[i] = IF i = 0 THEN 0 ELSE t[i - 1] + f[i]
    <3>1. CASE i = n + 1
      <4>1. i # 0 /\ i - 1 = n /\ n \in 0..(n + 1) /\ n # n + 1
        BY <3>1
      <4> QED BY <3>1, <4>1
    <3>2. CASE i = 0
      BY <2>2, <3>2
    <3>3. CASE i \in 1..n
      <4>1. i - 1 \in 0..(n + 1) /\ i - 1 # n + 1 /\ i # n + 1 /\ i # 0 /\ i \in 0..n
        BY <3>3
      <4> QED BY <2>2, <4>1
    <3> QED BY <3>1, <3>2, <3>3
  <2>4. IsSums(t, f, n + 1)
    BY <2>3 DEF IsSums
  <2>5. n + 1 \in 0..m
    BY <1>2
  <2> QED BY <2>4, <2>5
<1> HIDE DEF T
<1>3. \A n \in 0..m : n \in T
  BY <1>1, <1>2, Upwards
<1>4. m \in T
  BY <1>3
<1> QED BY <1>4 DEF T

LEMMA SumsAre ==
    ASSUME NEW f, NEW n \in Nat
    PROVE  /\ Sums(f, n)[0] = 0
           /\ \A i \in 1..n : Sums(f, n)[i] = Sums(f, n)[i - 1] + f[i]
<1>1. IsSums(Sums(f, n), f, n)
  BY SumsExist DEF Sums
<1> DEFINE s == Sums(f, n)
<1>2. s = [i \in 0..n |-> IF i = 0 THEN 0 ELSE s[i - 1] + f[i]]
  BY <1>1 DEF IsSums
<1> HIDE DEF s
<1>3. \A i \in 0..n : s[i] = IF i = 0 THEN 0 ELSE s[i - 1] + f[i]
  BY <1>2
<1>4. \A i \in 1..n : i \in 0..n /\ i # 0
  OBVIOUS
<1> QED BY <1>3, <1>4 DEF s

LEMMA TotalIsSum == ASSUME NEW f, NEW n PROVE Total(f, n) = Sums(f, n)[n]
BY DEF Total, Sums, IsSums

\* The sum of the first numbers depends on them alone.
LEMMA SameTotal ==
    ASSUME NEW f, NEW g, NEW n \in Nat, NEW k \in Nat, NEW m \in Nat, k <= n, k <= m,
           \A i \in 1..k : f[i] = g[i]
    PROVE  Sums(f, n)[k] = Sums(g, m)[k]
<1> DEFINE T == {i \in 0..k : Sums(f, n)[i] = Sums(g, m)[i]}
<1>1. 0 \in T
  BY SumsAre
<1>2. ASSUME NEW i \in 0..k, i \in T, i < k PROVE i + 1 \in T
  <2>1. i + 1 \in 1..n /\ i + 1 \in 1..m /\ i + 1 \in 1..k /\ (i + 1) - 1 = i /\ i + 1 \in 0..k
    BY <1>2
  <2>2. Sums(f, n)[i + 1] = Sums(f, n)[(i + 1) - 1] + f[i + 1]
    BY <2>1, SumsAre
  <2>3. Sums(g, m)[i + 1] = Sums(g, m)[(i + 1) - 1] + g[i + 1]
    BY <2>1, SumsAre
  <2> QED BY <1>2, <2>1, <2>2, <2>3
<1> HIDE DEF T
<1>3. \A i \in 0..k : i \in T
  BY <1>1, <1>2, Upwards
<1>4. k \in T
  BY <1>3
<1> QED BY <1>4 DEF T

LEMMA TotalStep ==
    ASSUME NEW f, NEW n \in Nat
    PROVE  /\ Total(f, 0) = 0
           /\ Total(f, n + 1) = Total(f, n) + f[n + 1]
<1>1. Total(f, 0) = 0
  BY SumsAre, TotalIsSum
<1>2. Sums(f, n + 1)[n + 1] = Sums(f, n + 1)[n] + f[n + 1]
  <2>1. n + 1 \in 1..(n + 1) /\ (n + 1) - 1 = n /\ n + 1 \in Nat
    OBVIOUS
  <2>2. Sums(f, n + 1)[n + 1] = Sums(f, n + 1)[(n + 1) - 1] + f[n + 1]
    BY <2>1, SumsAre
  <2> QED BY <2>1, <2>2
<1>3. Sums(f, n + 1)[n] = Sums(f, n)[n]
  <2>1. n + 1 \in Nat /\ n <= n + 1 /\ n <= n
    OBVIOUS
  <2> QED BY <2>1, SameTotal
<1> QED BY <1>1, <1>2, <1>3, TotalIsSum

\* Sums of numbers are numbers, and grow.
LEMMA TotalGrows ==
    ASSUME NEW f, NEW n \in Nat, \A i \in 1..n : f[i] \in Nat
    PROVE  \A k \in 0..n : Total(f, k) \in Nat /\ Total(f, k) <= Total(f, n)
<1> DEFINE T == {k \in 0..n : \A j \in 0..k : Total(f, j) \in Nat /\ Total(f, j) <= Total(f, k)}
<1>1. 0 \in T
  <2>1. Total(f, 0) = 0
    BY TotalStep
  <2>2. \A j \in 0..0 : j = 0
    OBVIOUS
  <2> QED BY <2>1, <2>2
<1>2. ASSUME NEW k \in 0..n, k \in T, k < n PROVE k + 1 \in T
  <2>1. f[k + 1] \in Nat /\ k + 1 \in 0..n
    BY <1>2
  <2>2. Total(f, k + 1) = Total(f, k) + f[k + 1] /\ Total(f, k) \in Nat
    BY <1>2, TotalStep
  <2>3. ASSUME NEW j \in 0..(k + 1)
        PROVE  Total(f, j) \in Nat /\ Total(f, j) <= Total(f, k + 1)
    <3>1. CASE j = k + 1
      BY <2>1, <2>2, <3>1
    <3>2. CASE j \in 0..k
      <4>1. Total(f, j) \in Nat /\ Total(f, j) <= Total(f, k)
        BY <1>2, <3>2
      <4> QED BY <2>1, <2>2, <4>1
    <3> QED BY <3>1, <3>2
  <2> QED BY <2>1, <2>2, <2>3
<1> HIDE DEF T
<1>3. \A k \in 0..n : k \in T
  BY <1>1, <1>2, Upwards
<1>4. n \in T
  BY <1>3
<1> QED BY <1>3, <1>4 DEF T
-----------------------------------------------------------------------------
\* The stream of units.  Joins(g, n) is the function FlattenSeq defines.

IsJoins(s, g, n) == s = [i \in 1..n |-> IF i = 1 THEN g[i] ELSE s[i - 1] \o g[i]]
Joins(g, n) == CHOOSE s : IsJoins(s, g, n)

LEMMA JoinsExist ==
    ASSUME NEW g, NEW m \in Nat
    PROVE  \E s : IsJoins(s, g, m + 1)
<1> DEFINE T == {n \in 0..m : \E s : IsJoins(s, g, n + 1)}
<1>1. 0 \in T
  <2> DEFINE s == [i \in 1..1 |-> g[1]]
  <2>1. IsJoins(s, g, 1)
    BY DEF IsJoins
  <2>2. 0 + 1 = 1 /\ 0 \in 0..m
    OBVIOUS
  <2> QED BY <2>1, <2>2
<1>2. ASSUME NEW n \in 0..m, n \in T, n < m PROVE n + 1 \in T
  <2> DEFINE q == n + 1
  <2>1. PICK s : IsJoins(s, g, q)
    BY <1>2
  <2>2. q \in Nat /\ q >= 1
    OBVIOUS
  <2> HIDE DEF q
  <2> DEFINE t == [i \in 1..(q + 1) |-> IF i = q + 1 THEN s[q] \o g[q + 1] ELSE s[i]]
  <2>3. \A i \in 1..q : s[i] = IF i = 1 THEN g[i] ELSE s[i - 1] \o g[i]
    BY <2>1 DEF IsJoins
  <2>4. ASSUME NEW i \in 1..(q + 1) PROVE t[i] = IF i = 1 THEN g[i] ELSE t[i - 1] \o g[i]
    <3>1. CASE i = q + 1
      <4>1. i # 1 /\ i - 1 = q /\ q \in 1..(q + 1) /\ q # q + 1
        BY <2>2, <3>1
      <4> QED BY <3>1, <4>1
    <3>2. CASE i = 1
      <4>1. 1 \in 1..q /\ 1 # q + 1
        BY <2>2
      <4> QED BY <2>3, <3>2, <4>1
    <3>3. CASE i \in 2..q
      <4>1. i - 1 \in 1..(q + 1) /\ i - 1 # q + 1 /\ i # q + 1 /\ i # 1 /\ i \in 1..q
        BY <2>2, <3>3
      <4> QED BY <2>3, <4>1
    <3> QED BY <2>2, <3>1, <3>2, <3>3
  <2>5. IsJoins(t, g, q + 1)
    BY <2>4 DEF IsJoins
  <2>6. n + 1 \in 0..m
    BY <1>2
  <2> QED BY <2>5, <2>6 DEF q
<1> HIDE DEF T
<1>3. \A n \in 0..m : n \in T
  BY <1>1, <1>2, Upwards
<1>4. m \in T
  BY <1>3
<1> QED BY <1>4 DEF T

LEMMA JoinsAre ==
    ASSUME NEW g, NEW n \in Nat, n >= 1
    PROVE  /\ Joins(g, n)[1] = g[1]
           /\ \A i \in 2..n : Joins(g, n)[i] = Joins(g, n)[i - 1] \o g[i]
<1> DEFINE s == Joins(g, n)
<1>1. n - 1 \in Nat /\ (n - 1) + 1 = n
  OBVIOUS
<1>2. IsJoins(s, g, n)
  BY <1>1, JoinsExist DEF Joins
<1>3. s = [i \in 1..n |-> IF i = 1 THEN g[i] ELSE s[i - 1] \o g[i]]
  BY <1>2 DEF IsJoins
<1> HIDE DEF s
<1>4. \A i \in 1..n : s[i] = IF i = 1 THEN g[i] ELSE s[i - 1] \o g[i]
  BY <1>3
<1>5. 1 \in 1..n /\ \A i \in 2..n : i \in 1..n /\ i # 1
  OBVIOUS
<1> QED BY <1>4, <1>5 DEF s

LEMMA SameJoins ==
    ASSUME NEW g, NEW h, NEW n \in Nat, NEW k \in Nat, NEW m \in Nat, 1 <= k, k <= n, k <= m,
           \A i \in 1..k : g[i] = h[i]
    PROVE  Joins(g, n)[k] = Joins(h, m)[k]
<1> DEFINE T == {i \in 0..(k - 1) : Joins(g, n)[i + 1] = Joins(h, m)[i + 1]}
<1>0. k - 1 \in Nat /\ 0 \in 0..(k - 1) /\ 0 + 1 = 1 /\ 1 \in 1..k /\ n >= 1 /\ m >= 1
  OBVIOUS
<1>1. 0 \in T
  <2>1. Joins(g, n)[1] = g[1]
    BY <1>0, JoinsAre
  <2>2. Joins(h, m)[1] = h[1]
    BY <1>0, JoinsAre
  <2>3. g[1] = h[1]
    BY <1>0
  <2> QED BY <1>0, <2>1, <2>2, <2>3
<1>2. ASSUME NEW i \in 0..(k - 1), i \in T, i < k - 1 PROVE i + 1 \in T
  <2> DEFINE q == (i + 1) + 1
  <2>1. q \in 2..n /\ q \in 2..m /\ q \in 1..k /\ q - 1 = i + 1 /\ i + 1 \in 0..(k - 1)
    BY <1>2
  <2> HIDE DEF q
  <2>2. Joins(g, n)[q] = Joins(g, n)[q - 1] \o g[q]
    BY <1>0, <2>1, JoinsAre
  <2>3. Joins(h, m)[q] = Joins(h, m)[q - 1] \o h[q]
    BY <1>0, <2>1, JoinsAre
  <2>4. Joins(g, n)[q - 1] = Joins(h, m)[q - 1]
    BY <1>2, <2>1
  <2> QED BY <2>1, <2>2, <2>3, <2>4 DEF q
<1> HIDE DEF T
<1>3. \A i \in 0..(k - 1) : i \in T
  BY <1>0, <1>1, <1>2, Upwards
<1>4. k - 1 \in T /\ (k - 1) + 1 = k
  BY <1>0, <1>3
<1> QED BY <1>4 DEF T

\* The units of the first requests, one request after the other.
LEMMA FlattenIsJoins ==
    ASSUME NEW g, NEW n \in Nat, n = Len(g), n >= 1
    PROVE  FlattenSeq(g) = Joins(g, n)[n]
<1>1. Len(g) # 0
  OBVIOUS
<1>2. FlattenSeq(g) =
        (CHOOSE s : s = [i \in 1..Len(g) |-> IF i = 1 THEN g[i] ELSE s[i - 1] \o g[i]])[Len(g)]
  BY <1>1 DEF FlattenSeq
<1> QED BY <1>2 DEF Joins, IsJoins

Pre(hs, k) == Bytes(SubSeq(hs, 1, k))

LEMMA PreIsJoins ==
    ASSUME NEW S, NEW hs \in Seq(S), NEW k \in Nat, 1 <= k, k <= Len(hs)
    PROVE  LET g == [i \in 1..Len(hs) |-> Units(hs[i])]
           IN  Pre(hs, k) = Joins(g, k)[k]
<1> DEFINE g == [i \in 1..Len(hs) |-> Units(hs[i])]
           p == SubSeq(hs, 1, k)
           u == [i \in 1..Len(p) |-> Units(p[i])]
<1>1. Len(p) = k /\ \A i \in 1..k : p[i] = hs[i]
  OBVIOUS
<1> HIDE DEF p
<1>2. Len(u) = k /\ \A i \in 1..k : u[i] = Units(hs[i])
  BY <1>1
<1>3. \A i \in 1..k : g[i] = Units(hs[i])
  OBVIOUS
<1> HIDE DEF g, u
<1>4. FlattenSeq(u) = Joins(u, k)[k]
  BY <1>2, FlattenIsJoins
<1>5. Joins(u, k)[k] = Joins(g, k)[k]
  <2>1. \A i \in 1..k : u[i] = g[i]
    BY <1>2, <1>3
  <2>2. k <= k
    OBVIOUS
  <2> QED BY <2>1, <2>2, SameJoins
<1>6. Pre(hs, k) = FlattenSeq(u)
  BY DEF Pre, Bytes, u, p
<1> QED BY <1>4, <1>5, <1>6 DEF g

LEMMA PreStep ==
    ASSUME NEW S, NEW hs \in Seq(S)
    PROVE  /\ Pre(hs, 0) = <<>>
           /\ Len(hs) >= 1 => Pre(hs, 1) = Units(hs[1])
           /\ \A k \in 1..(Len(hs) - 1) : Pre(hs, k + 1) = Pre(hs, k) \o Units(hs[k + 1])
           /\ Pre(hs, Len(hs)) = Bytes(hs)
<1> DEFINE g == [i \in 1..Len(hs) |-> Units(hs[i])]
<1>1. Pre(hs, 0) = <<>>
  <2>1. SubSeq(hs, 1, 0) = <<>> /\ Len(<<>>) = 0
    OBVIOUS
  <2>2. Bytes(<<>>) = FlattenSeq([i \in 1..0 |-> Units(<<>>[i])])
    BY <2>1 DEF Bytes
  <2>3. [i \in 1..0 |-> Units(<<>>[i])] = <<>>
    OBVIOUS
  <2>4. FlattenSeq(<<>>) = <<>>
    BY <2>1 DEF FlattenSeq
  <2> QED BY <2>1, <2>2, <2>3, <2>4 DEF Pre
<1>2. \A i \in 1..Len(hs) : g[i] = Units(hs[i])
  OBVIOUS
<1> HIDE DEF g
<1>3. ASSUME Len(hs) >= 1 PROVE Pre(hs, 1) = Units(hs[1])
  <2>1. Pre(hs, 1) = Joins(g, 1)[1]
    BY <1>3, PreIsJoins DEF g
  <2>2. Joins(g, 1)[1] = g[1]
    <3>1. 1 \in Nat /\ 1 >= 1
      OBVIOUS
    <3> QED BY ONLY <3>1, JoinsAre
  <2>3. 1 \in 1..Len(hs)
    BY <1>3
  <2> QED BY <1>2, <2>1, <2>2, <2>3
<1>4. ASSUME NEW k \in 1..(Len(hs) - 1) PROVE Pre(hs, k + 1) = Pre(hs, k) \o Units(hs[k + 1])
  <2>1. /\ k \in Nat /\ 1 <= k /\ k <= Len(hs) /\ k + 1 \in Nat /\ 1 <= k + 1 /\ k + 1 <= Len(hs)
        /\ k + 1 \in 2..(k + 1) /\ (k + 1) - 1 = k /\ k <= k + 1 /\ k <= k /\ k + 1 >= 1
        /\ k + 1 \in 1..Len(hs)
    OBVIOUS
  <2>2. Pre(hs, k) = Joins(g, k)[k] /\ Pre(hs, k + 1) = Joins(g, k + 1)[k + 1]
    BY <2>1, PreIsJoins DEF g
  <2>3. Joins(g, k + 1)[k + 1] = Joins(g, k + 1)[(k + 1) - 1] \o g[k + 1]
    BY <2>1, JoinsAre
  <2>4. Joins(g, k + 1)[k] = Joins(g, k)[k]
    BY <2>1, SameJoins
  <2> QED BY <1>2, <2>1, <2>2, <2>3, <2>4
<1>5. Pre(hs, Len(hs)) = Bytes(hs)
  <2>1. SubSeq(hs, 1, Len(hs)) = hs
    OBVIOUS
  <2> QED BY <2>1 DEF Pre
<1> QED BY <1>1, <1>3, <1>4, <1>5
-----------------------------------------------------------------------------
\* What a unit is, and the units of one request.

UnitSet == [tag : {"line"}, line : Lines, version : Versions, count : {0}]
           \cup [tag : {"headers"}, count : Nat]
           \cup {Blank}

LEMMA LineIsUnit == ASSUME NEW h \in Heads PROVE Line(h) \in UnitSet /\ Line(h) # Blank
<1>1. h.line \in Lines /\ h.version \in Versions
  BY DEF Heads
<1>2. Line(h) \in [tag : {"line"}, line : Lines, version : Versions, count : {0}]
  BY <1>1 DEF Line
<1>3. Line(h).tag = "line" /\ Blank.tag = "end"
  BY DEF Line, Blank
<1> QED BY <1>2, <1>3 DEF UnitSet

LEMMA HeadersAreUnit ==
    ASSUME NEW n \in Nat
    PROVE  Headers(n) \in UnitSet /\ Headers(n) # Blank /\ Headers(n).count = n
<1>1. Headers(n) \in [tag : {"headers"}, count : Nat]
  BY DEF Headers
<1>2. Headers(n).tag = "headers" /\ Blank.tag = "end" /\ Headers(n).count = n
  BY DEF Headers, Blank
<1> QED BY <1>1, <1>2 DEF UnitSet

LEMMA Grows ==
    ASSUME NEW S, NEW s \in Seq(S), NEW t \in Seq(S)
    PROVE  /\ s \o t \in Seq(S) /\ Len(s \o t) = Len(s) + Len(t)
           /\ \A i \in 1..Len(s) : (s \o t)[i] = s[i]
           /\ \A i \in 1..Len(t) : (s \o t)[Len(s) + i] = t[i]
OBVIOUS

LEMMA Wrapped ==
    ASSUME NEW S, NEW x \in S, NEW y \in S, NEW b \in Seq(S), NEW u, u = <<x>> \o b \o <<y>>
    PROVE  /\ u \in Seq(S) /\ Len(u) = Len(b) + 2 /\ u[1] = x /\ u[Len(b) + 2] = y
           /\ \A i \in 1..Len(b) : u[i + 1] = b[i]
<1>1. <<x>> \in Seq(S) /\ Len(<<x>>) = 1 /\ <<x>>[1] = x
  OBVIOUS
<1>2. <<y>> \in Seq(S) /\ Len(<<y>>) = 1 /\ <<y>>[1] = y
  OBVIOUS
<1>3. PICK a \in Seq(S) : a = <<x>> /\ Len(a) = 1 /\ a[1] = x
  BY <1>1
<1>4. PICK c \in Seq(S) : c = <<y>> /\ Len(c) = 1 /\ c[1] = y
  BY <1>2
<1>5. PICK d \in Seq(S) : /\ d = a \o b /\ Len(d) = Len(a) + Len(b)
                          /\ \A i \in 1..Len(a) : d[i] = a[i]
                          /\ \A i \in 1..Len(b) : d[Len(a) + i] = b[i]
  <2>1. /\ a \o b \in Seq(S) /\ Len(a \o b) = Len(a) + Len(b)
        /\ \A i \in 1..Len(a) : (a \o b)[i] = a[i]
        /\ \A i \in 1..Len(b) : (a \o b)[Len(a) + i] = b[i]
    BY Grows
  <2> QED BY <2>1, Zenon
<1>6. /\ d \o c \in Seq(S) /\ Len(d \o c) = Len(d) + Len(c)
      /\ \A i \in 1..Len(d) : (d \o c)[i] = d[i]
      /\ \A i \in 1..Len(c) : (d \o c)[Len(d) + i] = c[i]
  BY Grows
<1>7. u = d \o c
  BY <1>3, <1>4, <1>5
<1>8. Len(b) \in Nat /\ Len(d) = Len(b) + 1
  BY <1>3, <1>5
<1>9. u[1] = x
  BY <1>3, <1>5, <1>6, <1>7, <1>8
<1>10. u[Len(b) + 2] = y
  <2>1. 1 \in 1..Len(c) /\ Len(d) + 1 = Len(b) + 2
    BY <1>4, <1>8
  <2> QED BY <1>4, <1>6, <1>7, <2>1
<1>11. ASSUME NEW i \in 1..Len(b) PROVE u[i + 1] = b[i]
  <2>1. i + 1 \in 1..Len(d) /\ Len(a) + i = i + 1
    BY <1>3, <1>8
  <2> QED BY <1>5, <1>6, <1>7, <2>1
<1> QED BY <1>4, <1>6, <1>7, <1>8, <1>9, <1>10, <1>11

LEMMA UnitsAre ==
    ASSUME NEW h \in Heads
    PROVE  /\ h.headers \in Seq(Nat) /\ Len(h.headers) \in Nat
           /\ Units(h) \in Seq(UnitSet)
           /\ Len(Units(h)) = Len(h.headers) + 2
           /\ Units(h)[1] = Line(h)
           /\ \A i \in 1..Len(h.headers) : Units(h)[i + 1] = Headers(h.headers[i])
           /\ Units(h)[Len(h.headers) + 2] = Blank
<1>1. h.headers \in Seq(Nat) /\ Len(h.headers) \in Nat
  BY BlocksAssumption DEF Heads
<1> DEFINE n == Len(h.headers)
           b == [i \in 1..n |-> Headers(h.headers[i])]
<1>2. Line(h) \in UnitSet /\ Blank \in UnitSet
  BY LineIsUnit DEF UnitSet
<1>3. b \in Seq(UnitSet) /\ Len(b) = n /\ \A i \in 1..n : b[i] = Headers(h.headers[i])
  <2>1. \A i \in 1..n : h.headers[i] \in Nat
    BY <1>1
  <2>2. \A i \in 1..n : Headers(h.headers[i]) \in UnitSet
    BY <2>1, HeadersAreUnit
  <2> QED BY <1>1, <2>2
<1>4. Units(h) = <<Line(h)>> \o b \o <<Blank>>
  BY DEF Units
<1> HIDE DEF b
<1>5. /\ Units(h) \in Seq(UnitSet) /\ Len(Units(h)) = Len(b) + 2
      /\ Units(h)[1] = Line(h) /\ Units(h)[Len(b) + 2] = Blank
      /\ \A i \in 1..Len(b) : Units(h)[i + 1] = b[i]
  BY <1>2, <1>3, <1>4, Wrapped
<1> QED BY <1>1, <1>3, <1>5

\* The stream, request by request.
LEMMA PreGrows ==
    ASSUME NEW hs \in Seq(Heads), NEW k \in 0..(Len(hs) - 1)
    PROVE  Pre(hs, k + 1) = Pre(hs, k) \o Units(hs[k + 1])
<1>1. hs \in Seq(Heads) /\ Len(hs) \in Nat /\ k + 1 \in 1..Len(hs) /\ hs[k + 1] \in Heads
  OBVIOUS
<1>2. Units(hs[k + 1]) \in Seq(UnitSet)
  BY <1>1, UnitsAre
<1>3. CASE k = 0
  <2>1. Pre(hs, 0) = <<>> /\ Pre(hs, 1) = Units(hs[1])
    BY <1>1, <1>3, PreStep
  <2>2. <<>> \o Units(hs[1]) = Units(hs[1]) /\ k + 1 = 1
    BY <1>2, <1>3
  <2> QED BY <1>3, <2>1, <2>2
<1>4. CASE k # 0
  <2>1. k \in 1..(Len(hs) - 1)
    BY <1>4
  <2> QED BY <2>1, PreStep
<1> QED BY <1>3, <1>4

Reaches(hs, j, k) == /\ Len(Pre(hs, j)) <= Len(Pre(hs, k))
                     /\ \A i \in 1..Len(Pre(hs, j)) : Pre(hs, k)[i] = Pre(hs, j)[i]

LEMMA StreamGrows ==
    ASSUME NEW hs \in Seq(Heads), NEW m \in 0..Len(hs)
    PROVE  /\ Pre(hs, m) \in Seq(UnitSet)
           /\ \A j \in 0..m : Reaches(hs, j, m)
<1> DEFINE T == {k \in 0..Len(hs) : \A j \in 0..k : Pre(hs, j) \in Seq(UnitSet) /\ Reaches(hs, j, k)}
<1>1. 0 \in T
  <2>1. Pre(hs, 0) = <<>>
    BY PreStep
  <2>2. \A j \in 0..0 : j = 0
    OBVIOUS
  <2>3. Pre(hs, 0) \in Seq(UnitSet) /\ Len(Pre(hs, 0)) = 0
    <3>1. <<>> \in Seq(UnitSet) /\ Len(<<>>) = 0
      OBVIOUS
    <3> QED BY ONLY <2>1, <3>1
  <2>4. Reaches(hs, 0, 0)
    BY <2>3 DEF Reaches
  <2> QED BY <2>2, <2>3, <2>4
<1>2. ASSUME NEW k \in 0..Len(hs), k \in T, k < Len(hs) PROVE k + 1 \in T
  <2>1. k \in 0..(Len(hs) - 1) /\ k + 1 \in 0..Len(hs) /\ hs[k + 1] \in Heads /\ k \in 0..k
    BY <1>2
  <2>2. PICK u \in Seq(UnitSet) : Pre(hs, k + 1) = Pre(hs, k) \o u
    BY <2>1, PreGrows, UnitsAre
  <2>3. PICK p \in Seq(UnitSet) : p = Pre(hs, k)
    BY <1>2, <2>1
  <2>4. PICK q \in Seq(UnitSet) : /\ q = p \o u /\ Len(q) = Len(p) + Len(u)
                                  /\ \A i \in 1..Len(p) : q[i] = p[i]
    <3>1. /\ p \o u \in Seq(UnitSet) /\ Len(p \o u) = Len(p) + Len(u)
          /\ \A i \in 1..Len(p) : (p \o u)[i] = p[i]
      BY Grows
    <3> QED BY <3>1, Zenon
  <2>5. q = Pre(hs, k + 1)
    BY <2>2, <2>3, <2>4
  <2>6. ASSUME NEW j \in 0..(k + 1)
        PROVE  Pre(hs, j) \in Seq(UnitSet) /\ Reaches(hs, j, k + 1)
    <3>1. CASE j = k + 1
      BY <2>5, <3>1 DEF Reaches
    <3>2. CASE j \in 0..k
      <4>1. PICK r \in Seq(UnitSet) : r = Pre(hs, j)
        BY <1>2, <3>2
      <4>2. Len(r) <= Len(p) /\ \A i \in 1..Len(r) : p[i] = r[i]
        BY <1>2, <2>3, <3>2, <4>1 DEF Reaches
      <4>3. Len(r) \in Nat /\ Len(p) \in Nat /\ Len(u) \in Nat
        OBVIOUS
      <4>4. Len(r) <= Len(q) /\ \A i \in 1..Len(r) : q[i] = r[i]
        BY <2>4, <4>2, <4>3
      <4> QED BY <2>5, <4>1, <4>4 DEF Reaches
    <3> QED BY <3>1, <3>2
  <2> QED BY <2>1, <2>6
<1> HIDE DEF T
<1>3. \A k \in 0..Len(hs) : k \in T
  <2>1. Len(hs) \in Nat
    OBVIOUS
  <2> QED BY <1>1, <1>2, <2>1, Upwards
<1>4. m \in 0..m
  OBVIOUS
<1> QED BY <1>3, <1>4 DEF T

LEMMA NextRequest ==
    ASSUME NEW hs \in Seq(Heads), NEW k \in 0..(Len(hs) - 1), NEW u, u = Units(hs[k + 1])
    PROVE  /\ Len(Pre(hs, k)) \in Nat
           /\ u \in Seq(UnitSet) /\ Len(u) >= 2
           /\ Len(Pre(hs, k + 1)) = Len(Pre(hs, k)) + Len(u)
           /\ Len(Pre(hs, k + 1)) <= Len(Bytes(hs))
           /\ \A i \in 1..Len(u) : Bytes(hs)[Len(Pre(hs, k)) + i] = u[i]
<1>1. /\ k \in 0..Len(hs) /\ k + 1 \in 0..Len(hs) /\ hs[k + 1] \in Heads
      /\ Len(hs) \in 0..Len(hs) /\ Len(hs) \in Nat
  OBVIOUS
<1>2. u \in Seq(UnitSet) /\ Len(u) >= 2
  <2>1. Len(hs[k + 1].headers) \in Nat /\ Len(u) = Len(hs[k + 1].headers) + 2 /\ u \in Seq(UnitSet)
    BY <1>1, UnitsAre
  <2> QED BY <2>1
<1>3. PICK p \in Seq(UnitSet) : p = Pre(hs, k)
  BY <1>1, StreamGrows
<1>4. Pre(hs, k + 1) = p \o u
  BY <1>3, PreGrows
<1>5. /\ p \o u \in Seq(UnitSet) /\ Len(p \o u) = Len(p) + Len(u)
      /\ \A i \in 1..Len(u) : (p \o u)[Len(p) + i] = u[i]
  BY <1>2, Grows
<1>6. PICK q \in Seq(UnitSet) : q = Pre(hs, k + 1)
  BY <1>4, <1>5
<1>7. Len(q) = Len(p) + Len(u) /\ \A i \in 1..Len(u) : q[Len(p) + i] = u[i]
  BY <1>4, <1>5, <1>6
<1>8. Pre(hs, Len(hs)) = Bytes(hs)
  BY PreStep
<1>9. Reaches(hs, k + 1, Len(hs))
  BY <1>1, StreamGrows
<1>10. Len(q) <= Len(Bytes(hs)) /\ \A i \in 1..Len(q) : Bytes(hs)[i] = q[i]
  BY <1>6, <1>8, <1>9 DEF Reaches
<1>11. ASSUME NEW i \in 1..Len(u) PROVE Bytes(hs)[Len(p) + i] = u[i]
  <2>1. Len(p) \in Nat /\ Len(u) \in Nat
    BY <1>2
  <2>2. Len(p) + i \in 1..Len(q)
    BY <1>7, <2>1
  <2> QED BY <1>7, <1>10, <2>2
<1>12. Len(p) \in Nat
  OBVIOUS
<1> QED BY <1>2, <1>3, <1>6, <1>7, <1>10, <1>11, <1>12

\* Where requests end.
LEMMA Ends ==
    ASSUME NEW hs \in Seq(Heads)
    PROVE  /\ Bytes(hs) \in Seq(UnitSet)
           /\ Len(Pre(hs, 0)) = 0
           /\ \A k \in 0..Len(hs) : /\ Len(Pre(hs, k)) \in Nat
                                    /\ Len(Pre(hs, k)) <= Len(Bytes(hs))
                                    /\ \A j \in 0..k : Len(Pre(hs, j)) <= Len(Pre(hs, k))
           /\ Len(Pre(hs, Len(hs))) = Len(Bytes(hs))
<1>1. Len(hs) \in 0..Len(hs) /\ Pre(hs, Len(hs)) = Bytes(hs) /\ Pre(hs, 0) = <<>>
  BY PreStep
<1>2. ASSUME NEW k \in 0..Len(hs)
      PROVE  /\ Len(Pre(hs, k)) \in Nat
             /\ Len(Pre(hs, k)) <= Len(Bytes(hs))
             /\ \A j \in 0..k : Len(Pre(hs, j)) <= Len(Pre(hs, k))
  <2>1. Pre(hs, k) \in Seq(UnitSet) /\ \A j \in 0..k : Reaches(hs, j, k)
    BY StreamGrows
  <2>2. Reaches(hs, k, Len(hs))
    BY <1>1, StreamGrows
  <2>3. Len(Pre(hs, k)) \in Nat
    BY <2>1
  <2> QED BY <1>1, <2>1, <2>2, <2>3 DEF Reaches
<1>3. Bytes(hs) \in Seq(UnitSet)
  BY <1>1, StreamGrows
<1>4. Len(Pre(hs, 0)) = 0
  BY <1>1
<1> QED BY <1>1, <1>2, <1>3, <1>4
-----------------------------------------------------------------------------
\* What Parse says of a buffer that holds the beginning of a request, or the
\* request and more.

LEMMA Shifted ==
    ASSUME NEW f, NEW g, NEW m \in Nat, f[1] = 0, \A i \in 1..m : f[i + 1] = g[i]
    PROVE  Total(f, m + 1) = Total(g, m)
<1> DEFINE T == {j \in 0..m : Total(f, j + 1) = Total(g, j)}
<1>1. 0 \in T
  <2>1. Total(f, 0) = 0 /\ Total(g, 0) = 0 /\ Total(f, 0 + 1) = Total(f, 0) + f[0 + 1]
    BY TotalStep
  <2> QED BY <2>1
<1>2. ASSUME NEW j \in 0..m, j \in T, j < m PROVE j + 1 \in T
  <2>1. j \in Nat /\ j + 1 \in Nat /\ j + 1 \in 1..m /\ j + 1 \in 0..m
    BY <1>2
  <2>2. Total(f, (j + 1) + 1) = Total(f, j + 1) + f[(j + 1) + 1]
    BY <2>1, TotalStep
  <2>3. Total(g, j + 1) = Total(g, j) + g[j + 1]
    BY <2>1, TotalStep
  <2>4. f[(j + 1) + 1] = g[j + 1]
    BY <2>1
  <2> QED BY <1>2, <2>1, <2>2, <2>3, <2>4
<1> HIDE DEF T
<1>3. \A j \in 0..m : j \in T
  BY <1>1, <1>2, Upwards
<1>4. m \in 0..m
  OBVIOUS
<1> QED BY <1>3, <1>4 DEF T

Agrees(h) == \A i \in 1..Len(buf) : i <= Len(Units(h)) => buf[i] = Units(h)[i]

Count == [i \in 1..Len(buf) |-> buf[i].count]

LEMMA Facts ==
    ASSUME buf \in Seq(UnitSet), buf # <<>>, NEW h \in Heads, Agrees(h)
    PROVE  /\ Len(buf) \in Nat /\ Len(buf) >= 1
           /\ buf[1] = Line(h) /\ buf[1].tag = "line"
           /\ buf[1].line = h.line /\ buf[1].version = h.version
           /\ \A i \in 1..Len(buf) : i < Len(Units(h)) => buf[i] # Blank
           /\ \A m \in Nat : m + 1 <= Len(buf) /\ m <= Len(h.headers)
                               => Total(Count, m + 1) = Total(h.headers, m)
<1> DEFINE n == Len(h.headers)
<1>1. Len(buf) \in Nat /\ Len(buf) >= 1 /\ 1 \in 1..Len(buf)
  OBVIOUS
<1>2. /\ h.headers \in Seq(Nat) /\ n \in Nat
      /\ Len(Units(h)) = n + 2
      /\ Units(h)[1] = Line(h)
      /\ \A i \in 1..n : Units(h)[i + 1] = Headers(h.headers[i])
  BY UnitsAre
<1> HIDE DEF n
<1>3. buf[1] = Line(h)
  BY <1>1, <1>2 DEF Agrees
<1>4. Line(h).tag = "line" /\ Line(h).line = h.line /\ Line(h).version = h.version /\ Line(h).count = 0
  BY DEF Line
<1>5. ASSUME NEW i \in 1..n, i + 1 \in 1..Len(buf)
      PROVE  buf[i + 1] # Blank /\ buf[i + 1].count = h.headers[i]
  <2>1. i + 1 <= Len(Units(h)) /\ h.headers[i] \in Nat
    BY <1>2 DEF n
  <2>2. buf[i + 1] = Headers(h.headers[i])
    BY <1>2, <1>5, <2>1 DEF Agrees
  <2> QED BY <2>1, <2>2, HeadersAreUnit
<1>6. ASSUME NEW i \in 1..Len(buf), i < Len(Units(h)) PROVE buf[i] # Blank
  <2>1. CASE i = 1
    BY <1>3, <2>1, LineIsUnit
  <2>2. CASE i # 1
    <3>1. i - 1 \in 1..n /\ (i - 1) + 1 = i
      BY <1>2, <1>6, <2>2
    <3> QED BY <1>5, <3>1
  <2> QED BY <2>1, <2>2
<1>7. ASSUME NEW m \in Nat, m + 1 <= Len(buf), m <= n
      PROVE  Total(Count, m + 1) = Total(h.headers, m)
  <2>1. Count[1] = 0
    BY <1>1, <1>3, <1>4 DEF Count
  <2>2. ASSUME NEW i \in 1..m PROVE Count[i + 1] = h.headers[i]
    <3>1. i \in 1..n /\ i + 1 \in 1..Len(buf)
      BY <1>1, <1>2, <1>7
    <3> QED BY <1>5, <3>1 DEF Count
  <2> QED BY <2>1, <2>2, Shifted
<1> QED BY <1>1, <1>3, <1>4, <1>6, <1>7 DEF n

LEMMA PartOfHead ==
    ASSUME buf \in Seq(UnitSet), buf # <<>>, NEW h \in Heads, Agrees(h), Len(buf) < Len(Units(h))
    PROVE  Parse = "partial" \/ (Parse = "error" /\ ~Acceptable(h))
<1> DEFINE n == Len(h.headers)
<1>1. /\ Len(buf) \in Nat /\ Len(buf) >= 1 /\ buf[1].tag = "line" /\ buf[1].line = h.line
      /\ \A i \in 1..Len(buf) : i < Len(Units(h)) => buf[i] # Blank
      /\ \A m \in Nat : m + 1 <= Len(buf) /\ m <= Len(h.headers)
                          => Total(Count, m + 1) = Total(h.headers, m)
  BY Facts
<1>2. h.headers \in Seq(Nat) /\ n \in Nat /\ Len(Units(h)) = n + 2
  BY UnitsAre
<1>3. Blanks = {}
  BY <1>1 DEF Blanks
<1>4. HeadLen = Len(buf)
  BY <1>3 DEF HeadLen
<1> DEFINE m == Len(buf) - 1
<1>5. m \in Nat /\ m + 1 = Len(buf) /\ m <= n /\ m \in 0..n
  BY <1>1, <1>2
<1>6. HeaderCount = Total(h.headers, m)
  BY <1>1, <1>4, <1>5 DEF HeaderCount, Count
<1>7. /\ Total(h.headers, m) \in Nat /\ Total(h.headers, n) \in Nat
      /\ Total(h.headers, m) <= Total(h.headers, n)
  <2>1. \A i \in 1..n : h.headers[i] \in Nat
    BY <1>2, SMTT(30)
  <2>2. n \in 0..n
    BY <1>2
  <2> QED BY <1>2, <1>5, <2>1, <2>2, TotalGrows
<1> HIDE DEF m, n
<1>8. CASE h.line = "malformed"
  <2>1. Parse = "error"
    BY <1>1, <1>8 DEF Parse
  <2>2. ~Acceptable(h)
    BY <1>8 DEF Acceptable
  <2> QED BY <2>1, <2>2
<1>9. CASE h.line # "malformed" /\ HeaderCount > HEADERS
  <2>1. Parse = "error"
    BY <1>1, <1>9 DEF Parse
  <2>2. ~(Total(h.headers, n) <= HEADERS)
    BY <1>6, <1>7, <1>9 DEF HEADERS
  <2> QED BY <2>1, <2>2 DEF Acceptable, n
<1>10. CASE h.line # "malformed" /\ ~(HeaderCount > HEADERS)
  <2>1. Parse = "partial"
    BY <1>1, <1>3, <1>10 DEF Parse
  <2> QED BY <2>1
<1> QED BY <1>8, <1>9, <1>10

LEMMA WholeHead ==
    ASSUME buf \in Seq(UnitSet), buf # <<>>, NEW h \in Heads, Agrees(h), Len(buf) >= Len(Units(h))
    PROVE  /\ HeadLen = Len(Units(h))
           /\ Parse \in {"error", "complete"}
           /\ Parse = "error" => ~Acceptable(h)
           /\ Parse = "complete" /\ h.version = 1 /\ h.line # "baduri" => Acceptable(h)
<1> DEFINE n == Len(h.headers)
<1>1. /\ Len(buf) \in Nat /\ Len(buf) >= 1 /\ buf[1].tag = "line" /\ buf[1].line = h.line
      /\ \A i \in 1..Len(buf) : i < Len(Units(h)) => buf[i] # Blank
      /\ \A m \in Nat : m + 1 <= Len(buf) /\ m <= Len(h.headers)
                          => Total(Count, m + 1) = Total(h.headers, m)
  BY Facts
<1>2. /\ h.headers \in Seq(Nat) /\ n \in Nat /\ Len(Units(h)) = n + 2
      /\ Units(h)[n + 2] = Blank
  BY UnitsAre
<1> HIDE DEF n
<1>3. n + 2 \in 1..Len(buf) /\ buf[n + 2] = Blank
  BY <1>1, <1>2 DEF Agrees
<1>4. n + 2 \in Blanks /\ \A y \in Blanks : y \in Nat /\ n + 2 <= y
  BY <1>1, <1>2, <1>3 DEF Blanks
<1>5. Min(Blanks) = n + 2
  <2>1. Min(Blanks) \in Blanks /\ \A y \in Blanks : Min(Blanks) <= y
    BY <1>4 DEF Min
  <2> QED BY <1>2, <1>4, <2>1
<1>6. HeadLen = n + 2 /\ Blanks # {}
  BY <1>4, <1>5 DEF HeadLen
<1>7. HeaderCount = Total(h.headers, n) /\ HeaderCount \in Nat
  <2>1. Total(Count, n + 1) = Total(h.headers, n)
    BY <1>1, <1>2, <1>3 DEF n
  <2>2. n + 1 \in Nat /\ (n + 1) + 1 = n + 2
    BY <1>2
  <2>3. Total(Count, (n + 1) + 1) = Total(Count, n + 1) + Count[(n + 1) + 1]
    BY <2>2, TotalStep
  <2>4. Count[n + 2] = 0
    BY <1>3 DEF Count, Blank
  <2>5. Total(h.headers, n) \in Nat
    <3>1. \A i \in 1..n : h.headers[i] \in Nat
      BY <1>2 DEF n
    <3>2. n \in 0..n
      BY <1>2
    <3> QED BY <1>2, <3>1, <3>2, TotalGrows
  <2>6. HeaderCount = Total(Count, n + 2)
    BY <1>6 DEF HeaderCount, Count
  <2> QED BY <2>1, <2>2, <2>3, <2>4, <2>5, <2>6
<1>8. CASE h.line = "malformed"
  BY <1>1, <1>2, <1>6, <1>8 DEF Parse, Acceptable
<1>9. CASE h.line # "malformed" /\ HeaderCount > HEADERS
  <2>1. Parse = "error"
    BY <1>1, <1>9 DEF Parse
  <2>2. ~(Total(h.headers, n) <= HEADERS)
    BY <1>7, <1>9 DEF HEADERS
  <2> QED BY <1>2, <1>6, <2>1, <2>2 DEF Acceptable, n
<1>10. CASE h.line # "malformed" /\ ~(HeaderCount > HEADERS)
  <2>1. Parse = "complete"
    BY <1>1, <1>6, <1>10 DEF Parse
  <2>2. Total(h.headers, n) <= HEADERS
    BY <1>7, <1>10 DEF HEADERS
  <2> QED BY <1>2, <1>6, <1>10, <2>1, <2>2 DEF Acceptable, n
<1> QED BY <1>8, <1>9, <1>10
-----------------------------------------------------------------------------
(***************************************************************************)
(* The date cache.  What a thread has cached was right when it was         *)
(* rendered, and is kept only to the end of that second.                   *)
(***************************************************************************)

OutSet == [date : Nat, from : Nat, to : Nat]

Rendered(c) == \/ c.next_update = 0
               \/ c.next_update = 2 * (c.date + 1) /\ c.date <= Second(high)

ClockInv ==
    /\ reqs \in Seq(Lines) /\ out \in Seq(OutSet) /\ (pc = "got" => Len(reqs) >= 1)
    /\ now \in Nat /\ high \in Nat /\ now <= high /\ high <= MaxTime
    /\ last \in [Threads -> [date : Nat, next_update : Nat]]
    /\ \A t \in Threads : Rendered(last[t])

LEMMA Halves ==
    ASSUME NEW t \in Nat
    PROVE  /\ Second(t) \in Nat /\ 2 * Second(t) <= t /\ t < 2 * Second(t) + 2
           /\ \A u \in Nat : t <= u => Second(t) <= Second(u)
BY DEF Second

LEMMA Cached ==
    ASSUME ClockInv, NEW t \in Threads, NEW c, c = fmt(last[t])
    PROVE  /\ c \in [date : Nat, next_update : Nat] /\ Rendered(c)
           /\ Second(now) <= c.date /\ c.date <= Second(high)
<1>1. /\ now \in Nat /\ high \in Nat /\ now <= high
      /\ last[t] \in [date : Nat, next_update : Nat] /\ Rendered(last[t])
  BY DEF ClockInv
<1>2. Second(now) \in Nat /\ now < 2 * Second(now) + 2 /\ 2 * Second(now) <= now
      /\ Second(high) \in Nat /\ Second(now) <= Second(high)
  BY <1>1, Halves
<1>3. CASE now >= last[t].next_update
  <2>1. c = [date |-> Second(now), next_update |-> 2 * (Second(now) + 1)]
    BY <1>3 DEF fmt, update
  <2>2. c.date = Second(now) /\ c.next_update = 2 * (Second(now) + 1)
    BY <2>1
  <2>3. c \in [date : Nat, next_update : Nat]
    BY <1>2, <2>1
  <2> QED BY <1>2, <2>2, <2>3 DEF Rendered
<1>4. CASE ~(now >= last[t].next_update)
  <2>1. c = last[t]
    BY <1>4 DEF fmt
  <2>2. c.date \in Nat /\ c.next_update \in Nat
    BY <1>1, <2>1
  <2>3. c.next_update = 2 * (c.date + 1) /\ c.date <= Second(high)
    BY <1>1, <1>4, <2>1, <2>2 DEF Rendered
  <2>4. Second(now) <= c.date
    BY <1>1, <1>2, <1>4, <2>1, <2>2, <2>3
  <2> QED BY <1>1, <2>1, <2>3, <2>4
<1> QED BY <1>3, <1>4

LEMMA ClockInit == Init => ClockInv
<1> SUFFICES ASSUME Init PROVE ClockInv
  OBVIOUS
<1>1. reqs \in Seq(Lines) /\ out \in Seq(OutSet) /\ pc # "got"
  BY DEF Init
<1>2. now = 0 /\ high = 0 /\ MaxTime \in Nat
  BY BoundsAssumption DEF Init
<1>3. last \in [Threads -> [date : Nat, next_update : Nat]] /\ \A t \in Threads : last[t].next_update = 0
  BY DEF Init, NoDate
<1> QED BY <1>1, <1>2, <1>3 DEF ClockInv, Rendered

\* The steps that touch neither the clock nor the answers.
LEMMA ClockQuiet ==
    ASSUME ClockInv, UNCHANGED <<out, last, clock>>, reqs' \in Seq(Lines),
           pc' = "got" => Len(reqs') >= 1
    PROVE  ClockInv'
BY DEF ClockInv, Rendered, clock

Typed == buf \in Seq(UnitSet) /\ sock \in Seq(UnitSet) /\ todo \in Seq(UnitSet)

LEMMA TakeLine ==
    ASSUME Typed, Parse = "complete"
    PROVE  buf[1].line \in Lines \ {"malformed"}
<1>1. buf # <<>> /\ buf[1].tag = "line" /\ buf[1].line # "malformed"
  BY DEF Parse
<1>2. buf[1] \in UnitSet
  BY <1>1 DEF Typed
<1>3. buf[1] \in [tag : {"line"}, line : Lines, version : Versions, count : {0}]
  <2>1. Blank.tag = "end"
    BY DEF Blank
  <2>2. buf[1] # Blank /\ buf[1] \notin [tag : {"headers"}, count : Nat]
    BY <1>1, <2>1
  <2> QED BY <1>2, <2>2 DEF UnitSet
<1> QED BY <1>1, <1>3

LEMMA SubSeqTyped ==
    ASSUME NEW S, NEW s \in Seq(S), NEW m \in Nat
    PROVE  SubSeq(s, m + 1, Len(s)) \in Seq(S) /\ (m <= Len(s) => SubSeq(s, 1, m) \in Seq(S))
OBVIOUS
-----------------------------------------------------------------------------
(***************************************************************************)
(* The stream.  End(hs, k) is where the k-th request ends, Sent how much   *)
(* of the stream the client has sent; the buffer and the socket hold what  *)
(* was sent and not taken, unit by unit.                                   *)
(***************************************************************************)

End(hs, k) == Len(Pre(hs, k))
Sent(hs, rest) == Len(Bytes(hs)) - Len(rest)

Wire ==
    /\ heads \in Seq(Heads) /\ Typed
    /\ Len(todo) <= Len(Bytes(heads))
    /\ \A i \in 1..Len(todo) : todo[i] = Bytes(heads)[Sent(heads, todo) + i]

Taken ==
    /\ reqs \in Seq(Lines) /\ Len(reqs) <= Len(heads)
    /\ \A i \in 1..Len(reqs) : Acceptable(heads[i]) /\ reqs[i] = heads[i].line
    /\ End(heads, Len(reqs)) <= Sent(heads, todo)

InStep ==
    /\ Len(buf) + Len(sock) = Sent(heads, todo) - End(heads, Len(reqs))
    /\ \A i \in 1..Len(buf) : buf[i] = Bytes(heads)[End(heads, Len(reqs)) + i]
    /\ \A i \in 1..Len(sock) : sock[i] = Bytes(heads)[End(heads, Len(reqs)) + Len(buf) + i]

\* A request that decode must refuse, or that was never sent whole.
Refused ==
    /\ Len(reqs) < Len(heads)
    /\ \/ ~Acceptable(heads[Len(reqs) + 1])
       \/ closed = TRUE /\ Sent(heads, todo) < End(heads, Len(reqs) + 1)

Stops ==
    /\ closed \in BOOLEAN /\ eof \in BOOLEAN
    /\ pc \in {"decode", "read", "got", "left"} \cup Ended
    /\ eof = TRUE => closed = TRUE /\ sock = <<>>
    /\ pc = "none" => closed = TRUE /\ Sent(heads, todo) = End(heads, Len(reqs))
    /\ pc = "err" => Sent(heads, todo) > End(heads, Len(reqs)) /\ Refused

WireInv == Wire /\ Taken /\ (pc \notin Ended => InStep) /\ Stops

LEMMA Places ==
    ASSUME Wire, Taken
    PROVE  /\ Len(heads) \in Nat /\ Len(reqs) \in 0..Len(heads)
           /\ Bytes(heads) \in Seq(UnitSet) /\ Len(Bytes(heads)) \in Nat
           /\ Sent(heads, todo) \in Nat /\ Sent(heads, todo) <= Len(Bytes(heads))
           /\ Len(todo) \in Nat /\ Sent(heads, todo) + Len(todo) = Len(Bytes(heads))
           /\ End(heads, Len(reqs)) \in Nat
<1>1. heads \in Seq(Heads) /\ Len(todo) \in Nat /\ Len(todo) <= Len(Bytes(heads))
  BY DEF Wire, Typed
<1>2. Len(heads) \in Nat /\ Len(reqs) \in 0..Len(heads)
  BY <1>1 DEF Taken
<1>3. Bytes(heads) \in Seq(UnitSet) /\ Len(Pre(heads, Len(reqs))) \in Nat
  BY <1>1, <1>2, Ends
<1>4. Len(Bytes(heads)) \in Nat
  BY <1>3
<1> QED BY <1>1, <1>2, <1>3, <1>4 DEF Sent, End

LEMMA WireInit == Init => WireInv
<1> SUFFICES ASSUME Init PROVE WireInv
  OBVIOUS
<1>1. PICK n \in 0..MaxRequests : heads \in [1..n -> Heads]
  BY DEF Init
<1>2. heads \in Seq(Heads) /\ Len(heads) \in Nat
  BY <1>1
<1>3. /\ todo = Bytes(heads) /\ closed = FALSE /\ sock = <<>> /\ buf = <<>> /\ eof = FALSE
      /\ pc = "read" /\ reqs = <<>>
  BY DEF Init
<1>4. Bytes(heads) \in Seq(UnitSet) /\ Len(Bytes(heads)) \in Nat
  BY <1>2, Ends
<1>5. <<>> \in Seq(UnitSet) /\ <<>> \in Seq(Lines) /\ Len(<<>>) = 0
  OBVIOUS
<1>6. Len(sock) = 0 /\ Len(buf) = 0 /\ Len(reqs) = 0 /\ Typed /\ reqs \in Seq(Lines)
  BY <1>3, <1>4, <1>5 DEF Typed
<1>7. End(heads, 0) = 0
  BY <1>2, Ends DEF End
<1>8. Sent(heads, todo) = 0
  BY <1>3, <1>4 DEF Sent
<1>9. Wire
  BY <1>2, <1>3, <1>4, <1>6, <1>8 DEF Wire
<1>10. Taken
  BY <1>2, <1>6, <1>7, <1>8 DEF Taken
<1>11. InStep
  BY <1>6, <1>7, <1>8 DEF InStep
<1>12. Stops
  BY <1>3 DEF Stops, Ended
<1> QED BY <1>9, <1>10, <1>11, <1>12 DEF WireInv

LEMMA Cut ==
    ASSUME NEW S, NEW s \in Seq(S), NEW t \in Seq(S), NEW n \in 1..Len(t)
    PROVE  /\ SubSeq(t, n + 1, Len(t)) \in Seq(S)
           /\ Len(SubSeq(t, n + 1, Len(t))) = Len(t) - n
           /\ \A i \in 1..(Len(t) - n) : SubSeq(t, n + 1, Len(t))[i] = t[n + i]
           /\ s \o SubSeq(t, 1, n) \in Seq(S)
           /\ Len(s \o SubSeq(t, 1, n)) = Len(s) + n
           /\ \A i \in 1..Len(s) : (s \o SubSeq(t, 1, n))[i] = s[i]
           /\ \A i \in 1..n : (s \o SubSeq(t, 1, n))[Len(s) + i] = t[i]
<1>1. PICK a \in Seq(S) : a = SubSeq(t, 1, n) /\ Len(a) = n /\ \A i \in 1..n : a[i] = t[i]
  <2>1. /\ SubSeq(t, 1, n) \in Seq(S) /\ Len(SubSeq(t, 1, n)) = n
        /\ \A i \in 1..n : SubSeq(t, 1, n)[i] = t[i]
    OBVIOUS
  <2> QED BY <2>1, Zenon
<1>2. /\ s \o a \in Seq(S) /\ Len(s \o a) = Len(s) + Len(a)
      /\ \A i \in 1..Len(s) : (s \o a)[i] = s[i]
      /\ \A i \in 1..Len(a) : (s \o a)[Len(s) + i] = a[i]
  BY Grows
<1>3. /\ SubSeq(t, n + 1, Len(t)) \in Seq(S)
      /\ Len(SubSeq(t, n + 1, Len(t))) = Len(t) - n
      /\ \A i \in 1..(Len(t) - n) : SubSeq(t, n + 1, Len(t))[i] = t[n + i]
  BY SMTT(30)
<1> QED BY <1>1, <1>2, <1>3

LEMMA WireSends == ASSUME WireInv, ClientSends PROVE WireInv'
<1> USE DEF WireInv
<1> DEFINE B == Bytes(heads)
           e == End(heads, Len(reqs))
           S == Sent(heads, todo)
<1>1. PICK n \in 1..Len(todo) : /\ sock' = sock \o SubSeq(todo, 1, n)
                                /\ todo' = SubSeq(todo, n + 1, Len(todo))
  BY DEF ClientSends
<1>2. /\ heads' = heads /\ closed' = closed /\ buf' = buf /\ eof' = eof /\ pc' = pc /\ reqs' = reqs
      /\ closed = FALSE
  BY DEF ClientSends, framed, Stops
<1>3. /\ S \in Nat /\ Len(B) \in Nat /\ e \in Nat /\ Len(todo) \in Nat /\ S + Len(todo) = Len(B)
      /\ e <= S
  BY Places DEF Taken
<1>4. /\ todo \in Seq(UnitSet) /\ sock \in Seq(UnitSet) /\ buf \in Seq(UnitSet)
      /\ Len(sock) \in Nat /\ Len(buf) \in Nat
  BY DEF Wire, Typed
<1>5. /\ todo' \in Seq(UnitSet) /\ Len(todo') = Len(todo) - n
      /\ \A i \in 1..(Len(todo) - n) : todo'[i] = todo[n + i]
      /\ sock' \in Seq(UnitSet) /\ Len(sock') = Len(sock) + n
      /\ \A i \in 1..Len(sock) : sock'[i] = sock[i]
      /\ \A i \in 1..n : sock'[Len(sock) + i] = todo[i]
  BY <1>1, <1>4, Cut
<1>6. Sent(heads', todo') = S + n /\ End(heads', Len(reqs')) = e /\ Bytes(heads') = B
  BY <1>2, <1>3, <1>5 DEF Sent
<1>7. \A i \in 1..Len(todo) : todo[i] = B[S + i]
  BY DEF Wire
<1>8. e <= S + n
  BY <1>3
<1>9. Wire'
  <2>1. heads' \in Seq(Heads) /\ Typed'
    BY <1>2, <1>4, <1>5 DEF Wire, Typed
  <2>2. Len(todo') <= Len(B)
    BY <1>3, <1>5, SMTT(30)
  <2>3. ASSUME NEW i \in 1..Len(todo') PROVE todo'[i] = B[(S + n) + i]
    <3>1. i \in 1..(Len(todo) - n) /\ n + i \in 1..Len(todo) /\ S + (n + i) = (S + n) + i
      BY <1>3, <1>5, SMTT(30)
    <3> HIDE DEF B, S
    <3> QED BY <1>5, <1>7, <3>1
  <2> QED BY <1>6, <2>1, <2>2, <2>3 DEF Wire
<1>10. Taken'
  BY <1>2, <1>6, <1>8 DEF Taken
<1>11. ASSUME pc' \notin Ended PROVE InStep'
  <2>1. Len(buf) + Len(sock) = S - e
    BY <1>2, <1>11 DEF InStep
  <2>2. /\ \A i \in 1..Len(buf) : buf[i] = B[e + i]
        /\ \A i \in 1..Len(sock) : sock[i] = B[e + Len(buf) + i]
    BY <1>2, <1>11 DEF InStep
  <2> HIDE DEF B, e, S
  <2>0. /\ n \in Nat /\ n <= Len(todo) /\ S \in Nat /\ e \in Nat
        /\ Len(sock) \in Nat /\ Len(buf) \in Nat /\ Len(todo) \in Nat
        /\ Len(buf') = Len(buf) /\ Len(sock') = Len(sock) + n /\ Len(buf) + Len(sock) = S - e
    BY <1>2, <1>3, <1>4, <1>5, <2>1
  <2>3. Len(buf') + Len(sock') = (S + n) - e
    BY ONLY <2>0
  <2>4. ASSUME NEW i \in 1..Len(sock') PROVE sock'[i] = B[e + Len(buf') + i]
    <3>1. CASE i \in 1..Len(sock)
      BY <1>2, <1>5, <2>2, <3>1
    <3>2. CASE i \notin 1..Len(sock)
      <4>1. /\ i - Len(sock) \in 1..n /\ Len(sock) + (i - Len(sock)) = i
            /\ i - Len(sock) \in 1..Len(todo)
            /\ S + (i - Len(sock)) = e + Len(buf) + i
        BY ONLY <2>0, <3>2, i \in 1..Len(sock')
      <4> QED BY <1>2, <1>5, <1>7, <4>1, ZenonT(40)
    <3> QED BY <3>1, <3>2
  <2> QED BY <1>2, <1>6, <2>2, <2>3, <2>4 DEF InStep, e, B
<1>12. Stops'
  <2>1. pc' # "none" /\ eof' = FALSE
    BY <1>2 DEF Stops
  <2>2. ASSUME pc' = "err" PROVE S + n > e /\ Refused'
    <3>1. S > e /\ Refused
      BY <1>2, <2>2 DEF Stops
    <3>2. S + n > e
      BY <1>3, <3>1
    <3>3. Refused'
      BY <1>2, <3>1 DEF Refused
    <3> QED BY <3>2, <3>3
  <2>3. pc' \in {"decode", "read", "got", "left"} \cup Ended /\ closed' \in BOOLEAN /\ eof' \in BOOLEAN
    BY <1>2 DEF Stops
  <2> QED BY <1>6, <2>1, <2>2, <2>3 DEF Stops
<1> QED BY <1>9, <1>10, <1>11, <1>12

LEMMA WireSame ==
    ASSUME WireInv, UNCHANGED <<heads, todo, sock, buf, reqs, eof>>,
           closed' = closed \/ closed' = TRUE,
           pc' = pc \/ (pc \notin Ended /\ pc' \in {"decode", "read", "got", "left"})
    PROVE  WireInv'
<1> USE DEF WireInv
<1>1. Wire'
  BY DEF Wire, Typed
<1>2. Taken'
  BY DEF Taken
<1>3. ASSUME pc' \notin Ended PROVE InStep'
  BY <1>3 DEF InStep, Ended
<1>4. Stops'
  <2>1. closed' \in BOOLEAN /\ eof' \in BOOLEAN /\ pc' \in {"decode", "read", "got", "left"} \cup Ended
    BY DEF Stops
  <2>2. eof' = TRUE => closed' = TRUE /\ sock' = <<>>
    BY DEF Stops
  <2>3. pc' = "none" => closed' = TRUE /\ Sent(heads', todo') = End(heads', Len(reqs'))
    BY DEF Stops, Ended
  <2>4. ASSUME pc' = "err" PROVE Sent(heads', todo') > End(heads', Len(reqs')) /\ Refused'
    <3>1. pc = "err" /\ Refused /\ Sent(heads, todo) > End(heads, Len(reqs))
      BY <2>4 DEF Stops, Ended
    <3>2. Refused'
      BY <3>1 DEF Refused
    <3> QED BY <3>1, <3>2
  <2> QED BY <2>1, <2>2, <2>3, <2>4 DEF Stops
<1> QED BY <1>1, <1>2, <1>3, <1>4

LEMMA WireRead == ASSUME WireInv, Read PROVE WireInv'
<1> USE DEF WireInv
<1>1. /\ heads' = heads /\ todo' = todo /\ closed' = closed /\ reqs' = reqs
      /\ pc = "read" /\ pc' = "decode" /\ pc \notin Ended /\ pc' \notin Ended
  BY DEF Read, Ended
<1>2. CASE sock # <<>> /\ buf' = buf \o sock /\ sock' = <<>> /\ eof' = eof
  <2> DEFINE B == Bytes(heads)
             e == End(heads, Len(reqs))
             S == Sent(heads, todo)
  <2>1. InStep /\ eof \in BOOLEAN /\ eof # TRUE
    BY <1>1, <1>2 DEF Stops
  <2>2. buf \in Seq(UnitSet) /\ sock \in Seq(UnitSet) /\ Len(buf) \in Nat /\ Len(sock) \in Nat
    BY DEF Wire, Typed
  <2>3. S \in Nat /\ e \in Nat
    BY Places
  <2>4. /\ buf' \in Seq(UnitSet) /\ Len(buf') = Len(buf) + Len(sock)
        /\ \A i \in 1..Len(buf) : buf'[i] = buf[i]
        /\ \A i \in 1..Len(sock) : buf'[Len(buf) + i] = sock[i]
    BY <1>2, <2>2, Grows
  <2>5. sock' \in Seq(UnitSet) /\ Len(sock') = 0
    BY <1>2
  <2>6. Wire'
    BY <1>1, <2>4, <2>5 DEF Wire, Typed
  <2>7. Taken'
    BY <1>1 DEF Taken
  <2>8. InStep'
    <3>1. /\ Len(buf) + Len(sock) = S - e
          /\ \A i \in 1..Len(buf) : buf[i] = B[e + i]
          /\ \A i \in 1..Len(sock) : sock[i] = B[e + Len(buf) + i]
      BY <2>1 DEF InStep
    <3>2. Len(buf') + Len(sock') = S - e
      BY <2>2, <2>4, <2>5, <3>1
    <3> HIDE DEF B, e, S
    <3>3. ASSUME NEW i \in 1..Len(buf') PROVE buf'[i] = B[e + i]
      <4>1. CASE i \in 1..Len(buf)
        BY <2>4, <3>1, <4>1
      <4>2. CASE i \notin 1..Len(buf)
        <5>1. /\ i - Len(buf) \in 1..Len(sock) /\ Len(buf) + (i - Len(buf)) = i
              /\ e + Len(buf) + (i - Len(buf)) = e + i
          BY <2>2, <2>3, <2>4, <4>2
        <5> QED BY <2>4, <3>1, <5>1
      <4> QED BY <4>1, <4>2
    <3> QED BY <1>1, <2>5, <3>2, <3>3 DEF InStep, B, e, S
  <2>9. Stops'
    BY <1>1, <1>2, <2>1 DEF Stops, Ended
  <2> QED BY <2>6, <2>7, <2>8, <2>9
<1>3. CASE sock = <<>> /\ closed /\ eof' = TRUE /\ UNCHANGED <<buf, sock>>
  <2>1. Wire'
    BY <1>1, <1>3 DEF Wire, Typed
  <2>2. Taken'
    BY <1>1 DEF Taken
  <2>3. InStep'
    BY <1>1, <1>3 DEF InStep
  <2>4. closed = TRUE
    BY <1>3 DEF Stops
  <2>5. Stops'
    BY <1>1, <1>3, <2>4 DEF Stops, Ended
  <2> QED BY <2>1, <2>2, <2>3, <2>5
<1> QED BY <1>2, <1>3 DEF Read

\* Where decode stands: the buffer begins the first request not taken.
LEMMA AtDecode ==
    ASSUME WireInv, pc = "decode", buf # <<>>
    PROVE  LET h == heads[Len(reqs) + 1] IN
           /\ Len(reqs) < Len(heads) /\ h \in Heads /\ Agrees(h)
           /\ Sent(heads, todo) > End(heads, Len(reqs))
           /\ End(heads, Len(reqs) + 1) = End(heads, Len(reqs)) + Len(Units(h))
<1> USE DEF WireInv
<1> DEFINE B == Bytes(heads)
           n == Len(reqs)
           e == End(heads, n)
           S == Sent(heads, todo)
           h == heads[n + 1]
<1>1. /\ Len(heads) \in Nat /\ n \in 0..Len(heads) /\ Len(B) \in Nat
      /\ S \in Nat /\ S <= Len(B) /\ e \in Nat
  BY Places
<1>2. buf \in Seq(UnitSet) /\ Len(buf) \in Nat /\ Len(sock) \in Nat /\ Len(buf) >= 1
  BY DEF Wire, Typed
<1>3. Len(buf) + Len(sock) = S - e /\ \A i \in 1..Len(buf) : buf[i] = B[e + i]
  BY DEF InStep, Ended
<1>4. S > e
  BY <1>1, <1>2, <1>3
<1>5. heads \in Seq(Heads)
  BY DEF Wire
<1>6. End(heads, Len(heads)) = Len(B)
  BY <1>5, Ends DEF End
<1>7. n # Len(heads)
  BY <1>1, <1>4, <1>6
<1>8. n \in 0..(Len(heads) - 1) /\ h \in Heads /\ n < Len(heads)
  BY <1>1, <1>5, <1>7
<1>9. /\ Units(h) \in Seq(UnitSet)
      /\ End(heads, n + 1) = e + Len(Units(h))
      /\ \A i \in 1..Len(Units(h)) : B[e + i] = Units(h)[i]
  BY <1>5, <1>8, NextRequest DEF End
<1>10. Agrees(h)
  <2> SUFFICES ASSUME NEW i \in 1..Len(buf), i <= Len(Units(h)) PROVE buf[i] = Units(h)[i]
    BY DEF Agrees
  <2>1. i \in 1..Len(Units(h))
    BY <1>2, <1>9
  <2> HIDE DEF B, e
  <2> QED BY <1>3, <1>9, <2>1
<1> QED BY <1>4, <1>8, <1>9, <1>10

\* decode gives the request up.
LEMMA WireRefuses ==
    ASSUME WireInv, pc = "decode", buf # <<>>, pc' = "err",
           UNCHANGED <<net, eof, reqs>>, buf' \in Seq(UnitSet), Refused
    PROVE  WireInv'
<1> USE DEF WireInv
<1>1. heads' = heads /\ todo' = todo /\ closed' = closed /\ sock' = sock /\ eof' = eof /\ reqs' = reqs
  BY DEF net
<1>2. Wire'
  BY <1>1 DEF Wire, Typed
<1>3. Taken'
  BY <1>1 DEF Taken
<1>4. Sent(heads, todo) > End(heads, Len(reqs))
  BY AtDecode
<1>5. Refused'
  BY <1>1 DEF Refused
<1>6. Stops'
  BY <1>1, <1>4, <1>5 DEF Stops, Ended
<1>7. pc' \in Ended
  BY DEF Ended
<1> QED BY <1>2, <1>3, <1>6, <1>7

\* decode takes the request it returns, and no more.
LEMMA WireTakes ==
    ASSUME WireInv, pc = "decode", Parse = "complete", buf[1].version = 1, buf[1].line # "baduri",
           UNCHANGED <<net, eof>>, buf' = SubSeq(buf, HeadLen + 1, Len(buf)), pc' = "got",
           reqs' = Append(reqs, buf[1].line)
    PROVE  WireInv'
<1> USE DEF WireInv
<1> DEFINE B == Bytes(heads)
           n == Len(reqs)
           e == End(heads, n)
           S == Sent(heads, todo)
           h == heads[n + 1]
           u == Len(Units(h))
<1>1. buf # <<>>
  BY DEF Parse
<1>2. heads' = heads /\ todo' = todo /\ closed' = closed /\ sock' = sock /\ eof' = eof
  BY DEF net
<1>3. buf \in Seq(UnitSet) /\ Len(buf) \in Nat /\ sock \in Seq(UnitSet) /\ Len(sock) \in Nat
  BY DEF Wire, Typed
<1>4. n < Len(heads) /\ h \in Heads /\ Agrees(h) /\ End(heads, n + 1) = e + u
  BY <1>1, AtDecode
<1>5. Len(heads) \in Nat /\ n \in Nat /\ S \in Nat /\ e \in Nat
  BY Places
<1>6. u \in Nat /\ u >= 2
  BY <1>4, UnitsAre
<1>7. Len(buf) >= u
  BY <1>1, <1>3, <1>4, <1>6, PartOfHead
<1>8. buf[1].line = h.line /\ buf[1].version = h.version
  BY <1>1, <1>3, <1>4, Facts
<1>9. HeadLen = u /\ Acceptable(h)
  BY <1>1, <1>3, <1>4, <1>7, <1>8, WholeHead
<1>10. /\ Len(buf) + Len(sock) = S - e
       /\ \A i \in 1..Len(buf) : buf[i] = B[e + i]
       /\ \A i \in 1..Len(sock) : sock[i] = B[e + Len(buf) + i]
  BY DEF InStep, Ended
<1>11. reqs \in Seq(Lines) /\ h.line \in Lines
  BY <1>4 DEF Taken, Heads
<1>12. /\ reqs' \in Seq(Lines) /\ Len(reqs') = n + 1 /\ reqs'[n + 1] = h.line
       /\ \A i \in 1..n : reqs'[i] = reqs[i]
  BY <1>8, <1>11
<1>13. \A i \in 1..n : Acceptable(heads[i]) /\ reqs[i] = heads[i].line
  BY DEF Taken
<1> HIDE DEF B, e, S, u, n, h
<1>14. /\ buf' \in Seq(UnitSet) /\ Len(buf') = Len(buf) - u
       /\ \A i \in 1..(Len(buf) - u) : buf'[i] = buf[u + i]
  <2>1. u \in 1..Len(buf) /\ buf' = SubSeq(buf, u + 1, Len(buf))
    BY <1>3, <1>6, <1>7, <1>9
  <2>2. /\ SubSeq(buf, u + 1, Len(buf)) \in Seq(UnitSet)
        /\ Len(SubSeq(buf, u + 1, Len(buf))) = Len(buf) - u
        /\ \A i \in 1..(Len(buf) - u) : SubSeq(buf, u + 1, Len(buf))[i] = buf[u + i]
    BY <1>3, <2>1
  <2> QED BY <2>1, <2>2
<1>15. Bytes(heads') = B /\ Sent(heads', todo') = S /\ End(heads', Len(reqs')) = e + u
  BY <1>2, <1>4, <1>12 DEF B, S
<1>16. Wire'
  BY <1>2, <1>3, <1>14 DEF Wire, Typed
<1>17. Taken'
  <2>1. Len(reqs') <= Len(heads')
    BY <1>2, <1>4, <1>5, <1>12
  <2>2. ASSUME NEW i \in 1..Len(reqs') PROVE Acceptable(heads'[i]) /\ reqs'[i] = heads'[i].line
    <3>1. CASE i = n + 1
      BY <1>2, <1>9, <1>12, <3>1 DEF h
    <3>2. CASE i # n + 1
      <4>1. i \in 1..n
        BY <1>5, <1>12, <3>2
      <4> QED BY <1>2, <1>12, <1>13, <4>1
    <3> QED BY <3>1, <3>2
  <2>3. e + u <= S
    BY <1>3, <1>5, <1>6, <1>7, <1>10
  <2> QED BY <1>12, <1>15, <2>1, <2>2, <2>3 DEF Taken
<1>18. InStep'
  <2>0. /\ Len(buf) \in Nat /\ Len(sock) \in Nat /\ S \in Nat /\ e \in Nat /\ u \in Nat
        /\ Len(buf) + Len(sock) = S - e /\ Len(buf') = Len(buf) - u /\ Len(sock') = Len(sock)
    BY <1>2, <1>3, <1>5, <1>6, <1>10, <1>14
  <2>1. Len(buf') + Len(sock') = S - (e + u)
    BY ONLY <2>0
  <2>2. ASSUME NEW i \in 1..Len(buf') PROVE buf'[i] = B[(e + u) + i]
    <3>1. i \in 1..(Len(buf) - u) /\ u + i \in 1..Len(buf) /\ e + (u + i) = (e + u) + i
      BY <1>3, <1>5, <1>6, <1>14
    <3> QED BY <1>10, <1>14, <3>1
  <2>3. ASSUME NEW i \in 1..Len(sock') PROVE sock'[i] = B[(e + u) + Len(buf') + i]
    <3>1. i \in 1..Len(sock) /\ (e + u) + Len(buf') + i = e + Len(buf) + i
      BY ONLY <2>0, i \in 1..Len(sock')
    <3> QED BY <1>2, <1>10, <3>1
  <2> QED BY <1>15, <2>1, <2>2, <2>3 DEF InStep
<1>19. Stops'
  BY <1>2 DEF Stops, Ended
<1> QED BY <1>16, <1>17, <1>18, <1>19

LEMMA WireDecode == ASSUME WireInv, decode PROVE WireInv'
<1> DEFINE h == heads[Len(reqs) + 1]
<1>1. pc = "decode" /\ UNCHANGED <<net, eof>>
  BY DEF decode
<1>2. buf \in Seq(UnitSet) /\ Len(buf) \in Nat /\ sock \in Seq(UnitSet) /\ eof \in BOOLEAN
  BY DEF WireInv, Wire, Typed, Stops
<1>3. ASSUME buf # <<>>
      PROVE  /\ Len(reqs) < Len(heads) /\ h \in Heads /\ Agrees(h)
             /\ Sent(heads, todo) > End(heads, Len(reqs))
             /\ End(heads, Len(reqs) + 1) = End(heads, Len(reqs)) + Len(Units(h))
             /\ Len(Units(h)) \in Nat
             /\ buf[1].line = h.line /\ buf[1].version = h.version
  <2>1. /\ Len(reqs) < Len(heads) /\ h \in Heads /\ Agrees(h)
        /\ Sent(heads, todo) > End(heads, Len(reqs))
        /\ End(heads, Len(reqs) + 1) = End(heads, Len(reqs)) + Len(Units(h))
    BY <1>1, <1>3, AtDecode
  <2>2. Len(Units(h)) \in Nat
    BY <2>1, UnitsAre
  <2>3. buf[1].line = h.line /\ buf[1].version = h.version
    BY <1>2, <1>3, <2>1, Facts
  <2> QED BY <2>1, <2>2, <2>3
<1> HIDE DEF h
<1>4. ASSUME buf # <<>>, ~Acceptable(h) PROVE Refused
  BY <1>3, <1>4 DEF Refused, h
<1>5. CASE Parse = "error" /\ pc' = "err" /\ UNCHANGED <<buf, reqs>>
  <2>1. buf # <<>>
    BY <1>5 DEF Parse
  <2>2. ~Acceptable(h)
    <3>1. CASE Len(buf) < Len(Units(h))
      BY <1>2, <1>3, <1>5, <2>1, <3>1, PartOfHead
    <3>2. CASE Len(buf) >= Len(Units(h))
      BY <1>2, <1>3, <1>5, <2>1, <3>2, WholeHead
    <3> QED BY <1>2, <1>3, <2>1, <3>1, <3>2
  <2> QED BY <1>1, <1>2, <1>4, <1>5, <2>1, <2>2, WireRefuses
<1>6. CASE Parse = "partial" /\ ~eof /\ pc' = "read" /\ UNCHANGED <<buf, reqs>>
  <2>1. pc \notin Ended
    BY <1>1 DEF Ended
  <2> QED BY <1>1, <1>6, <2>1, WireSame DEF net
<1>7. CASE Parse = "partial" /\ eof /\ buf = <<>> /\ pc' = "none" /\ UNCHANGED <<buf, reqs>>
  <2>1. eof = TRUE
    BY <1>2, <1>7
  <2>2. closed = TRUE /\ sock = <<>>
    BY <2>1 DEF WireInv, Stops
  <2>3. Len(buf) = 0 /\ Len(sock) = 0
    BY <1>7, <2>2
  <2>4. Sent(heads, todo) = End(heads, Len(reqs))
    <3>1. Sent(heads, todo) \in Nat /\ End(heads, Len(reqs)) \in Nat
      BY Places DEF WireInv
    <3>2. Len(buf) + Len(sock) = Sent(heads, todo) - End(heads, Len(reqs))
      BY <1>1 DEF WireInv, InStep, Ended
    <3> QED BY <2>3, <3>1, <3>2
  <2>5. Wire' /\ Taken'
    BY <1>1, <1>7 DEF WireInv, Wire, Taken, Typed, net
  <2>6. Stops' /\ pc' \in Ended
    BY <1>1, <1>7, <2>2, <2>4 DEF WireInv, Stops, Ended, net
  <2> QED BY <2>5, <2>6 DEF WireInv
<1>8. CASE Parse = "partial" /\ eof /\ buf # <<>> /\ pc' = "err" /\ UNCHANGED <<buf, reqs>>
  <2>1. eof = TRUE
    BY <1>2, <1>8
  <2>2. closed = TRUE /\ sock = <<>>
    BY <2>1 DEF WireInv, Stops
  <2>3. Len(buf) < Len(Units(h))
    <3>1. ~(Len(buf) >= Len(Units(h)))
      BY <1>2, <1>3, <1>8, WholeHead
    <3> QED BY <1>2, <1>3, <1>8, <3>1
  <2>4. Sent(heads, todo) < End(heads, Len(reqs) + 1)
    <3>1. Sent(heads, todo) \in Nat /\ End(heads, Len(reqs)) \in Nat
      BY Places DEF WireInv
    <3>2. Len(buf) + Len(sock) = Sent(heads, todo) - End(heads, Len(reqs))
      BY <1>1 DEF WireInv, InStep, Ended
    <3>3. Len(sock) = 0
      BY <2>2
    <3> QED BY <1>2, <1>3, <1>8, <2>3, <3>1, <3>2, <3>3
  <2>5. Refused
    BY <1>3, <1>8, <2>2, <2>4 DEF Refused
  <2> QED BY <1>1, <1>2, <1>8, <2>5, WireRefuses
<1>9. CASE Parse = "complete" /\ buf[1].version # 1 /\ pc' = "err" /\ UNCHANGED <<buf, reqs>>
  <2>1. buf # <<>>
    BY <1>9 DEF Parse
  <2>2. ~Acceptable(h)
    BY <1>3, <1>9, <2>1 DEF Acceptable
  <2> QED BY <1>1, <1>2, <1>4, <1>9, <2>1, <2>2, WireRefuses
<1>10. CASE Parse = "complete" /\ buf[1].version = 1 /\ Take
  <2>1. buf # <<>>
    BY <1>10 DEF Parse
  <2>2. CASE buf[1].line = "baduri"
    <3>1. ~Acceptable(h)
      BY <1>3, <2>1, <2>2 DEF Acceptable
    <3>2. Len(buf) >= Len(Units(h))
      <4>1. ~(Len(buf) < Len(Units(h)))
        BY <1>2, <1>3, <1>10, <2>1, PartOfHead
      <4> QED BY <1>2, <1>3, <2>1, <4>1
    <3>3. HeadLen = Len(Units(h))
      BY <1>2, <1>3, <2>1, <3>2, WholeHead
    <3>4. buf' = SubSeq(buf, HeadLen + 1, Len(buf)) /\ pc' = "err" /\ UNCHANGED reqs
      BY <1>10, <2>2 DEF Take
    <3>5. buf' \in Seq(UnitSet)
      BY <1>2, <1>3, <2>1, <3>3, <3>4, SubSeqTyped
    <3> QED BY <1>1, <1>4, <2>1, <3>1, <3>4, <3>5, WireRefuses
  <2>3. CASE buf[1].line # "baduri"
    BY <1>1, <1>10, <2>3, WireTakes DEF Take
  <2> QED BY <2>2, <2>3
<1> QED BY <1>5, <1>6, <1>7, <1>8, <1>9, <1>10 DEF decode

LEMMA WireStep == WireInv /\ [Next]_vars => WireInv'
<1> SUFFICES ASSUME WireInv, [Next]_vars PROVE WireInv'
  OBVIOUS
<1>1. CASE ClientSends
  BY <1>1, WireSends
<1>2. CASE ClientCloses
  BY <1>2, WireSame DEF ClientCloses, framed
<1>3. CASE Tick
  BY <1>3, WireSame DEF Tick, framed, net
<1>4. CASE StepBack
  BY <1>4, WireSame DEF StepBack, framed, net
<1>5. CASE decode
  BY <1>5, WireDecode
<1>6. CASE Read
  BY <1>6, WireRead
<1>7. CASE Leave
  BY <1>7, WireSame DEF Leave, net, Ended
<1>8. ASSUME NEW t \in Threads, encode(t) PROVE WireInv'
  <2>1. pc \notin Ended /\ pc' = "decode" /\ UNCHANGED <<net, buf, eof, reqs>>
    BY <1>8 DEF encode, Ended
  <2> QED BY <2>1, WireSame DEF net
<1>9. CASE UNCHANGED vars
  BY <1>9, WireSame DEF vars, net, framed
<1> QED BY <1>1, <1>2, <1>3, <1>4, <1>5, <1>6, <1>7, <1>8, <1>9 DEF Next, Server
-----------------------------------------------------------------------------
LEMMA ClockEncode == ASSUME ClockInv, NEW t \in Threads, encode(t) PROVE ClockInv'
<1>1. PICK c : c = fmt(last[t])
  OBVIOUS
<1>2. /\ pc' = "decode" /\ reqs' = reqs /\ now' = now /\ high' = high
      /\ last' = [last EXCEPT ![t] = c]
      /\ out' = Append(out, [date |-> c.date, from |-> Second(now), to |-> Second(high)])
      /\ pc = "got"
  BY <1>1 DEF encode, clock
<1>3. c \in [date : Nat, next_update : Nat] /\ Rendered(c)
  BY <1>1, Cached
<1>4. /\ reqs \in Seq(Lines) /\ out \in Seq(OutSet) /\ Len(reqs) >= 1
      /\ now \in Nat /\ high \in Nat /\ now <= high /\ high <= MaxTime
      /\ last \in [Threads -> [date : Nat, next_update : Nat]]
      /\ \A s \in Threads : Rendered(last[s])
  BY <1>2 DEF ClockInv
<1>5. out' \in Seq(OutSet)
  <2>2. Second(now) \in Nat /\ Second(high) \in Nat /\ c.date \in Nat
    BY <1>3, <1>4, Halves
  <2>3. [date |-> c.date, from |-> Second(now), to |-> Second(high)] \in OutSet
    BY <2>2 DEF OutSet
  <2> QED BY <1>2, <1>4, <2>3
<1>6. last' \in [Threads -> [date : Nat, next_update : Nat]]
  BY <1>2, <1>3, <1>4
<1>7. ASSUME NEW s \in Threads PROVE Rendered(last[s])'
  <2>1. last'[s] = IF s = t THEN c ELSE last[s]
    BY <1>2, <1>4
  <2>2. Rendered(last'[s])
    BY <1>3, <1>4, <2>1
  <2> QED BY <1>2, <2>2 DEF Rendered
<1> QED BY <1>2, <1>4, <1>5, <1>6, <1>7 DEF ClockInv

LEMMA ClockStep == WireInv /\ ClockInv /\ [Next]_vars => ClockInv'
<1> SUFFICES ASSUME WireInv, ClockInv, [Next]_vars PROVE ClockInv'
  OBVIOUS
<1>0. reqs \in Seq(Lines) /\ (pc = "got" => Len(reqs) >= 1)
  BY DEF ClockInv
<1>1. CASE ClientSends
  BY <1>0, <1>1, ClockQuiet DEF ClientSends, framed
<1>2. CASE ClientCloses
  BY <1>0, <1>2, ClockQuiet DEF ClientCloses, framed
<1>3. CASE Tick
  <2>1. /\ now' = now + 1 /\ high' = Max({high, now + 1}) /\ now < MaxTime /\ UNCHANGED <<reqs, out, last, pc>>
    BY <1>3 DEF Tick, framed
  <2>2. /\ now \in Nat /\ high \in Nat /\ now <= high /\ high <= MaxTime /\ MaxTime \in Nat
        /\ last \in [Threads -> [date : Nat, next_update : Nat]]
        /\ \A t \in Threads : Rendered(last[t])
    BY BoundsAssumption DEF ClockInv
  <2>3. /\ high' \in {high, now + 1} /\ high' >= high /\ high' >= now + 1
    <3>1. \E x \in {high, now + 1} : \A y \in {high, now + 1} : x >= y
      BY <2>2
    <3>2. high' = CHOOSE x \in {high, now + 1} : \A y \in {high, now + 1} : x >= y
      BY <2>1 DEF Max
    <3> QED BY <3>1, <3>2
  <2>4. high' \in Nat /\ high' <= MaxTime /\ now' <= high' /\ now' \in Nat
    BY <2>1, <2>2, <2>3
  <2>5. ASSUME NEW t \in Threads PROVE Rendered(last[t])'
    <3>1. Second(high) <= Second(high') /\ Second(high) \in Nat /\ Second(high') \in Nat
      BY <2>2, <2>3, <2>4, Halves
    <3>2. last[t] \in [date : Nat, next_update : Nat] /\ Rendered(last[t])
      BY <2>2
    <3>3. last'[t] = last[t] /\ last[t].date \in Nat
      BY <2>1, <3>2
    <3> QED BY <3>1, <3>2, <3>3 DEF Rendered
  <2> QED BY <2>1, <2>2, <2>4, <2>5 DEF ClockInv
<1>4. CASE StepBack
  <2>1. PICK t \in 0..MaxTime : t < now /\ now' = t
    BY <1>4 DEF StepBack
  <2>2. UNCHANGED <<reqs, out, last, pc, high>>
    BY <1>4 DEF StepBack, framed
  <2>3. now' \in Nat /\ now' <= high
    BY <2>1, BoundsAssumption DEF ClockInv
  <2> QED BY <2>2, <2>3 DEF ClockInv, Rendered
<1>5. CASE decode
  <2>1. UNCHANGED <<out, last, clock>>
    BY <1>5 DEF decode
  <2>2. reqs' \in Seq(Lines)
    BY <1>5, WireDecode DEF WireInv, Taken
  <2>3. ASSUME pc' = "got" PROVE Len(reqs') >= 1
    <3>1. reqs' = Append(reqs, buf[1].line) /\ Parse = "complete"
      BY <1>5, <2>3 DEF decode, Take
    <3>2. buf[1].line \in Lines
      BY <3>1, TakeLine DEF WireInv, Wire
    <3> QED BY <1>0, <3>1, <3>2
  <2> QED BY <2>1, <2>2, <2>3, ClockQuiet
<1>6. CASE Read
  BY <1>0, <1>6, ClockQuiet DEF Read
<1>7. CASE Leave
  BY <1>0, <1>7, ClockQuiet DEF Leave
<1>8. ASSUME NEW t \in Threads, encode(t) PROVE ClockInv'
  BY <1>8, ClockEncode
<1>9. CASE UNCHANGED vars
  BY <1>0, <1>9, ClockQuiet DEF vars, framed
<1> QED BY <1>1, <1>2, <1>3, <1>4, <1>5, <1>6, <1>7, <1>8, <1>9 DEF Next, Server

LEMMA Invariants == Spec => [](WireInv /\ ClockInv)
<1>1. Init => WireInv /\ ClockInv
  BY WireInit, ClockInit
<1>2. (WireInv /\ ClockInv) /\ [Next]_vars => (WireInv /\ ClockInv)'
  BY WireStep, ClockStep
<1> QED BY <1>1, <1>2, PTL DEF Spec

\* The answers, and the steps that add none.
LEMMA OutGrows ==
    ASSUME [Next]_vars
    PROVE  out' = out \/ \E t \in Threads : encode(t)
BY DEF Next, Server, ClientSends, ClientCloses, Tick, StepBack, decode, Read, Leave, vars

LEMMA OutAppended ==
    ASSUME ClockInv, NEW t \in Threads, encode(t)
    PROVE  /\ Len(out) \in Nat /\ Len(out') = Len(out) + 1 /\ \A i \in 1..Len(out) : out'[i] = out[i]
           /\ out'[Len(out) + 1].date = fmt(last[t]).date
           /\ out'[Len(out) + 1].from = Second(now)
           /\ out'[Len(out) + 1].to = Second(high)
<1> DEFINE r == [date |-> fmt(last[t]).date, from |-> Second(now), to |-> Second(high)]
<1>1. out' = Append(out, r)
  BY DEF encode
<1>2. out \in Seq(OutSet)
  BY DEF ClockInv
<1>3. r.date = fmt(last[t]).date /\ r.from = Second(now) /\ r.to = Second(high)
  BY Zenon
<1> HIDE DEF r
<1>4. /\ Len(out) \in Nat /\ Len(out') = Len(out) + 1 /\ \A i \in 1..Len(out) : out'[i] = out[i]
      /\ out'[Len(out) + 1] = r
  BY <1>1, <1>2
<1> QED BY <1>3, <1>4

\* Whichever thread answers, and however the clock is set meanwhile, the Date
\* of a response lies between the clock and the latest time it has shown: the
\* cache of Display for Now is never used past the second it was rendered in.
THEOREM DatesWithinClock == Spec => []DateWithinClock
<1>1. Init => DateWithinClock
  BY DEF Init, DateWithinClock
<1>2. DateWithinClock /\ WireInv /\ ClockInv /\ ClockInv' /\ [Next]_vars => DateWithinClock'
  <2> SUFFICES ASSUME DateWithinClock, WireInv, ClockInv, ClockInv', [Next]_vars PROVE DateWithinClock'
    OBVIOUS
  <2>1. CASE out' = out
    BY <2>1 DEF DateWithinClock
  <2>2. ASSUME NEW t \in Threads, encode(t) PROVE DateWithinClock'
    <3>1. /\ Len(out) \in Nat /\ Len(out') = Len(out) + 1 /\ \A i \in 1..Len(out) : out'[i] = out[i]
          /\ out'[Len(out) + 1].date = fmt(last[t]).date
          /\ out'[Len(out) + 1].from = Second(now)
          /\ out'[Len(out) + 1].to = Second(high)
      BY <2>2, OutAppended
    <3>2. PICK c : c = fmt(last[t])
      OBVIOUS
    <3>3. c \in [date : Nat, next_update : Nat] /\ Second(now) <= c.date /\ c.date <= Second(high)
      BY <3>2, Cached
    <3>4. Second(now) \in Nat /\ Second(high) \in Nat
      BY Halves DEF ClockInv
    <3>5. c.date \in Second(now)..Second(high)
      BY <3>3, <3>4
    <3>6. ASSUME NEW i \in 1..Len(out') PROVE out'[i].date \in out'[i].from..out'[i].to
      <4>1. CASE i = Len(out) + 1
        BY <3>1, <3>2, <3>5, <4>1
      <4>2. CASE i # Len(out) + 1
        <5>1. i \in 1..Len(out)
          BY <3>1, <4>2
        <5> QED BY <3>1, <5>1 DEF DateWithinClock
      <4> QED BY <4>1, <4>2
    <3> QED BY <3>6 DEF DateWithinClock
  <2> QED BY <2>1, <2>2, OutGrows
<1> QED BY <1>1, <1>2, Invariants, PTL DEF Spec
-----------------------------------------------------------------------------
\* What the stream's invariant says of the properties.

LEMMA EndsAre == ASSUME NEW k PROVE EndOf(k) = End(heads, k) /\ SentLen = Sent(heads, todo)
BY DEF EndOf, End, Pre, SentLen, Sent

LEMMA InAnswerable ==
    ASSUME WireInv
    PROVE  /\ Len(reqs) \in Answerable
           /\ pc \in Ended => Len(reqs) = Max(Answerable)
<1>1. /\ Len(heads) \in Nat /\ Len(reqs) \in 0..Len(heads)
      /\ Sent(heads, todo) \in Nat /\ End(heads, Len(reqs)) \in Nat
  BY Places DEF WireInv
<1>2. Len(reqs) \in Answerable
  BY <1>1, EndsAre DEF Answerable, WireInv, Taken
<1>3. ASSUME pc \in Ended, NEW k \in Answerable PROVE k <= Len(reqs)
  <2> SUFFICES ASSUME k > Len(reqs) PROVE FALSE
    BY <1>1 DEF Answerable
  <2> DEFINE n == Len(reqs)
  <2>1. /\ k \in 0..Len(heads) /\ End(heads, k) <= Sent(heads, todo)
        /\ \A i \in 1..k : Acceptable(heads[i])
    BY EndsAre DEF Answerable
  <2>2. n + 1 \in 1..k /\ n + 1 \in 0..k /\ n \in 0..(Len(heads) - 1) /\ n + 1 \in 0..Len(heads)
    BY <1>1, <2>1
  <2>3. heads \in Seq(Heads)
    BY DEF WireInv, Wire
  <2>4. End(heads, n + 1) <= End(heads, k) /\ End(heads, k) \in Nat /\ End(heads, n + 1) \in Nat
    BY <2>1, <2>2, <2>3, Ends DEF End
  <2>5. End(heads, n) < End(heads, n + 1)
    <3>1. PICK u : u = Units(heads[n + 1])
      OBVIOUS
    <3>2. End(heads, n + 1) = End(heads, n) + Len(u) /\ Len(u) >= 2 /\ u \in Seq(UnitSet)
      BY <2>2, <2>3, <3>1, NextRequest DEF End
    <3>3. Len(u) \in Nat
      BY <3>2
    <3> QED BY <1>1, <3>2, <3>3
  <2>6. CASE pc = "none"
    <3>1. Sent(heads, todo) = End(heads, n)
      BY <2>6 DEF WireInv, Stops
    <3> QED BY <1>1, <2>1, <2>4, <2>5, <3>1
  <2>7. CASE pc = "err"
    <3>1. ~Acceptable(heads[n + 1]) \/ Sent(heads, todo) < End(heads, n + 1)
      BY <2>7 DEF WireInv, Stops, Refused
    <3>2. Acceptable(heads[n + 1])
      BY <2>1, <2>2
    <3>3. Sent(heads, todo) < End(heads, n + 1)
      BY <3>1, <3>2
    <3> QED BY <1>1, <2>1, <2>4, <3>3
  <2> QED BY <1>3, <2>6, <2>7 DEF Ended
<1>4. ASSUME pc \in Ended PROVE Len(reqs) = Max(Answerable)
  <2>1. \A y \in Answerable : Len(reqs) >= y /\ y \in Nat
    BY <1>1, <1>3, <1>4 DEF Answerable
  <2>2. Max(Answerable) \in Answerable /\ \A y \in Answerable : Max(Answerable) >= y
    BY <1>2, <2>1 DEF Max
  <2> QED BY <1>1, <1>2, <2>1, <2>2
<1> QED BY <1>2, <1>4

\* s and then t stand at the places e + 1 to m of b.
Stand(s, t, b, e, m) ==
    /\ e <= m /\ m <= Len(b) /\ Len(s) + Len(t) = m - e
    /\ \A i \in 1..Len(s) : s[i] = b[e + i]
    /\ \A i \in 1..Len(t) : t[i] = b[e + Len(s) + i]

Between(s, t, b, e, m) == s \o t = SubSeq(b, e + 1, m)

LEMMA Sequel ==
    ASSUME NEW S, NEW b \in Seq(S), NEW e \in Nat, NEW m \in Nat,
           NEW s \in Seq(S), NEW t \in Seq(S), Stand(s, t, b, e, m)
    PROVE  Between(s, t, b, e, m)
<1> USE DEF Stand
<1>1. PICK a \in Seq(S) : /\ a = s \o t /\ Len(a) = Len(s) + Len(t)
                          /\ \A i \in 1..Len(s) : a[i] = s[i]
                          /\ \A i \in 1..Len(t) : a[Len(s) + i] = t[i]
  <2>1. /\ s \o t \in Seq(S) /\ Len(s \o t) = Len(s) + Len(t)
        /\ \A i \in 1..Len(s) : (s \o t)[i] = s[i]
        /\ \A i \in 1..Len(t) : (s \o t)[Len(s) + i] = t[i]
    BY Grows, SMTT(30)
  <2> QED BY <2>1, Zenon
<1>2. PICK c \in Seq(S) : c = SubSeq(b, e + 1, m) /\ Len(c) = m - e /\ \A i \in 1..(m - e) : c[i] = b[e + i]
  <2>1. /\ SubSeq(b, e + 1, m) \in Seq(S) /\ Len(SubSeq(b, e + 1, m)) = m - e
        /\ \A i \in 1..(m - e) : SubSeq(b, e + 1, m)[i] = b[e + i]
    OBVIOUS
  <2> QED BY <2>1, Zenon
<1>3. Len(s) \in Nat /\ Len(t) \in Nat
  OBVIOUS
<1>4. ASSUME NEW i \in 1..Len(a) PROVE a[i] = c[i]
  <2>0. i \in 1..(m - e)
    BY <1>1
  <2>1. CASE i \in 1..Len(s)
    BY <1>1, <1>2, <2>0, <2>1
  <2>2. CASE i \notin 1..Len(s)
    <3>1. /\ i - Len(s) \in 1..Len(t) /\ Len(s) + (i - Len(s)) = i
          /\ e + Len(s) + (i - Len(s)) = e + i
      BY <1>1, <1>3, <2>2
    <3> QED BY <1>1, <1>2, <2>0, <3>1
  <2> QED BY <2>1, <2>2
<1>5. Len(a) = Len(c)
  BY <1>1, <1>2
<1>6. a = c
  BY <1>4, <1>5, SMTT(30)
<1> QED BY <1>1, <1>2, <1>6 DEF Between

\* However the client's stream is cut into segments, and wherever it ends, the
\* loop gets the client's requests in order up to the first that decode must
\* refuse, all of them when it has ended; and it ends cleanly only when the
\* client closed between two requests.
THEOREM RequestsComeAsSent == Spec => []RequestsAsSent
<1>1. WireInv => RequestsAsSent
  <2> SUFFICES ASSUME WireInv PROVE RequestsAsSent
    OBVIOUS
  <2>1. Len(reqs) \in Answerable /\ (pc \in Ended => Len(reqs) = Max(Answerable))
    BY InAnswerable
  <2>2. \A i \in 1..Len(reqs) : reqs[i] = heads[i].line
    BY DEF WireInv, Taken
  <2>3. pc = "none" => closed /\ SentLen = EndOf(Len(reqs))
    BY EndsAre DEF WireInv, Stops
  <2>4. pc = "err" => SentLen > EndOf(Len(reqs))
    BY EndsAre DEF WireInv, Stops
  <2> QED BY <2>1, <2>2, <2>3, <2>4 DEF RequestsAsSent
<1> QED BY <1>1, Invariants, PTL

\* decode's split_to takes exactly the head it returns: what is in the buffer
\* of Framed and in the socket is the rest of what the client has sent.
THEOREM BufferStaysInStep == Spec => []BufferInStep
<1>1. WireInv => BufferInStep
  <2> SUFFICES ASSUME WireInv, pc \notin Ended
               PROVE  buf \o sock = SubSeq(Bytes(heads), EndOf(Len(reqs)) + 1, SentLen)
    BY DEF BufferInStep
  <2>1. /\ Bytes(heads) \in Seq(UnitSet) /\ Sent(heads, todo) \in Nat
        /\ Sent(heads, todo) <= Len(Bytes(heads)) /\ End(heads, Len(reqs)) \in Nat
        /\ End(heads, Len(reqs)) <= Sent(heads, todo)
    BY Places DEF WireInv, Taken
  <2>2. buf \in Seq(UnitSet) /\ sock \in Seq(UnitSet)
    BY DEF WireInv, Wire, Typed
  <2>3. /\ Len(buf) + Len(sock) = Sent(heads, todo) - End(heads, Len(reqs))
        /\ \A i \in 1..Len(buf) : buf[i] = Bytes(heads)[End(heads, Len(reqs)) + i]
        /\ \A i \in 1..Len(sock) : sock[i] = Bytes(heads)[End(heads, Len(reqs)) + Len(buf) + i]
    BY DEF WireInv, InStep
  <2>4. buf \o sock = SubSeq(Bytes(heads), End(heads, Len(reqs)) + 1, Sent(heads, todo))
    <3>1. Stand(buf, sock, Bytes(heads), End(heads, Len(reqs)), Sent(heads, todo))
      BY <2>1, <2>3 DEF Stand
    <3>2. Between(buf, sock, Bytes(heads), End(heads, Len(reqs)), Sent(heads, todo))
      BY <2>1, <2>2, <3>1, Sequel
    <3> QED BY <3>2 DEF Between
  <2> QED BY <2>4, EndsAre
<1> QED BY <1>1, Invariants, PTL

\* Every variable keeps its type: among it, no request whose path or line is
\* refused is ever returned, and a cached date is good for at most a second past the clock's latest time.
THEOREM TypeCorrect == Spec => []TypeOK
<1>1. WireInv /\ ClockInv => TypeOK
  <2> SUFFICES ASSUME WireInv, ClockInv PROVE TypeOK
    OBVIOUS
  <2>1. /\ heads \in Seq(Heads) /\ closed \in BOOLEAN /\ eof \in BOOLEAN
        /\ pc \in {"decode", "read", "got", "left"} \cup Ended
    BY DEF WireInv, Wire, Stops
  <2>2. reqs \in Seq(Lines \ {"baduri", "malformed"})
    <3>1. reqs \in Seq(Lines) /\ \A i \in 1..Len(reqs) : reqs[i] \in Lines
      BY DEF ClockInv
    <3>2. ASSUME NEW i \in 1..Len(reqs) PROVE reqs[i] \notin {"baduri", "malformed"}
      BY DEF WireInv, Taken, Acceptable
    <3>3. \A i \in 1..Len(reqs) : reqs[i] \in Lines \ {"baduri", "malformed"}
      BY <3>1, <3>2
    <3> DEFINE L == Lines \ {"baduri", "malformed"}
    <3> HIDE DEF L
    <3>4. \A i \in 1..Len(reqs) : reqs[i] \in L
      BY <3>3 DEF L
    <3>5. reqs \in Seq(L)
      BY <3>1, <3>4
    <3> QED BY <3>5 DEF L
  <2>3. out \in Seq([date : Nat, from : Nat, to : Nat])
    BY DEF ClockInv, OutSet
  <2>4. now \in 0..MaxTime /\ high \in now..MaxTime
    BY BoundsAssumption DEF ClockInv
  <2>5. last \in [Threads -> [date : Nat, next_update : 0..(MaxTime + 2)]]
    <3>1. last \in [Threads -> [date : Nat, next_update : Nat]] /\ high \in Nat /\ high <= MaxTime
      BY DEF ClockInv
    <3>2. Second(high) \in Nat /\ 2 * Second(high) <= high /\ MaxTime \in Nat
      BY <3>1, Halves, BoundsAssumption
    <3>3. ASSUME NEW t \in Threads PROVE last[t] \in [date : Nat, next_update : 0..(MaxTime + 2)]
      <4>1. last[t] \in [date : Nat, next_update : Nat] /\ Rendered(last[t])
        BY DEF ClockInv
      <4>2. last[t].date \in Nat /\ last[t].next_update \in Nat
        BY <4>1
      <4>3. last[t].next_update <= MaxTime + 2
        BY <3>1, <3>2, <4>1, <4>2 DEF Rendered
      <4>4. last[t].next_update \in 0..(MaxTime + 2)
        BY <3>2, <4>2, <4>3
      <4> QED BY <4>1, <4>2, <4>4
    <3> QED BY <3>1, <3>3
  <2> QED BY <2>1, <2>2, <2>3, <2>4, <2>5 DEF TypeOK
<1> QED BY <1>1, Invariants, PTL
=============================================================================
