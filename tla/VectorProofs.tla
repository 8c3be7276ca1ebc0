------------------------------ MODULE VectorProofs ------------------------------
(***************************************************************************)
(* Facts about vectors that the proofs of several components cite.         *)
(***************************************************************************)
EXTENDS Vectors, TLAPS, WellFoundedInduction

\* Every non-empty set of natural numbers has a least element.
LEMMA LeastNat ==
  ASSUME NEW S \in SUBSET Nat, S # {}
  PROVE  \E m \in S : \A n \in S : m <= n
<1> DEFINE R == {ss \in Nat \X Nat : ss[1] < ss[2]}
<1>1. IsWellFoundedOn(R, Nat)
  BY NatLessThanWellFounded DEF OpToRel
<1>2. PICK m \in S : \A n \in S : ~(<<n, m>> \in R)
  BY <1>1, WFMin
<1>3. ASSUME NEW n \in S PROVE m <= n
  <2>1. m \in Nat /\ n \in Nat OBVIOUS
  <2>2. <<n, m>> \in Nat \X Nat BY <2>1
  <2>3. ~(<<n, m>>[1] < <<n, m>>[2]) BY <1>2, <2>2
  <2> QED BY <2>1, <2>3
<1> QED BY <1>3

\* The step of the recursion in Within.
Keep(s, S, before, n) == IF s[n] \in S THEN Append(before, s[n]) ELSE before

IsKept(f, s, S, m) ==
    f = [n \in 0 .. m |-> IF n = 0 THEN <<>>
                          ELSE IF s[n] \in S THEN Append(f[n - 1], s[n]) ELSE f[n - 1]]

\* The recursion defines a function, whatever the length.
LEMMA KeptExists ==
  ASSUME NEW s, NEW S, NEW m \in Nat
  PROVE  \E f : IsKept(f, s, S, m)
<1> DEFINE Bad == {n \in Nat : ~\E f : IsKept(f, s, S, n)}
<1> SUFFICES ASSUME Bad # {} PROVE FALSE OBVIOUS
<1>1. PICK n \in Bad : \A k \in Bad : n <= k BY LeastNat
<1>2. n # 0
  <2>1. IsKept([k \in 0 .. 0 |-> <<>>], s, S, 0) BY DEF IsKept
  <2> QED BY <2>1
<1>3. n - 1 \in Nat /\ n - 1 \notin Bad BY <1>1, <1>2
<1>4. PICK f : IsKept(f, s, S, n - 1) BY <1>3
<1> DEFINE g == [k \in 0 .. n |-> IF k = n THEN Keep(s, S, f[n - 1], n) ELSE f[k]]
<1>5. ASSUME NEW k \in 0 .. n
      PROVE  g[k] = IF k = 0 THEN <<>>
                    ELSE IF s[k] \in S THEN Append(g[k - 1], s[k]) ELSE g[k - 1]
  <2>1. CASE k = n
    <3>1. k - 1 \in 0 .. n /\ k - 1 # n /\ k # 0 BY <1>2, <1>3, <2>1
    <3> QED BY <2>1, <3>1 DEF Keep
  <2>2. CASE k # n
    <3>1. k \in 0 .. n - 1 /\ g[k] = f[k] BY <1>3, <2>2
    <3>2. f[k] = IF k = 0 THEN <<>>
                 ELSE IF s[k] \in S THEN Append(f[k - 1], s[k]) ELSE f[k - 1]
      BY <1>4, <3>1 DEF IsKept
    <3>3. k # 0 => g[k - 1] = f[k - 1] BY <1>3, <3>1
    <3> QED BY <3>1, <3>2, <3>3
  <2> QED BY <2>1, <2>2
<1>6. IsKept(g, s, S, n)
  <2>1. g = [k \in 0 .. n |-> IF k = 0 THEN <<>>
                              ELSE IF s[k] \in S THEN Append(g[k - 1], s[k]) ELSE g[k - 1]]
    BY <1>5
  <2> QED BY <2>1 DEF IsKept
<1> QED BY <1>6

\* What is kept of a vector: the elements that are in S, no one of them twice if the
\* vector holds none twice.
LEMMA WithinIs ==
  ASSUME NEW T, NEW s \in Seq(T), NEW S
  PROVE  /\ Within(s, S) \in Seq(T)
         /\ Range(Within(s, S)) = Range(s) \cap S
         /\ IsInjective(s) => IsInjective(Within(s, S))
<1> DEFINE f == CHOOSE f : IsKept(f, s, S, Len(s))
<1>1. Len(s) \in Nat /\ DOMAIN s = 1 .. Len(s) /\ \A i \in 1 .. Len(s) : s[i] \in T OBVIOUS
<1>2. IsKept(f, s, S, Len(s)) BY <1>1, KeptExists
<1>3. Within(s, S) = f[Len(s)] BY DEF Within, IsKept
<1> HIDE DEF f
<1> DEFINE Good(n) == /\ f[n] \in Seq(T)
                      /\ Range(f[n]) = {s[i] : i \in 1 .. n} \cap S
                      /\ IsInjective(s) => IsInjective(f[n])
           Bad == {n \in 0 .. Len(s) : ~Good(n)}
<1>4. Bad = {}
  <2> SUFFICES ASSUME Bad # {} PROVE FALSE OBVIOUS
  <2>1. Bad \in SUBSET Nat BY <1>1
  <2>2. PICK n \in Bad : \A k \in Bad : n <= k BY <2>1, LeastNat
  <2>3. n \in 0 .. Len(s) /\ ~Good(n) OBVIOUS
  <2>4. n # 0
    <3>1. f[0] = <<>> BY <1>1, <1>2 DEF IsKept
    <3>2. Good(0) BY <3>1 DEF Range, IsInjective
    <3> QED BY <2>3, <3>2
  <2>5. n - 1 \in 0 .. Len(s) /\ n \in 1 .. Len(s) BY <1>1, <2>3, <2>4
  <2>6. Good(n - 1)
    <3>1. n - 1 \in Bad => n <= n - 1 BY <2>2
    <3>2. n - 1 \notin Bad
      <4>1. n \in Int BY <1>1, <2>5
      <4> HIDE DEF Bad
      <4> QED BY <3>1, <4>1
    <3> QED BY <2>5, <3>2
  <2>7. f[n] = IF s[n] \in S THEN Append(f[n - 1], s[n]) ELSE f[n - 1]
    BY <1>2, <2>3, <2>4 DEF IsKept
  <2> DEFINE p == f[n - 1]
  <2>8. /\ p \in Seq(T) /\ Range(p) = {s[i] : i \in 1 .. n - 1} \cap S
        /\ IsInjective(s) => IsInjective(p)
    BY <2>6
  <2>9. s[n] \in T /\ {s[i] : i \in 1 .. n} = {s[i] : i \in 1 .. n - 1} \cup {s[n]}
    BY <1>1, <2>5
  <2> HIDE DEF p, Good
  <2>10. CASE s[n] \in S
    <3>1. f[n] = Append(p, s[n]) BY <2>7, <2>10 DEF p
    <3>2. /\ Append(p, s[n]) \in Seq(T) /\ Len(p) \in Nat /\ DOMAIN p = 1 .. Len(p)
          /\ DOMAIN Append(p, s[n]) = 1 .. Len(p) + 1
          /\ \A i \in 1 .. Len(p) : Append(p, s[n])[i] = p[i]
          /\ Append(p, s[n])[Len(p) + 1] = s[n]
      BY <2>8, <2>9
    <3>3. Range(Append(p, s[n])) = Range(p) \cup {s[n]}
      <4>1. \A i \in 1 .. Len(p) + 1 : i \in 1 .. Len(p) \/ i = Len(p) + 1 BY <3>2
      <4>2. Range(Append(p, s[n])) \subseteq Range(p) \cup {s[n]}
        BY <3>2, <4>1 DEF Range
      <4>3. Range(p) \subseteq Range(Append(p, s[n]))
        <5>1. \A i \in 1 .. Len(p) : i \in 1 .. Len(p) + 1 BY <3>2
        <5> QED BY <3>2, <5>1 DEF Range
      <4>4. s[n] \in Range(Append(p, s[n]))
        <5>1. Len(p) + 1 \in 1 .. Len(p) + 1 BY <3>2
        <5> QED BY <3>2, <5>1 DEF Range
      <4> QED BY <4>2, <4>3, <4>4
    <3>4. ASSUME IsInjective(s) PROVE IsInjective(Append(p, s[n]))
      <4>1. s[n] \notin Range(p)
        <5>1. ASSUME NEW i \in 1 .. n - 1 PROVE s[i] # s[n]
          <6>1. i \in 1 .. Len(s) /\ i # n BY <1>1, <2>5
          <6> QED BY <1>1, <2>5, <3>4, <6>1 DEF IsInjective
        <5> QED BY <2>8, <5>1
      <4>2. \A i \in 1 .. Len(p) : p[i] # s[n] BY <3>2, <4>1 DEF Range
      <4>3. \A i, j \in 1 .. Len(p) : p[i] = p[j] => i = j BY <2>8, <3>2, <3>4 DEF IsInjective
      <4>4. \A i \in 1 .. Len(p) + 1 : i \in 1 .. Len(p) \/ i = Len(p) + 1 BY <3>2
      <4> QED BY <3>2, <4>2, <4>3, <4>4 DEF IsInjective
    <3>5. Good(n) BY <2>8, <2>9, <2>10, <3>1, <3>2, <3>3, <3>4 DEF Good
    <3> QED BY <2>3, <3>5
  <2>11. CASE s[n] \notin S
    <3>1. f[n] = p BY <2>7, <2>11 DEF p
    <3>2. Good(n) BY <2>8, <2>9, <2>11, <3>1 DEF Good
    <3> QED BY <2>3, <3>2
  <2> QED BY <2>10, <2>11
<1>5. Good(Len(s))
  <2>1. Len(s) \in 0 .. Len(s) BY <1>1
  <2> QED BY <1>4, <2>1
<1>6. {s[i] : i \in 1 .. Len(s)} = Range(s) BY <1>1 DEF Range
<1> QED BY <1>3, <1>5, <1>6

LEMMA RemovedIs ==
  ASSUME NEW T, NEW s \in Seq(T), NEW x
  PROVE  /\ Removed(s, x) \in Seq(T)
         /\ Range(Removed(s, x)) = Range(s) \ {x}
         /\ IsInjective(s) => IsInjective(Removed(s, x))
<1>1. Range(s) \cap (Range(s) \ {x}) = Range(s) \ {x} OBVIOUS
<1> QED BY <1>1, WithinIs DEF Removed

\* vector::add
LEMMA AppendIs ==
  ASSUME NEW T, NEW s \in Seq(T), NEW x \in T
  PROVE  /\ Append(s, x) \in Seq(T)
         /\ Range(Append(s, x)) = Range(s) \cup {x}
         /\ IsInjective(s) /\ x \notin Range(s) => IsInjective(Append(s, x))
<1> DEFINE r == Append(s, x)
<1>1. /\ r \in Seq(T) /\ Len(s) \in Nat /\ DOMAIN s = 1 .. Len(s)
      /\ DOMAIN r = 1 .. Len(s) + 1 /\ \A i \in 1 .. Len(s) : r[i] = s[i]
      /\ r[Len(s) + 1] = x
  OBVIOUS
<1> HIDE DEF r
<1>2. \A i \in 1 .. Len(s) + 1 : i \in 1 .. Len(s) \/ i = Len(s) + 1 BY <1>1
<1>3. Range(r) = Range(s) \cup {x}
  <2>1. Range(r) \subseteq Range(s) \cup {x} BY <1>1, <1>2 DEF Range
  <2>2. Range(s) \subseteq Range(r)
    <3>1. \A i \in 1 .. Len(s) : i \in 1 .. Len(s) + 1 BY <1>1
    <3> QED BY <1>1, <3>1 DEF Range
  <2>3. x \in Range(r)
    <3>1. Len(s) + 1 \in 1 .. Len(s) + 1 BY <1>1
    <3> QED BY <1>1, <3>1 DEF Range
  <2> QED BY <2>1, <2>2, <2>3
<1>4. ASSUME IsInjective(s), x \notin Range(s) PROVE IsInjective(r)
  <2>1. \A i \in 1 .. Len(s) : s[i] # x BY <1>1, <1>4 DEF Range
  <2>2. \A i, j \in 1 .. Len(s) : s[i] = s[j] => i = j BY <1>1, <1>4 DEF IsInjective
  <2> QED BY <1>1, <1>2, <2>1, <2>2 DEF IsInjective
<1> QED BY <1>1, <1>3, <1>4 DEF r


\* vector::removeunordered
LEMMA UnorderedIs ==
  ASSUME NEW T, NEW s \in Seq(T), NEW i \in DOMAIN s
  PROVE  /\ RemovedUnordered(s, i) \in Seq(T)
         /\ IsInjective(s) => IsInjective(RemovedUnordered(s, i))
<1> DEFINE n == Len(s)
           t == [s EXCEPT ![i] = s[n]]
           r == SubSeq(t, 1, n - 1)
<1>1. n \in Nat \ {0} /\ DOMAIN s = 1 .. n /\ i \in 1 .. n /\ s[n] \in T OBVIOUS
<1>2. t \in Seq(T) /\ Len(t) = n /\ \A k \in 1 .. n : t[k] = IF k = i THEN s[n] ELSE s[k]
  BY <1>1
<1> HIDE DEF t
<1>3. /\ r \in Seq(T) /\ DOMAIN r = 1 .. n - 1
      /\ \A k \in 1 .. n - 1 : r[k] = t[k]
  BY <1>1, <1>2
<1>4. ASSUME IsInjective(s), NEW j \in 1 .. n - 1, NEW k \in 1 .. n - 1, r[j] = r[k]
      PROVE  j = k
  <2>1. j \in 1 .. n /\ k \in 1 .. n /\ j # n /\ k # n
    <3> HIDE DEF r, n
    <3> QED BY <1>1
  <2>2. t[j] = t[k] BY <1>3, <1>4
  <2>3. \A x, y \in 1 .. n : s[x] = s[y] => x = y BY <1>1, <1>4 DEF IsInjective
  <2>4. n \in 1 .. n BY <1>1
  <2> HIDE DEF r, n
  <2> QED BY <1>1, <1>2, <2>1, <2>2, <2>3, <2>4
<1> HIDE DEF r
<1>5. IsInjective(s) => IsInjective(r) BY <1>3, <1>4 DEF IsInjective
<1>6. r = RemovedUnordered(s, i) BY DEF r, t, n, RemovedUnordered
<1> QED BY <1>3, <1>5, <1>6
=============================================================================
