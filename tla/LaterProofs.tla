------------------------------ MODULE LaterProofs ------------------------------
(***************************************************************************)
(* Proofs about Later: a call is always in one place, the server does not  *)
(* sleep past a call, and the calls of each clock implement Timers.        *)
(***************************************************************************)
EXTENDS Later, VectorProofs

\* Calls are on a list in the order in which they are due, those due at the same
\* time in the order in which they were inserted.
InOrder(s, tok, e) == \A i, j \in DOMAIN s : i < j =>
    \/ tok[s[i]].when < tok[s[j]].when
    \/ tok[s[i]].when = tok[s[j]].when /\ <<s[j], s[i]>> \notin e

Tokens == [list : Lists \cup {"none"}, when : Nat, delay : Delays \cup {0}]

-----------------------------------------------------------------------------
\* insert() finds a place: behind the calls due earlier or at the same time, before
\* those due later.
LEMMA PlaceIs ==
  ASSUME NEW s \in Seq(Calls), NEW tok \in [Calls -> Tokens], NEW t \in Calls
  PROVE  /\ Place(s, tok, t) \in 1 .. Len(s) + 1
         /\ Place(s, tok, t) <= Len(s) => tok[t].when < tok[s[Place(s, tok, t)]].when
         /\ \A i \in 1 .. Place(s, tok, t) - 1 : tok[t].when >= tok[s[i]].when
<1> DEFINE Behind == {n \in 1 .. Len(s) : tok[t].when < tok[s[n]].when} \cup {Len(s) + 1}
<1>1. Len(s) \in Nat /\ \A i \in 1 .. Len(s) : s[i] \in Calls OBVIOUS
<1>2. Behind \in SUBSET Nat /\ Behind # {} BY <1>1
<1>3. PICK m \in Behind : \A n \in Behind : m <= n BY <1>2, LeastNat
<1>4. \A c \in Calls : tok[c].when \in Nat BY DEF Tokens
<1>5. /\ m \in 1 .. Len(s) + 1
      /\ m <= Len(s) => tok[t].when < tok[s[m]].when
  BY <1>1, <1>2, <1>3
<1>6. ASSUME NEW i \in 1 .. m - 1 PROVE tok[t].when >= tok[s[i]].when
  <2>1. i \in 1 .. Len(s) /\ i < m /\ i \in Nat BY <1>1, <1>5
  <2>2. i \notin Behind BY <1>2, <1>3, <2>1, <1>5
  <2>3. ~(tok[t].when < tok[s[i]].when) BY <2>1, <2>2
  <2> QED BY <2>3, <2>1, <1>1, <1>4
<1> HIDE DEF Behind
<1> QED BY <1>5, <1>6 DEF Place

\* A call that is inserted is on the list, and so are those that were.
LEMMA InsertIs ==
  ASSUME NEW s \in Seq(Calls), NEW tok \in [Calls -> Tokens], NEW t \in Calls
  PROVE  /\ Insert(s, tok, t) \in Seq(Calls)
         /\ DOMAIN Insert(s, tok, t) = 1 .. Len(s) + 1
         /\ Range(Insert(s, tok, t)) = Range(s) \cup {t}
<1> DEFINE n == Place(s, tok, t)
           r == [i \in 1 .. Len(s) + 1 |-> IF i < n THEN s[i] ELSE IF i = n THEN t ELSE s[i - 1]]
<1>1. Len(s) \in Nat /\ DOMAIN s = 1 .. Len(s) /\ \A i \in 1 .. Len(s) : s[i] \in Calls
  OBVIOUS
<1>2. n \in 1 .. Len(s) + 1 BY PlaceIs
<1> HIDE DEF n
<1>3. ASSUME NEW i \in 1 .. Len(s) + 1 PROVE r[i] \in Calls BY <1>1, <1>2
<1>4. r \in Seq(Calls)
  <2>1. r \in [1 .. Len(s) + 1 -> Calls] BY <1>3
  <2>2. Len(s) + 1 \in Nat BY <1>1
  <2> QED BY <2>1, <2>2
<1>5. Range(r) \subseteq Range(s) \cup {t}
  BY <1>1, <1>2 DEF Range
<1>6. ASSUME NEW c \in Range(s) PROVE c \in Range(r)
  <2>1. PICK i \in 1 .. Len(s) : c = s[i] BY <1>1 DEF Range
  <2>2. CASE i < n
    <3>1. i \in DOMAIN r /\ r[i] = c BY <1>1, <2>1, <2>2
    <3> QED BY <3>1 DEF Range
  <2>3. CASE ~(i < n)
    <3>1. i + 1 \in DOMAIN r /\ r[i + 1] = c BY <1>1, <1>2, <2>1, <2>3
    <3> QED BY <3>1 DEF Range
  <2> QED BY <2>2, <2>3
<1>7. t \in Range(r)
  <2>1. n \in DOMAIN r /\ r[n] = t BY <1>2
  <2> QED BY <2>1 DEF Range
<1>8. Insert(s, tok, t) = r BY DEF Insert, n
<1>9. DOMAIN r = 1 .. Len(s) + 1 OBVIOUS
<1> HIDE DEF r
<1> QED BY <1>4, <1>5, <1>6, <1>7, <1>8, <1>9

\* A list to which a call that it does not hold is added holds it once.
LEMMA InsertDistinct ==
  ASSUME NEW s \in Seq(Calls), NEW tok \in [Calls -> Tokens], NEW t \in Calls,
         IsInjective(s), t \notin Range(s)
  PROVE  IsInjective(Insert(s, tok, t))
<1> DEFINE n == Place(s, tok, t)
           r == [i \in 1 .. Len(s) + 1 |-> IF i < n THEN s[i] ELSE IF i = n THEN t ELSE s[i - 1]]
<1>1. Len(s) \in Nat /\ DOMAIN s = 1 .. Len(s) OBVIOUS
<1>2. n \in 1 .. Len(s) + 1 BY PlaceIs
<1> HIDE DEF n
<1>3. \A i \in 1 .. Len(s) : s[i] # t BY <1>1 DEF Range
<1>4. \A i, j \in 1 .. Len(s) : s[i] = s[j] => i = j BY <1>1 DEF IsInjective
<1>5. ASSUME NEW i \in 1 .. Len(s) + 1, NEW j \in 1 .. Len(s) + 1, r[i] = r[j]
      PROVE  i = j
  <2>1. \A k \in 1 .. Len(s) + 1 : k < n => k \in 1 .. Len(s) /\ r[k] = s[k] BY <1>1, <1>2
  <2>2. \A k \in 1 .. Len(s) + 1 : k > n => k - 1 \in 1 .. Len(s) /\ r[k] = s[k - 1]
    BY <1>1, <1>2
  <2>3. r[n] = t BY <1>2
  <2> HIDE DEF r
  <2>4. i \in Int /\ j \in Int /\ n \in Int BY <1>1, <1>2
  <2>5. CASE i = n BY <2>1, <2>2, <2>3, <2>4, <2>5, <1>3, <1>5
  <2>6. CASE i < n BY <2>1, <2>2, <2>3, <2>4, <2>6, <1>3, <1>4, <1>5
  <2>7. CASE i > n BY <2>1, <2>2, <2>3, <2>4, <2>7, <1>3, <1>4, <1>5
  <2> QED BY <2>4, <2>5, <2>6, <2>7
<1>6. DOMAIN r = 1 .. Len(s) + 1 OBVIOUS
<1>7. Insert(s, tok, t) = r BY DEF Insert, n
<1> HIDE DEF r
<1> QED BY <1>5, <1>6, <1>7 DEF IsInjective

\* insert() keeps a list in order: the call comes after those due at the same time.
LEMMA InsertOrder ==
  ASSUME NEW s \in Seq(Calls), NEW tok \in [Calls -> Tokens], NEW t \in Calls, NEW e,
         InOrder(s, tok, e), t \notin Range(s), \A c \in Calls : <<t, c>> \notin e
  PROVE  InOrder(Insert(s, tok, t), tok, e \cup (Range(s) \X {t}))
<1> DEFINE n == Place(s, tok, t)
           r == [i \in 1 .. Len(s) + 1 |-> IF i < n THEN s[i] ELSE IF i = n THEN t ELSE s[i - 1]]
           f == e \cup (Range(s) \X {t})
<1>1. Len(s) \in Nat /\ DOMAIN s = 1 .. Len(s) /\ \A i \in 1 .. Len(s) : s[i] \in Calls
  OBVIOUS
<1>2. /\ n \in 1 .. Len(s) + 1
      /\ n <= Len(s) => tok[t].when < tok[s[n]].when
      /\ \A i \in 1 .. n - 1 : tok[t].when >= tok[s[i]].when
  BY PlaceIs
<1> HIDE DEF n
<1>3. \A i \in 1 .. Len(s) : s[i] # t BY <1>1 DEF Range
<1>4. \A c \in Calls : tok[c].when \in Nat BY DEF Tokens
<1>5. \A i, j \in 1 .. Len(s) : i < j =>
        \/ tok[s[i]].when < tok[s[j]].when
        \/ tok[s[i]].when = tok[s[j]].when /\ <<s[j], s[i]>> \notin f
  BY <1>1, <1>3 DEF InOrder
<1>6. \A i \in 1 .. Len(s) : <<t, s[i]>> \notin f BY <1>1, <1>3
<1>7. \A k \in 1 .. Len(s) + 1 : k < n => k \in 1 .. Len(s) /\ r[k] = s[k] BY <1>1, <1>2
<1>8. \A k \in 1 .. Len(s) + 1 : k > n => k - 1 \in 1 .. Len(s) /\ r[k] = s[k - 1]
  BY <1>1, <1>2
<1>9. r[n] = t BY <1>2
<1>10. DOMAIN r = 1 .. Len(s) + 1 OBVIOUS
<1>11. Insert(s, tok, t) = r BY DEF Insert, n
<1> HIDE DEF r, f
<1>12. ASSUME NEW i \in 1 .. Len(s) + 1, NEW j \in 1 .. Len(s) + 1, i < j
       PROVE  \/ tok[r[i]].when < tok[r[j]].when
              \/ tok[r[i]].when = tok[r[j]].when /\ <<r[j], r[i]>> \notin f
  <2>1. i \in Int /\ j \in Int /\ n \in Int BY <1>1, <1>2
  <2>2. CASE j < n BY <1>5, <1>7, <1>12, <2>1, <2>2
  <2>3. CASE j = n
    <3>1. i \in 1 .. Len(s) /\ i \in 1 .. n - 1 /\ r[i] = s[i] BY <1>7, <1>12, <2>1, <2>3
    <3>2. tok[t].when >= tok[s[i]].when BY <1>2, <3>1
    <3> QED BY <1>1, <1>4, <1>6, <1>9, <2>3, <3>1, <3>2
  <2>4. CASE i < n /\ n < j BY <1>5, <1>7, <1>8, <1>12, <2>1, <2>4
  <2>5. CASE i = n
    <3>1. j - 1 \in 1 .. Len(s) /\ r[j] = s[j - 1] /\ n <= j - 1
      BY <1>8, <1>12, <2>1, <2>5
    <3>2. n \in 1 .. Len(s) /\ tok[t].when < tok[s[n]].when BY <1>1, <1>2, <2>1, <3>1
    <3>3. tok[s[n]].when <= tok[s[j - 1]].when
      <4>1. tok[s[n]].when \in Nat /\ tok[s[j - 1]].when \in Nat BY <1>1, <1>4, <3>1, <3>2
      <4>2. CASE n = j - 1 BY <4>1, <4>2
      <4>3. CASE n < j - 1
        <5>1. \/ tok[s[n]].when < tok[s[j - 1]].when
              \/ tok[s[n]].when = tok[s[j - 1]].when
          BY <1>5, <3>1, <3>2, <4>3
        <5> QED BY <4>1, <5>1
      <4>4. n = j - 1 \/ n < j - 1
        <5>1. n <= j - 1 BY <3>1
        <5> QED BY <2>1, <5>1
      <4> QED BY <4>2, <4>3, <4>4
    <3> QED BY <1>1, <1>4, <1>9, <2>5, <3>1, <3>2, <3>3
  <2>6. CASE n < i
    <3>1. i - 1 \in 1 .. Len(s) /\ r[i] = s[i - 1] BY <1>8, <2>6
    <3>2. n < j BY <1>12, <2>1, <2>6
    <3>3. j - 1 \in 1 .. Len(s) /\ r[j] = s[j - 1] BY <1>8, <3>2
    <3>4. i - 1 < j - 1 BY <1>12, <2>1
    <3>5. \/ tok[s[i - 1]].when < tok[s[j - 1]].when
          \/ tok[s[i - 1]].when = tok[s[j - 1]].when /\ <<s[j - 1], s[i - 1]>> \notin f
      BY <1>5, <3>1, <3>3, <3>4
    <3> QED BY <3>1, <3>3, <3>5
  <2> QED BY <1>12, <2>1, <2>2, <2>3, <2>4, <2>5, <2>6
<1> QED BY <1>10, <1>11, <1>12 DEF InOrder, f

\* erase_after() takes one call off the list and leaves the others in their order.
LEMMA EraseIs ==
  ASSUME NEW s \in Seq(Calls), NEW i \in DOMAIN s, IsInjective(s)
  PROVE  /\ Erase(s, i) \in Seq(Calls)
         /\ Range(Erase(s, i)) = Range(s) \ {s[i]}
         /\ IsInjective(Erase(s, i))
<1> DEFINE r == [j \in 1 .. Len(s) - 1 |-> IF j < i THEN s[j] ELSE s[j + 1]]
<1>1. /\ Len(s) \in Nat /\ DOMAIN s = 1 .. Len(s) /\ i \in 1 .. Len(s)
      /\ \A j \in 1 .. Len(s) : s[j] \in Calls
  OBVIOUS
<1>2. \A j \in 1 .. Len(s) - 1 : j < i => j \in 1 .. Len(s) /\ r[j] = s[j] BY <1>1
<1>3. \A j \in 1 .. Len(s) - 1 : ~(j < i) => j + 1 \in 1 .. Len(s) /\ r[j] = s[j + 1] BY <1>1
<1>4. \A j, k \in 1 .. Len(s) : s[j] = s[k] => j = k BY <1>1 DEF IsInjective
<1>5. DOMAIN r = 1 .. Len(s) - 1 OBVIOUS
<1>6. r \in Seq(Calls)
  <2>1. r \in [1 .. Len(s) - 1 -> Calls] BY <1>1
  <2>2. Len(s) - 1 \in Nat BY <1>1
  <2> QED BY <2>1, <2>2
<1>7. Erase(s, i) = r BY DEF Erase
<1> HIDE DEF r
<1>8. \A c \in Range(r) : c \in Range(s) \ {s[i]} BY <1>1, <1>2, <1>3, <1>4, <1>5 DEF Range
<1>9. ASSUME NEW c \in Range(s), c # s[i] PROVE c \in Range(r)
  <2>1. PICK j \in 1 .. Len(s) : c = s[j] BY <1>1 DEF Range
  <2>2. CASE j < i
    <3>1. j \in DOMAIN r /\ r[j] = c BY <1>1, <1>2, <1>5, <2>1, <2>2
    <3> QED BY <3>1 DEF Range
  <2>3. CASE j > i
    <3>1. j - 1 \in DOMAIN r /\ r[j - 1] = c BY <1>1, <1>3, <1>5, <2>1, <2>3
    <3> QED BY <3>1 DEF Range
  <2> QED BY <1>1, <1>9, <2>1, <2>2, <2>3
<1>10. IsInjective(r) BY <1>1, <1>2, <1>3, <1>4, <1>5 DEF IsInjective
<1> QED BY <1>6, <1>7, <1>8, <1>9, <1>10

LEMMA EraseOrder ==
  ASSUME NEW s \in Seq(Calls), NEW i \in DOMAIN s, NEW tok, NEW e, NEW f,
         InOrder(s, tok, e), f \subseteq e
  PROVE  InOrder(Erase(s, i), tok, f)
<1> DEFINE r == Erase(s, i)
<1>1. Len(s) \in Nat /\ DOMAIN s = 1 .. Len(s) /\ i \in 1 .. Len(s) OBVIOUS
<1>2. \A j \in 1 .. Len(s) - 1 : j < i => j \in 1 .. Len(s) /\ r[j] = s[j]
  BY <1>1 DEF Erase
<1>3. \A j \in 1 .. Len(s) - 1 : ~(j < i) => j + 1 \in 1 .. Len(s) /\ r[j] = s[j + 1]
  BY <1>1 DEF Erase
<1>4. DOMAIN r = 1 .. Len(s) - 1 BY DEF Erase
<1> HIDE DEF r
<1>5. ASSUME NEW j \in 1 .. Len(s) - 1, NEW k \in 1 .. Len(s) - 1, j < k
      PROVE  \/ tok[r[j]].when < tok[r[k]].when
             \/ tok[r[j]].when = tok[r[k]].when /\ <<r[k], r[j]>> \notin f
  BY <1>1, <1>2, <1>3, <1>5, SMTT(60) DEF InOrder
<1>6. InOrder(r, tok, f) BY <1>4, <1>5 DEF InOrder
<1> QED BY <1>6 DEF r

\* check() takes the first call off the list.
LEMMA TailIs ==
  ASSUME NEW s \in Seq(Calls), s # <<>>
  PROVE  1 \in DOMAIN s /\ Head(s) = s[1] /\ Tail(s) = Erase(s, 1)
<1>1. 1 \in DOMAIN s /\ Head(s) = s[1] OBVIOUS
<1>2. /\ Tail(s) \in Seq(Calls) /\ Len(Tail(s)) = Len(s) - 1
      /\ \A j \in 1 .. Len(s) - 1 : Tail(s)[j] = s[j + 1]
  OBVIOUS
<1>3. Erase(s, 1) = [j \in 1 .. Len(s) - 1 |-> s[j + 1]]
  BY <1>1 DEF Erase
<1> QED BY <1>1, <1>2, <1>3

\* The order of a list is that of its own calls.
LEMMA OrderKept ==
  ASSUME NEW s, NEW tok, NEW tok2, NEW e, NEW f, InOrder(s, tok, e),
         \A c \in Range(s) : tok2[c].when = tok[c].when,
         \A c, d \in Range(s) : <<c, d>> \in f => <<c, d>> \in e
  PROVE  InOrder(s, tok2, f)
BY DEF InOrder, Range
-----------------------------------------------------------------------------
Ordered == \A k \in Lists : InOrder(lists[k], token, earlier)

\* The history is of two calls that are on the same list.
Paired == \A pair \in earlier :
    pair[1] # pair[2] /\ \E k \in Lists : pair[1] \in On(k) /\ pair[2] \in On(k)

FreeIsFree == \A t \in Calls : token[t].list = "none" => token[t] = Free

Clocked ==
    /\ slice = "abs" => now = longtotalmillis
    /\ slice = "game" => now >= gamemillis

\* A list that is not being checked has no call that is due.
Ahead == \A k \in Lists : slice # k => \A t \in On(k) : token[t].when > Clock(k)

IInv == TypeOK /\ Owned /\ Ordered /\ Paired /\ FreeIsFree /\ Clocked /\ Ahead

\* What the invariant says of the lists, in the terms of the lemmas on lists.
LEMMA ListsAre ==
  ASSUME IInv
  PROVE  /\ token \in [Calls -> Tokens]
         /\ \A k \in Lists :
              /\ lists[k] \in Seq(Calls) /\ IsInjective(lists[k]) /\ On(k) = Range(lists[k])
              /\ On(k) \subseteq Calls
              /\ \A t \in Calls : t \in On(k) <=> token[t].list = k /\ t # currentlambda
         /\ currentlambda # NoCall => currentlambda \in Calls /\ slice \in Lists
         /\ currentlambda # NoCall => token[currentlambda].list = slice
         /\ \A t \in Calls : /\ token[t].when \in Nat /\ token[t].delay \in Nat
                             /\ token[t].delay \in Delays \cup {0}
<1>1. token \in [Calls -> Tokens] /\ lists \in [Lists -> Seq(Calls)] BY DEF IInv, TypeOK, Tokens
<1>2. ASSUME NEW k \in Lists
      PROVE  /\ lists[k] \in Seq(Calls) /\ IsInjective(lists[k]) /\ On(k) = Range(lists[k])
             /\ On(k) \subseteq Calls
             /\ \A t \in Calls : t \in On(k) <=> token[t].list = k /\ t # currentlambda
  <2>1. IsInjective(lists[k]) BY DEF IInv, Owned, IsInjective
  <2>2. On(k) = Range(lists[k]) BY DEF On, Range
  <2>3. On(k) = {t \in Calls : token[t].list = k} \ {currentlambda} BY DEF IInv, Owned
  <2> QED BY <1>1, <2>1, <2>2, <2>3
<1>3. currentlambda # NoCall =>
        currentlambda \in Calls /\ slice \in Lists /\ token[currentlambda].list = slice
  BY DEF IInv, TypeOK, Owned
<1>4. \A t \in Calls : /\ token[t].when \in Nat /\ token[t].delay \in Nat
                       /\ token[t].delay \in Delays \cup {0}
  <2>1. \A t \in Calls : token[t] \in Tokens BY <1>1
  <2>2. Delays \cup {0} \subseteq Nat BY TimeAssumption
  <2> QED BY <2>1, <2>2 DEF Tokens
<1> QED BY <1>1, <1>2, <1>3, <1>4

LEMMA InitIInv == Init => IInv
<1> SUFFICES ASSUME Init PROVE IInv OBVIOUS
<1>1. \A k \in Lists : On(k) = {} BY DEF Init, On
<1>2. <<>> \in Seq(Calls) OBVIOUS
<1>3. TypeOK
  BY <1>2, TimeAssumption DEF Init, TypeOK, Free, Lists
<1>4. Owned BY <1>1 DEF Init, Owned, Free, Lists
<1>5. Ordered /\ Paired /\ FreeIsFree /\ Clocked /\ Ahead
  BY <1>1 DEF Init, Ordered, InOrder, Paired, FreeIsFree, Clocked, Ahead
<1> QED BY <1>3, <1>4, <1>5 DEF IInv

\* A call that is on no list is put on one.
LEMMA AddedIs ==
  ASSUME IInv, NEW t \in Calls, NEW k \in Lists,
         \A j \in Lists : t \notin On(j),
         token' \in [Calls -> Tokens], \A c \in Calls : c # t => token'[c] = token[c],
         lists' = [lists EXCEPT ![k] = Insert(@, token', t)],
         earlier' = earlier \cup (On(k) \X {t})
  PROVE  /\ lists' \in [Lists -> Seq(Calls)] /\ \A j \in Lists : IsInjective(lists'[j])
         /\ On(k)' = On(k) \cup {t} /\ \A j \in Lists : j # k => On(j)' = On(j)
         /\ earlier' \subseteq Calls \X Calls /\ Ordered' /\ Paired'
<1>1. \A j \in Lists : /\ lists[j] \in Seq(Calls) /\ IsInjective(lists[j])
                       /\ On(j) = Range(lists[j]) /\ On(j) \subseteq Calls
  BY ListsAre
<1>2. /\ lists' \in [Lists -> Seq(Calls)]
      /\ lists'[k] = Insert(lists[k], token', t)
      /\ \A j \in Lists : j # k => lists'[j] = lists[j]
  <2>1. Insert(lists[k], token', t) \in Seq(Calls) BY <1>1, InsertIs
  <2>2. lists \in [Lists -> Seq(Calls)] BY DEF IInv, TypeOK
  <2> QED BY <2>1, <2>2
<1>3. On(k)' = On(k) \cup {t} /\ \A j \in Lists : j # k => On(j)' = On(j)
  <2>1. Range(Insert(lists[k], token', t)) = Range(lists[k]) \cup {t} BY <1>1, InsertIs
  <2>2. \A j \in Lists : On(j)' = Range(lists'[j]) BY DEF On, Range
  <2> QED BY <1>1, <1>2, <2>1, <2>2
<1>4. \A j \in Lists : IsInjective(lists'[j])
  <2>1. IsInjective(Insert(lists[k], token', t)) BY <1>1, InsertDistinct
  <2> QED BY <1>1, <1>2, <2>1
<1>5. Ordered'
  <2>1. InOrder(lists'[k], token', earlier')
    <3>1. InOrder(lists[k], token', earlier)
      <4>1. \A c \in Range(lists[k]) : token'[c].when = token[c].when BY <1>1
      <4>2. InOrder(lists[k], token, earlier) BY DEF IInv, Ordered
      <4> QED BY <4>1, <4>2, OrderKept
    <3>2. \A c \in Calls : <<t, c>> \notin earlier BY DEF IInv, Paired
    <3>3. InOrder(Insert(lists[k], token', t), token', earlier \cup (Range(lists[k]) \X {t}))
      BY <1>1, <3>1, <3>2, InsertOrder
    <3> QED BY <1>1, <1>2, <3>3
  <2>2. ASSUME NEW j \in Lists, j # k PROVE InOrder(lists'[j], token', earlier')
    <3>1. \A c \in Range(lists[j]) : token'[c].when = token[c].when BY <1>1
    <3>2. \A c, d \in Range(lists[j]) : <<c, d>> \in earlier' => <<c, d>> \in earlier
      BY <1>1
    <3>3. InOrder(lists[j], token, earlier) BY DEF IInv, Ordered
    <3>4. InOrder(lists[j], token', earlier') BY <3>1, <3>2, <3>3, OrderKept
    <3> QED BY <1>2, <2>2, <3>4
  <2> QED BY <2>1, <2>2 DEF Ordered
<1>6. Paired' BY <1>3 DEF IInv, Paired
<1>7. earlier' \subseteq Calls \X Calls BY <1>1 DEF IInv, TypeOK
<1> QED BY <1>2, <1>3, <1>4, <1>5, <1>6, <1>7

\* The call at a place of a list is taken off it.
LEMMA TakenIs ==
  ASSUME IInv, NEW k \in Lists, NEW i \in DOMAIN lists[k], NEW t \in Calls, lists[k][i] = t,
         \A c \in Calls : c # t => token'[c] = token[c],
         lists' = [lists EXCEPT ![k] = Erase(@, i)], earlier' = Forgotten(t)
  PROVE  /\ lists' \in [Lists -> Seq(Calls)] /\ \A j \in Lists : IsInjective(lists'[j])
         /\ On(k)' = On(k) \ {t} /\ \A j \in Lists : j # k => On(j)' = On(j)
         /\ t \in On(k)
         /\ earlier' \subseteq Calls \X Calls /\ Ordered' /\ Paired'
<1>1. \A j \in Lists : /\ lists[j] \in Seq(Calls) /\ IsInjective(lists[j])
                       /\ On(j) = Range(lists[j]) /\ On(j) \subseteq Calls
  BY ListsAre
<1>2. /\ Erase(lists[k], i) \in Seq(Calls)
      /\ Range(Erase(lists[k], i)) = Range(lists[k]) \ {t}
      /\ IsInjective(Erase(lists[k], i))
  BY <1>1, EraseIs
<1>3. /\ lists' \in [Lists -> Seq(Calls)]
      /\ lists'[k] = Erase(lists[k], i)
      /\ \A j \in Lists : j # k => lists'[j] = lists[j]
  BY <1>2 DEF IInv, TypeOK
<1>4. /\ On(k)' = On(k) \ {t} /\ \A j \in Lists : j # k => On(j)' = On(j)
      /\ t \in On(k)
  <2>1. \A j \in Lists : On(j)' = Range(lists'[j]) BY DEF On, Range
  <2>2. t \in On(k) BY DEF On
  <2> QED BY <1>1, <1>2, <1>3, <2>1, <2>2
<1>5. \A j \in Lists : j # k => t \notin On(j)
  <2>1. \A j \in Lists : t \in On(j) => token[t].list = j BY ListsAre
  <2> QED BY <1>4, <2>1
<1>6. Ordered'
  <2>1. ASSUME NEW j \in Lists PROVE InOrder(lists'[j], token, earlier')
    <3>1. InOrder(lists[j], token, earlier) /\ earlier' \subseteq earlier
      BY DEF IInv, Ordered, Forgotten
    <3>2. CASE j = k
      <4>1. InOrder(Erase(lists[k], i), token, earlier') BY <1>1, <3>1, <3>2, EraseOrder
      <4> QED BY <1>3, <3>2, <4>1
    <3>3. CASE j # k
      <4>1. InOrder(lists[j], token, earlier') BY <3>1, OrderKept
      <4> QED BY <1>3, <3>3, <4>1
    <3> QED BY <3>2, <3>3
  <2>2. ASSUME NEW j \in Lists PROVE InOrder(lists'[j], token', earlier')
    <3>1. InOrder(lists'[j], token, earlier') BY <2>1
    <3>2. On(j)' = Range(lists'[j]) BY DEF On, Range
    <3>3. \A c \in Range(lists'[j]) : c \in Calls /\ c # t BY <1>1, <1>4, <1>5, <3>2
    <3>4. \A c \in Range(lists'[j]) : token'[c].when = token[c].when BY <3>3
    <3> QED BY <3>1, <3>4, OrderKept
  <2> QED BY <2>2 DEF Ordered
<1>7. Paired' BY <1>4 DEF IInv, Paired, Forgotten
<1>8. earlier' \subseteq Calls \X Calls BY DEF IInv, TypeOK, Forgotten
<1> QED BY <1>3, <1>2, <1>1, <1>4, <1>6, <1>7, <1>8

\* When the lists stay as they are, so does the order of what is on them.
LEMMA SameLists ==
  ASSUME IInv, UNCHANGED <<lists, earlier>>,
         \A j \in Lists : \A c \in On(j) : token'[c].when = token[c].when
  PROVE  /\ lists' \in [Lists -> Seq(Calls)] /\ \A j \in Lists : IsInjective(lists'[j])
         /\ \A j \in Lists : On(j)' = On(j)
         /\ earlier' \subseteq Calls \X Calls /\ Ordered' /\ Paired'
<1>1. \A j \in Lists : On(j)' = On(j) BY DEF On
<1>2. ASSUME NEW j \in Lists PROVE InOrder(lists'[j], token', earlier')
  <2>1. On(j) = Range(lists[j]) BY ListsAre
  <2>2. InOrder(lists[j], token, earlier) BY DEF IInv, Ordered
  <2>3. \A c \in Range(lists[j]) : token'[c].when = token[c].when BY <2>1
  <2>4. InOrder(lists[j], token', earlier) BY <2>2, <2>3, OrderKept
  <2> QED BY <2>4
<1>3. \A j \in Lists : IsInjective(lists[j]) BY ListsAre
<1>4. Paired' BY <1>1 DEF IInv, Paired
<1> QED BY <1>1, <1>2, <1>3, <1>4 DEF IInv, TypeOK, Ordered

LEMMA NewLaterIInv ==
  ASSUME IInv, NEW t \in Calls, NEW k \in Lists, NEW delay \in Delays, NEW repeat \in BOOLEAN,
         NewLater(t, k, delay, repeat)
  PROVE  IInv'
<1>1. /\ token' = [token EXCEPT ![t] = [list |-> k, when |-> delay + Clock(k),
                                       delay |-> IF repeat THEN delay ELSE 0]]
      /\ lists' = [lists EXCEPT ![k] = Insert(@, token', t)]
      /\ earlier' = earlier \cup (On(k) \X {t})
      /\ UNCHANGED <<clocks, currentlambda, check>>
      /\ token[t] = Free
  BY DEF NewLater
<1>2. delay \in Nat \ {0} /\ Clock(k) \in Nat
  BY TimeAssumption DEF IInv, TypeOK, Clock
<1>3. token' \in [Calls -> Tokens]
  BY <1>1, <1>2, ListsAre DEF Tokens
<1>4. /\ \A c \in Calls : c # t => token'[c] = token[c]
      /\ token'[t].list = k /\ token'[t].when > Clock(k)
  BY <1>1, <1>2, ListsAre
<1>5. t # currentlambda /\ \A j \in Lists : t \notin On(j)
  <2>1. token[t].list \notin Lists BY <1>1 DEF Free, Lists
  <2> QED BY <2>1, CallAssumption, ListsAre
<1>6. /\ lists' \in [Lists -> Seq(Calls)] /\ \A j \in Lists : IsInjective(lists'[j])
      /\ On(k)' = On(k) \cup {t} /\ \A j \in Lists : j # k => On(j)' = On(j)
      /\ earlier' \subseteq Calls \X Calls /\ Ordered' /\ Paired'
  BY <1>1, <1>3, <1>4, <1>5, AddedIs
<1>7. TypeOK'
  BY <1>1, <1>3, <1>6 DEF IInv, TypeOK, Tokens, clocks, check
<1>8. Owned'
  <2>1. \A j \in Lists : On(j)' = {c \in Calls : token'[c].list = j} \ {currentlambda}
    BY <1>1, <1>4, <1>5, <1>6, ListsAre DEF Free, Lists
  <2>2. currentlambda # NoCall => slice \in Lists /\ token'[currentlambda].list = slice
    BY <1>4, <1>5, ListsAre
  <2> QED BY <1>1, <1>6, <2>1, <2>2 DEF Owned, IsInjective, check
<1>9. FreeIsFree' BY <1>4 DEF IInv, FreeIsFree, Lists
<1>10. Clocked' BY <1>1 DEF IInv, Clocked, clocks, check
<1>11. Ahead'
  BY <1>1, <1>4, <1>5, <1>6, ListsAre DEF IInv, Ahead, Clock, clocks, check
<1> QED BY <1>6, <1>7, <1>8, <1>9, <1>10, <1>11 DEF IInv

LEMMA CancelIInv ==
  ASSUME IInv, NEW t \in Calls, Cancel(t)
  PROVE  IInv'
<1>1. UNCHANGED <<clocks, currentlambda, check>> BY DEF Cancel
<1>2. CASE t = currentlambda
  <2>1. /\ token' = [token EXCEPT ![t].delay = 0] /\ UNCHANGED <<lists, earlier>>
        /\ t # NoCall
    BY <1>2, CallAssumption DEF Cancel, Stopped
  <2>2. /\ token' \in [Calls -> Tokens]
        /\ \A c \in Calls : /\ token'[c].list = token[c].list
                            /\ token'[c].when = token[c].when
        /\ \A c \in Calls : c # t => token'[c] = token[c]
    BY <2>1, ListsAre DEF Tokens
  <2>3. /\ lists' \in [Lists -> Seq(Calls)] /\ \A j \in Lists : IsInjective(lists'[j])
        /\ \A j \in Lists : On(j)' = On(j) /\ On(j) \subseteq Calls
        /\ earlier' \subseteq Calls \X Calls /\ Ordered' /\ Paired'
    BY <2>1, <2>2, ListsAre, SameLists
  <2>4. TypeOK' BY <1>1, <2>2, <2>3 DEF IInv, TypeOK, Tokens, clocks, check
  <2>5. Owned'
    <3>1. \A j \in Lists : On(j)' = {c \in Calls : token'[c].list = j} \ {currentlambda}
      <4>1. \A j \in Lists : On(j) = {c \in Calls : token[c].list = j} \ {currentlambda}
        BY DEF IInv, Owned
      <4> QED BY <2>2, <2>3, <4>1
    <3>2. currentlambda # NoCall => slice \in Lists /\ token'[currentlambda].list = slice
      BY <2>2, ListsAre
    <3> QED BY <1>1, <2>3, <3>1, <3>2 DEF Owned, IsInjective, check
  <2>6. FreeIsFree' BY <1>2, <2>1, <2>2, ListsAre DEF IInv, FreeIsFree, Lists
  <2>7. Clocked' BY <1>1 DEF IInv, Clocked, clocks, check
  <2>8. Ahead' BY <1>1, <2>2, <2>3 DEF IInv, Ahead, Clock, clocks, check
  <2> QED BY <2>3, <2>4, <2>5, <2>6, <2>7, <2>8 DEF IInv
<1>3. CASE t # currentlambda
  <2>1. PICK k \in Lists, i \in 1 .. Cardinality(Calls) :
          /\ k = token[t].list /\ i \in DOMAIN lists[k] /\ lists[k][i] = t
          /\ lists' = [lists EXCEPT ![k] = Erase(@, i)]
          /\ token' = [token EXCEPT ![t] = Free]
          /\ earlier' = Forgotten(t)
    BY <1>3 DEF Cancel
  <2>2. /\ token' \in [Calls -> Tokens] /\ token'[t] = Free
        /\ \A c \in Calls : c # t => token'[c] = token[c]
    BY <2>1, ListsAre DEF Free, Tokens
  <2>3. /\ lists' \in [Lists -> Seq(Calls)] /\ \A j \in Lists : IsInjective(lists'[j])
        /\ On(k)' = On(k) \ {t} /\ \A j \in Lists : j # k => On(j)' = On(j)
        /\ earlier' \subseteq Calls \X Calls /\ Ordered' /\ Paired'
    BY <2>1, <2>2, TakenIs
  <2>4. TypeOK' BY <1>1, <2>2, <2>3 DEF IInv, TypeOK, Tokens, clocks, check
  <2>5. Owned'
    <3>1. \A j \in Lists : On(j)' = {c \in Calls : token'[c].list = j} \ {currentlambda}
      <4>1. \A j \in Lists : On(j) = {c \in Calls : token[c].list = j} \ {currentlambda}
        BY DEF IInv, Owned
      <4>2. \A j \in Lists : On(j)' = {c \in Calls \ {t} : token[c].list = j} \ {currentlambda}
        <5>1. ASSUME NEW j \in Lists, j = k
              PROVE  On(j)' = {c \in Calls \ {t} : token[c].list = j} \ {currentlambda}
          <6>1. On(j)' = On(j) \ {t} BY <2>3, <5>1
          <6> QED BY <4>1, <6>1
        <5>2. ASSUME NEW j \in Lists, j # k
              PROVE  On(j)' = {c \in Calls \ {t} : token[c].list = j} \ {currentlambda}
          <6>1. On(j)' = On(j) BY <2>3, <5>2
          <6>2. token[t].list # j BY <2>1, <5>2
          <6> QED BY <4>1, <6>1, <6>2
        <5> QED BY <5>1, <5>2
      <4>3. token'[t].list \notin Lists BY <2>2 DEF Free, Lists
      <4> QED BY <2>2, <4>2, <4>3
    <3>2. currentlambda # NoCall => slice \in Lists /\ token'[currentlambda].list = slice
      BY <1>3, <2>2, ListsAre
    <3> QED BY <1>1, <2>3, <3>1, <3>2 DEF Owned, IsInjective, check
  <2>6. FreeIsFree' BY <2>2 DEF IInv, FreeIsFree
  <2>7. Clocked' BY <1>1 DEF IInv, Clocked, clocks, check
  <2>8. Ahead'
    <3>1. \A j \in Lists : On(j)' \subseteq On(j) \ {t}
      <4>1. \A j \in Lists : j # k => t \notin On(j)
        <5>1. \A j \in Lists : t \in On(j) => token[t].list = j BY ListsAre
        <5> QED BY <2>1, <5>1
      <4> QED BY <2>3, <4>1
    <3>2. \A j \in Lists : \A c \in On(j) : c \in Calls BY ListsAre
    <3> QED BY <1>1, <2>2, <3>1, <3>2 DEF IInv, Ahead, Clock, clocks, check
  <2> QED BY <2>3, <2>4, <2>5, <2>6, <2>7, <2>8 DEF IInv
<1> QED BY <1>2, <1>3

LEMMA ChangeMapIInv ==
  ASSUME IInv, ChangeMap
  PROVE  IInv'
<1>1. /\ token' = ClearedGame
      /\ lists' = [lists EXCEPT !["game"] = <<>>]
      /\ earlier' = {pair \in earlier : pair[1] \notin On("game")}
      /\ gamemillis' = 0 /\ UNCHANGED <<longtotalmillis, currentlambda, check>>
  BY DEF ChangeMap
<1>2. token' \in [Calls -> Tokens] /\ \A c \in Calls : token'[c] = ClearedGame[c]
  <2>1. ASSUME NEW c \in Calls PROVE ClearedGame[c] \in Tokens
    <3>1. token[c] \in Tokens BY ListsAre
    <3>2. Free \in Tokens BY DEF Free, Tokens
    <3>3. [token[c] EXCEPT !.delay = 0] \in Tokens BY <3>1 DEF Tokens
    <3> QED BY <3>1, <3>2, <3>3 DEF ClearedGame
  <2> QED BY <1>1, <2>1 DEF ClearedGame
<1>3. /\ \A c \in On("game") : token'[c] = Free
      /\ \A c \in Calls \ On("game") : /\ token'[c].list = token[c].list
                                       /\ token'[c].when = token[c].when
                                       /\ c # currentlambda => token'[c] = token[c]
  BY <1>2, ListsAre DEF ClearedGame, Tokens, Lists
<1>4. /\ On("game")' = {} /\ On("abs")' = On("abs")
      /\ lists' \in [Lists -> Seq(Calls)] /\ lists'["game"] = <<>> /\ lists'["abs"] = lists["abs"]
  <2>1. /\ lists' \in [Lists -> Seq(Calls)] /\ lists'["game"] = <<>>
        /\ lists'["abs"] = lists["abs"]
    BY <1>1 DEF IInv, TypeOK, Lists
  <2> QED BY <2>1 DEF On
<1>5. "abs" \in Lists /\ "game" \in Lists /\ \A j \in Lists : j \in {"abs", "game"}
  BY DEF Lists
<1>6. On("abs") \subseteq Calls \ On("game") BY <1>5, ListsAre
<1>7. \A j \in Lists : IsInjective(lists'[j])
  <2>1. IsInjective(lists["abs"]) BY <1>5, ListsAre
  <2> QED BY <1>4, <1>5, <2>1, SMTT(60) DEF IsInjective
<1>8. TypeOK'
  BY <1>1, <1>2, <1>4 DEF IInv, TypeOK, Tokens, check
<1>9. Owned'
  <2>1. \A j \in Lists : On(j) = {c \in Calls : token[c].list = j} \ {currentlambda}
    BY DEF IInv, Owned
  <2>2. \A c \in On("game") : token'[c].list \notin Lists BY <1>3 DEF Free, Lists
  <2>3. On("abs")' = {c \in Calls : token'[c].list = "abs"} \ {currentlambda}
    BY <1>3, <1>4, <1>5, <1>6, <2>1, <2>2
  <2>4. On("game")' = {c \in Calls : token'[c].list = "game"} \ {currentlambda}
    BY <1>3, <1>4, <1>5, <2>1, <2>2
  <2>5. currentlambda # NoCall => slice \in Lists /\ token'[currentlambda].list = slice
    BY <1>3, <1>5, ListsAre
  <2> QED BY <1>1, <1>5, <1>7, <2>3, <2>4, <2>5 DEF Owned, IsInjective, check
<1>10. Ordered'
  <2>1. InOrder(lists'["game"], token', earlier') BY <1>4 DEF InOrder
  <2>2. InOrder(lists'["abs"], token', earlier')
    <3>1. InOrder(lists["abs"], token, earlier) BY <1>5 DEF IInv, Ordered
    <3>2. On("abs") = Range(lists["abs"]) BY <1>5, ListsAre
    <3>3. \A c \in Range(lists["abs"]) : token'[c].when = token[c].when BY <1>3, <1>6, <3>2
    <3>4. earlier' \subseteq earlier BY <1>1
    <3>5. InOrder(lists["abs"], token', earlier') BY <3>1, <3>3, <3>4, OrderKept
    <3> QED BY <1>4, <3>5
  <2> QED BY <1>5, <2>1, <2>2 DEF Ordered
<1>11. Paired'
  BY <1>1, <1>4, <1>5 DEF IInv, Paired
<1>12. FreeIsFree'
  <2>1. \A c \in Calls \ On("game") : token'[c].list = "none" => token'[c] = token[c]
    BY <1>3, <1>5, CallAssumption, ListsAre DEF Lists
  <2> QED BY <1>3, <2>1 DEF IInv, FreeIsFree
<1>13. Clocked'
  BY <1>1 DEF IInv, TypeOK, Clocked, check
<1>14. Ahead'
  BY <1>1, <1>3, <1>4, <1>5, <1>6 DEF IInv, Ahead, Clock, check
<1> QED BY <1>8, <1>9, <1>10, <1>11, <1>12, <1>13, <1>14 DEF IInv

LEMMA SliceIInv ==
  ASSUME IInv, NEW elapsed \in Elapsed, Slice(elapsed)
  PROVE  IInv'
<1>1. /\ slice = "events" /\ longtotalmillis + elapsed <= MaxTime
      /\ longtotalmillis' = longtotalmillis + elapsed
      /\ slice' = "abs" /\ now' = longtotalmillis'
      /\ UNCHANGED <<lists, token, gamemillis, currentlambda, earlier>>
  BY DEF Slice
<1>2. elapsed \in Nat BY TimeAssumption
<1>3. currentlambda = NoCall BY <1>1 DEF IInv, Owned, Lists
<1>4. /\ \A j \in Lists : On(j)' = On(j)
      /\ Ordered' /\ Paired' /\ earlier' \subseteq Calls \X Calls
  BY <1>1, SameLists
<1>5. TypeOK' BY <1>1, <1>2, TimeAssumption DEF IInv, TypeOK, Lists
<1>6. Owned' BY <1>1, <1>3, <1>4 DEF IInv, Owned
<1>7. FreeIsFree' /\ Clocked' BY <1>1 DEF IInv, FreeIsFree, Clocked
<1>8. Ahead' BY <1>1, <1>4 DEF IInv, Ahead, Clock, Lists
<1> QED BY <1>4, <1>5, <1>6, <1>7, <1>8 DEF IInv

LEMMA CallIInv ==
  ASSUME IInv, Call
  PROVE  IInv'
<1> DEFINE t == Head(lists[slice])
<1>1. /\ slice \in Lists /\ currentlambda = NoCall /\ lists[slice] # <<>>
      /\ currentlambda' = t /\ lists' = [lists EXCEPT ![slice] = Tail(@)]
      /\ earlier' = Forgotten(t) /\ UNCHANGED <<token, clocks, check>>
  BY DEF Call, Due
<1>2. lists \in [Lists -> Seq(Calls)] /\ lists[slice] \in Seq(Calls)
  BY <1>1 DEF IInv, TypeOK
<1>3. /\ 1 \in DOMAIN lists[slice] /\ t = lists[slice][1]
      /\ Tail(lists[slice]) = Erase(lists[slice], 1)
  BY <1>1, <1>2, TailIs
<1>4. lists' = [lists EXCEPT ![slice] = Erase(@, 1)] BY <1>1, <1>3
<1>5. t \in Calls BY <1>2, <1>3
<1> HIDE DEF t
<1>0. PICK k \in Lists : k = slice BY <1>1
<1>6. /\ lists' \in [Lists -> Seq(Calls)] /\ \A j \in Lists : IsInjective(lists'[j])
      /\ On(k)' = On(k) \ {t} /\ \A j \in Lists : j # k => On(j)' = On(j)
      /\ t \in On(k)
      /\ earlier' \subseteq Calls \X Calls /\ Ordered' /\ Paired'
  <2>1. lists' = [lists EXCEPT ![k] = Erase(@, 1)] /\ earlier' = Forgotten(t) /\ token' = token
    BY <1>0, <1>1, <1>4
  <2>2. 1 \in DOMAIN lists[k] /\ lists[k][1] = t BY <1>0, <1>3
  <2> QED BY <1>5, <2>1, <2>2, TakenIs
<1>7. token[t].list = slice BY <1>0, <1>5, <1>6, ListsAre
<1>8. TypeOK' BY <1>1, <1>5, <1>6 DEF IInv, TypeOK, clocks, check
<1>9. Owned'
  <2>1. \A j \in Lists : On(j)' = {c \in Calls : token[c].list = j} \ {t}
    <3>1. \A j \in Lists : On(j) = {c \in Calls : token[c].list = j}
      BY <1>1, CallAssumption DEF IInv, Owned
    <3> QED BY <1>0, <1>6, <1>7, <3>1
  <2> QED BY <1>1, <1>6, <1>7, <2>1 DEF Owned, IsInjective, check
<1>10. FreeIsFree' /\ Clocked'
  BY <1>1 DEF IInv, FreeIsFree, Clocked, clocks, check
<1>11. Ahead' BY <1>0, <1>1, <1>6 DEF IInv, Ahead, Clock, clocks, check
<1> QED BY <1>6, <1>8, <1>9, <1>10, <1>11 DEF IInv

LEMMA ReturnIInv ==
  ASSUME IInv, Return
  PROVE  IInv'
<1> DEFINE t == currentlambda
<1>1. t # NoCall /\ currentlambda' = NoCall /\ UNCHANGED <<clocks, check>> BY DEF Return
<1>2. t \in Calls /\ slice \in Lists /\ token[t].list = slice BY <1>1, ListsAre
<1>0. PICK k \in Lists : k = slice BY <1>2
<1>3. \A j \in Lists : t \notin On(j) BY <1>2, ListsAre
<1>4. \A j \in Lists : On(j) = {c \in Calls : token[c].list = j} \ {t} BY DEF IInv, Owned
<1>5. CASE token[t].delay = 0
  <2>1. token' = [token EXCEPT ![t] = Free] /\ UNCHANGED <<lists, earlier>>
    BY <1>5 DEF Return
  <2>2. /\ token' \in [Calls -> Tokens] /\ token'[t] = Free
        /\ \A c \in Calls : c # t => token'[c] = token[c]
    BY <1>2, <2>1, ListsAre DEF Free, Tokens
  <2>3. \A j \in Lists : \A c \in On(j) : token'[c] = token[c]
    BY <1>3, <2>2, ListsAre
  <2>4. /\ lists' \in [Lists -> Seq(Calls)] /\ \A j \in Lists : IsInjective(lists'[j])
        /\ \A j \in Lists : On(j)' = On(j)
        /\ earlier' \subseteq Calls \X Calls /\ Ordered' /\ Paired'
    BY <2>1, <2>3, SameLists
  <2>5. TypeOK' BY <1>1, <2>2, <2>4 DEF IInv, TypeOK, Tokens, clocks, check
  <2>6. Owned'
    <3>1. \A j \in Lists : On(j)' = {c \in Calls : token'[c].list = j} \ {NoCall}
      <4>1. token'[t].list \notin Lists BY <2>2 DEF Free, Lists
      <4> QED BY <1>4, <2>2, <2>4, <4>1, CallAssumption
    <3> QED BY <1>1, <2>4, <3>1 DEF Owned, IsInjective, check
  <2>7. FreeIsFree' BY <2>2 DEF IInv, FreeIsFree
  <2>8. Clocked' BY <1>1 DEF IInv, Clocked, clocks, check
  <2>9. Ahead' BY <1>1, <2>3, <2>4 DEF IInv, Ahead, Clock, clocks, check
  <2> QED BY <2>4, <2>5, <2>6, <2>7, <2>8, <2>9 DEF IInv
<1>6. CASE token[t].delay # 0
  <2>1. /\ token' = [token EXCEPT ![t].when = NextTime(token[t])]
        /\ lists' = [lists EXCEPT ![k] = Insert(@, token', t)]
        /\ earlier' = earlier \cup (On(k) \X {t})
    BY <1>0, <1>6 DEF Return
  <2>2. NextTime(token[t]) \in Nat BY <1>2, ListsAre DEF NextTime
  <2>3. /\ token' \in [Calls -> Tokens]
        /\ \A c \in Calls : token'[c].list = token[c].list
        /\ \A c \in Calls : c # t => token'[c] = token[c]
    <3>1. token \in [Calls -> Tokens] BY ListsAre
    <3>2. [token[t] EXCEPT !.when = NextTime(token[t])] \in Tokens
      BY <1>2, <2>2, <3>1 DEF Tokens
    <3>3. [token[t] EXCEPT !.when = NextTime(token[t])].list = token[t].list
      BY <1>2, <3>1 DEF Tokens
    <3> QED BY <1>2, <2>1, <3>1, <3>2, <3>3
  <2>4. /\ lists' \in [Lists -> Seq(Calls)] /\ \A j \in Lists : IsInjective(lists'[j])
        /\ On(k)' = On(k) \cup {t} /\ \A j \in Lists : j # k => On(j)' = On(j)
        /\ earlier' \subseteq Calls \X Calls /\ Ordered' /\ Paired'
    BY <1>2, <1>3, <2>1, <2>3, AddedIs
  <2>5. TypeOK' BY <1>1, <2>3, <2>4 DEF IInv, TypeOK, Tokens, clocks, check
  <2>6. Owned'
    <3>1. \A j \in Lists : On(j)' = {c \in Calls : token'[c].list = j} \ {NoCall}
      <4>1. \A j \in Lists : j = token[t].list <=> j = k BY <1>0, <1>2
      <4>2. t # NoCall /\ \A c \in Calls : c # NoCall BY <1>1, CallAssumption
      <4> QED BY <1>2, <1>4, <2>3, <2>4, <4>1, <4>2
    <3> QED BY <1>1, <2>4, <3>1 DEF Owned, IsInjective, check
  <2>7. FreeIsFree'
    <3>1. "none" \notin Lists BY DEF Lists
    <3>2. \A c \in Calls : token'[c].list = "none" => token'[c] = token[c]
      BY <1>2, <2>3, <3>1
    <3> QED BY <2>3, <3>2 DEF IInv, FreeIsFree
  <2>8. Clocked' BY <1>1 DEF IInv, Clocked, clocks, check
  <2>9. Ahead'
    <3>1. \A j \in Lists : \A c \in On(j) : token'[c] = token[c]
      BY <1>3, <2>3, ListsAre
    <3> QED BY <1>0, <1>1, <2>4, <3>1 DEF IInv, Ahead, Clock, clocks, check
  <2> QED BY <2>4, <2>5, <2>6, <2>7, <2>8, <2>9 DEF IInv
<1> QED BY <1>5, <1>6

LEMMA FailIInv ==
  ASSUME IInv, Fail
  PROVE  IInv'
<1> DEFINE t == currentlambda
<1>1. /\ t # NoCall /\ currentlambda' = NoCall /\ token' = [token EXCEPT ![t] = Free]
      /\ UNCHANGED <<lists, clocks, check, earlier>>
  BY DEF Fail
<1>2. t \in Calls /\ \A j \in Lists : t \notin On(j) BY <1>1, ListsAre
<1>3. \A j \in Lists : On(j) = {c \in Calls : token[c].list = j} \ {t} BY DEF IInv, Owned
<1>4. /\ token' \in [Calls -> Tokens] /\ token'[t] = Free
      /\ \A c \in Calls : c # t => token'[c] = token[c]
  BY <1>1, <1>2, ListsAre DEF Free, Tokens
<1>5. \A j \in Lists : \A c \in On(j) : token'[c] = token[c]
  BY <1>2, <1>4, ListsAre
<1>6. /\ lists' \in [Lists -> Seq(Calls)] /\ \A j \in Lists : IsInjective(lists'[j])
      /\ \A j \in Lists : On(j)' = On(j)
      /\ earlier' \subseteq Calls \X Calls /\ Ordered' /\ Paired'
  BY <1>1, <1>5, SameLists
<1>7. TypeOK' BY <1>1, <1>4, <1>6 DEF IInv, TypeOK, Tokens, clocks, check
<1>8. Owned'
  <2>1. \A j \in Lists : On(j)' = {c \in Calls : token'[c].list = j} \ {NoCall}
    <3>1. token'[t].list \notin Lists BY <1>4 DEF Free, Lists
    <3> QED BY <1>3, <1>4, <1>6, <3>1, CallAssumption
  <2> QED BY <1>1, <1>6, <2>1 DEF Owned, IsInjective, check
<1>9. FreeIsFree' BY <1>4 DEF IInv, FreeIsFree
<1>10. Clocked' BY <1>1 DEF IInv, Clocked, clocks, check
<1>11. Ahead' BY <1>1, <1>5, <1>6 DEF IInv, Ahead, Clock, clocks, check
<1> QED BY <1>6, <1>7, <1>8, <1>9, <1>10, <1>11 DEF IInv

\* When the first call of a list is not due, none of it is.
LEMMA NoneDue ==
  ASSUME IInv, slice \in Lists, ~Due
  PROVE  \A t \in On(slice) : token[t].when > now
<1> DEFINE s == lists[slice]
<1>1. /\ s \in Seq(Calls) /\ InOrder(s, token, earlier) /\ On(slice) = Range(s)
      /\ \A c \in Calls : token[c].when \in Nat
  BY ListsAre DEF IInv, Ordered
<1>2. now \in Nat BY DEF IInv, TypeOK
<1> SUFFICES ASSUME NEW i \in DOMAIN s PROVE token[s[i]].when > now
  BY <1>1 DEF Range
<1>3. Len(s) \in Nat /\ DOMAIN s = 1 .. Len(s) /\ s # <<>> BY <1>1
<1>4. 1 \in DOMAIN s /\ Head(s) = s[1] BY <1>1, <1>3
<1>5. s[1] \in Calls /\ s[i] \in Calls BY <1>1, <1>4
<1>6. token[s[1]].when > now
  <2>1. ~(token[Head(s)].when <= now) BY <1>3 DEF Due
  <2> QED BY <1>1, <1>2, <1>4, <1>5, <2>1
<1>7. CASE i = 1 BY <1>6, <1>7
<1>8. CASE i # 1
  <2>1. 1 < i BY <1>3, <1>8
  <2>2. \/ token[s[1]].when < token[s[i]].when
        \/ token[s[1]].when = token[s[i]].when
    BY <1>1, <1>4, <2>1 DEF InOrder
  <2> QED BY <1>1, <1>2, <1>5, <1>6, <2>2
<1> QED BY <1>7, <1>8

LEMMA UpdateIInv ==
  ASSUME IInv, NEW curtime \in Curtimes, Update(curtime)
  PROVE  IInv'
<1>1. /\ slice = "abs" /\ currentlambda = NoCall /\ ~Due
      /\ gamemillis' = gamemillis + curtime
      /\ slice' = "game" /\ now' = gamemillis'
      /\ UNCHANGED <<lists, token, longtotalmillis, currentlambda, earlier>>
  BY DEF Update, Checked
<1>2. curtime \in Nat /\ gamemillis \in Nat /\ longtotalmillis \in Nat
  BY TimeAssumption DEF IInv, TypeOK
<1>3. "abs" \in Lists BY DEF Lists
<1>4. \A t \in On("abs") : token[t].when > longtotalmillis
  <2>1. now = longtotalmillis BY <1>1 DEF IInv, Clocked
  <2> QED BY <1>1, <1>3, <2>1, NoneDue
<1>5. /\ \A j \in Lists : On(j)' = On(j)
      /\ Ordered' /\ Paired' /\ earlier' \subseteq Calls \X Calls
  BY <1>1, SameLists
<1>6. TypeOK' BY <1>1, <1>2 DEF IInv, TypeOK, Lists
<1>7. Owned' BY <1>1, <1>5 DEF IInv, Owned
<1>8. FreeIsFree' /\ Clocked' BY <1>1, <1>2 DEF IInv, FreeIsFree, Clocked
<1>9. Ahead' BY <1>1, <1>4, <1>5 DEF Ahead, Clock, Lists
<1> QED BY <1>5, <1>6, <1>7, <1>8, <1>9 DEF IInv

LEMMA ServiceIInv ==
  ASSUME IInv, Service
  PROVE  IInv'
<1>1. /\ slice \in Lists /\ currentlambda = NoCall /\ ~Due
      /\ slice' = "events" /\ now' = 0
      /\ UNCHANGED <<lists, token, clocks, currentlambda, earlier>>
  BY DEF Service, Checked, Lists
<1>2. /\ gamemillis \in Nat /\ longtotalmillis \in Nat /\ now \in Nat
      /\ slice = "abs" => now = longtotalmillis
      /\ slice = "game" => now >= gamemillis
  BY DEF IInv, TypeOK, Clocked
<1>3. \A t \in On(slice) : token[t].when > Clock(slice)
  <2>1. \A t \in On(slice) : token[t].when > now /\ token[t].when \in Nat
    BY <1>1, NoneDue, ListsAre
  <2>2. now >= Clock(slice) /\ Clock(slice) \in Nat BY <1>1, <1>2 DEF Clock, Lists
  <2> QED BY <1>2, <2>1, <2>2
<1>4. /\ \A j \in Lists : On(j)' = On(j)
      /\ Ordered' /\ Paired' /\ earlier' \subseteq Calls \X Calls
  BY <1>1, SameLists
<1>5. TypeOK' BY <1>1 DEF IInv, TypeOK, clocks
<1>6. Owned' BY <1>1, <1>4 DEF IInv, Owned
<1>7. FreeIsFree' /\ Clocked' BY <1>1 DEF IInv, FreeIsFree, Clocked, clocks
<1>8. Ahead' BY <1>1, <1>3, <1>4 DEF IInv, Ahead, Clock, clocks
<1> QED BY <1>4, <1>5, <1>6, <1>7, <1>8 DEF IInv

LEMMA NextIInv == IInv /\ [Next]_vars => IInv'
<1> SUFFICES ASSUME IInv, [Next]_vars PROVE IInv' OBVIOUS
<1>1. ASSUME NEW t \in Calls, NEW k \in Lists, NEW delay \in Delays, NEW repeat \in BOOLEAN,
             NewLater(t, k, delay, repeat)
      PROVE  IInv'
  BY <1>1, NewLaterIInv
<1>2. ASSUME NEW t \in Calls, Cancel(t) PROVE IInv' BY <1>2, CancelIInv
<1>3. CASE ChangeMap BY <1>3, ChangeMapIInv
<1>4. CASE Call BY <1>4, CallIInv
<1>5. CASE Return BY <1>5, ReturnIInv
<1>6. CASE Fail BY <1>6, FailIInv
<1>7. CASE Service BY <1>7, ServiceIInv
<1>8. ASSUME NEW elapsed \in Elapsed, Slice(elapsed) PROVE IInv' BY <1>8, SliceIInv
<1>9. ASSUME NEW curtime \in Curtimes, Update(curtime) PROVE IInv' BY <1>9, UpdateIInv
<1>10. CASE UNCHANGED vars
  <2>1. UNCHANGED <<lists, token, longtotalmillis, gamemillis, currentlambda, slice, now, earlier>>
    BY <1>10 DEF vars, clocks, check
  <2>2. \A k \in Lists : On(k)' = On(k) BY <2>1 DEF On
  <2>3. TypeOK' BY <2>1 DEF IInv, TypeOK
  <2>4. Owned' BY <2>1, <2>2 DEF IInv, Owned
  <2>5. Ordered' /\ Paired' BY <2>1, SameLists
  <2>6. FreeIsFree' /\ Clocked' BY <2>1 DEF IInv, FreeIsFree, Clocked
  <2>7. Ahead' BY <2>1, <2>2 DEF IInv, Ahead, Clock
  <2> QED BY <2>3, <2>4, <2>5, <2>6, <2>7 DEF IInv
<1> QED BY <1>1, <1>2, <1>3, <1>4, <1>5, <1>6, <1>7, <1>8, <1>9, <1>10 DEF Next

\* The inductive invariant holds of every behaviour of later.cpp.
THEOREM Invariant == Spec => []IInv
BY InitIInv, NextIInv, PTL DEF Spec

\* The state keeps its types: in particular no list ever holds what is not a call.
THEOREM TypeCorrect == Spec => []TypeOK
<1>1. IInv => TypeOK BY DEF IInv
<1> QED BY <1>1, Invariant, PTL

\* A call in use is on one list, at one place, or runs, whatever calls ask for,
\* cancel, clear and repeat: none is freed twice or lost (cancel, cleargame, check).
THEOREM CallsOwned == Spec => []Owned
<1>1. IInv => Owned BY DEF IInv
<1> QED BY <1>1, Invariant, PTL

\* For any width of unsigned numbers maxhang() does not let the server wait until
\* a call is overdue.
THEOREM AwakeInTime == Spec => []NoOversleep
<1>1. IInv => NoOversleep
  <2> SUFFICES ASSUME IInv, slice = "events", lists["abs"] # <<>>
               PROVE  longtotalmillis + Maxhang < token[Head(lists["abs"])].when
    BY DEF NoOversleep
  <2> DEFINE t == Head(lists["abs"])
             d == token[t].when - longtotalmillis
  <2>1. /\ "abs" \in Lists /\ lists["abs"] \in Seq(Calls) /\ On("abs") = Range(lists["abs"])
    BY ListsAre DEF Lists
  <2>2. t \in On("abs")
    <3>1. 1 \in DOMAIN lists["abs"] /\ t = lists["abs"][1] BY <2>1, TailIs
    <3> QED BY <3>1 DEF On
  <2>3. token[t].when > longtotalmillis /\ token[t].when \in Nat /\ longtotalmillis \in Nat
    <3>1. "events" \notin Lists BY DEF Lists
    <3> QED BY <2>1, <2>2, <3>1, ListsAre DEF IInv, Ahead, Clock, TypeOK
  <2> HIDE DEF t
  <2>4. d \in Nat \ {0} BY <2>3
  <2>5. Maxhang = LET next == d % Word
                  IN  IF next < 1 THEN 0 ELSE IF next - 1 < MaxWait THEN next - 1 ELSE MaxWait
    BY DEF Maxhang, t
  <2> HIDE DEF d
  <2>6. d % Word \in Nat /\ d % Word <= d
    BY <2>4, TimeAssumption
  <2>7. Maxhang < d BY <2>4, <2>5, <2>6, TimeAssumption
  <2>8. Maxhang \in Nat BY <2>5, <2>6, TimeAssumption
  <2> QED BY <2>3, <2>7, <2>8 DEF d, t
<1> QED BY <1>1, Invariant, PTL

-----------------------------------------------------------------------------
(* Each list implements Timers.  T(k) is what Later says of the list k. *)

Of(k) == {pair \in earlier : pair[1] \in On(k)}

T(k) == INSTANCE Timers WITH
    clock <- Clock(k), waiting <- On(k),
    due <- Has(k, When), period <- Has(k, Delay), running <- Running(k),
    earlier <- Of(k)

\* check() goes by the clock of the list; not so once a call of the game's clock has
\* changed the map, which starts that clock again.
InStep(k) == slice = k => now = Clock(k)

\* What a step does to the timers of k: what they promise, or start the next of them
\* early when check() is not in step with the clock.
Punctual(k) == [T(k)!Next]_(T(k)!vars)
Early(k) == ~InStep(k) /\ \E t \in Calls : T(k)!Start(t)

LEMMA HasIs ==
  ASSUME IInv, NEW k \in Lists
  PROVE  /\ DOMAIN Has(k, When) = Calls /\ DOMAIN Has(k, Delay) = Calls
         /\ \A c \in Calls : /\ Has(k, When)[c] = IF token[c].list = k THEN token[c].when ELSE 0
                             /\ Has(k, Delay)[c] = IF token[c].list = k THEN token[c].delay ELSE 0
BY DEF Has, When, Delay

LEMMA HasIsPrimed ==
  ASSUME NEW k \in Lists
  PROVE  /\ Has(k, When)' = [c \in Calls |-> IF token'[c].list = k THEN token'[c].when ELSE 0]
         /\ Has(k, Delay)' = [c \in Calls |-> IF token'[c].list = k THEN token'[c].delay ELSE 0]
<1>1. \A c \in Calls : When'[c] = token'[c].when /\ Delay'[c] = token'[c].delay BY DEF When, Delay
<1> QED BY <1>1 DEF Has

\* A step that does not concern the calls of k.
LEMMA NotOf ==
  ASSUME IInv, NEW k \in Lists, On(k)' = On(k), Clock(k)' = Clock(k), Running(k)' = Running(k),
         \A c \in Calls : \/ token'[c].list # k /\ token[c].list # k
                          \/ token'[c] = token[c],
         \A pair : pair[1] \in On(k) => (pair \in earlier <=> pair \in earlier')
  PROVE  UNCHANGED T(k)!vars
<1>1. Has(k, When)' = Has(k, When) /\ Has(k, Delay)' = Has(k, Delay)
  BY HasIsPrimed DEF Has, When, Delay
<1>2. Of(k)' = Of(k) BY DEF Of
<1> QED BY <1>1, <1>2 DEF T!vars

\* A call that is put on k, to be due at time d.
LEMMA QueueStep ==
  ASSUME IInv, NEW k \in Lists, NEW t \in Calls, NEW d,
         t \notin On(k), On(k)' = On(k) \cup {t}, Clock(k)' = Clock(k),
         token'[t].list = k, token'[t].when = d,
         \A c \in Calls : c # t => token'[c] = token[c],
         earlier' = earlier \cup (On(k) \X {t}), \A j \in Lists : t \notin On(j)
  PROVE  T(k)!Queue(t, d)
<1>1. Has(k, When)' = [Has(k, When) EXCEPT ![t] = d]
  BY HasIsPrimed DEF Has, When
<1>2. Of(k)' = Of(k) \cup (On(k) \X {t})
  <2>1. \A pair \in earlier : pair[1] # t BY DEF IInv, Paired
  <2> QED BY <2>1 DEF Of
<1> QED BY <1>1, <1>2 DEF T!Queue

LEMMA NewLaterStep ==
  ASSUME IInv, NEW t \in Calls, NEW l \in Lists, NEW delay \in Delays, NEW repeat \in BOOLEAN,
         NewLater(t, l, delay, repeat), NEW k \in Lists
  PROVE  [T(k)!Next]_(T(k)!vars)
<1>1. /\ token' = [token EXCEPT ![t] = [list |-> l, when |-> delay + Clock(l),
                                       delay |-> IF repeat THEN delay ELSE 0]]
      /\ lists' = [lists EXCEPT ![l] = Insert(@, token', t)]
      /\ earlier' = earlier \cup (On(l) \X {t})
      /\ UNCHANGED <<clocks, currentlambda, check>>
      /\ token[t] = Free
  BY DEF NewLater
<1>2. delay \in Nat \ {0} /\ Clock(l) \in Nat
  BY TimeAssumption DEF IInv, TypeOK, Clock
<1>3. token' \in [Calls -> Tokens]
  BY <1>1, <1>2, ListsAre DEF Tokens
<1>4. /\ \A c \in Calls : c # t => token'[c] = token[c]
      /\ token'[t].list = l /\ token'[t].when = Clock(l) + delay
      /\ token'[t].delay = IF repeat THEN delay ELSE 0
  BY <1>1, <1>2, ListsAre
<1>5. token[t].list = "none" /\ token[t].delay = 0 /\ "none" \notin Lists
  BY <1>1 DEF Free, Lists
<1>6. t # currentlambda /\ t # NoCall /\ \A j \in Lists : t \notin On(j)
  BY <1>5, CallAssumption, ListsAre
<1>7. On(l)' = On(l) \cup {t} /\ \A j \in Lists : j # l => On(j)' = On(j)
  BY <1>1, <1>3, <1>4, <1>6, AddedIs
<1>8. Clock(k)' = Clock(k) /\ Running(k)' = Running(k)
  BY <1>1 DEF Clock, Running, clocks, check
<1>9. CASE k = l
  <2>1. T(k)!Queue(t, Clock(k) + delay)
    BY <1>1, <1>4, <1>6, <1>7, <1>8, <1>9, QueueStep
  <2>2. Has(k, Delay)' \in {Has(k, Delay), [Has(k, Delay) EXCEPT ![t] = delay]}
    <3>1. CASE repeat
      <4>1. Has(k, Delay)' = [Has(k, Delay) EXCEPT ![t] = delay]
        BY <1>4, <1>9, <3>1, HasIsPrimed DEF Has, Delay
      <4> QED BY <4>1
    <3>2. CASE ~repeat
      <4>1. Has(k, Delay)' = Has(k, Delay)
        BY <1>4, <1>5, <1>9, <3>2, HasIsPrimed DEF Has, Delay
      <4> QED BY <4>1
    <3> QED BY <3>1, <3>2
  <2>3. t \notin On(k) /\ t # Running(k) BY <1>6 DEF Running
  <2>4. T(k)!Ask(t) BY <1>8, <2>1, <2>2, <2>3 DEF T!Ask
  <2> QED BY <2>4 DEF T!Next
<1>10. CASE k # l
  <2>1. \A c \in Calls : \/ token'[c].list # k /\ token[c].list # k
                         \/ token'[c] = token[c]
    BY <1>4, <1>5, <1>10
  <2>2. \A c \in On(l) : c \notin On(k)
    BY <1>10, ListsAre
  <2>3. \A pair : pair[1] \in On(k) => (pair \in earlier <=> pair \in earlier')
    BY <1>1, <2>2
  <2>4. On(k)' = On(k) BY <1>7, <1>10
  <2> QED BY <1>8, <2>1, <2>3, <2>4, NotOf
<1> QED BY <1>9, <1>10

LEMMA CancelStep ==
  ASSUME IInv, NEW t \in Calls, Cancel(t), NEW k \in Lists
  PROVE  [T(k)!Next]_(T(k)!vars)
<1>1. UNCHANGED <<clocks, currentlambda, check>> BY DEF Cancel
<1>2. Clock(k)' = Clock(k) /\ Running(k)' = Running(k)
  BY <1>1 DEF Clock, Running, clocks, check
<1>3. \A pair \in earlier : \A j \in Lists : pair[1] \in On(j) => pair[2] \in On(j)
  <2>1. \A i, j \in Lists : \A c \in On(i) : c \in On(j) => i = j BY ListsAre
  <2> QED BY <2>1 DEF IInv, Paired
<1>4. CASE t = currentlambda
  <2>1. /\ token' = [token EXCEPT ![t].delay = 0] /\ UNCHANGED <<lists, earlier>>
        /\ t # NoCall /\ slice \in Lists /\ token[t].list = slice
    BY <1>4, CallAssumption, ListsAre DEF Cancel, Stopped
  <2>2. On(k)' = On(k) BY <2>1 DEF On
  <2>3. /\ \A c \in Calls : c # t => token'[c] = token[c]
        /\ token'[t].list = token[t].list /\ token'[t].when = token[t].when
        /\ token'[t].delay = 0
    BY <2>1, ListsAre DEF Tokens
  <2>4. \A j \in Lists : t \notin On(j) BY <1>4, ListsAre
  <2>5. CASE k = slice
    <3>1. Has(k, Delay)' = [Has(k, Delay) EXCEPT ![t] = 0]
      BY <2>3, HasIsPrimed DEF Has, Delay
    <3>2. Has(k, When)' = Has(k, When)
      BY <2>3, HasIsPrimed DEF Has, When
    <3>3. t = Running(k) BY <1>4, <2>5 DEF Running
    <3>4. Of(k)' = T(k)!Without(t)
      <4>1. Of(k)' = Of(k) BY <2>1, <2>2 DEF Of
      <4>2. \A pair \in Of(k) : t \notin {pair[1], pair[2]} BY <1>3, <2>4 DEF Of
      <4> QED BY <4>1, <4>2 DEF T!Without
    <3>5. On(k)' = On(k) \ {t} BY <2>2, <2>4
    <3>6. T(k)!Cancel(t) BY <1>2, <3>1, <3>2, <3>3, <3>4, <3>5 DEF T!Cancel
    <3> QED BY <3>6 DEF T!Next
  <2>6. CASE k # slice
    <3>1. \A c \in Calls : \/ token'[c].list # k /\ token[c].list # k
                           \/ token'[c] = token[c]
      BY <2>1, <2>3, <2>6
    <3> QED BY <1>2, <2>1, <2>2, <3>1, NotOf
  <2> QED BY <2>5, <2>6
<1>5. CASE t # currentlambda
  <2>1. PICK l \in Lists, i \in 1 .. Cardinality(Calls) :
          /\ l = token[t].list /\ i \in DOMAIN lists[l] /\ lists[l][i] = t
          /\ lists' = [lists EXCEPT ![l] = Erase(@, i)]
          /\ token' = [token EXCEPT ![t] = Free]
          /\ earlier' = Forgotten(t)
    BY <1>5 DEF Cancel
  <2>2. /\ token'[t] = Free /\ \A c \in Calls : c # t => token'[c] = token[c]
        /\ token'[t].list \notin Lists
    BY <2>1, ListsAre DEF Free, Lists
  <2>3. /\ On(l)' = On(l) \ {t} /\ \A j \in Lists : j # l => On(j)' = On(j)
        /\ t \in On(l)
    BY <2>1, <2>2, TakenIs, ZenonT(60)
  <2>4. CASE k = l
    <3>1. T(k)!Forget(t)
      <4>1. Has(k, When)' = [Has(k, When) EXCEPT ![t] = 0]
        BY <2>2, HasIsPrimed DEF Has, When
      <4>2. Has(k, Delay)' = [Has(k, Delay) EXCEPT ![t] = 0]
        BY <2>2, HasIsPrimed DEF Has, Delay
      <4> QED BY <4>1, <4>2 DEF T!Forget
    <3>2. t # Running(k) BY <1>5, CallAssumption DEF Running
    <3>3. Of(k)' = T(k)!Without(t)
      BY <2>1, <2>3, <2>4 DEF Of, T!Without, Forgotten
    <3>4. T(k)!Cancel(t) BY <1>2, <2>3, <2>4, <3>1, <3>2, <3>3 DEF T!Cancel
    <3> QED BY <3>4 DEF T!Next
  <2>5. CASE k # l
    <3>1. \A c \in Calls : \/ token'[c].list # k /\ token[c].list # k
                           \/ token'[c] = token[c]
      BY <2>1, <2>2, <2>5
    <3>2. t \notin On(k) BY <2>1, <2>5, ListsAre
    <3>3. \A pair : pair[1] \in On(k) => (pair \in earlier <=> pair \in earlier')
      BY <1>3, <2>1, <3>2 DEF Forgotten
    <3>4. On(k)' = On(k) BY <2>3, <2>5
    <3> QED BY <1>2, <3>1, <3>3, <3>4, NotOf
  <2> QED BY <2>4, <2>5
<1> QED BY <1>4, <1>5

LEMMA ChangeMapStep ==
  ASSUME IInv, ChangeMap, NEW k \in Lists
  PROVE  [T(k)!Next]_(T(k)!vars)
<1>1. /\ token' = ClearedGame
      /\ lists' = [lists EXCEPT !["game"] = <<>>]
      /\ earlier' = {pair \in earlier : pair[1] \notin On("game")}
      /\ gamemillis' = 0 /\ UNCHANGED <<longtotalmillis, currentlambda, check>>
  BY DEF ChangeMap
<1>2. \A c \in Calls : token'[c] =
        IF c \in On("game") THEN Free
        ELSE IF c = currentlambda /\ token[c].list = "game" THEN [token[c] EXCEPT !.delay = 0]
        ELSE token[c]
  BY <1>1 DEF ClearedGame
<1>3. /\ "game" \in Lists /\ "abs" \in Lists /\ Free.list = "none" /\ Free.when = 0
      /\ "none" \notin Lists /\ Free.delay = 0
  BY DEF Lists, Free
<1>4. On("game")' = {} /\ On("abs")' = On("abs")
  <2>1. lists'["game"] = <<>> /\ lists'["abs"] = lists["abs"]
    BY <1>1 DEF IInv, TypeOK, Lists
  <2> QED BY <2>1 DEF On
<1>5. \A c \in Calls : token[c].list = "game" => c \in On("game") \/ c = currentlambda
  BY <1>3, ListsAre
<1>6. Running(k)' = Running(k) BY <1>1 DEF Running, check
<1>7. CASE k = "game"
  <2>1. Clock(k)' = 0 BY <1>1, <1>7 DEF Clock
  <2>2. On(k)' = {} /\ Of(k)' = {} BY <1>4, <1>7 DEF Of
  <2>3. Has(k, Delay)' = [t \in Calls |-> 0]
    <3>1. ASSUME NEW c \in Calls, token'[c].list = k PROVE token'[c].delay = 0
      <4>1. c \notin On("game") BY <1>2, <1>3, <1>7, <3>1
      <4>2. token[c].list = "game" => c = currentlambda BY <1>5, <4>1
      <4>3. token[c] \in Tokens BY ListsAre
      <4>4. CASE token[c].list = "game"
        <5>1. token'[c] = [token[c] EXCEPT !.delay = 0] BY <1>2, <4>1, <4>2, <4>4
        <5> QED BY <4>3, <5>1 DEF Tokens
      <4>5. CASE token[c].list # "game"
        <5>1. token'[c] = token[c] BY <1>2, <4>1, <4>5
        <5> QED BY <1>7, <3>1, <4>5, <5>1
      <4> QED BY <4>4, <4>5
    <3> QED BY <3>1, HasIsPrimed
  <2>4. Has(k, When)' = [t \in Calls |-> IF t = Running(k) THEN Has(k, When)[t] ELSE 0]
    <3>1. ASSUME NEW c \in Calls
          PROVE  (IF token'[c].list = k THEN token'[c].when ELSE 0) =
                   (IF c = Running(k) THEN Has(k, When)[c] ELSE 0)
      <4>1. Has(k, When)[c] = IF token[c].list = k THEN token[c].when ELSE 0 BY HasIs
      <4>2. token[c] \in Tokens BY ListsAre
      <4>3. CASE c \in On("game")
        <5>1. token'[c].list # k BY <1>2, <1>3, <4>3
        <5>2. c # currentlambda BY <1>3, <4>3, ListsAre
        <5>3. c # Running(k) BY <5>2, CallAssumption DEF Running
        <5> QED BY <5>1, <5>3
      <4>4. CASE c \notin On("game") /\ token[c].list = "game"
        <5>1. c = currentlambda BY <1>5, <4>4
        <5>2. c = Running(k)
          <6>1. c # NoCall BY CallAssumption
          <6> QED BY <1>7, <4>4, <5>1, <6>1, ListsAre DEF Running
        <5>3. token'[c] = [token[c] EXCEPT !.delay = 0] BY <1>2, <4>4, <5>1
        <5>4. token'[c].list = token[c].list /\ token'[c].when = token[c].when
          BY <4>2, <5>3 DEF Tokens
        <5> QED BY <1>7, <4>1, <4>4, <5>2, <5>4
      <4>5. CASE c \notin On("game") /\ token[c].list # "game"
        <5>1. token'[c] = token[c] BY <1>2, <4>5
        <5> QED BY <1>7, <4>1, <4>5, <5>1
      <4> QED BY <4>3, <4>4, <4>5
    <3> QED BY <3>1, HasIsPrimed
  <2>5. T(k)!Reset BY <1>6, <2>1, <2>2, <2>3, <2>4 DEF T!Reset
  <2> QED BY <2>5 DEF T!Next
<1>8. CASE k = "abs"
  <2>1. Clock(k)' = Clock(k) BY <1>1, <1>8 DEF Clock
  <2>2. \A c \in Calls : \/ token'[c].list # k /\ token[c].list # k
                         \/ token'[c] = token[c]
    <3>1. ASSUME NEW c \in Calls
          PROVE  \/ token'[c].list # k /\ token[c].list # k
                 \/ token'[c] = token[c]
      <4>1. token[c] \in Tokens BY ListsAre
      <4>2. CASE c \in On("game")
        <5>1. token[c].list = "game" BY <1>3, <4>2, ListsAre
        <5> QED BY <1>2, <1>3, <1>8, <4>2, <5>1
      <4>3. CASE c \notin On("game") /\ c = currentlambda /\ token[c].list = "game"
        <5>1. token'[c] = [token[c] EXCEPT !.delay = 0] BY <1>2, <4>3
        <5>2. token'[c].list = token[c].list BY <4>1, <5>1 DEF Tokens
        <5> QED BY <1>8, <4>3, <5>2
      <4>4. CASE c \notin On("game") /\ ~(c = currentlambda /\ token[c].list = "game")
        BY <1>2, <4>4
      <4> QED BY <4>2, <4>3, <4>4
    <3> QED BY <3>1
  <2>3. \A pair : pair[1] \in On(k) => (pair \in earlier <=> pair \in earlier')
    <3>1. \A c \in On("abs") : c \notin On("game") BY <1>3, ListsAre
    <3> QED BY <1>1, <1>8, <3>1
  <2>4. On(k)' = On(k) BY <1>4, <1>8
  <2> QED BY <1>6, <2>1, <2>2, <2>3, <2>4, NotOf
<1> QED BY <1>7, <1>8 DEF Lists

LEMMA SliceStep ==
  ASSUME IInv, NEW elapsed \in Elapsed, Slice(elapsed), NEW k \in Lists
  PROVE  [T(k)!Next]_(T(k)!vars)
<1>1. /\ slice = "events" /\ longtotalmillis' = longtotalmillis + elapsed
      /\ slice' = "abs" /\ UNCHANGED <<lists, token, gamemillis, currentlambda, earlier>>
  BY DEF Slice
<1>2. elapsed \in Nat \ {0} /\ longtotalmillis \in Nat
  BY TimeAssumption DEF IInv, TypeOK
<1>3. currentlambda = NoCall BY <1>1 DEF IInv, Owned, Lists
<1>4. Running(k) = NoCall /\ Running(k)' = NoCall BY <1>1, <1>3 DEF Running
<1>5. On(k)' = On(k) BY <1>1 DEF On
<1>6. CASE k = "abs"
  <2>1. \A t \in On(k) : Has(k, When)[t] > Clock(k)
    <3>1. \A t \in On(k) : t \in Calls /\ token[t].list = k BY ListsAre
    <3>2. \A t \in On(k) : token[t].when > Clock(k)
      <4>1. slice # k BY <1>1, <1>6
      <4> QED BY <4>1 DEF IInv, Ahead
    <3> QED BY <3>1, <3>2, HasIs
  <2>2. Clock(k)' \in Nat /\ Clock(k)' > Clock(k) BY <1>1, <1>2, <1>6 DEF Clock
  <2>3. Has(k, When)' = Has(k, When) /\ Has(k, Delay)' = Has(k, Delay) /\ Of(k)' = Of(k)
    BY <1>1, <1>5 DEF Has, When, Delay, Of
  <2>4. T(k)!Tick BY <1>4, <1>5, <2>1, <2>2, <2>3 DEF T!Tick
  <2> QED BY <2>4 DEF T!Next
<1>7. CASE k = "game"
  <2>1. Clock(k)' = Clock(k) BY <1>1, <1>7 DEF Clock
  <2> QED BY <1>1, <1>4, <1>5, <2>1, NotOf
<1> QED BY <1>6, <1>7 DEF Lists

LEMMA UpdateStep ==
  ASSUME IInv, NEW curtime \in Curtimes, Update(curtime), NEW k \in Lists
  PROVE  [T(k)!Next]_(T(k)!vars)
<1>1. /\ slice = "abs" /\ currentlambda = NoCall
      /\ gamemillis' = gamemillis + curtime /\ slice' = "game"
      /\ UNCHANGED <<lists, token, longtotalmillis, currentlambda, earlier>>
  BY DEF Update, Checked
<1>2. curtime \in Nat \ {0} /\ gamemillis \in Nat
  BY TimeAssumption DEF IInv, TypeOK
<1>3. Running(k) = NoCall /\ Running(k)' = NoCall BY <1>1 DEF Running
<1>4. On(k)' = On(k) BY <1>1 DEF On
<1>5. CASE k = "game"
  <2>1. \A t \in On(k) : Has(k, When)[t] > Clock(k)
    <3>1. \A t \in On(k) : t \in Calls /\ token[t].list = k BY ListsAre
    <3>2. \A t \in On(k) : token[t].when > Clock(k)
      <4>1. slice # k BY <1>1, <1>5
      <4> QED BY <4>1 DEF IInv, Ahead
    <3> QED BY <3>1, <3>2, HasIs
  <2>2. Clock(k)' \in Nat /\ Clock(k)' > Clock(k) BY <1>1, <1>2, <1>5 DEF Clock
  <2>3. Has(k, When)' = Has(k, When) /\ Has(k, Delay)' = Has(k, Delay) /\ Of(k)' = Of(k)
    BY <1>1, <1>4 DEF Has, When, Delay, Of
  <2>4. T(k)!Tick BY <1>3, <1>4, <2>1, <2>2, <2>3 DEF T!Tick
  <2> QED BY <2>4 DEF T!Next
<1>6. CASE k = "abs"
  <2>1. Clock(k)' = Clock(k) BY <1>1, <1>6 DEF Clock
  <2> QED BY <1>1, <1>3, <1>4, <2>1, NotOf
<1> QED BY <1>5, <1>6 DEF Lists

LEMMA ServiceStep ==
  ASSUME IInv, Service, NEW k \in Lists
  PROVE  [T(k)!Next]_(T(k)!vars)
<1>1. /\ currentlambda = NoCall /\ slice' = "events"
      /\ UNCHANGED <<lists, token, clocks, currentlambda, earlier>>
  BY DEF Service, Checked
<1>2. Running(k) = NoCall /\ Running(k)' = NoCall BY <1>1 DEF Running
<1>3. On(k)' = On(k) /\ Clock(k)' = Clock(k) BY <1>1 DEF On, Clock, clocks
<1> QED BY <1>1, <1>2, <1>3, NotOf

LEMMA CallStep ==
  ASSUME IInv, Call, NEW k \in Lists
  PROVE  Punctual(k) \/ Early(k)
<1> DEFINE t == Head(lists[slice])
<1>1. /\ slice \in Lists /\ currentlambda = NoCall /\ lists[slice] # <<>>
      /\ token[t].when <= now
      /\ currentlambda' = t /\ lists' = [lists EXCEPT ![slice] = Tail(@)]
      /\ earlier' = Forgotten(t) /\ UNCHANGED <<token, clocks, check>>
  BY DEF Call, Due
<1>2. PICK l \in Lists : l = slice BY <1>1
<1>3. /\ 1 \in DOMAIN lists[l] /\ t = lists[l][1] /\ Tail(lists[l]) = Erase(lists[l], 1)
      /\ lists[l] \in Seq(Calls)
  BY <1>1, <1>2, TailIs, ListsAre
<1>4. t \in Calls /\ token[t].when <= now BY <1>1, <1>3
<1> HIDE DEF t
<1>5. /\ On(l)' = On(l) \ {t} /\ \A j \in Lists : j # l => On(j)' = On(j)
      /\ t \in On(l)
  <2>1. lists' = [lists EXCEPT ![l] = Erase(@, 1)] /\ earlier' = Forgotten(t) /\ token' = token
    BY <1>1, <1>2, <1>3
  <2> QED BY <1>3, <1>4, <2>1, TakenIs
<1>6. Clock(k)' = Clock(k) BY <1>1 DEF Clock, clocks
<1>7. \A pair \in earlier : \A j \in Lists : pair[1] \in On(j) => pair[2] \in On(j)
  <2>1. \A i, j \in Lists : \A c \in On(i) : c \in On(j) => i = j BY ListsAre
  <2> QED BY <2>1 DEF IInv, Paired
<1>8. Has(k, When)' = Has(k, When) /\ Has(k, Delay)' = Has(k, Delay)
  BY <1>1 DEF Has, When, Delay
<1>9. CASE k = l
  <2>1. Running(k) = NoCall /\ Running(k)' = t BY <1>1, <1>2, <1>9 DEF Running, check
  <2>2. Has(k, When)[t] = token[t].when BY <1>4, <1>5, <1>9, ListsAre, HasIs
  <2>3. InStep(k) => Has(k, When)[t] <= Clock(k) BY <1>2, <1>4, <1>9, <2>2 DEF InStep
  <2>4. T(k)!IsNext(t)
    <3>1. SUFFICES ASSUME NEW u \in On(k)
                   PROVE  \/ Has(k, When)[t] < Has(k, When)[u]
                          \/ Has(k, When)[t] = Has(k, When)[u] /\ <<u, t>> \notin Of(k)
      BY DEF T!IsNext
    <3>2. u \in Calls /\ Has(k, When)[u] = token[u].when BY HasIs, ListsAre
    <3>3. PICK i \in DOMAIN lists[k] : u = lists[k][i] BY DEF On
    <3>4. InOrder(lists[k], token, earlier) BY DEF IInv, Ordered
    <3>5. CASE i = 1
      <4>1. u = t BY <1>3, <1>9, <3>3, <3>5
      <4>2. <<u, t>> \notin earlier BY <4>1 DEF IInv, Paired
      <4> QED BY <4>1, <4>2 DEF Of
    <3>6. CASE i # 1
      <4>1. 1 < i BY <1>3, <1>9, <3>3, <3>6
      <4>2. \/ token[t].when < token[u].when
            \/ token[t].when = token[u].when /\ <<u, t>> \notin earlier
        BY <1>3, <1>9, <3>3, <3>4, <4>1 DEF InOrder
      <4> QED BY <2>2, <3>2, <4>2 DEF Of
    <3> QED BY <3>5, <3>6
  <2>5. Of(k)' = T(k)!Without(t)
    BY <1>1, <1>5, <1>9 DEF Of, T!Without, Forgotten
  <2>6. T(k)!Start(t) BY <1>5, <1>6, <1>8, <1>9, <2>1, <2>4, <2>5 DEF T!Start
  <2>7. CASE InStep(k)
    <3>1. T(k)!Run(t) BY <2>3, <2>6, <2>7 DEF T!Run
    <3> QED BY <1>4, <3>1 DEF T!Next, Punctual
  <2>8. CASE ~InStep(k) BY <1>4, <2>6, <2>8 DEF Early
  <2> QED BY <2>7, <2>8
<1>10. CASE k # l
  <2>1. Running(k) = NoCall /\ Running(k)' = NoCall BY <1>1, <1>2, <1>10 DEF Running, check
  <2>2. t \notin On(k) BY <1>4, <1>5, <1>10, ListsAre
  <2>3. \A pair : pair[1] \in On(k) => (pair \in earlier <=> pair \in earlier')
    BY <1>1, <1>7, <2>2 DEF Forgotten
  <2>4. On(k)' = On(k) BY <1>5, <1>10
  <2> QED BY <1>1, <1>6, <2>1, <2>3, <2>4, NotOf DEF Punctual
<1> QED BY <1>9, <1>10

LEMMA ReturnStep ==
  ASSUME IInv, Return, NEW k \in Lists
  PROVE  [T(k)!Next]_(T(k)!vars)
<1> DEFINE t == currentlambda
<1>1. t # NoCall /\ currentlambda' = NoCall /\ UNCHANGED <<clocks, check>> BY DEF Return
<1>2. PICK l \in Lists : l = slice BY <1>1, ListsAre
<1>3. t \in Calls /\ token[t].list = l BY <1>1, <1>2, ListsAre
<1>4. \A j \in Lists : t \notin On(j) BY <1>3, ListsAre
<1>5. Clock(k)' = Clock(k) BY <1>1 DEF Clock, clocks
<1>6. Running(k)' = NoCall /\ Running(k) = IF k = l THEN t ELSE NoCall
  BY <1>1, <1>2 DEF Running, check
<1>7. CASE token[t].delay = 0
  <2>1. token' = [token EXCEPT ![t] = Free] /\ UNCHANGED <<lists, earlier>>
    BY <1>7 DEF Return
  <2>2. On(k)' = On(k) BY <2>1 DEF On
  <2>3. /\ token'[t].list \notin Lists
        /\ \A c \in Calls : c # t => token'[c] = token[c]
    BY <1>3, <2>1, ListsAre DEF Free, Lists
  <2>4. CASE k = l
    <3>1. T(k)!Forget(t)
      <4>1. Has(k, When)' = [Has(k, When) EXCEPT ![t] = 0]
        BY <2>3, HasIsPrimed DEF Has, When
      <4>2. Has(k, Delay)' = [Has(k, Delay) EXCEPT ![t] = 0]
        BY <2>3, HasIsPrimed DEF Has, Delay
      <4> QED BY <4>1, <4>2 DEF T!Forget
    <3>2. Of(k)' = Of(k) BY <2>1, <2>2 DEF Of
    <3>3. T(k)!End BY <1>1, <1>5, <1>6, <2>2, <2>4, <3>1, <3>2 DEF T!End
    <3> QED BY <3>3 DEF T!Next
  <2>5. CASE k # l
    <3>1. \A c \in Calls : \/ token'[c].list # k /\ token[c].list # k
                           \/ token'[c] = token[c]
      BY <1>3, <2>3, <2>5
    <3>2. Running(k)' = Running(k) BY <1>6, <2>5
    <3> QED BY <1>5, <2>1, <2>2, <3>1, <3>2, NotOf
  <2> QED BY <2>4, <2>5
<1>8. CASE token[t].delay # 0
  <2>1. /\ token' = [token EXCEPT ![t].when = NextTime(token[t])]
        /\ lists' = [lists EXCEPT ![l] = Insert(@, token', t)]
        /\ earlier' = earlier \cup (On(l) \X {t})
    BY <1>2, <1>8 DEF Return
  <2>2. NextTime(token[t]) \in Nat BY <1>3, ListsAre DEF NextTime
  <2>3. /\ token' \in [Calls -> Tokens]
        /\ \A c \in Calls : c # t => token'[c] = token[c]
        /\ token'[t].list = l /\ token'[t].when = NextTime(token[t])
        /\ token'[t].delay = token[t].delay
    <3>1. token \in [Calls -> Tokens] BY ListsAre
    <3> DEFINE r == [token[t] EXCEPT !.when = NextTime(token[t])]
    <3>2. r \in Tokens BY <1>3, <2>2, <3>1 DEF Tokens
    <3>3. r.list = token[t].list /\ r.delay = token[t].delay /\ r.when = NextTime(token[t])
      BY <1>3, <3>1 DEF Tokens
    <3>4. token' = [token EXCEPT ![t] = r] BY <2>1
    <3> HIDE DEF r
    <3> QED BY <1>3, <3>1, <3>2, <3>3, <3>4
  <2>4. On(l)' = On(l) \cup {t} /\ \A j \in Lists : j # l => On(j)' = On(j)
    BY <1>3, <1>4, <2>1, <2>3, AddedIs
  <2>5. CASE k = l
    <3>1. T(k)!Queue(t, NextTime(token[t]))
      BY <1>3, <1>4, <1>5, <2>1, <2>3, <2>4, <2>5, QueueStep
    <3>2. Has(k, Delay)' = Has(k, Delay)
      BY <1>3, <2>3, HasIsPrimed DEF Has, Delay
    <3>3. NextTime(token[t]) = Has(k, When)[t] + Has(k, Delay)[t] /\ Has(k, Delay)[t] # 0
      BY <1>3, <1>8, <2>5, HasIs DEF NextTime
    <3>4. T(k)!Repeat BY <1>1, <1>6, <2>5, <3>1, <3>2, <3>3 DEF T!Repeat
    <3> QED BY <3>4 DEF T!Next
  <2>6. CASE k # l
    <3>1. \A c \in Calls : \/ token'[c].list # k /\ token[c].list # k
                           \/ token'[c] = token[c]
      BY <1>3, <2>3, <2>6
    <3>2. \A c \in On(l) : c \notin On(k) BY <2>6, ListsAre
    <3>3. \A pair : pair[1] \in On(k) => (pair \in earlier <=> pair \in earlier')
      BY <2>1, <3>2
    <3>4. On(k)' = On(k) BY <2>4, <2>6
    <3>5. Running(k)' = Running(k) BY <1>6, <2>6
    <3> QED BY <1>5, <3>1, <3>3, <3>4, <3>5, NotOf
  <2> QED BY <2>5, <2>6
<1> QED BY <1>7, <1>8

LEMMA FailStep ==
  ASSUME IInv, Fail, NEW k \in Lists
  PROVE  [T(k)!Next]_(T(k)!vars)
<1> DEFINE t == currentlambda
<1>1. /\ t # NoCall /\ currentlambda' = NoCall /\ token' = [token EXCEPT ![t] = Free]
      /\ UNCHANGED <<lists, clocks, check, earlier>>
  BY DEF Fail
<1>2. PICK l \in Lists : l = slice BY <1>1, ListsAre
<1>3. t \in Calls /\ token[t].list = l BY <1>1, <1>2, ListsAre
<1>4. Clock(k)' = Clock(k) /\ On(k)' = On(k) BY <1>1 DEF Clock, On, clocks
<1>5. Running(k)' = NoCall /\ Running(k) = IF k = l THEN t ELSE NoCall
  BY <1>1, <1>2 DEF Running, check
<1>6. /\ token'[t].list \notin Lists
      /\ \A c \in Calls : c # t => token'[c] = token[c]
  BY <1>1, <1>3, ListsAre DEF Free, Lists
<1>7. CASE k = l
  <2>1. T(k)!Forget(t)
    <3>1. Has(k, When)' = [Has(k, When) EXCEPT ![t] = 0]
      BY <1>6, HasIsPrimed DEF Has, When
    <3>2. Has(k, Delay)' = [Has(k, Delay) EXCEPT ![t] = 0]
      BY <1>6, HasIsPrimed DEF Has, Delay
    <3> QED BY <3>1, <3>2 DEF T!Forget
  <2>2. Of(k)' = Of(k) BY <1>1, <1>4 DEF Of
  <2>3. T(k)!End BY <1>1, <1>4, <1>5, <1>7, <2>1, <2>2 DEF T!End
  <2> QED BY <2>3 DEF T!Next
<1>8. CASE k # l
  <2>1. \A c \in Calls : \/ token'[c].list # k /\ token[c].list # k
                         \/ token'[c] = token[c]
    BY <1>3, <1>6, <1>8
  <2>2. Running(k)' = Running(k) BY <1>5, <1>8
  <2> QED BY <1>1, <1>4, <2>1, <2>2, NotOf
<1> QED BY <1>7, <1>8

\* Every step of Later is a step of the timers of each list, leaves them alone, or
\* starts one of them early.
LEMMA NextStep ==
  ASSUME IInv, [Next]_vars, NEW k \in Lists
  PROVE  Punctual(k) \/ Early(k)
<1>1. ASSUME NEW t \in Calls, NEW l \in Lists, NEW delay \in Delays, NEW repeat \in BOOLEAN,
             NewLater(t, l, delay, repeat)
      PROVE  Punctual(k)
  BY <1>1, NewLaterStep DEF Punctual
<1>2. ASSUME NEW t \in Calls, Cancel(t) PROVE Punctual(k) BY <1>2, CancelStep DEF Punctual
<1>3. CASE ChangeMap BY <1>3, ChangeMapStep DEF Punctual
<1>4. CASE Call BY <1>4, CallStep
<1>5. CASE Return BY <1>5, ReturnStep DEF Punctual
<1>6. CASE Fail BY <1>6, FailStep DEF Punctual
<1>7. CASE Service BY <1>7, ServiceStep DEF Punctual
<1>8. ASSUME NEW elapsed \in Elapsed, Slice(elapsed) PROVE Punctual(k)
  BY <1>8, SliceStep DEF Punctual
<1>9. ASSUME NEW curtime \in Curtimes, Update(curtime) PROVE Punctual(k)
  BY <1>9, UpdateStep DEF Punctual
<1>10. CASE UNCHANGED vars
  <2>1. /\ On(k)' = On(k) /\ Clock(k)' = Clock(k) /\ Running(k)' = Running(k)
        /\ token' = token /\ earlier' = earlier
    BY <1>10 DEF vars, clocks, check, On, Clock, Running
  <2> QED BY <2>1, NotOf DEF Punctual
<1> QED BY <1>1, <1>2, <1>3, <1>4, <1>5, <1>6, <1>7, <1>8, <1>9, <1>10 DEF Next

LEMMA InitStep ==
  ASSUME Init, NEW k \in Lists
  PROVE  T(k)!Init
<1>1. On(k) = {} /\ Of(k) = {} /\ Clock(k) = 0 /\ Running(k) = NoCall
  BY DEF Init, On, Of, Clock, Running
<1>2. Has(k, When) = [t \in Calls |-> 0] /\ Has(k, Delay) = [t \in Calls |-> 0]
  BY DEF Init, Has, When, Delay, Free, Lists
<1> QED BY <1>1, <1>2 DEF T!Init

\* Calls of the server's clock are run when they are due, in the order in which they
\* were asked for, as often as promised and never once cancelled, whatever the calls
\* themselves ask for, cancel and clear: their list implements Timers.
THEOREM ServerTimers == Spec => A!Spec
<1>1. Init => A!Init
  <2> SUFFICES ASSUME Init PROVE A!Init OBVIOUS
  <2>1. T("abs")!Init BY InitStep DEF Lists
  <2> QED BY <2>1 DEF T!Init, A!Init, Clock, Of
<1>2. IInv /\ [Next]_vars => [A!Next]_(A!vars)
  <2> SUFFICES ASSUME IInv, [Next]_vars PROVE [A!Next]_(A!vars) OBVIOUS
  <2>1. InStep("abs") BY DEF InStep, IInv, Clocked, Clock
  <2>2. [T("abs")!Next]_(T("abs")!vars) BY <2>1, NextStep DEF Lists, Punctual, Early
  <2>3. Clock("abs") = longtotalmillis /\ Clock("abs")' = longtotalmillis' BY DEF Clock
  <2>4. T("abs")!vars = A!vars BY DEF T!vars, A!vars, Clock, Of
  <2>5. T("abs")!vars' = A!vars' BY DEF T!vars, A!vars, Clock, Of
  <2>6. T("abs")!Next => A!Next
    BY <2>3 DEF T!Next, A!Next, T!Ask, A!Ask, T!Cancel, A!Cancel, T!Run, A!Run,
        T!Start, A!Start, T!Repeat, A!Repeat, T!End, A!End, T!Reset, A!Reset,
        T!Tick, A!Tick, T!Queue, A!Queue, T!Forget, A!Forget, T!IsNext, A!IsNext,
        T!Without, A!Without, Clock, Of
  <2> QED BY <2>2, <2>4, <2>5, <2>6
<1> QED BY <1>1, <1>2, Invariant, PTL DEF Spec, A!Spec

\* The same of the calls of the game's clock, but that what a call asks for after it has
\* changed the map may run in the same check, before its time: in order, once, and not
\* if it was cancelled.
THEOREM GameTimers ==
  Spec => G!Init /\ [][[G!Next]_(G!vars) \/ (Restarted /\ \E t \in Calls : G!Start(t))]_vars
<1>1. Init => G!Init
  <2> SUFFICES ASSUME Init PROVE G!Init OBVIOUS
  <2>1. T("game")!Init BY InitStep DEF Lists
  <2> QED BY <2>1 DEF T!Init, G!Init, Clock, Of
<1>2. IInv /\ [Next]_vars =>
        [[G!Next]_(G!vars) \/ (Restarted /\ \E t \in Calls : G!Start(t))]_vars
  <2> SUFFICES ASSUME IInv, [Next]_vars
               PROVE  [G!Next]_(G!vars) \/ (Restarted /\ \E t \in Calls : G!Start(t))
    OBVIOUS
  <2>1. Punctual("game") \/ Early("game") BY NextStep DEF Lists
  <2>2. InStep("game") <=> ~Restarted BY DEF InStep, Restarted, Clock
  <2>3. Clock("game") = gamemillis /\ Clock("game")' = gamemillis' BY DEF Clock
  <2>4. T("game")!vars = G!vars BY DEF T!vars, G!vars, Clock, Of
  <2>5. T("game")!vars' = G!vars' BY DEF T!vars, G!vars, Clock, Of
  <2>6. T("game")!Next => G!Next
    BY <2>3 DEF T!Next, G!Next, T!Ask, G!Ask, T!Cancel, G!Cancel, T!Run, G!Run,
        T!Start, G!Start, T!Repeat, G!Repeat, T!End, G!End, T!Reset, G!Reset,
        T!Tick, G!Tick, T!Queue, G!Queue, T!Forget, G!Forget, T!IsNext, G!IsNext,
        T!Without, G!Without, Clock, Of
  <2>7. ASSUME NEW t \in Calls, T("game")!Start(t) PROVE G!Start(t)
    BY <2>3, <2>7 DEF T!Start, G!Start, T!IsNext, G!IsNext, T!Without, G!Without, Clock, Of
  <2> QED BY <2>1, <2>2, <2>4, <2>5, <2>6, <2>7 DEF Punctual, Early
<1> QED BY <1>1, <1>2, Invariant, PTL DEF Spec

\* Both together are what scripts are promised, whichever calls change the map.
THEOREM TimersImplemented == Spec => TimersKept
BY ServerTimers, GameTimers, PTL DEF TimersKept
=============================================================================
