------------------------------- MODULE BotsProofs -------------------------------
(***************************************************************************)
(* Proofs about Bots: bots and the lists of their owners agree, owners are *)
(* there and may simulate bots, and whatever is to be done about a bot is  *)
(* done by the next checkai.                                               *)
(***************************************************************************)
EXTENDS Bots, VectorProofs, FiniteSetTheorems

Bot == {NoBot} \cup [ownernum : Humans \cup {NoOwner}, aireinit : {0, 2}, team : TeamOf]

States == [bots : [Slots -> Bot], owned : [Humans -> Seq(Slots)]]

\* The bots and the lists of their owners agree.
Agree(st) ==
    /\ st \in States
    /\ \A h \in Humans : IsInjective(st.owned[h])
    /\ \A h \in Humans, b \in Slots : b \in Range(st.owned[h]) <=> st.bots[b].ownernum = h
-----------------------------------------------------------------------------
(* Owners *)

\* Some client has the fewest bots, and one of those is the first.
LEMMA FewestIs ==
  ASSUME NEW o \in [Humans -> Seq(Slots)], NEW who \in Seq(Humans), who # <<>>
  PROVE  \E i \in DOMAIN who :
           /\ \A k \in DOMAIN who : Len(o[who[i]]) <= Len(o[who[k]])
           /\ \A j \in 1 .. i - 1 : ~\A k \in DOMAIN who : Len(o[who[j]]) <= Len(o[who[k]])
<1>1. /\ Len(who) \in Nat \ {0} /\ DOMAIN who = 1 .. Len(who)
      /\ \A i \in 1 .. Len(who) : who[i] \in Humans /\ Len(o[who[i]]) \in Nat
  OBVIOUS
<1> DEFINE Lens == {Len(o[who[i]]) : i \in 1 .. Len(who)}
<1>2. Lens \in SUBSET Nat /\ Lens # {}
  <2>1. 1 \in 1 .. Len(who) BY <1>1
  <2>2. Len(o[who[1]]) \in Lens BY <2>1
  <2>3. \A x \in Lens : x \in Nat BY <1>1
  <2> QED BY <2>2, <2>3
<1>3. PICK n \in Lens : \A m \in Lens : n <= m BY <1>2, LeastNat
<1> DEFINE Least == {i \in 1 .. Len(who) : \A k \in 1 .. Len(who) : Len(o[who[i]]) <= Len(o[who[k]])}
<1>4. Least \in SUBSET Nat /\ Least # {}
  <2>1. PICK i \in 1 .. Len(who) : n = Len(o[who[i]]) OBVIOUS
  <2>2. \A k \in 1 .. Len(who) : Len(o[who[k]]) \in Lens OBVIOUS
  <2> HIDE DEF Lens
  <2>3. i \in Least BY <1>3, <2>1, <2>2
  <2>4. \A j \in Least : j \in Nat BY <1>1
  <2> QED BY <2>3, <2>4
<1>5. PICK i \in Least : \A j \in Least : i <= j BY <1>4, LeastNat
<1>6. ASSUME NEW j \in 1 .. i - 1 PROVE j \notin Least
  <2>1. i \in Int /\ j \in Int /\ ~(i <= j) BY <1>1
  <2> HIDE DEF Least
  <2> QED BY <1>5, <2>1
<1>7. \A j \in 1 .. i - 1 : j \in 1 .. Len(who) BY <1>1
<1> QED BY <1>1, <1>5, <1>6, <1>7

\* And some client has the most.
LEMMA MostIs ==
  ASSUME NEW o \in [Humans -> Seq(Slots)], NEW who \in Seq(Humans), who # <<>>,
         NEW top \in Nat, \A h \in Humans : Len(o[h]) <= top
  PROVE  \E i \in DOMAIN who :
           /\ \A k \in DOMAIN who : Len(o[who[i]]) >= Len(o[who[k]])
           /\ \A j \in 1 .. i - 1 : ~\A k \in DOMAIN who : Len(o[who[j]]) >= Len(o[who[k]])
<1>1. /\ Len(who) \in Nat \ {0} /\ DOMAIN who = 1 .. Len(who)
      /\ \A i \in 1 .. Len(who) : /\ who[i] \in Humans /\ Len(o[who[i]]) \in Nat
                                  /\ top - Len(o[who[i]]) \in Nat
  OBVIOUS
<1> DEFINE Rests == {top - Len(o[who[i]]) : i \in 1 .. Len(who)}
<1>2. Rests \in SUBSET Nat /\ Rests # {} BY <1>1
<1>3. PICK n \in Rests : \A m \in Rests : n <= m BY <1>2, LeastNat
<1> DEFINE Most == {i \in 1 .. Len(who) : \A k \in 1 .. Len(who) : Len(o[who[i]]) >= Len(o[who[k]])}
<1>4. Most \in SUBSET Nat /\ Most # {}
  <2>1. PICK i \in 1 .. Len(who) : n = top - Len(o[who[i]]) OBVIOUS
  <2>2. ASSUME NEW k \in 1 .. Len(who) PROVE Len(o[who[i]]) >= Len(o[who[k]])
    <3>1. top - Len(o[who[i]]) <= top - Len(o[who[k]]) BY <1>3, <2>1
    <3> QED BY <1>1, <3>1
  <2>3. i \in Most BY <2>2
  <2>4. \A j \in Most : j \in Nat BY <1>1
  <2> QED BY <2>3, <2>4
<1>5. PICK i \in Most : \A j \in Most : i <= j BY <1>4, LeastNat
<1>6. ASSUME NEW j \in 1 .. i - 1 PROVE j \notin Most
  <2>1. i \in Int /\ j \in Int /\ ~(i <= j) BY <1>1
  <2> HIDE DEF Most
  <2> QED BY <1>5, <2>1
<1>7. \A j \in 1 .. i - 1 : j \in 1 .. Len(who) BY <1>1
<1> QED BY <1>1, <1>5, <1>6, <1>7

\* findaiclient() finds one of those it may choose from, if there is any.
LEMMA FindIs ==
  ASSUME NEW st \in States, NEW who \in Seq(Humans)
  PROVE  FindAiClient(st, who) \in Range(who) \cup {NoOwner}
<1>1. CASE who = <<>> BY <1>1 DEF FindAiClient
<1>2. CASE who # <<>>
  <2> DEFINE least(h) == \A i \in DOMAIN who : Len(st.owned[h]) <= Len(st.owned[who[i]])
             First(i) == least(who[i]) /\ \A j \in 1 .. i - 1 : ~least(who[j])
             i == CHOOSE i \in DOMAIN who : First(i)
  <2>1. st.owned \in [Humans -> Seq(Slots)] BY DEF States
  <2>2. \E k \in DOMAIN who : First(k) BY <1>2, <2>1, FewestIs
  <2>3. i \in DOMAIN who BY <2>2
  <2>4. FindAiClient(st, who) = who[i] BY <1>2 DEF FindAiClient, FirstWith
  <2> QED BY <2>3, <2>4 DEF Range
<1> QED BY <1>1, <1>2

\* shiftai() of a bot that has an owner, to another one or to none.
LEMMA ShiftIs ==
  ASSUME NEW st, Agree(st), NEW b \in Slots, NEW owner \in Humans \cup {NoOwner},
         st.bots[b].ownernum \in Humans, st.bots[b].ownernum # owner
  PROVE  /\ Agree(ShiftAi(st, b, owner))
         /\ ShiftAi(st, b, owner).bots[b].ownernum = owner
         /\ \A c \in Slots : c # b => ShiftAi(st, b, owner).bots[c] = st.bots[c]
<1> DEFINE prev == st.bots[b].ownernum
           new == ShiftAi(st, b, owner)
<1>1. /\ st \in States /\ st = [bots |-> st.bots, owned |-> st.owned]
      /\ st.bots \in [Slots -> Bot] /\ st.owned \in [Humans -> Seq(Slots)]
      /\ \A h \in Humans : IsInjective(st.owned[h])
      /\ \A h \in Humans, c \in Slots : c \in Range(st.owned[h]) <=> st.bots[c].ownernum = h
  BY DEF Agree, States
<1>2. prev \in Humans /\ prev # NoOwner /\ prev # owner BY ClientAssumption
<1>3. st.bots[b] \in [ownernum : Humans \cup {NoOwner}, aireinit : {0, 2}, team : TeamOf]
  <2>1. st.bots[b] # NoBot BY <1>2 DEF NoBot
  <2> QED BY <1>1, <2>1 DEF Bot
<1> DEFINE rest == Removed(st.owned[prev], b)
<1>4. /\ rest \in Seq(Slots) /\ IsInjective(rest)
      /\ Range(rest) = Range(st.owned[prev]) \ {b}
  BY <1>1, <1>2, RemovedIs
<1> DEFINE nbots == [st.bots EXCEPT ![b] =
                       [@ EXCEPT !.ownernum = owner, !.aireinit = IF owner = NoOwner THEN 0 ELSE 2]]
           left == [st.owned EXCEPT ![prev] = rest]
           nowned == IF owner = NoOwner THEN left ELSE [left EXCEPT ![owner] = Append(@, b)]
<1>5. new = [bots |-> nbots, owned |-> nowned]
  <2>1. [st EXCEPT !.owned[prev] = rest] = [bots |-> st.bots, owned |-> left]
    <3>1. ASSUME NEW B, NEW O PROVE [[bots |-> B, owned |-> O] EXCEPT !.owned[prev] = rest] =
                                      [bots |-> B, owned |-> [O EXCEPT ![prev] = rest]]
      OBVIOUS
    <3> QED BY <1>1, <3>1, SMTT(60)
  <2>2. CASE owner = NoOwner
    <3>1. new = [[bots |-> st.bots, owned |-> left] EXCEPT
                   !.bots[b] = [@ EXCEPT !.ownernum = NoOwner, !.aireinit = 0]]
      BY <1>2, <2>1, <2>2 DEF ShiftAi
    <3> QED BY <2>2, <3>1
  <2>3. CASE owner # NoOwner
    <3>1. new = [[bots |-> st.bots, owned |-> left] EXCEPT
                   !.bots[b] = [@ EXCEPT !.ownernum = owner, !.aireinit = 2],
                   !.owned[owner] = Append(@, b)]
      BY <1>2, <2>1, <2>3 DEF ShiftAi
    <3> QED BY <2>3, <3>1
  <2> QED BY <2>2, <2>3
<1>6. /\ nbots \in [Slots -> Bot] /\ nbots[b].ownernum = owner
      /\ \A c \in Slots : c # b => nbots[c] = st.bots[c]
  <2> DEFINE r == [st.bots[b] EXCEPT !.ownernum = owner, !.aireinit = IF owner = NoOwner THEN 0 ELSE 2]
  <2>1. r \in Bot /\ r.ownernum = owner BY <1>3 DEF Bot
  <2>2. nbots = [st.bots EXCEPT ![b] = r] OBVIOUS
  <2> HIDE DEF r, nbots
  <2> QED BY <1>1, <2>1, <2>2
<1>7. left \in [Humans -> Seq(Slots)] /\ left[prev] = rest
  BY <1>1, <1>2, <1>4
<1>8. \A h \in Humans : h # prev => left[h] = st.owned[h] BY <1>1
<1>9. ASSUME NEW h \in Humans
      PROVE  /\ b \notin Range(left[h]) /\ IsInjective(left[h])
             /\ \A c \in Slots : c # b => (c \in Range(left[h]) <=> st.bots[c].ownernum = h)
  <2> HIDE DEF left, rest
  <2>1. CASE h = prev BY <1>1, <1>4, <1>7, <2>1
  <2>2. CASE h # prev BY <1>1, <1>2, <1>8, <2>2
  <2> QED BY <2>1, <2>2
<1> HIDE DEF left, rest, nbots, prev, new
<1>10. /\ nowned \in [Humans -> Seq(Slots)]
       /\ \A h \in Humans : h # owner => nowned[h] = left[h]
       /\ owner # NoOwner => nowned[owner] = Append(left[owner], b)
  BY <1>7
<1>11. ASSUME NEW h \in Humans
       PROVE  /\ IsInjective(nowned[h])
              /\ \A c \in Slots : c \in Range(nowned[h]) <=> nbots[c].ownernum = h
  <2>1. CASE h # owner
    <3>1. nowned[h] = left[h] BY <1>10, <2>1
    <3> QED BY <1>6, <1>9, <2>1, <3>1
  <2>2. CASE h = owner
    <3>1. nowned[h] = Append(left[h], b) BY <1>10, <2>2, ClientAssumption
    <3>2. left[h] \in Seq(Slots) BY <1>7
    <3>3. Range(Append(left[h], b)) = Range(left[h]) \cup {b} BY <3>2, AppendIs
    <3>4. IsInjective(Append(left[h], b)) BY <1>9, <3>2, AppendIs
    <3> QED BY <1>6, <1>9, <2>2, <3>1, <3>3, <3>4
  <2> QED BY <2>1, <2>2
<1> HIDE DEF nowned
<1>12. Agree([bots |-> nbots, owned |-> nowned]) BY <1>6, <1>10, <1>11 DEF Agree, States
<1>13. new = ShiftAi(st, b, owner) BY DEF new
<1> QED BY <1>5, <1>6, <1>12, <1>13

\* The recursion in removeai().
IsShifted(f, start, mine, who, m) ==
    f = [n \in 0 .. m |->
           IF n = 0 THEN start
           ELSE ShiftAi(f[n - 1], mine[Len(mine) + 1 - n], FindAiClient(f[n - 1], who))]

LEMMA ShiftedExists ==
  ASSUME NEW start, NEW mine, NEW who, NEW m \in Nat
  PROVE  \E f : IsShifted(f, start, mine, who, m)
<1> DEFINE Step(st, n) == ShiftAi(st, mine[Len(mine) + 1 - n], FindAiClient(st, who))
           Bad == {n \in Nat : ~\E f : IsShifted(f, start, mine, who, n)}
<1> SUFFICES ASSUME Bad # {} PROVE FALSE OBVIOUS
<1>1. PICK n \in Bad : \A k \in Bad : n <= k BY LeastNat
<1>2. n # 0
  <2>1. IsShifted([k \in 0 .. 0 |-> start], start, mine, who, 0) BY DEF IsShifted
  <2> QED BY <2>1
<1>3. n - 1 \in Nat /\ n - 1 \notin Bad BY <1>1, <1>2
<1>4. PICK f : IsShifted(f, start, mine, who, n - 1) BY <1>3
<1> DEFINE g == [k \in 0 .. n |-> IF k = n THEN Step(f[n - 1], n) ELSE f[k]]
<1>5. ASSUME NEW k \in 0 .. n
      PROVE  g[k] = IF k = 0 THEN start ELSE Step(g[k - 1], k)
  <2>1. CASE k = n
    <3>1. k - 1 \in 0 .. n /\ k - 1 # n /\ k # 0 BY <1>2, <1>3, <2>1
    <3> HIDE DEF Step
    <3> QED BY <2>1, <3>1
  <2>2. CASE k # n
    <3>1. k \in 0 .. n - 1 /\ g[k] = f[k] BY <1>3, <2>2
    <3>2. f[k] = IF k = 0 THEN start ELSE Step(f[k - 1], k) BY <1>4, <3>1 DEF IsShifted
    <3>3. k # 0 => g[k - 1] = f[k - 1] BY <1>3, <3>1
    <3> HIDE DEF Step
    <3> QED BY <3>1, <3>2, <3>3
  <2> QED BY <2>1, <2>2
<1>6. IsShifted(g, start, mine, who, n)
  <2>1. g = [k \in 0 .. n |-> IF k = 0 THEN start ELSE Step(g[k - 1], k)]
    <3> HIDE DEF Step
    <3> QED BY <1>5
  <2> QED BY <2>1 DEF IsShifted
<1> QED BY <1>6

\* removeai(): nobody's bots but those of h move, to those it may choose from or to
\* nobody, and h is left with none.
LEMMA RemoveAiIs ==
  ASSUME Agree(Now), NEW h \in Humans, NEW who \in Seq(Humans), h \notin Range(who)
  PROVE  /\ Agree(RemoveAi(h, who))
         /\ \A b \in Slots :
              IF bots[b].ownernum = h
              THEN RemoveAi(h, who).bots[b].ownernum \in Range(who) \cup {NoOwner}
              ELSE RemoveAi(h, who).bots[b] = bots[b]
<1> DEFINE mine == owned[h]
           f == CHOOSE f : IsShifted(f, Now, mine, who, Len(mine))
<1>1. /\ mine \in Seq(Slots) /\ IsInjective(mine) /\ Len(mine) \in Nat
      /\ DOMAIN mine = 1 .. Len(mine)
      /\ \A b \in Slots : b \in Range(mine) <=> bots[b].ownernum = h
  <2>1. mine \in Seq(Slots) BY DEF Agree, States, Now
  <2> QED BY <2>1 DEF Agree, Now
<1>2. IsShifted(f, Now, mine, who, Len(mine)) BY <1>1, ShiftedExists
<1>3. RemoveAi(h, who) = f[Len(mine)] BY DEF RemoveAi, IsShifted
<1> HIDE DEF f, mine
<1> DEFINE Waits(b, n) == \E i \in 1 .. Len(mine) - n : mine[i] = b
           Good(n) ==
             /\ Agree(f[n])
             /\ \A b \in Slots :
                  IF bots[b].ownernum = h
                  THEN IF Waits(b, n) THEN f[n].bots[b].ownernum = h
                       ELSE f[n].bots[b].ownernum \in Range(who) \cup {NoOwner}
                  ELSE f[n].bots[b] = bots[b]
           Bad == {n \in 0 .. Len(mine) : ~Good(n)}
<1>4. Bad = {}
  <2> SUFFICES ASSUME Bad # {} PROVE FALSE OBVIOUS
  <2>1. Bad \in SUBSET Nat BY <1>1
  <2>2. PICK n \in Bad : \A k \in Bad : n <= k BY <2>1, LeastNat
  <2>3. n \in 0 .. Len(mine) /\ ~Good(n) OBVIOUS
  <2>4. n # 0
    <3>1. f[0] = Now
      <4>1. 0 \in 0 .. Len(mine) BY <1>1
      <4> QED BY <1>2, <4>1 DEF IsShifted
    <3>2. \A b \in Slots : bots[b].ownernum = h => Waits(b, 0)
      BY <1>1 DEF Range
    <3>3. Good(0) BY <3>1, <3>2 DEF Now
    <3> QED BY <2>3, <3>3
  <2>5. n - 1 \in 0 .. Len(mine) /\ n \in 1 .. Len(mine) BY <1>1, <2>3, <2>4
  <2>6. Good(n - 1)
    <3>1. n - 1 \in Bad => n <= n - 1 BY <2>2
    <3>2. n \in Int BY <1>1, <2>5
    <3> HIDE DEF Bad
    <3>3. n - 1 \notin Bad BY <3>1, <3>2
    <3> USE DEF Bad
    <3> QED BY <2>5, <3>3
  <2> DEFINE b == mine[Len(mine) + 1 - n]
             st == f[n - 1]
             owner == FindAiClient(st, who)
  <2>7. f[n] = ShiftAi(st, b, owner) BY <1>2, <2>3, <2>4 DEF IsShifted
  <2>8. owner \in Range(who) \cup {NoOwner} /\ owner # h /\ owner \in Humans \cup {NoOwner}
    <3>1. st \in States BY <2>6 DEF Agree
    <3>2. owner \in Range(who) \cup {NoOwner} BY <3>1, FindIs
    <3>3. Range(who) \subseteq Humans BY DEF Range
    <3> QED BY <3>2, <3>3, ClientAssumption
  <2>9. Len(mine) + 1 - n \in 1 .. Len(mine) BY <1>1, <2>5
  <2>10. b \in Slots /\ bots[b].ownernum = h
    <3>1. b \in Slots BY <1>1, <2>9
    <3>2. b \in Range(mine) BY <1>1, <2>9 DEF Range
    <3> QED BY <1>1, <3>1, <3>2
  <2>11. Waits(b, n - 1)
    <3>1. Len(mine) + 1 - n \in 1 .. Len(mine) - (n - 1) BY <1>1, <2>5
    <3> QED BY <3>1
  <2>12. st.bots[b].ownernum = h BY <2>6, <2>10, <2>11
  <2>13. ~Waits(b, n)
    <3>1. ASSUME NEW i \in 1 .. Len(mine) - n, mine[i] = b PROVE FALSE
      <4>1. i \in 1 .. Len(mine) /\ i # Len(mine) + 1 - n BY <1>1, <2>5
      <4> QED BY <1>1, <2>9, <3>1, <4>1 DEF IsInjective
    <3> QED BY <3>1
  <2>14. \A c \in Slots : c # b => (Waits(c, n) <=> Waits(c, n - 1))
    <3>1. ASSUME NEW c \in Slots, c # b, Waits(c, n - 1) PROVE Waits(c, n)
      <4>1. PICK i \in 1 .. Len(mine) - (n - 1) : mine[i] = c BY <3>1
      <4>2. i # Len(mine) + 1 - n BY <3>1, <4>1
      <4>3. i \in Int /\ n \in Int /\ 1 <= i /\ i <= Len(mine) - (n - 1) BY <1>1, <2>5
      <4>5. \A l, m, k \in Int : 1 <= k /\ k <= l - (m - 1) /\ k # l + 1 - m => k \in 1 .. l - m
        OBVIOUS
      <4>6. Len(mine) \in Int BY <1>1
      <4> HIDE DEF mine
      <4>4. i \in 1 .. Len(mine) - n BY <4>2, <4>3, <4>5, <4>6
      <4> QED BY <4>1, <4>4
    <3>2. \A i \in 1 .. Len(mine) - n : i \in 1 .. Len(mine) - (n - 1) BY <1>1, <2>5
    <3> QED BY <3>1, <3>2
  <2>15. Agree(st) /\ \A c \in Slots :
           IF bots[c].ownernum = h
           THEN IF Waits(c, n - 1) THEN st.bots[c].ownernum = h
                ELSE st.bots[c].ownernum \in Range(who) \cup {NoOwner}
           ELSE st.bots[c] = bots[c]
    BY <2>6
  <2> HIDE DEF b, st, owner, Waits
  <2>16. /\ Agree(f[n]) /\ f[n].bots[b].ownernum = owner
         /\ \A c \in Slots : c # b => f[n].bots[c] = st.bots[c]
    BY <2>7, <2>8, <2>10, <2>12, <2>15, ShiftIs
  <2>17. Good(n)
    <3>1. ASSUME NEW c \in Slots
          PROVE  IF bots[c].ownernum = h
                 THEN IF Waits(c, n) THEN f[n].bots[c].ownernum = h
                      ELSE f[n].bots[c].ownernum \in Range(who) \cup {NoOwner}
                 ELSE f[n].bots[c] = bots[c]
      <4>1. CASE c = b BY <2>8, <2>10, <2>13, <2>16, <4>1
      <4>2. CASE c # b
        <5>1. f[n].bots[c] = st.bots[c] BY <2>16, <4>2
        <5>2. Waits(c, n) <=> Waits(c, n - 1) BY <2>14, <4>2
        <5> QED BY <2>15, <5>1, <5>2
      <4> QED BY <4>1, <4>2
    <3> QED BY <2>16, <3>1
  <2> QED BY <2>3, <2>17
<1>5. Good(Len(mine))
  <2>1. Len(mine) \in 0 .. Len(mine) BY <1>1
  <2> QED BY <1>4, <2>1
<1>6. \A b \in Slots : ~Waits(b, Len(mine)) BY <1>1
<1> HIDE DEF Waits
<1> QED BY <1>3, <1>5, <1>6
-----------------------------------------------------------------------------
(* Teams *)

LEMMA SizeIs ==
  ASSUME Joined \subseteq Humans, NEW t
  PROVE  Size(t) \in Nat /\ Size(t) <= Cardinality(Humans) + MaxBots
<1> DEFINE players == {h \in Joined \ spectators : team[h] = t}
           simulated == {b \in Present : bots[b].team = t}
<1>1. /\ IsFiniteSet(players) /\ Cardinality(players) \in Nat
      /\ Cardinality(Humans) \in Nat /\ Cardinality(players) <= Cardinality(Humans)
  <2>1. players \in SUBSET Humans OBVIOUS
  <2> HIDE DEF players
  <2> QED BY <2>1, ClientAssumption, FS_Subset, FS_CardinalityType
<1>2. /\ IsFiniteSet(simulated) /\ Cardinality(simulated) \in Nat
      /\ MaxBots \in Nat /\ Cardinality(simulated) <= MaxBots
  <2>1. simulated \in SUBSET Slots BY DEF Present
  <2>2. MaxBots \in Nat \ {0} BY LimitAssumption
  <2>3. IsFiniteSet(Slots) /\ Cardinality(Slots) = MaxBots BY <2>2, FS_Interval DEF Slots
  <2> HIDE DEF simulated
  <2> QED BY <2>1, <2>2, <2>3, FS_Subset, FS_CardinalityType
<1>3. Size(t) = Cardinality(players) + Cardinality(simulated) BY DEF Size
<1> HIDE DEF players, simulated
<1> QED BY <1>1, <1>2, <1>3

\* The order calcteams() sorts by.
Before(t, u) == Size(t) > Size(u) \/ (Size(t) = Size(u) /\ t < u)

Sorted(s, U) ==
    /\ s \in [1 .. Cardinality(U) -> U]
    /\ \A i, j \in DOMAIN s : i < j => Before(s[i], s[j])

\* Of any teams one comes before the others.
LEMMA FirstTeam ==
  ASSUME Joined \subseteq Humans, NEW U \in SUBSET Teams, U # {}
  PROVE  \E t \in U : \A u \in U \ {t} : Before(t, u)
<1> DEFINE top == Cardinality(Humans) + MaxBots
           Rests == {top - Size(t) : t \in U}
<1>1. top \in Int BY ClientAssumption, LimitAssumption, FS_CardinalityType
<1>2. \A t \in U : Size(t) \in Nat /\ Size(t) <= top BY SizeIs
<1>3. \A t \in U : t \in Nat BY TeamAssumption
<1> HIDE DEF top
<1>4. Rests \in SUBSET Nat /\ Rests # {} BY <1>1, <1>2
<1>5. PICK r \in Rests : \A x \in Rests : r <= x BY <1>4, LeastNat
<1> DEFINE Largest == {t \in U : top - Size(t) = r}
<1>6. Largest \in SUBSET Nat /\ Largest # {} BY <1>3
<1>7. PICK t \in Largest : \A u \in Largest : t <= u BY <1>6, LeastNat
<1>8. ASSUME NEW u \in U \ {t} PROVE Before(t, u)
  <2>1. t \in U /\ top - Size(t) = r /\ r <= top - Size(u) BY <1>5
  <2>2. top - Size(u) = r => t <= u BY <1>7
  <2>3. Size(t) \in Nat /\ Size(u) \in Nat /\ t \in Nat /\ u \in Nat /\ t # u
    BY <1>2, <1>3, <2>1
  <2> HIDE DEF Rests, Largest
  <2>4. Size(t) > Size(u) \/ (Size(t) = Size(u) /\ top - Size(u) = r) BY <1>1, <2>1, <2>3
  <2> QED BY <2>2, <2>3, <2>4 DEF Before
<1> QED BY <1>8

\* Any teams can be sorted.
LEMMA SortedExists ==
  ASSUME Joined \subseteq Humans, NEW U \in SUBSET Teams
  PROVE  \E s : Sorted(s, U)
<1> DEFINE Bad == {n \in Nat : \E V \in SUBSET Teams : Cardinality(V) = n /\ ~\E s : Sorted(s, V)}
<1>1. \A V \in SUBSET Teams : IsFiniteSet(V) /\ Cardinality(V) \in Nat
  BY TeamAssumption, FS_Subset, FS_CardinalityType
<1>2. Bad = {}
  <2> SUFFICES ASSUME Bad # {} PROVE FALSE OBVIOUS
  <2>1. PICK n \in Bad : \A k \in Bad : n <= k BY LeastNat
  <2>2. PICK V \in SUBSET Teams : Cardinality(V) = n /\ ~\E s : Sorted(s, V) BY <2>1
  <2>3. n \in Nat /\ V # {}
    <3>1. Sorted(<<>>, {}) BY FS_EmptySet DEF Sorted
    <3> QED BY <2>2, <3>1
  <2>4. PICK t \in V : \A u \in V \ {t} : Before(t, u) BY <2>3, FirstTeam
  <2> DEFINE W == V \ {t}
  <2>5. W \in SUBSET Teams /\ Cardinality(W) = n - 1 /\ n - 1 \in Nat
    <3>1. Cardinality(W) = Cardinality(V) - 1 BY <1>1, FS_RemoveElement
    <3>2. W \in SUBSET Teams OBVIOUS
    <3>3. Cardinality(W) \in Nat BY <1>1, <3>2
    <3> HIDE DEF W
    <3> QED BY <2>2, <3>1, <3>2, <3>3
  <2>6. n - 1 \notin Bad
    <3>1. n - 1 \in Bad => n <= n - 1 BY <2>1
    <3> HIDE DEF Bad
    <3> QED BY <2>3, <3>1
  <2>7. PICK s : Sorted(s, W) BY <2>5, <2>6
  <2>8. s \in [1 .. n - 1 -> W] /\ \A i, j \in 1 .. n - 1 : i < j => Before(s[i], s[j])
    BY <2>5, <2>7 DEF Sorted
  <2> DEFINE r == [i \in 1 .. n |-> IF i = 1 THEN t ELSE s[i - 1]]
  <2>9. \A i \in 1 .. n : i # 1 => i - 1 \in 1 .. n - 1 BY <2>3
  <2>10. r \in [1 .. n -> V] BY <2>8, <2>9
  <2>11. ASSUME NEW i \in 1 .. n, NEW j \in 1 .. n, i < j PROVE Before(r[i], r[j])
    <3>1. j # 1 /\ j - 1 \in 1 .. n - 1 /\ r[j] = s[j - 1] BY <2>9, <2>11
    <3>2. CASE i = 1
      <4>1. r[j] \in V \ {t} BY <2>8, <3>1
      <4>2. r[i] = t BY <3>2
      <4> HIDE DEF r
      <4> QED BY <2>4, <4>1, <4>2
    <3>3. CASE i # 1
      <4>1. i - 1 \in 1 .. n - 1 /\ r[i] = s[i - 1] /\ i - 1 < j - 1 BY <2>9, <2>11, <3>3
      <4> HIDE DEF r
      <4> QED BY <2>8, <3>1, <4>1
    <3> QED BY <3>2, <3>3
  <2>12. Sorted(r, V)
    <3> HIDE DEF r
    <3> QED BY <2>2, <2>10, <2>11 DEF Sorted
  <2> QED BY <2>2, <2>12
<1>3. Cardinality(U) \notin Bad BY <1>2
<1> QED BY <1>1, <1>3

\* calcteams() has teams and their scores, and at least one.
LEMMA CalcTeamsIs ==
  ASSUME Joined \subseteq Humans
  PROVE  CalcTeams \in Seq([team : Teams, score : Nat]) /\ CalcTeams # <<>>
<1> DEFINE used == {t \in Teams : Size(t) > 0}
           sorted == CHOOSE s \in [1 .. Cardinality(used) -> used] :
                       \A i, j \in DOMAIN s : i < j => Before(s[i], s[j])
           others == Within(DefaultTeams, Teams \ used)
           names == IF Cardinality(used) < 2 THEN sorted \o others ELSE sorted
<1>1. \E s : Sorted(s, used) BY SortedExists
<1>2. /\ IsFiniteSet(used) /\ Cardinality(used) \in Nat
      /\ Cardinality(used) = 0 <=> used = {}
  <2>1. used \in SUBSET Teams OBVIOUS
  <2> HIDE DEF used
  <2> QED BY <2>1, TeamAssumption, FS_Subset, FS_CardinalityType, FS_EmptySet
<1>3. sorted \in Seq(Teams) /\ Len(sorted) = Cardinality(used)
  <2>1. sorted \in [1 .. Cardinality(used) -> used] BY <1>1 DEF Sorted
  <2>2. used \subseteq Teams OBVIOUS
  <2> HIDE DEF sorted, used
  <2> QED BY <1>2, <2>1, <2>2
<1>4. others \in Seq(Teams) /\ Range(others) = Range(DefaultTeams) \cap (Teams \ used)
  <2>1. DefaultTeams \in Seq(Teams) BY TeamAssumption
  <2> HIDE DEF used
  <2> QED BY <2>1, WithinIs
<1>5. used = {} => others # <<>>
  <2>1. 1 \in DOMAIN DefaultTeams /\ DefaultTeams[1] \in Teams BY TeamAssumption
  <2>2. DefaultTeams[1] \in Range(DefaultTeams) BY <2>1 DEF Range
  <2>3. used = {} => Range(others) # {} BY <1>4, <2>1, <2>2
  <2>4. Range(<<>>) = {} BY DEF Range
  <2> HIDE DEF used, others
  <2> QED BY <2>3, <2>4
<1>6. CalcTeams = [i \in DOMAIN names |-> [team |-> names[i], score |-> Size(names[i])]]
  BY DEF CalcTeams, Before
<1>7. names \in Seq(Teams) /\ names # <<>>
  <2> HIDE DEF sorted, others, used
  <2> QED BY <1>2, <1>3, <1>4, <1>5
<1> HIDE DEF names
<1>8. \A i \in DOMAIN names : names[i] \in Teams /\ Size(names[i]) \in Nat BY <1>7, SizeIs
<1>9. Len(names) \in Nat \ {0} /\ DOMAIN names = 1 .. Len(names) BY <1>7
<1> DEFINE R == [team : Teams, score : Nat]
<1>10. CalcTeams \in [1 .. Len(names) -> R] BY <1>6, <1>8, <1>9
<1> HIDE DEF R
<1>11. CalcTeams \in Seq(R) /\ CalcTeams # <<>>
  <2>1. \A n \in Nat \ {0} : \A x \in [1 .. n -> R] : x \in Seq(R) /\ x # <<>> OBVIOUS
  <2> QED BY <1>9, <1>10, <2>1
<1> QED BY <1>11 DEF R

\* chooseteam() is one a bot can be on.
LEMMA ChosenIs ==
  ASSUME Joined \subseteq Humans PROVE ChooseTeam \in TeamOf
<1> DEFINE R == [team : Teams, score : Nat]
<1>1. CalcTeams \in Seq(R) /\ CalcTeams # <<>> BY CalcTeamsIs
<1>2. \A x \in Seq(R) : x # <<>> => x[Len(x)] \in R
  <2> HIDE DEF R
  <2> QED OBVIOUS
<1>3. CalcTeams[Len(CalcTeams)] \in R BY <1>1, <1>2
<1>4. CalcTeams[Len(CalcTeams)].team \in Teams BY <1>3
<1> QED BY <1>4 DEF ChooseTeam, TeamOf

\* A bot that moves from the first team to the last leaves teams with scores.
LEMMA MovedIs ==
  ASSUME NEW s \in Seq([team : Teams, score : Nat]), Uneven(s)
  PROVE  /\ Moved(s) \in Seq([team : Teams, score : Nat])
         /\ Len(Moved(s)) = Len(s)
<1> DEFINE R == [team : Teams, score : Nat]
           n == Len(s)
           counted == [s EXCEPT ![1].score = @ - 1, ![n].score = @ + 1]
           Place(i) == /\ \A j \in i .. n - 1 : counted[j].score < counted[n].score
                       /\ i > 1 => counted[i - 1].score >= counted[n].score
           k == CHOOSE i \in 1 .. n : Place(i)
<1>1. /\ n \in Nat \ {0} /\ DOMAIN s = 1 .. n /\ 1 \in 1 .. n /\ n \in 1 .. n
      /\ s[1] \in R /\ s[n] \in R /\ s[1].score > s[n].score + 1
  <2>1. s \in Seq(R) /\ s # <<>> /\ s[1].score > s[n].score + 1 BY DEF Uneven
  <2> HIDE DEF R
  <2> QED BY <2>1
<1>2. n # 1 BY <1>1
<1>3. counted \in Seq(R) /\ Len(counted) = n
  <2> DEFINE a == [s[1] EXCEPT !.score = @ - 1]
             z == [s[n] EXCEPT !.score = @ + 1]
  <2>1. a \in R
    <3>1. s[1].score \in Nat /\ s[n].score \in Nat BY <1>1
    <3>2. s[1].score - 1 \in Nat BY <1>1, <3>1
    <3> QED BY <1>1, <3>2
  <2>2. z \in R BY <1>1
  <2>3. counted = [[s EXCEPT ![1] = a] EXCEPT ![n] = z] BY <1>1, <1>2
  <2> HIDE DEF a, z, counted, R
  <2>4. \A t \in Seq(R) : \A i \in 1 .. Len(t) : \A x \in R :
           [t EXCEPT ![i] = x] \in Seq(R) /\ Len([t EXCEPT ![i] = x]) = Len(t)
    OBVIOUS
  <2>5. s \in Seq(R) BY DEF R
  <2> DEFINE b == [s EXCEPT ![1] = a]
  <2>6. b \in Seq(R) /\ Len(b) = n BY <1>1, <2>1, <2>4, <2>5
  <2>7. counted = [b EXCEPT ![n] = z] BY <2>3
  <2> HIDE DEF b
  <2> QED BY <1>1, <2>2, <2>4, <2>6, <2>7
<1>4. \A i \in 1 .. n : counted[i].score \in Nat
  <2> HIDE DEF counted
  <2>1. \A i \in 1 .. n : counted[i] \in R
    <3> HIDE DEF R, n
    <3> QED BY <1>3
  <2> QED BY <2>1
<1> HIDE DEF counted
<1>5. \E i \in 1 .. n : Place(i)
  <2> DEFINE Above == {i \in 1 .. n : \A j \in i .. n - 1 : counted[j].score < counted[n].score}
  <2>1. Above \in SUBSET Nat /\ Above # {}
    <3>1. n .. n - 1 = {} BY <1>1
    <3>2. n \in Above BY <1>1, <3>1
    <3>3. \A i \in Above : i \in Nat BY <1>1
    <3> QED BY <3>2, <3>3
  <2>2. PICK i \in Above : \A j \in Above : i <= j BY <2>1, LeastNat
  <2>3. ASSUME i > 1 PROVE counted[i - 1].score >= counted[n].score
    <3>1. i - 1 \in 1 .. n /\ i \in Int BY <1>1, <2>3
    <3>2. i - 1 \notin Above
      <4>1. i - 1 \in Above => i <= i - 1 BY <2>2
      <4> HIDE DEF Above
      <4> QED BY <3>1, <4>1
    <3>3. PICK j \in i - 1 .. n - 1 : ~(counted[j].score < counted[n].score) BY <3>1, <3>2
    <3>4. j \notin i .. n - 1 BY <3>3
    <3>5. j = i - 1 BY <1>1, <3>1, <3>3, <3>4
    <3> QED BY <1>1, <1>4, <3>1, <3>3, <3>5
  <2> QED BY <2>2, <2>3
<1>6. k \in 1 .. n BY <1>5
<1>7. Moved(s) = SubSeq(counted, 1, k - 1) \o <<counted[n]>> \o SubSeq(counted, k, n - 1)
  BY DEF Moved, counted
<1> HIDE DEF k, R
<1>8. /\ SubSeq(counted, 1, k - 1) \in Seq(R) /\ Len(SubSeq(counted, 1, k - 1)) = k - 1
      /\ SubSeq(counted, k, n - 1) \in Seq(R) /\ Len(SubSeq(counted, k, n - 1)) = n - k
  <2>1. k \in Int /\ n \in Int /\ 1 <= k /\ k <= n BY <1>1, <1>6
  <2> HIDE DEF n
  <2>2. Len(counted) = n BY <1>3
  <2> QED BY <1>3, <2>1, <2>2
<1>9. <<counted[n]>> \in Seq(R) /\ Len(<<counted[n]>>) = 1 BY <1>1, <1>3
<1>10. \A x, y \in Seq(R) : x \o y \in Seq(R) /\ Len(x \o y) = Len(x) + Len(y) OBVIOUS
<1>11. k \in Int /\ n \in Int BY <1>1, <1>6
<1> DEFINE p == SubSeq(counted, 1, k - 1)
           q == SubSeq(counted, k, n - 1)
           m == <<counted[n]>>
<1>12. p \o m \in Seq(R) /\ Len(p \o m) = k BY <1>8, <1>9, <1>10, <1>11
<1>13. (p \o m) \o q \in Seq(R) /\ Len((p \o m) \o q) = n
  <2> DEFINE r == p \o m
  <2>1. r \in Seq(R) /\ Len(r) = k /\ q \in Seq(R) /\ Len(q) = n - k BY <1>8, <1>12
  <2> HIDE DEF r, q, n
  <2>2. r \o q \in Seq(R) /\ Len(r \o q) = n BY <1>10, <1>11, <2>1
  <2> QED BY <2>2 DEF r, n
<1> QED BY <1>7, <1>13 DEF R
-----------------------------------------------------------------------------
(* The inductive invariant *)

People ==
    /\ clients \in Seq(Humans) /\ IsInjective(clients)
    /\ spectators \subseteq Joined /\ privileged \subseteq Joined /\ warned \subseteq Joined
    /\ team \in [Humans -> Teams]

Loops ==
    /\ dorefresh \in BOOLEAN /\ botbalance \in BOOLEAN /\ botlimit \in 0 .. MaxBots
    /\ phase \in {"idle", "balance", "reinit", "reassign"}
    /\ phase = "balance" => TeamMode
    /\ teams \in Seq([team : Teams, score : Nat])
    /\ reassign \in Seq(Slots) /\ IsInjective(reassign)

\* A bot that is to be removed, or whose owner is to be told.
Waiting(r) == r # NoBot /\ (r.ownernum = NoOwner \/ r.aireinit # 0)

\* Once checksetup() has run, and so between the calls of checkai, whoever leaves
\* something to be done about a bot has asked for the next call.
Asked ==
    phase \in {"idle", "reassign"} /\ (\E b \in Slots : Waiting(bots[b])) => dorefresh

IInv == Agree(Now) /\ People /\ Loops /\ OwnersValid /\ Asked


\* Those who may own bots.
May == {c \in Joined : ValidNow(c)}

LEMMA IInvIs ==
  ASSUME IInv
  PROVE  /\ bots \in [Slots -> Bot] /\ owned \in [Humans -> Seq(Slots)] /\ Joined \subseteq Humans
         /\ \A h \in Humans : IsInjective(owned[h])
         /\ \A h \in Humans, b \in Slots : b \in Range(owned[h]) <=> bots[b].ownernum = h
         /\ \A b \in Slots : bots[b].ownernum \in May \cup {NoOwner}
         /\ Joined = Range(clients) /\ May \subseteq Humans
<1>1. Agree(Now) /\ clients \in Seq(Humans) /\ OwnersValid BY DEF IInv, People
<1>2. Joined = Range(clients) /\ Joined \subseteq Humans BY <1>1 DEF Joined, Range
<1>3. /\ bots \in [Slots -> Bot] /\ owned \in [Humans -> Seq(Slots)]
      /\ \A h \in Humans : IsInjective(owned[h])
      /\ \A h \in Humans, b \in Slots : b \in Range(owned[h]) <=> bots[b].ownernum = h
  BY <1>1 DEF Agree, States, Now
<1>4. \A b \in Slots : bots[b].ownernum \in May \cup {NoOwner}
  BY <1>1 DEF OwnersValid, Owned, May
<1> QED BY <1>2, <1>3, <1>4 DEF May

\* What a step must keep.
LEMMA Keeps ==
  ASSUME bots' \in [Slots -> Bot], owned' \in [Humans -> Seq(Slots)],
         \A h \in Humans : IsInjective(owned'[h]),
         \A h \in Humans, b \in Slots : b \in Range(owned'[h]) <=> bots'[b].ownernum = h,
         \A b \in Slots : bots'[b].ownernum \in May' \cup {NoOwner},
         People', Loops',
         phase' \in {"idle", "reassign"} /\ (\E b \in Slots : Waiting(bots'[b])) => dorefresh'
  PROVE  IInv'
<1>1. Agree(Now)' BY DEF Agree, States, Now
<1>2. OwnersValid' BY DEF OwnersValid, Owned, May
<1> QED BY <1>1, <1>2 DEF IInv, Asked, Waiting

\* Steps that only let more clients own bots.
LEMMA Stays ==
  ASSUME IInv, UNCHANGED <<ai, loops>>, People', May \subseteq May',
         dorefresh' \in BOOLEAN, dorefresh => dorefresh',
         botbalance' \in BOOLEAN, botlimit' \in 0 .. MaxBots
  PROVE  IInv'
<1>1. bots' = bots /\ owned' = owned BY DEF ai
<1>2. phase' = phase /\ teams' = teams /\ reassign' = reassign BY DEF loops
<1>3. Loops' BY <1>2 DEF IInv, Loops
<1>4. phase' \in {"idle", "reassign"} /\ (\E b \in Slots : Waiting(bots'[b])) => dorefresh'
  BY <1>1, <1>2 DEF IInv, Asked
<1> QED BY <1>1, <1>3, <1>4, IInvIs, Keeps

\* clearai()
LEMMA Clears ==
  ASSUME IInv, bots' = Cleared.bots, owned' = Cleared.owned, UNCHANGED loops, People',
         dorefresh' \in BOOLEAN, botbalance' \in BOOLEAN, botlimit' \in 0 .. MaxBots
  PROVE  IInv'
<1>1. bots' = [b \in Slots |-> NoBot] /\ owned' = [h \in Humans |-> <<>>] BY DEF Cleared
<1>2. phase' = phase /\ teams' = teams /\ reassign' = reassign BY DEF loops
<1>3. Loops' BY <1>2 DEF IInv, Loops
<1>4. \A b \in Slots : bots'[b] = NoBot /\ bots'[b].ownernum = NoOwner BY <1>1 DEF NoBot
<1>5. bots' \in [Slots -> Bot] /\ \A b \in Slots : ~Waiting(bots'[b]) BY <1>1, <1>4 DEF Bot, Waiting
<1>6. \A h \in Humans : owned'[h] \in Seq(Slots) /\ Range(owned'[h]) = {} /\ IsInjective(owned'[h])
  BY <1>1 DEF Range, IsInjective
<1>7. owned' \in [Humans -> Seq(Slots)] BY <1>1, <1>6
<1>8. \A b \in Slots : bots'[b].ownernum \in May' \cup {NoOwner} BY <1>4
<1>9. \A h \in Humans, b \in Slots : b \in Range(owned'[h]) <=> bots'[b].ownernum = h
  BY <1>4, <1>6, ClientAssumption
<1> QED BY <1>3, <1>5, <1>6, <1>7, <1>8, <1>9, Keeps

\* removeai(): the bots of h go to those who may have them, or are to be removed.
LEMMA GivesUp ==
  ASSUME IInv, NEW h \in Humans, GiveUp(h), UNCHANGED <<settings, loops>>, People',
         May \ {h} \subseteq May'
  PROVE  IInv'
<1> DEFINE who == Others(h, spectators, privileged, warned)
           st == RemoveAi(h, who)
<1>1. phase' = phase /\ teams' = teams /\ reassign' = reassign /\ Loops
      /\ botbalance' = botbalance /\ botlimit' = botlimit
  BY DEF loops, settings, IInv
<1>2. bots' = st.bots /\ owned' = st.owned /\ dorefresh' = (dorefresh \/ st # Now)
  BY DEF GiveUp, Become
<1>3. Loops' BY <1>1, <1>2 DEF Loops
<1>4. who \in Seq(Humans) /\ Range(who) = May \ {h}
  <2>1. clients \in Seq(Humans) /\ Joined = Range(clients) BY IInvIs DEF IInv, People
  <2> DEFINE S == {c \in Joined \ {h} : Valid(c, spectators, privileged, warned)}
  <2>2. S = May \ {h} /\ S \subseteq Joined BY DEF May, ValidNow
  <2>3. who = Within(clients, S) BY DEF Others
  <2> HIDE DEF S, who
  <2>4. Within(clients, S) \in Seq(Humans) /\ Range(Within(clients, S)) = Range(clients) \cap S
    BY <2>1, WithinIs
  <2> QED BY <2>1, <2>2, <2>3, <2>4
<1>5. Agree(Now) BY DEF IInv
<1> HIDE DEF st, who
<1>6. /\ Agree(st)
      /\ \A b \in Slots : IF bots[b].ownernum = h
                          THEN st.bots[b].ownernum \in Range(who) \cup {NoOwner}
                          ELSE st.bots[b] = bots[b]
  <2>1. h \notin Range(who) BY <1>4
  <2>2. st = RemoveAi(h, who) BY DEF st
  <2> QED BY <1>4, <1>5, <2>1, <2>2, RemoveAiIs
<1>7. /\ bots' \in [Slots -> Bot] /\ owned' \in [Humans -> Seq(Slots)]
      /\ \A k \in Humans : IsInjective(owned'[k])
      /\ \A k \in Humans, b \in Slots : b \in Range(owned'[k]) <=> bots'[b].ownernum = k
  BY <1>2, <1>6 DEF Agree, States
<1>8. \A b \in Slots : bots'[b].ownernum \in May' \cup {NoOwner}
  <2>1. ASSUME NEW b \in Slots PROVE bots'[b].ownernum \in May' \cup {NoOwner}
    <3>1. bots[b].ownernum \in May \cup {NoOwner} BY IInvIs
    <3>2. bots[b].ownernum = h => bots'[b].ownernum \in (May \ {h}) \cup {NoOwner}
      BY <1>2, <1>4, <1>6
    <3>3. bots[b].ownernum # h => bots'[b].ownernum \in (May \ {h}) \cup {NoOwner}
      BY <1>2, <1>6, <3>1
    <3> QED BY <3>2, <3>3
  <2> QED BY <2>1
<1>9. phase' \in {"idle", "reassign"} /\ (\E b \in Slots : Waiting(bots'[b])) => dorefresh'
  <2>1. CASE st = Now
    <3>1. bots' = bots BY <1>2, <2>1 DEF Now
    <3> QED BY <1>1, <1>2, <3>1 DEF IInv, Asked
  <2>2. CASE st # Now BY <1>2, <2>2
  <2> QED BY <2>1, <2>2
<1> QED BY <1>3, <1>7, <1>8, <1>9, Keeps

-----------------------------------------------------------------------------
(* Clients *)

LEMMA ChangesMapIInv ==
  ASSUME IInv, ChangesMap(Joined), UNCHANGED <<botlimit, loops>>, People'
  PROVE  IInv'
<1>1. bots' = Cleared.bots /\ owned' = Cleared.owned /\ dorefresh' = TRUE BY DEF ChangesMap
<1>2. botbalance' \in BOOLEAN BY DEF ChangesMap, IInv, Loops
<1>3. botlimit' \in 0 .. MaxBots BY DEF IInv, Loops
<1> QED BY <1>1, <1>2, <1>3, Clears

LEMMA ChangeMapIInv ==
  ASSUME IInv, ChangeMap PROVE IInv'
<1>1. /\ ChangesMap(Joined) /\ clients' = clients /\ spectators' = spectators
      /\ privileged' = privileged /\ botlimit' = botlimit /\ UNCHANGED loops
      /\ team' \in [Humans -> Teams] /\ warned' = {}
  BY DEF ChangeMap, ChangesMap
<1>2. People' BY <1>1 DEF IInv, People, Joined
<1> QED BY <1>1, <1>2, ChangesMapIInv

LEMMA JoinIInv ==
  ASSUME IInv, NEW h \in Humans, NEW watch \in BOOLEAN, Join(h, watch) PROVE IInv'
<1>1. /\ h \notin Joined /\ clients' = Append(clients, h)
      /\ spectators' = IF watch THEN spectators \cup {h} ELSE spectators
      /\ privileged' = privileged /\ botlimit' = botlimit /\ UNCHANGED loops
      /\ \/ ChangesMap(Joined)
         \/ dorefresh' = TRUE /\ UNCHANGED <<ai, warned, botbalance>>
  BY DEF Join
<1>2. /\ clients \in Seq(Humans) /\ IsInjective(clients) /\ Joined = Range(clients)
      /\ spectators \subseteq Joined /\ privileged \subseteq Joined /\ warned \subseteq Joined
      /\ team \in [Humans -> Teams]
  BY IInvIs DEF IInv, People
<1>3. /\ clients' \in Seq(Humans) /\ IsInjective(clients') /\ Joined' = Joined \cup {h}
  <2>1. Joined' = Range(clients') BY DEF Joined, Range
  <2> QED BY <1>1, <1>2, <2>1, AppendIs
<1>4. team' \in [Humans -> Teams]
  <2>1. PICK i \in {1, 2} : team' = [team EXCEPT ![h] = DefaultTeams[i]]
    BY DEF Join
  <2>2. DefaultTeams[i] \in Teams BY TeamAssumption
  <2> QED BY <1>2, <2>1, <2>2
<1>5. CASE ChangesMap(Joined)
  <2>1. warned' = {} BY <1>5 DEF ChangesMap
  <2>2. People' BY <1>1, <1>2, <1>3, <1>4, <2>1 DEF People
  <2>3. UNCHANGED <<botlimit, loops>> BY <1>1
  <2> QED BY <1>5, <2>2, <2>3, ChangesMapIInv
<1>6. CASE dorefresh' = TRUE /\ UNCHANGED <<ai, warned, botbalance>>
  <2>1. People' BY <1>1, <1>2, <1>3, <1>4, <1>6 DEF People
  <2>2. May \subseteq May'
    <3>1. \A c \in Joined : c # h BY <1>1
    <3> QED BY <1>1, <1>3, <1>6, <3>1 DEF May, ValidNow, Valid
  <2>3. botbalance' \in BOOLEAN /\ botlimit' \in 0 .. MaxBots BY <1>1, <1>6 DEF IInv, Loops
  <2>4. UNCHANGED <<ai, loops>> BY <1>1, <1>6
  <2> QED BY <1>6, <2>1, <2>2, <2>3, <2>4, Stays
<1> QED BY <1>1, <1>5, <1>6

LEMMA LeaveIInv ==
  ASSUME IInv, NEW h \in Humans, Leave(h) PROVE IInv'
<1>1. /\ clients' = Removed(clients, h)
      /\ spectators' = spectators \ {h} /\ privileged' = privileged \ {h}
      /\ warned' = warned \ {h} /\ team' = [team EXCEPT ![h] = DefaultTeams[1]]
      /\ UNCHANGED <<settings, loops>>
  BY DEF Leave
<1>2. /\ clients \in Seq(Humans) /\ IsInjective(clients) /\ Joined = Range(clients)
      /\ spectators \subseteq Joined /\ privileged \subseteq Joined /\ warned \subseteq Joined
      /\ team \in [Humans -> Teams]
  BY IInvIs DEF IInv, People
<1>3. /\ clients' \in Seq(Humans) /\ IsInjective(clients') /\ Joined' = Joined \ {h}
  <2>1. Joined' = Range(clients') BY DEF Joined, Range
  <2> QED BY <1>1, <1>2, <2>1, RemovedIs
<1>4. team' \in [Humans -> Teams]
  <2>1. DefaultTeams[1] \in Teams BY TeamAssumption
  <2> QED BY <1>1, <1>2, <2>1
<1>5. People' BY <1>1, <1>2, <1>3, <1>4 DEF People
<1>6. CASE Joined = {h}
  <2>1. bots' = Cleared.bots /\ owned' = Cleared.owned /\ dorefresh' \in BOOLEAN
    BY <1>6 DEF Leave, Become, IInv, Loops
  <2>2. botbalance' \in BOOLEAN /\ botlimit' \in 0 .. MaxBots BY <1>1 DEF IInv, Loops, settings
  <2> QED BY <1>1, <1>5, <2>1, <2>2, Clears
<1>7. CASE Joined # {h}
  <2>1. GiveUp(h) BY <1>7 DEF Leave
  <2>2. May \ {h} \subseteq May' BY <1>1, <1>3 DEF May, ValidNow, Valid
  <2> QED BY <1>1, <1>5, <2>1, <2>2, GivesUp
<1> QED BY <1>6, <1>7

LEMMA ForceSpectatorIInv ==
  ASSUME IInv, NEW h \in Humans, ForceSpectator(h) PROVE IInv'
<1>1. /\ h \in Joined /\ spectators' = spectators \cup {h}
      /\ UNCHANGED <<clients, privileged, warned, team, settings, loops>>
  BY DEF ForceSpectator
<1>2. People' BY <1>1 DEF IInv, People, Joined
<1>3. May \ {h} \subseteq May' BY <1>1 DEF May, ValidNow, Valid, Joined
<1>4. UNCHANGED <<settings, loops>> BY <1>1
<1>5. CASE h \notin privileged \/ h \in warned
  <2>1. GiveUp(h) BY <1>5 DEF ForceSpectator
  <2> QED BY <1>2, <1>3, <1>4, <2>1, GivesUp
<1>6. CASE h \in privileged /\ h \notin warned
  <2>1. UNCHANGED <<ai, dorefresh>> BY <1>6 DEF ForceSpectator
  <2>2. h \in May' BY <1>1, <1>6 DEF May, ValidNow, Valid, Joined
  <2>3. May \subseteq May' BY <1>3, <2>2
  <2>4. botbalance' \in BOOLEAN /\ botlimit' \in 0 .. MaxBots /\ dorefresh' \in BOOLEAN
    BY <1>1, <2>1 DEF IInv, Loops, settings
  <2>5. UNCHANGED <<ai, loops>> /\ dorefresh' = dorefresh BY <1>1, <2>1
  <2> QED BY <1>2, <2>3, <2>4, <2>5, Stays
<1> QED BY <1>5, <1>6

LEMMA UnspectateIInv ==
  ASSUME IInv, NEW h \in Humans, Unspectate(h) PROVE IInv'
<1>1. /\ spectators' = spectators \ {h}
      /\ UNCHANGED <<clients, privileged, team, botlimit, loops>>
      /\ \/ ChangesMap(Joined)
         \/ dorefresh' = TRUE /\ UNCHANGED <<ai, warned, botbalance>>
  BY DEF Unspectate
<1>2. warned' \subseteq warned BY <1>1 DEF ChangesMap
<1>3. People' BY <1>1, <1>2 DEF IInv, People, Joined
<1>4. UNCHANGED <<botlimit, loops>> BY <1>1
<1>5. CASE ChangesMap(Joined) BY <1>3, <1>4, <1>5, ChangesMapIInv
<1>6. CASE dorefresh' = TRUE /\ UNCHANGED <<ai, warned, botbalance>>
  <2>1. May \subseteq May' BY <1>1, <1>6 DEF May, ValidNow, Valid, Joined
  <2>2. botbalance' \in BOOLEAN /\ botlimit' \in 0 .. MaxBots BY <1>1, <1>6 DEF IInv, Loops
  <2>3. UNCHANGED <<ai, loops>> BY <1>4, <1>6
  <2> QED BY <1>3, <1>6, <2>1, <2>2, <2>3, Stays
<1> QED BY <1>1, <1>5, <1>6

LEMMA WarnIInv ==
  ASSUME IInv, NEW h \in Humans, Warn(h) PROVE IInv'
<1>1. /\ h \in Joined \ (spectators \cup warned) /\ warned' = warned \cup {h}
      /\ UNCHANGED <<clients, privileged, team, settings, loops>>
      /\ spectators' = IF MapSpectator THEN spectators \cup {h} ELSE spectators
  BY DEF Warn
<1>2. People' BY <1>1 DEF IInv, People, Joined
<1>3. May \ {h} \subseteq May' BY <1>1 DEF May, ValidNow, Valid, Joined
<1>4. UNCHANGED <<settings, loops>> BY <1>1
<1>5. CASE MapSpectator
  <2>1. GiveUp(h) BY <1>5 DEF Warn
  <2> QED BY <1>2, <1>3, <1>4, <2>1, GivesUp
<1>6. CASE ~MapSpectator
  <2>1. UNCHANGED <<ai, dorefresh>> BY <1>6 DEF Warn
  <2>2. h \in May' BY <1>1, <1>6 DEF May, ValidNow, Valid, Joined
  <2>3. May \subseteq May' BY <1>3, <2>2
  <2>4. botbalance' \in BOOLEAN /\ botlimit' \in 0 .. MaxBots /\ dorefresh' \in BOOLEAN
    BY <1>1, <2>1 DEF IInv, Loops, settings
  <2>5. UNCHANGED <<ai, loops>> /\ dorefresh' = dorefresh BY <1>1, <2>1
  <2> QED BY <1>2, <2>3, <2>4, <2>5, Stays
<1> QED BY <1>5, <1>6

LEMMA ClaimIInv ==
  ASSUME IInv, NEW h \in Humans, Claim(h) PROVE IInv'
<1>1. /\ h \in Joined /\ privileged' = privileged \cup {h}
      /\ UNCHANGED <<clients, spectators, warned, team, ai, dorefresh, settings, loops>>
  BY DEF Claim
<1>2. People' BY <1>1 DEF IInv, People, Joined
<1>3. May \subseteq May' BY <1>1 DEF May, ValidNow, Valid, Joined
<1>4. botbalance' \in BOOLEAN /\ botlimit' \in 0 .. MaxBots /\ dorefresh' \in BOOLEAN
  BY <1>1 DEF IInv, Loops, settings
<1>5. UNCHANGED <<ai, loops>> /\ dorefresh' = dorefresh BY <1>1
<1> QED BY <1>2, <1>3, <1>4, <1>5, Stays

LEMMA RevokeMasterIInv ==
  ASSUME IInv, NEW h \in Humans, RevokeMaster(h) PROVE IInv'
<1>1. /\ privileged' = privileged \ {h}
      /\ UNCHANGED <<clients, spectators, warned, team, settings, loops>>
  BY DEF RevokeMaster
<1>2. People' BY <1>1 DEF IInv, People, Joined
<1>3. May \ {h} \subseteq May' BY <1>1 DEF May, ValidNow, Valid, Joined
<1>4. UNCHANGED <<settings, loops>> BY <1>1
<1>5. CASE h \in spectators
  <2>1. GiveUp(h) BY <1>5 DEF RevokeMaster
  <2> QED BY <1>2, <1>3, <1>4, <2>1, GivesUp
<1>6. CASE h \notin spectators
  <2>1. UNCHANGED <<ai, dorefresh>> BY <1>6 DEF RevokeMaster
  <2>2. May \subseteq May' BY <1>1, <1>6 DEF May, ValidNow, Valid, Joined
  <2>3. botbalance' \in BOOLEAN /\ botlimit' \in 0 .. MaxBots /\ dorefresh' \in BOOLEAN
    BY <1>1, <2>1 DEF IInv, Loops, settings
  <2>4. UNCHANGED <<ai, loops>> /\ dorefresh' = dorefresh BY <1>1, <2>1
  <2> QED BY <1>2, <2>2, <2>3, <2>4, Stays
<1> QED BY <1>5, <1>6

LEMMA SwitchTeamIInv ==
  ASSUME IInv, NEW h \in Humans, NEW t \in Teams, SwitchTeam(h, t) PROVE IInv'
<1>1. /\ team' = [team EXCEPT ![h] = t] /\ dorefresh' = TRUE
      /\ UNCHANGED <<clients, spectators, privileged, warned, ai, settings, loops>>
  BY DEF SwitchTeam
<1>2. People' BY <1>1 DEF IInv, People, Joined
<1>3. May \subseteq May' BY <1>1 DEF May, ValidNow, Valid, Joined
<1>4. botbalance' \in BOOLEAN /\ botlimit' \in 0 .. MaxBots BY <1>1 DEF IInv, Loops, settings
<1>5. UNCHANGED <<ai, loops>> BY <1>1
<1> QED BY <1>1, <1>2, <1>3, <1>4, <1>5, Stays

-----------------------------------------------------------------------------
(* Requests *)

\* Nothing happens to the people.
LEMMA SamePeople ==
  ASSUME IInv, UNCHANGED people PROVE People' /\ May' = May
<1>1. /\ clients' = clients /\ spectators' = spectators /\ privileged' = privileged
      /\ warned' = warned /\ team' = team
  BY DEF people
<1> QED BY <1>1 DEF IInv, People, May, ValidNow, Valid, Joined

\* A step that leaves owners as they are.
LEMMA SameOwners ==
  ASSUME IInv, UNCHANGED <<people, owned>>, bots' \in [Slots -> Bot], Loops',
         \A b \in Slots : bots'[b].ownernum = bots[b].ownernum,
         phase' \in {"idle", "reassign"} /\ (\E b \in Slots : Waiting(bots'[b])) => dorefresh'
  PROVE  IInv'
<1>1. UNCHANGED people /\ owned' = owned OBVIOUS
<1>2. People' /\ May' = May BY <1>1, SamePeople
<1>3. /\ owned \in [Humans -> Seq(Slots)] /\ \A h \in Humans : IsInjective(owned[h])
      /\ \A h \in Humans, b \in Slots : b \in Range(owned[h]) <=> bots[b].ownernum = h
      /\ \A b \in Slots : bots[b].ownernum \in May \cup {NoOwner}
  BY IInvIs
<1> QED BY <1>1, <1>2, <1>3, Keeps

LEMMA SetBotTeamIInv ==
  ASSUME IInv, NEW b \in Slots, NEW t \in Teams, SetBotTeam(b, t) PROVE IInv'
<1>1. /\ TeamMode /\ bots[b] # NoBot /\ bots' = [bots EXCEPT ![b].team = t]
      /\ dorefresh' = dorefresh /\ UNCHANGED <<people, owned, settings, loops>>
  BY DEF SetBotTeam, Present
<1>2. bots \in [Slots -> Bot] BY IInvIs
<1>3. bots[b] \in [ownernum : Humans \cup {NoOwner}, aireinit : {0, 2}, team : TeamOf]
  BY <1>1, <1>2 DEF Bot
<1> DEFINE r == [bots[b] EXCEPT !.team = t]
<1>4. r \in Bot /\ r.ownernum = bots[b].ownernum /\ (Waiting(r) => Waiting(bots[b]))
  <2>1. r \in [ownernum : Humans \cup {NoOwner}, aireinit : {0, 2}, team : TeamOf]
    BY <1>1, <1>3 DEF TeamOf
  <2>2. r.ownernum = bots[b].ownernum /\ r.aireinit = bots[b].aireinit BY <1>3
  <2> QED BY <1>1, <2>1, <2>2 DEF Bot, Waiting
<1>5. bots' = [bots EXCEPT ![b] = r] BY <1>1
<1> HIDE DEF r
<1>6. /\ bots' \in [Slots -> Bot]
      /\ \A c \in Slots : bots'[c].ownernum = bots[c].ownernum
                          /\ (Waiting(bots'[c]) => Waiting(bots[c]))
  <2>1. bots' \in [Slots -> Bot] /\ bots'[b] = r BY <1>2, <1>4, <1>5
  <2>2. \A c \in Slots : c # b => bots'[c] = bots[c] BY <1>2, <1>5
  <2> QED BY <1>4, <2>1, <2>2
<1>7. phase' = phase /\ teams' = teams /\ reassign' = reassign /\ botbalance' = botbalance
      /\ botlimit' = botlimit
  BY <1>1 DEF loops, settings
<1>8. Loops' BY <1>1, <1>7 DEF IInv, Loops
<1>9. phase' \in {"idle", "reassign"} /\ (\E c \in Slots : Waiting(bots'[c])) => dorefresh'
  BY <1>1, <1>6, <1>7 DEF IInv, Asked
<1>10. UNCHANGED <<people, owned>> BY <1>1
<1> QED BY <1>6, <1>8, <1>9, <1>10, SameOwners

\* addai()
LEMMA AddAiIs ==
  ASSUME IInv, NEW limit \in 0 .. MaxBots, AddAi(limit), UNCHANGED <<people, settings, loops>>
  PROVE  IInv'
<1>1. UNCHANGED people /\ UNCHANGED settings /\ UNCHANGED loops OBVIOUS
<1>2. People' /\ May' = May BY <1>1, SamePeople
<1>3. /\ phase' = phase /\ teams' = teams /\ reassign' = reassign /\ botbalance' = botbalance
      /\ botlimit' = botlimit /\ Loops
  BY <1>1 DEF loops, settings, IInv
<1>4. CASE Cardinality(Owned) >= limit
  <2>1. UNCHANGED <<ai, dorefresh>> BY <1>4 DEF AddAi
  <2>2. botbalance' \in BOOLEAN /\ botlimit' \in 0 .. MaxBots /\ dorefresh' \in BOOLEAN
    BY <1>3, <2>1 DEF Loops
  <2>3. UNCHANGED <<ai, loops>> /\ dorefresh' = dorefresh BY <1>1, <2>1
  <2> QED BY <1>2, <2>2, <2>3, Stays
<1>5. CASE ~(Cardinality(Owned) >= limit)
  <2> DEFINE free == Slots \ Owned
             b == CHOOSE s \in free : \A r \in free : s <= r
             owner == FindAiClient(Now, Owners)
             r == [ownernum |-> owner, aireinit |-> 2,
                   team |-> IF b \in Present THEN bots[b].team ELSE ChooseTeam]
  <2>1. /\ bots \in [Slots -> Bot] /\ owned \in [Humans -> Seq(Slots)] /\ Joined \subseteq Humans
        /\ \A h \in Humans : IsInjective(owned[h])
        /\ \A h \in Humans, c \in Slots : c \in Range(owned[h]) <=> bots[c].ownernum = h
        /\ \A c \in Slots : bots[c].ownernum \in May \cup {NoOwner}
        /\ Joined = Range(clients) /\ May \subseteq Humans /\ clients \in Seq(Humans)
    BY IInvIs DEF IInv, People
  <2>2. b \in Slots /\ bots[b].ownernum = NoOwner
    <3>1. free # {}
      <4>1. ASSUME free = {} PROVE FALSE
        <5>1. Owned = Slots BY <4>1 DEF Owned
        <5>2. MaxBots \in Nat \ {0} BY LimitAssumption
        <5>3. Cardinality(Slots) = MaxBots BY <5>2, FS_Interval DEF Slots
        <5> QED BY <1>5, <5>1, <5>2, <5>3
      <4> QED BY <4>1
    <3>2. free \in SUBSET Nat BY LimitAssumption DEF Slots
    <3>3. \E s \in free : \A q \in free : s <= q BY <3>1, <3>2, LeastNat
    <3>4. b \in free BY <3>3
    <3> QED BY <3>4 DEF Owned
  <2>3. owner \in May \cup {NoOwner} /\ owner \in Humans \cup {NoOwner}
    <3> DEFINE S == {c \in Joined : ValidNow(c)}
    <3>1. S = May BY DEF May
    <3> HIDE DEF S
    <3>2. Owners = Within(clients, S) BY DEF Owners, S
    <3>3. Owners \in Seq(Humans) /\ Range(Owners) = Range(clients) \cap S
      BY <2>1, <3>2, WithinIs
    <3>4. Range(Owners) = May BY <2>1, <3>1, <3>3 DEF May
    <3>5. Now \in States BY DEF IInv, Agree
    <3>6. owner \in Range(Owners) \cup {NoOwner} BY <3>3, <3>5, FindIs
    <3> QED BY <2>1, <3>4, <3>6
  <2>4. r \in Bot /\ r.ownernum = owner
    <3>1. ASSUME b \in Present PROVE bots[b].team \in TeamOf
      <4>1. bots[b] # NoBot BY <3>1 DEF Present
      <4>2. bots[b] \in [ownernum : Humans \cup {NoOwner}, aireinit : {0, 2}, team : TeamOf]
        BY <2>1, <2>2, <4>1 DEF Bot
      <4> QED BY <4>2
    <3>2. ChooseTeam \in TeamOf BY <2>1, ChosenIs
    <3> HIDE DEF b, owner
    <3>3. (IF b \in Present THEN bots[b].team ELSE ChooseTeam) \in TeamOf BY <3>1, <3>2
    <3>4. r \in [ownernum : Humans \cup {NoOwner}, aireinit : {0, 2}, team : TeamOf]
      BY <2>3, <3>3
    <3> QED BY <3>4 DEF Bot
  <2>5. /\ bots' = [bots EXCEPT ![b] = r] /\ dorefresh' = TRUE
        /\ owned' = IF owner = NoOwner THEN owned
                    ELSE [owned EXCEPT ![owner] = Append(@, b)]
    BY <1>5 DEF AddAi
  <2> HIDE DEF b, owner, r
  <2>6. /\ bots' \in [Slots -> Bot] /\ bots'[b].ownernum = owner
        /\ \A c \in Slots : c # b => bots'[c] = bots[c]
    BY <2>1, <2>2, <2>4, <2>5
  <2>7. \A h \in Humans : b \notin Range(owned[h]) BY <2>1, <2>2, ClientAssumption
  <2>8. /\ owned' \in [Humans -> Seq(Slots)]
        /\ \A h \in Humans : h # owner => owned'[h] = owned[h]
        /\ owner # NoOwner => owned'[owner] = Append(owned[owner], b)
    <3>1. CASE owner = NoOwner BY <2>1, <2>5, <3>1
    <3>2. CASE owner # NoOwner
      <4>1. owner \in Humans /\ owned' = [owned EXCEPT ![owner] = Append(owned[owner], b)]
        BY <2>3, <2>5, <3>2
      <4>2. Append(owned[owner], b) \in Seq(Slots) BY <2>1, <2>2, <4>1
      <4> QED BY <2>1, <3>2, <4>1, <4>2
    <3> QED BY <3>1, <3>2
  <2>9. ASSUME NEW h \in Humans
        PROVE  /\ IsInjective(owned'[h])
               /\ \A c \in Slots : c \in Range(owned'[h]) <=> bots'[c].ownernum = h
    <3>1. CASE h # owner
      <4>1. owned'[h] = owned[h] BY <2>8, <3>1
      <4> QED BY <2>1, <2>2, <2>6, <2>7, <3>1, <4>1
    <3>2. CASE h = owner
      <4>1. owned'[h] = Append(owned[h], b) BY <2>8, <3>2, ClientAssumption
      <4>2. owned[h] \in Seq(Slots) /\ IsInjective(owned[h]) /\ b \notin Range(owned[h])
        BY <2>1, <2>7
      <4>3. Range(Append(owned[h], b)) = Range(owned[h]) \cup {b} /\ IsInjective(Append(owned[h], b))
        BY <2>2, <4>2, AppendIs
      <4> QED BY <2>1, <2>6, <3>2, <4>1, <4>3
    <3> QED BY <3>1, <3>2
  <2>10. \A c \in Slots : bots'[c].ownernum \in May' \cup {NoOwner}
    BY <1>2, <2>1, <2>3, <2>6
  <2>11. Loops' BY <1>3, <2>5 DEF Loops
  <2> QED BY <1>2, <2>5, <2>6, <2>8, <2>9, <2>10, <2>11, Keeps
<1> QED BY <1>4, <1>5

LEMMA ReqAddIInv ==
  ASSUME IInv, NEW h \in Humans, NEW admin \in BOOLEAN, ReqAdd(h, admin) PROVE IInv'
<1> DEFINE limit == IF admin THEN MaxBots ELSE botlimit
<1>1. limit \in 0 .. MaxBots BY LimitAssumption DEF IInv, Loops
<1>2. AddAi(limit) /\ UNCHANGED <<people, settings, loops>> BY DEF ReqAdd
<1> HIDE DEF limit
<1> QED BY <1>1, <1>2, AddAiIs

\* deleteai() of a bot that has an owner.
LEMMA ReqDelIInv ==
  ASSUME IInv, NEW h \in Humans, ReqDel(h) PROVE IInv'
<1> DEFINE b == CHOOSE s \in Owned : \A r \in Owned : r <= s
           o == bots[b].ownernum
           rest == Removed(owned[o], b)
<1>1. /\ bots \in [Slots -> Bot] /\ owned \in [Humans -> Seq(Slots)]
      /\ \A k \in Humans : IsInjective(owned[k])
      /\ \A k \in Humans, c \in Slots : c \in Range(owned[k]) <=> bots[c].ownernum = k
      /\ \A c \in Slots : bots[c].ownernum \in May \cup {NoOwner}
      /\ May \subseteq Humans
  BY IInvIs
<1>2. b \in Owned
  <2>1. Owned # {} BY DEF ReqDel
  <2> DEFINE Rests == {MaxBots - s : s \in Owned}
  <2>2. MaxBots \in Int /\ \A s \in Owned : s \in Int /\ s <= MaxBots
    BY LimitAssumption DEF Owned, Slots
  <2>3. Rests \in SUBSET Nat /\ Rests # {}
    <3>1. \A s \in Owned : MaxBots - s \in Nat BY <2>2
    <3> QED BY <2>1, <3>1
  <2>4. PICK n \in Rests : \A m \in Rests : n <= m BY <2>3, LeastNat
  <2>5. PICK s \in Owned : n = MaxBots - s OBVIOUS
  <2>6. \A r \in Owned : n <= MaxBots - r BY <2>4
  <2>7. \A r \in Owned : r <= s
    <3> HIDE DEF Rests
    <3> QED BY <2>2, <2>5, <2>6
  <2> QED BY <2>7
<1>3. /\ bots' = [bots EXCEPT ![b] = NoBot] /\ owned' = [owned EXCEPT ![o] = rest]
      /\ dorefresh' = TRUE /\ UNCHANGED people /\ UNCHANGED settings /\ UNCHANGED loops
  BY DEF ReqDel
<1> HIDE DEF b
<1>4. b \in Slots /\ o \in Humans BY <1>1, <1>2 DEF Owned
<1>5. rest \in Seq(Slots) /\ IsInjective(rest) /\ Range(rest) = Range(owned[o]) \ {b}
  BY <1>1, <1>4, RemovedIs
<1> HIDE DEF rest, o
<1>6. o = bots[b].ownernum BY DEF o
<1>7. /\ bots' \in [Slots -> Bot] /\ bots'[b].ownernum = NoOwner
      /\ \A c \in Slots : c # b => bots'[c] = bots[c]
  BY <1>1, <1>3, <1>4 DEF Bot, NoBot
<1>8. /\ owned' \in [Humans -> Seq(Slots)] /\ owned'[o] = rest
      /\ \A k \in Humans : k # o => owned'[k] = owned[k]
  BY <1>1, <1>3, <1>4, <1>5
<1>9. ASSUME NEW k \in Humans
      PROVE  /\ IsInjective(owned'[k])
             /\ \A c \in Slots : c \in Range(owned'[k]) <=> bots'[c].ownernum = k
  <2>1. CASE k = o BY <1>1, <1>5, <1>7, <1>8, <2>1, ClientAssumption
  <2>2. CASE k # o
    <3>1. owned'[k] = owned[k] BY <1>8, <2>2
    <3>2. b \notin Range(owned[k]) /\ bots'[b].ownernum # k
      BY <1>1, <1>4, <1>6, <1>7, <2>2, ClientAssumption
    <3>3. \A c \in Slots : c # b => (c \in Range(owned[k]) <=> bots'[c].ownernum = k)
      BY <1>1, <1>7
    <3> QED BY <1>1, <3>1, <3>2, <3>3
  <2> QED BY <2>1, <2>2
<1>10. People' /\ May' = May BY <1>3, SamePeople
<1>11. \A c \in Slots : bots'[c].ownernum \in May' \cup {NoOwner} BY <1>1, <1>7, <1>10
<1>12. /\ phase' = phase /\ teams' = teams /\ reassign' = reassign /\ botbalance' = botbalance
       /\ botlimit' = botlimit /\ Loops
  BY <1>3 DEF loops, settings, IInv
<1>13. Loops' BY <1>3, <1>12 DEF Loops
<1> QED BY <1>3, <1>7, <1>8, <1>9, <1>10, <1>11, <1>13, Keeps

LEMMA SetBotLimitIInv ==
  ASSUME IInv, NEW h \in Humans, NEW limit \in Limits, SetBotLimit(h, limit) PROVE IInv'
<1>1. /\ botlimit' = limit /\ dorefresh' = TRUE /\ UNCHANGED people
      /\ botbalance' = botbalance /\ UNCHANGED <<ai, loops>>
  BY DEF SetBotLimit
<1>2. botbalance' \in BOOLEAN /\ botlimit' \in 0 .. MaxBots
  BY <1>1, LimitAssumption DEF IInv, Loops
<1>3. People' /\ May' = May BY <1>1, SamePeople
<1> QED BY <1>1, <1>2, <1>3, Stays

LEMMA SetBotBalanceIInv ==
  ASSUME IInv, NEW h \in Humans, NEW balance \in BOOLEAN, SetBotBalance(h, balance) PROVE IInv'
<1>1. /\ botbalance' = balance /\ dorefresh' = TRUE /\ UNCHANGED people
      /\ botlimit' = botlimit /\ UNCHANGED <<ai, loops>>
  BY DEF SetBotBalance
<1>2. botbalance' \in BOOLEAN /\ botlimit' \in 0 .. MaxBots BY <1>1 DEF IInv, Loops
<1>3. People' /\ May' = May BY <1>1, SamePeople
<1> QED BY <1>1, <1>2, <1>3, Stays

-----------------------------------------------------------------------------
(* checkai *)

LEMMA CheckAiIInv ==
  ASSUME IInv, CheckAi PROVE IInv'
<1>1. /\ UNCHANGED people /\ botbalance' = botbalance /\ botlimit' = botlimit
      /\ botbalance \in BOOLEAN /\ botlimit \in 0 .. MaxBots
  BY DEF CheckAi, settings, IInv, Loops
<1>2. People' /\ May' = May BY <1>1, SamePeople
<1>3. CASE clients = <<>>
  <2>1. /\ bots' = Cleared.bots /\ owned' = Cleared.owned /\ dorefresh' \in BOOLEAN
        /\ UNCHANGED loops
    BY <1>3 DEF CheckAi
  <2> QED BY <1>1, <1>2, <2>1, Clears
<1>4. CASE clients # <<>>
  <2>1. /\ dorefresh' = FALSE /\ UNCHANGED ai
        /\ IF TeamMode /\ botbalance
           THEN phase' = "balance" /\ teams' = CalcTeams /\ reassign' = BotList
           ELSE phase' = "reinit" /\ UNCHANGED <<teams, reassign>>
    BY <1>4 DEF CheckAi
  <2>2. CalcTeams \in Seq([team : Teams, score : Nat]) BY IInvIs, CalcTeamsIs
  <2>3. BotList \in Seq(Slots) /\ IsInjective(BotList)
    <3> DEFINE all == [b \in Slots |-> b]
    <3>1. all \in Seq(Slots) /\ IsInjective(all)
      <4>1. MaxBots \in Nat BY LimitAssumption
      <4>2. all \in Seq(Slots) BY <4>1 DEF Slots
      <4> QED BY <4>2 DEF IsInjective
    <3>2. BotList = Within(all, Present) BY DEF BotList
    <3> HIDE DEF all
    <3> QED BY <3>1, <3>2, WithinIs
  <2>4. Loops'
    <3>1. CASE TeamMode /\ botbalance BY <1>1, <2>1, <2>2, <2>3, <3>1 DEF Loops
    <3>2. CASE ~(TeamMode /\ botbalance) BY <1>1, <2>1, <3>2 DEF IInv, Loops
    <3> QED BY <3>1, <3>2
  <2>5. phase' \notin {"idle", "reassign"} BY <2>1
  <2>6. bots' = bots /\ owned' = owned BY <2>1 DEF ai
  <2> QED BY <1>2, <2>4, <2>5, <2>6, IInvIs, Keeps
<1> QED BY <1>3, <1>4

LEMMA BalanceIInv ==
  ASSUME IInv, Balance PROVE IInv'
<1> DEFINE R == [team : Teams, score : Nat]
           inFirst(b) == bots[b].team = teams[1].team
           i == FirstWith(reassign, inFirst)
<1>1. /\ phase = "balance" /\ Uneven(teams) /\ UNCHANGED people
      /\ owned' = owned /\ dorefresh' = dorefresh /\ phase' = phase /\ UNCHANGED settings
      /\ IF \E j \in DOMAIN reassign : inFirst(reassign[j])
         THEN /\ teams' = Moved(teams) /\ reassign' = RemovedUnordered(reassign, i)
              /\ bots' = [bots EXCEPT ![reassign[i]].team = teams'[Len(teams)].team]
         ELSE teams' = Tail(teams) /\ UNCHANGED <<reassign, bots>>
  BY DEF Balance
<1>2. TeamMode /\ teams \in Seq(R) /\ reassign \in Seq(Slots) /\ IsInjective(reassign) /\ Loops
  BY <1>1 DEF IInv, Loops
<1>3. bots \in [Slots -> Bot] BY IInvIs
<1>4. teams # <<>> BY <1>1 DEF Uneven
<1>5. phase' \notin {"idle", "reassign"} BY <1>1
<1>6. CASE \E j \in DOMAIN reassign : inFirst(reassign[j])
  <2>1. /\ teams' = Moved(teams) /\ reassign' = RemovedUnordered(reassign, i)
        /\ bots' = [bots EXCEPT ![reassign[i]].team = teams'[Len(teams)].team]
    BY <1>1, <1>6
  <2>2. i \in DOMAIN reassign /\ inFirst(reassign[i])
    <3> DEFINE S == {j \in DOMAIN reassign : inFirst(reassign[j])}
    <3>1. S \in SUBSET Nat /\ S # {} BY <1>2, <1>6
    <3>2. PICK j \in S : \A k \in S : j <= k BY <3>1, LeastNat
    <3>3. ASSUME NEW k \in 1 .. j - 1 PROVE ~inFirst(reassign[k])
      <4>1. k \in DOMAIN reassign /\ ~(j <= k) BY <1>2, <3>1
      <4> HIDE DEF inFirst
      <4> QED BY <3>2, <4>1
    <3>4. \E k \in DOMAIN reassign :
            inFirst(reassign[k]) /\ \A l \in 1 .. k - 1 : ~inFirst(reassign[l])
      BY <3>2, <3>3
    <3> HIDE DEF inFirst
    <3> QED BY <3>4 DEF FirstWith
  <2> DEFINE b == reassign[i]
             t == teams'[Len(teams)].team
             r == [bots[b] EXCEPT !.team = t]
  <2>3. b \in Slots BY <1>2, <2>2
  <2>4. teams' \in Seq(R) /\ teams' # <<>> /\ t \in Teams
    <3>1. Moved(teams) \in Seq(R) /\ Len(Moved(teams)) = Len(teams) BY <1>1, <1>2, MovedIs
    <3>2. \A x \in Seq(R) : x # <<>> => x[Len(x)] \in R /\ Len(x) # 0
      <4> HIDE DEF R
      <4> QED OBVIOUS
    <3>3. Len(teams') = Len(teams) /\ Len(teams) # 0 BY <1>2, <1>4, <2>1, <3>1, <3>2
    <3>4. teams' # <<>> BY <3>3
    <3>5. teams'[Len(teams)] \in R BY <2>1, <3>1, <3>2, <3>3, <3>4
    <3> QED BY <2>1, <3>1, <3>4, <3>5
  <2>5. bots[b] # NoBot
    <3>1. \A x \in Seq(R) : x # <<>> => x[1] \in R
      <4> HIDE DEF R
      <4> QED OBVIOUS
    <3>2. teams[1] \in R BY <1>2, <1>4, <3>1
    <3>3. teams[1].team \in Nat BY <3>2, TeamAssumption
    <3> QED BY <2>2, <3>3 DEF NoBot
  <2>6. r \in Bot /\ r.ownernum = bots[b].ownernum
    <3>1. bots[b] \in [ownernum : Humans \cup {NoOwner}, aireinit : {0, 2}, team : TeamOf]
      BY <1>3, <2>3, <2>5 DEF Bot
    <3> HIDE DEF b, t
    <3>2. r \in [ownernum : Humans \cup {NoOwner}, aireinit : {0, 2}, team : TeamOf]
      BY <1>2, <2>4, <3>1 DEF TeamOf
    <3> QED BY <3>1, <3>2 DEF Bot
  <2>7. bots' = [bots EXCEPT ![b] = r] BY <2>1
  <2> HIDE DEF r, b
  <2>8. bots' \in [Slots -> Bot] /\ \A c \in Slots : bots'[c].ownernum = bots[c].ownernum
    BY <1>3, <2>3, <2>6, <2>7
  <2>9. reassign' \in Seq(Slots) /\ IsInjective(reassign') BY <1>2, <2>1, <2>2, UnorderedIs
  <2>10. Loops' BY <1>1, <1>2, <2>4, <2>9 DEF Loops, settings
  <2> QED BY <1>1, <1>5, <2>8, <2>10, SameOwners
<1>7. CASE ~\E j \in DOMAIN reassign : inFirst(reassign[j])
  <2>1. teams' = Tail(teams) /\ reassign' = reassign /\ bots' = bots BY <1>1, <1>7
  <2>2. teams' \in Seq(R)
    <3> HIDE DEF R
    <3> QED BY <1>2, <1>4, <2>1
  <2>3. Loops' BY <1>1, <1>2, <2>1, <2>2 DEF Loops, settings
  <2> QED BY <1>1, <1>3, <1>5, <2>1, <2>3, SameOwners
<1> QED BY <1>6, <1>7

LEMMA BalancedIInv ==
  ASSUME IInv, Balanced PROVE IInv'
<1>1. /\ phase' = "reinit" /\ teams' = <<>> /\ reassign' = <<>> /\ UNCHANGED people
      /\ bots' = bots /\ owned' = owned /\ dorefresh' = dorefresh
      /\ botbalance' = botbalance /\ botlimit' = botlimit
  BY DEF Balanced, ai, settings
<1>2. teams' \in Seq([team : Teams, score : Nat]) /\ reassign' \in Seq(Slots) /\ IsInjective(reassign')
  BY <1>1 DEF IsInjective
<1>3. Loops' BY <1>1, <1>2 DEF IInv, Loops
<1>4. bots \in [Slots -> Bot] BY IInvIs
<1> QED BY <1>1, <1>3, <1>4, SameOwners

LEMMA ReinitAiIInv ==
  ASSUME IInv, ReinitAi PROVE IInv'
<1>1. /\ phase' = "reassign" /\ UNCHANGED people /\ owned' = owned
      /\ UNCHANGED settings /\ teams' = teams /\ reassign' = reassign
      /\ bots' = [b \in Slots |-> IF b \in Owned THEN [bots[b] EXCEPT !.aireinit = 0] ELSE NoBot]
      /\ dorefresh' = (dorefresh \/ \E b \in Present : b \notin Owned)
  BY DEF ReinitAi
<1>2. bots \in [Slots -> Bot] BY IInvIs
<1>3. ASSUME NEW b \in Slots
      PROVE  /\ bots'[b] \in Bot /\ bots'[b].ownernum = bots[b].ownernum
             /\ ~Waiting(bots'[b])
  <2>1. CASE b \in Owned
    <3>1. bots[b].ownernum # NoOwner BY <2>1 DEF Owned
    <3>2. bots[b] # NoBot BY <3>1 DEF NoBot
    <3>3. bots[b] \in [ownernum : Humans \cup {NoOwner}, aireinit : {0, 2}, team : TeamOf]
      BY <1>2, <3>2 DEF Bot
    <3>4. bots'[b] = [bots[b] EXCEPT !.aireinit = 0] BY <1>1, <2>1
    <3>5. /\ bots'[b] \in [ownernum : Humans \cup {NoOwner}, aireinit : {0, 2}, team : TeamOf]
          /\ bots'[b].ownernum = bots[b].ownernum /\ bots'[b].aireinit = 0
      BY <3>3, <3>4
    <3> QED BY <3>1, <3>5 DEF Bot, Waiting
  <2>2. CASE b \notin Owned
    <3>1. bots'[b] = NoBot /\ bots[b].ownernum = NoOwner BY <1>1, <2>2 DEF Owned
    <3> QED BY <3>1 DEF Bot, NoBot, Waiting
  <2> QED BY <2>1, <2>2
<1>4. bots' \in [Slots -> Bot]
  <2> DEFINE told(b) == IF b \in Owned THEN [bots[b] EXCEPT !.aireinit = 0] ELSE NoBot
  <2>1. bots' = [b \in Slots |-> told(b)] BY <1>1
  <2> HIDE DEF told
  <2> QED BY <1>3, <2>1
<1>5. Loops' BY <1>1 DEF IInv, Loops, settings
<1> QED BY <1>1, <1>3, <1>4, <1>5, SameOwners

\* No client has more bots than there are.
LEMMA LoadIs ==
  ASSUME IInv, NEW h \in Humans PROVE Len(owned[h]) \in Nat /\ Len(owned[h]) <= MaxBots
<1> DEFINE s == owned[h]
<1>1. s \in Seq(Slots) /\ IsInjective(s) BY IInvIs
<1>2. MaxBots \in Nat \ {0} BY LimitAssumption
<1>3. IsFiniteSet(Slots) /\ Cardinality(Slots) = MaxBots BY <1>2, FS_Interval DEF Slots
<1> HIDE DEF s
<1>4. Len(s) \in Nat /\ s \in [1 .. Len(s) -> Slots] BY <1>1
<1>5. s \in Injection(1 .. Len(s), Slots) BY <1>1, <1>4 DEF Injection, IsInjective
<1>6. Cardinality(1 .. Len(s)) <= MaxBots BY <1>3, <1>5, FS_Injection
<1>7. Cardinality(1 .. Len(s)) = Len(s)
  <2>1. 1 \in Int /\ Len(s) \in Int BY <1>4
  <2>2. Cardinality(1 .. Len(s)) = IF 1 > Len(s) THEN 0 ELSE Len(s) - 1 + 1 BY <2>1, FS_Interval
  <2> QED BY <1>4, <2>2
<1> QED BY <1>4, <1>6, <1>7 DEF s

LEMMA ReassignAiIInv ==
  ASSUME IInv, ReassignAi PROVE IInv'
<1> DEFINE who == Owners
           fewest(h) == \A i \in DOMAIN who : Load(h) <= Load(who[i])
           most(h) == \A i \in DOMAIN who : Load(h) >= Load(who[i])
           lo == who[FirstWith(who, fewest)]
           hi == who[FirstWith(who, most)]
<1>1. /\ phase = "reassign" /\ UNCHANGED people /\ UNCHANGED settings
      /\ teams' = teams /\ reassign' = reassign
      /\ IF who # <<>> /\ Overloaded(hi, lo)
         THEN Become(ShiftAi(Now, owned[hi][Load(hi)], lo)) /\ UNCHANGED phase
         ELSE phase' = "idle" /\ UNCHANGED <<ai, dorefresh>>
  BY DEF ReassignAi
<1>2. People' /\ May' = May BY <1>1, SamePeople
<1>3. /\ bots \in [Slots -> Bot] /\ owned \in [Humans -> Seq(Slots)] /\ Joined \subseteq Humans
      /\ \A h \in Humans : IsInjective(owned[h])
      /\ \A h \in Humans, c \in Slots : c \in Range(owned[h]) <=> bots[c].ownernum = h
      /\ \A c \in Slots : bots[c].ownernum \in May \cup {NoOwner}
      /\ Joined = Range(clients) /\ May \subseteq Humans /\ clients \in Seq(Humans)
  BY IInvIs DEF IInv, People
<1>4. CASE ~(who # <<>> /\ Overloaded(hi, lo))
  <2>1. phase' = "idle" /\ bots' = bots /\ owned' = owned /\ dorefresh' = dorefresh
    BY <1>1, <1>4 DEF ai
  <2>2. Loops' BY <1>1, <2>1 DEF IInv, Loops, settings
  <2>3. (\E b \in Slots : Waiting(bots'[b])) => dorefresh' BY <1>1, <2>1 DEF IInv, Asked
  <2> QED BY <1>1, <1>3, <2>1, <2>2, <2>3, SameOwners
<1>5. CASE who # <<>> /\ Overloaded(hi, lo)
  <2>1. who \in Seq(Humans) /\ Range(who) = May
    <3> DEFINE S == {c \in Joined : ValidNow(c)}
    <3>1. S = May BY DEF May
    <3> HIDE DEF S, who
    <3>2. who = Within(clients, S) BY DEF Owners, S, who
    <3>3. Within(clients, S) \in Seq(Humans) /\ Range(Within(clients, S)) = Range(clients) \cap S
      BY <1>3, WithinIs
    <3> QED BY <1>3, <3>1, <3>2, <3>3 DEF May
  <2> HIDE DEF who
  <2>2. lo \in May /\ lo \in Humans
    <3>1. \E i \in DOMAIN who : fewest(who[i]) /\ \A j \in 1 .. i - 1 : ~fewest(who[j])
      BY <1>3, <1>5, <2>1, FewestIs DEF Load
    <3> HIDE DEF fewest
    <3>2. FirstWith(who, fewest) \in DOMAIN who BY <3>1 DEF FirstWith
    <3>3. lo \in Range(who) BY <3>2 DEF Range
    <3> QED BY <1>3, <2>1, <3>3
  <2>3. hi \in May /\ hi \in Humans
    <3>1. MaxBots \in Nat /\ \A h \in Humans : Len(owned[h]) <= MaxBots
      BY LoadIs, LimitAssumption
    <3>2. \E i \in DOMAIN who : most(who[i]) /\ \A j \in 1 .. i - 1 : ~most(who[j])
      BY <1>3, <1>5, <2>1, <3>1, MostIs DEF Load
    <3> HIDE DEF most
    <3>3. FirstWith(who, most) \in DOMAIN who BY <3>2 DEF FirstWith
    <3>4. hi \in Range(who) BY <3>3 DEF Range
    <3> QED BY <1>3, <2>1, <3>4
  <2> DEFINE b == owned[hi][Load(hi)]
             st == ShiftAi(Now, b, lo)
  <2>4. Become(st) /\ phase' = phase BY <1>1, <1>5
  <2>5. Len(owned[hi]) - Len(owned[lo]) > 1 BY <1>5 DEF Overloaded, Load
  <2> HIDE DEF hi, lo
  <2>6. hi # lo /\ b \in Slots /\ b \in Range(owned[hi])
    <3>1. owned[hi] \in Seq(Slots) /\ owned[lo] \in Seq(Slots) BY <1>3, <2>2, <2>3
    <3>2. Len(owned[hi]) \in Nat /\ Len(owned[lo]) \in Nat BY <3>1
    <3>3. Len(owned[hi]) \in DOMAIN owned[hi] /\ hi # lo
      <4> DEFINE x == Len(owned[hi])
                 y == Len(owned[lo])
      <4>3. hi = lo => x = y OBVIOUS
      <4>4. x \in Nat /\ y \in Nat /\ x - y > 1 BY <2>5, <3>2
      <4> HIDE DEF x, y
      <4>5. x # y /\ x \in 1 .. x BY <4>4
      <4>1. hi # lo /\ Len(owned[hi]) \in 1 .. Len(owned[hi]) BY <4>3, <4>5 DEF x
      <4>2. DOMAIN owned[hi] = 1 .. Len(owned[hi]) BY <3>1
      <4> QED BY <4>1, <4>2
    <3> QED BY <3>1, <3>3 DEF Load, Range
  <2>7. bots[b].ownernum = hi BY <1>3, <2>3, <2>6
  <2> HIDE DEF b
  <2>8. /\ Agree(st) /\ st.bots[b].ownernum = lo
        /\ \A c \in Slots : c # b => st.bots[c] = bots[c]
    <3>1. Agree(Now) /\ Now.bots = bots BY DEF IInv, Now
    <3> QED BY <2>2, <2>3, <2>6, <2>7, <3>1, ShiftIs
  <2> HIDE DEF st
  <2>9. bots' = st.bots /\ owned' = st.owned /\ dorefresh' = (dorefresh \/ st # Now)
    BY <2>4 DEF Become
  <2>10. dorefresh' = TRUE
    <3>1. st # Now BY <2>6, <2>7, <2>8 DEF Now
    <3> QED BY <2>9, <3>1
  <2>11. /\ bots' \in [Slots -> Bot] /\ owned' \in [Humans -> Seq(Slots)]
         /\ \A k \in Humans : IsInjective(owned'[k])
         /\ \A k \in Humans, c \in Slots : c \in Range(owned'[k]) <=> bots'[c].ownernum = k
    BY <2>8, <2>9 DEF Agree, States
  <2>12. \A c \in Slots : bots'[c].ownernum \in May' \cup {NoOwner}
    BY <1>2, <1>3, <2>2, <2>8, <2>9
  <2>13. Loops' BY <1>1, <2>4, <2>10 DEF IInv, Loops, settings
  <2> QED BY <1>2, <2>10, <2>11, <2>12, <2>13, Keeps
<1> QED BY <1>4, <1>5
-----------------------------------------------------------------------------
LEMMA InitIInv ==
  ASSUME Init PROVE IInv
<1>1. /\ clients = <<>> /\ spectators = {} /\ privileged = {} /\ warned = {}
      /\ team = [h \in Humans |-> DefaultTeams[1]]
      /\ bots = [b \in Slots |-> NoBot] /\ owned = [h \in Humans |-> <<>>]
      /\ dorefresh = FALSE /\ botbalance = TRUE /\ botlimit \in Limits
      /\ phase = "idle" /\ teams = <<>> /\ reassign = <<>>
  BY DEF Init
<1>2. \A b \in Slots : bots[b] = NoBot /\ bots[b].ownernum = NoOwner BY <1>1 DEF NoBot
<1>3. Agree(Now)
  <2>1. bots \in [Slots -> Bot] BY <1>1 DEF Bot
  <2>2. \A h \in Humans : owned[h] \in Seq(Slots) /\ Range(owned[h]) = {} /\ IsInjective(owned[h])
    BY <1>1 DEF Range, IsInjective
  <2>3. owned \in [Humans -> Seq(Slots)] BY <1>1, <2>2
  <2>4. \A h \in Humans, b \in Slots : b \in Range(owned[h]) <=> bots[b].ownernum = h
    BY <1>2, <2>2, ClientAssumption
  <2> QED BY <2>1, <2>2, <2>3, <2>4 DEF Agree, States, Now
<1>4. People
  <2>1. DefaultTeams[1] \in Teams BY TeamAssumption
  <2>2. IsInjective(clients) BY <1>1 DEF IsInjective
  <2> QED BY <1>1, <2>1, <2>2 DEF People
<1>5. Loops
  <2>1. teams \in Seq([team : Teams, score : Nat]) /\ reassign \in Seq(Slots) /\ IsInjective(reassign)
    BY <1>1 DEF IsInjective
  <2>2. botlimit \in 0 .. MaxBots BY <1>1, LimitAssumption
  <2> QED BY <1>1, <2>1, <2>2 DEF Loops
<1>6. OwnersValid BY <1>2 DEF OwnersValid, Owned
<1>7. Asked BY <1>2 DEF Asked, Waiting
<1> QED BY <1>3, <1>4, <1>5, <1>6, <1>7 DEF IInv

LEMMA NextIInv ==
  ASSUME IInv, [Next]_vars PROVE IInv'
<1>1. ASSUME NEW h \in Humans, NEW watch \in BOOLEAN, Join(h, watch) PROVE IInv'
  BY <1>1, JoinIInv
<1>2. ASSUME NEW h \in Humans,
             \/ Leave(h) \/ ForceSpectator(h) \/ Unspectate(h) \/ Warn(h)
             \/ Claim(h) \/ RevokeMaster(h) \/ ReqDel(h)
      PROVE  IInv'
  BY <1>2, LeaveIInv, ForceSpectatorIInv, UnspectateIInv, WarnIInv, ClaimIInv,
     RevokeMasterIInv, ReqDelIInv
<1>3. ASSUME NEW h \in Humans, NEW t \in Teams, SwitchTeam(h, t) PROVE IInv'
  BY <1>3, SwitchTeamIInv
<1>4. ASSUME NEW h \in Humans, NEW admin \in BOOLEAN, ReqAdd(h, admin) PROVE IInv'
  BY <1>4, ReqAddIInv
<1>5. ASSUME NEW h \in Humans, NEW limit \in Limits, SetBotLimit(h, limit) PROVE IInv'
  BY <1>5, SetBotLimitIInv
<1>6. ASSUME NEW h \in Humans, NEW balance \in BOOLEAN, SetBotBalance(h, balance) PROVE IInv'
  BY <1>6, SetBotBalanceIInv
<1>7. ASSUME NEW b \in Slots, NEW t \in Teams, SetBotTeam(b, t) PROVE IInv'
  BY <1>7, SetBotTeamIInv
<1>8. ASSUME ChangeMap \/ CheckAi \/ Refresh PROVE IInv'
  BY <1>8, ChangeMapIInv, CheckAiIInv, BalanceIInv, BalancedIInv, ReinitAiIInv, ReassignAiIInv
     DEF Refresh
<1>9. ASSUME UNCHANGED vars PROVE IInv'
  <2>1. /\ UNCHANGED people /\ UNCHANGED <<ai, loops>> /\ dorefresh' = dorefresh
        /\ botbalance' = botbalance /\ botlimit' = botlimit
    BY <1>9 DEF vars, settings
  <2>2. People' /\ May' = May BY <2>1, SamePeople
  <2>3. dorefresh' \in BOOLEAN /\ botbalance' \in BOOLEAN /\ botlimit' \in 0 .. MaxBots
    BY <2>1 DEF IInv, Loops
  <2> QED BY <2>1, <2>2, <2>3, Stays
<1> QED BY <1>1, <1>2, <1>3, <1>4, <1>5, <1>6, <1>7, <1>8, <1>9 DEF Next

\* Bots and lists agree, those who own bots may, and what waits has been asked for,
\* whatever clients and checkai do.
THEOREM Invariant == Spec => []IInv
<1>1. Init => IInv BY InitIInv
<1>2. IInv /\ [Next]_vars => IInv' BY NextIInv
<1> QED BY <1>1, <1>2, PTL DEF Spec

\* Every variable has its type: lists hold nothing twice, and the teams the balancing
\* works on are teams with scores.
THEOREM TypeCorrect == Spec => []TypeOK
<1>1. IInv => TypeOK
  <2>1. ASSUME IInv PROVE TypeOK
    <3>1. bots \in [Slots -> Bot] /\ owned \in [Humans -> Seq(Slots)]
          /\ \A h \in Humans : IsInjective(owned[h])
      BY <2>1, IInvIs
    <3> QED BY <2>1, <3>1 DEF TypeOK, IInv, People, Loops, Bot
  <2> QED BY <2>1
<1> QED BY <1>1, Invariant, PTL

\* Each bot is on the list of its owner and on no other; the owner is there and may
\* simulate bots; a bot that waits to be removed or told of has dorefresh set.
THEOREM BotsKept == Spec => []OwnersKept
<1>1. IInv => OwnersKept
  <2>1. ASSUME IInv PROVE OwnersKept
    <3>1. OwnersAgree BY <2>1, IInvIs DEF OwnersAgree, Range
    <3>2. OwnersValid BY <2>1 DEF IInv
    <3>3. PendingRefreshed
      <4>1. ASSUME Idle, NEW b \in Present, b \notin Owned \/ bots[b].aireinit # 0
            PROVE  dorefresh
        <5>1. b \in Slots /\ bots[b] # NoBot BY DEF Present
        <5>2. Waiting(bots[b]) BY <4>1, <5>1 DEF Owned, Waiting
        <5> QED BY <2>1, <4>1, <5>1, <5>2 DEF IInv, Asked, Idle
      <4> QED BY <4>1 DEF PendingRefreshed
    <3> QED BY <3>1, <3>2, <3>3 DEF OwnersKept
  <2> QED BY <2>1
<1> QED BY <1>1, Invariant, PTL
-----------------------------------------------------------------------------
(* Load *)

\* Steps that change no list ask for what they may have disturbed, and let nobody play.
LEMMA StaysShared ==
  ASSUME OwnersBalanced, phase = "idle", dorefresh' \in BOOLEAN,
         \/ dorefresh' = TRUE
         \/ owned' = owned /\ dorefresh' = dorefresh /\ Joined' \ spectators' \subseteq Joined \ spectators
  PROVE  OwnersBalanced'
BY DEF OwnersBalanced, Idle, Load

\* Bots that go to others are told of by the next checkai.
LEMMA GivesUpShared ==
  ASSUME OwnersBalanced, phase = "idle", dorefresh \in BOOLEAN, NEW st, Become(st),
         Joined' \ spectators' \subseteq Joined \ spectators
  PROVE  OwnersBalanced'
<1>1. owned' = st.owned /\ dorefresh' = (dorefresh \/ st # Now) BY DEF Become
<1>2. dorefresh' \in BOOLEAN BY <1>1
<1>3. CASE st = Now
  <2>1. st.owned = owned BY <1>3 DEF Now
  <2>2. dorefresh' = dorefresh BY <1>1, <1>3
  <2> HIDE DEF Now
  <2> QED BY <1>1, <1>2, <2>1, <2>2, StaysShared
<1>4. CASE st # Now BY <1>1, <1>2, <1>4, StaysShared
<1> QED BY <1>3, <1>4

LEMMA ChangesMapShared ==
  ASSUME OwnersBalanced, phase = "idle", NEW who, ChangesMap(who) PROVE OwnersBalanced'
<1>1. dorefresh' = TRUE BY DEF ChangesMap
<1> QED BY <1>1, StaysShared

\* Clients come, go, watch and play.
LEMMA ClientsShared ==
  ASSUME IInv, OwnersBalanced, NEW h \in Humans,
         \/ \E watch \in BOOLEAN : Join(h, watch)
         \/ Leave(h) \/ ForceSpectator(h) \/ Unspectate(h) \/ Warn(h) \/ Claim(h) \/ RevokeMaster(h)
         \/ \E t \in Teams : SwitchTeam(h, t)
  PROVE  OwnersBalanced'
<1>1. dorefresh \in BOOLEAN BY DEF IInv, Loops
<1>2. CASE \E watch \in BOOLEAN : Join(h, watch)
  <2>1. phase = "idle" /\ (ChangesMap(Joined) \/ dorefresh' = TRUE) BY <1>2 DEF Join, Idle
  <2> QED BY <2>1, StaysShared, ChangesMapShared
<1>3. CASE Leave(h)
  <2>1. Joined' = Joined \ {h}
    <3>1. clients \in Seq(Humans) /\ IsInjective(clients) BY DEF IInv, People
    <3>2. clients' = Removed(clients, h) BY <1>3 DEF Leave
    <3>3. Joined = Range(clients) /\ Joined' = Range(clients') BY DEF Joined, Range
    <3> QED BY <3>1, <3>2, <3>3, RemovedIs
  <2>2. /\ phase = "idle" /\ spectators' = spectators \ {h}
        /\ \/ Become(Cleared)
           \/ Become(RemoveAi(h, Others(h, spectators, privileged, warned)))
    BY <1>3 DEF Leave, Idle, GiveUp
  <2>3. Joined' \ spectators' \subseteq Joined \ spectators BY <2>1, <2>2
  <2> QED BY <1>1, <2>2, <2>3, GivesUpShared
<1>4. CASE ForceSpectator(h) \/ Warn(h) \/ RevokeMaster(h)
  <2>1. phase = "idle" /\ clients' = clients /\ spectators \subseteq spectators'
    BY <1>4 DEF ForceSpectator, Warn, RevokeMaster, Idle
  <2>2. \/ Become(RemoveAi(h, Others(h, spectators, privileged, warned)))
        \/ owned' = owned /\ dorefresh' = dorefresh
    BY <1>4 DEF ForceSpectator, Warn, RevokeMaster, GiveUp, ai
  <2>3. Joined' \ spectators' \subseteq Joined \ spectators BY <2>1 DEF Joined
  <2> QED BY <1>1, <2>1, <2>2, <2>3, GivesUpShared, StaysShared
<1>5. CASE Unspectate(h)
  <2>1. phase = "idle" /\ (ChangesMap(Joined) \/ dorefresh' = TRUE) BY <1>5 DEF Unspectate, Idle
  <2> QED BY <2>1, StaysShared, ChangesMapShared
<1>6. CASE Claim(h)
  <2>1. phase = "idle" /\ owned' = owned /\ dorefresh' = dorefresh /\ Joined' = Joined /\ spectators' = spectators
    BY <1>6 DEF Claim, Idle, ai, Joined
  <2> QED BY <1>1, <2>1, StaysShared
<1>7. CASE \E t \in Teams : SwitchTeam(h, t)
  <2>1. phase = "idle" /\ dorefresh' = TRUE BY <1>7 DEF SwitchTeam, Idle
  <2> QED BY <2>1, StaysShared
<1> QED BY <1>2, <1>3, <1>4, <1>5, <1>6, <1>7

\* Bots are asked for, removed and limited.
LEMMA RequestsShared ==
  ASSUME IInv, OwnersBalanced, NEW h \in Humans,
         \/ \E admin \in BOOLEAN : ReqAdd(h, admin)
         \/ ReqDel(h)
         \/ \E limit \in Limits : SetBotLimit(h, limit)
         \/ \E balance \in BOOLEAN : SetBotBalance(h, balance)
  PROVE  OwnersBalanced'
<1>1. dorefresh \in BOOLEAN BY DEF IInv, Loops
<1>2. CASE \E admin \in BOOLEAN : ReqAdd(h, admin)
  <2>1. phase = "idle" /\ UNCHANGED people BY <1>2 DEF ReqAdd, Idle
  <2>2. Joined' = Joined /\ spectators' = spectators BY <2>1 DEF people, Joined
  <2>3. dorefresh' = TRUE \/ (owned' = owned /\ dorefresh' = dorefresh) BY <1>2 DEF ReqAdd, AddAi, ai
  <2> QED BY <1>1, <2>1, <2>2, <2>3, StaysShared
<1>3. CASE ReqDel(h) \/ (\E limit \in Limits : SetBotLimit(h, limit))
           \/ \E balance \in BOOLEAN : SetBotBalance(h, balance)
  <2>1. phase = "idle" /\ dorefresh' = TRUE BY <1>3 DEF ReqDel, SetBotLimit, SetBotBalance, Idle
  <2> QED BY <2>1, StaysShared
<1> QED BY <1>2, <1>3

\* reassignai() stops when whoever has the most has at most one more than whoever has the fewest.
LEMMA ReassignShares ==
  ASSUME IInv, ReassignAi PROVE OwnersBalanced'
<1> DEFINE who == Owners
           fewest(h) == \A i \in DOMAIN who : Load(h) <= Load(who[i])
           most(h) == \A i \in DOMAIN who : Load(h) >= Load(who[i])
           lo == who[FirstWith(who, fewest)]
           hi == who[FirstWith(who, most)]
<1>1. /\ phase = "reassign" /\ UNCHANGED people
      /\ IF who # <<>> /\ Overloaded(hi, lo) THEN phase' = phase
         ELSE phase' = "idle" /\ UNCHANGED <<ai, dorefresh>>
  BY DEF ReassignAi
<1>2. /\ owned \in [Humans -> Seq(Slots)] /\ Joined = Range(clients) /\ clients \in Seq(Humans)
  BY IInvIs DEF IInv, People
<1>3. CASE who # <<>> /\ Overloaded(hi, lo)
  <2>1. phase' = "reassign" BY <1>1, <1>3
  <2> QED BY <2>1 DEF OwnersBalanced, Idle
<1>4. CASE ~(who # <<>> /\ Overloaded(hi, lo))
  <2>1. owned' = owned /\ Joined' = Joined /\ spectators' = spectators BY <1>1, <1>4 DEF ai, people, Joined
  <2>2. who \in Seq(Humans) /\ Joined \ spectators \subseteq Range(who)
    <3> DEFINE S == {c \in Joined : ValidNow(c)}
    <3>1. Joined \ spectators \subseteq S BY DEF ValidNow, Valid
    <3>2. Within(clients, S) \in Seq(Humans) /\ Range(Within(clients, S)) = Range(clients) \cap S
      BY <1>2, WithinIs
    <3>3. who = Within(clients, S) BY DEF Owners
    <3> HIDE DEF S, who
    <3> QED BY <1>2, <3>1, <3>2, <3>3
  <2> HIDE DEF who
  <2>3. SUFFICES ASSUME NEW h \in Joined \ spectators, NEW k \in Joined \ spectators
                 PROVE  Len(owned[h]) <= Len(owned[k]) + 1
    BY <2>1 DEF OwnersBalanced, Load
  <2>4. PICK i, j \in DOMAIN who : h = who[i] /\ k = who[j] BY <2>2 DEF Range
  <2>5. who # <<>> BY <2>4
  <2>6. fewest(lo) /\ lo \in Humans
    <3>1. \E x \in DOMAIN who : fewest(who[x]) /\ \A y \in 1 .. x - 1 : ~fewest(who[y])
      BY <1>2, <2>2, <2>5, FewestIs DEF Load
    <3> HIDE DEF fewest
    <3>2. FirstWith(who, fewest) \in DOMAIN who /\ fewest(who[FirstWith(who, fewest)]) BY <3>1 DEF FirstWith
    <3> QED BY <2>2, <3>2
  <2>7. most(hi) /\ hi \in Humans
    <3>1. MaxBots \in Nat /\ \A x \in Humans : Len(owned[x]) <= MaxBots BY LoadIs, LimitAssumption
    <3>2. \E x \in DOMAIN who : most(who[x]) /\ \A y \in 1 .. x - 1 : ~most(who[y])
      BY <1>2, <2>2, <2>5, <3>1, MostIs DEF Load
    <3> HIDE DEF most
    <3>3. FirstWith(who, most) \in DOMAIN who /\ most(who[FirstWith(who, most)]) BY <3>2 DEF FirstWith
    <3> QED BY <2>2, <3>3
  <2> HIDE DEF lo, hi
  <2>8. ~(Len(owned[hi]) - Len(owned[lo]) > 1) BY <1>4, <2>5 DEF Overloaded, Load
  <2>9. Len(owned[lo]) <= Len(owned[k]) /\ Len(owned[hi]) >= Len(owned[h]) BY <2>4, <2>6, <2>7 DEF Load
  <2>10. \A x \in Humans : Len(owned[x]) \in Nat BY LoadIs
  <2>11. h \in Humans /\ k \in Humans BY <2>2, <2>4
  <2> DEFINE a == Len(owned[hi])
             b == Len(owned[lo])
             c == Len(owned[h])
             d == Len(owned[k])
  <2>12. a \in Nat /\ b \in Nat /\ c \in Nat /\ d \in Nat BY <2>6, <2>7, <2>10, <2>11
  <2>13. ~(a - b > 1) /\ b <= d /\ a >= c BY <2>8, <2>9
  <2> HIDE DEF a, b, c, d
  <2>14. c <= d + 1 BY <2>12, <2>13
  <2> QED BY <2>14 DEF c, d
<1> QED BY <1>3, <1>4

LEMMA NextShared ==
  ASSUME IInv, OwnersBalanced, [Next]_vars PROVE OwnersBalanced'
<1>1. dorefresh \in BOOLEAN BY DEF IInv, Loops
<1>2. ASSUME NEW h \in Humans,
             \/ \E watch \in BOOLEAN : Join(h, watch)
             \/ Leave(h) \/ ForceSpectator(h) \/ Unspectate(h) \/ Warn(h) \/ Claim(h) \/ RevokeMaster(h)
             \/ \E t \in Teams : SwitchTeam(h, t)
      PROVE  OwnersBalanced'
  BY <1>2, ClientsShared
<1>3. ASSUME NEW h \in Humans,
             \/ \E admin \in BOOLEAN : ReqAdd(h, admin)
             \/ ReqDel(h)
             \/ \E limit \in Limits : SetBotLimit(h, limit)
             \/ \E balance \in BOOLEAN : SetBotBalance(h, balance)
      PROVE  OwnersBalanced'
  BY <1>3, RequestsShared
<1>4. ASSUME NEW b \in Slots, NEW t \in Teams, SetBotTeam(b, t) PROVE OwnersBalanced'
  <2>1. phase = "idle" /\ UNCHANGED people /\ owned' = owned /\ dorefresh' = dorefresh
    BY <1>4 DEF SetBotTeam, Idle
  <2>2. Joined' = Joined /\ spectators' = spectators BY <2>1 DEF people, Joined
  <2> QED BY <1>1, <2>1, <2>2, StaysShared
<1>5. CASE ChangeMap
  <2>1. phase = "idle" /\ ChangesMap(Joined) BY <1>5 DEF ChangeMap, Idle
  <2> QED BY <2>1, ChangesMapShared
<1>6. CASE CheckAi
  <2>1. CASE clients = <<>>
    <3>1. Joined' = {} BY <1>6, <2>1 DEF CheckAi, people, Joined
    <3> QED BY <3>1 DEF OwnersBalanced
  <2>2. CASE clients # <<>>
    <3>1. phase' # "idle" BY <1>6, <2>2 DEF CheckAi
    <3> QED BY <3>1 DEF OwnersBalanced, Idle
  <2> QED BY <2>1, <2>2
<1>7. CASE Balance \/ Balanced \/ ReinitAi
  <2>1. phase' # "idle" BY <1>7 DEF Balance, Balanced, ReinitAi
  <2> QED BY <2>1 DEF OwnersBalanced, Idle
<1>8. CASE ReassignAi BY <1>8, ReassignShares
<1>9. CASE UNCHANGED vars
  <2>1. phase' = phase /\ owned' = owned /\ dorefresh' = dorefresh /\ Joined' = Joined /\ spectators' = spectators
    BY <1>9 DEF vars, people, ai, loops, Joined
  <2> QED BY <2>1 DEF OwnersBalanced, Idle, Load
<1> QED BY <1>2, <1>3, <1>4, <1>5, <1>6, <1>7, <1>8, <1>9 DEF Next, Refresh

\* When nothing is pending, no player simulates two bots more than another: whatever
\* changes a list or lets somebody play asks for checkai, which ends when loads are even.
THEOREM LoadShared == Spec => []OwnersBalanced
<1>1. Init => OwnersBalanced
  <2>1. Init => Joined = {} BY DEF Init, Joined
  <2> QED BY <2>1 DEF OwnersBalanced
<1>2. IInv /\ OwnersBalanced /\ [Next]_vars => OwnersBalanced' BY NextShared
<1> QED BY <1>1, <1>2, Invariant, PTL DEF Spec
=============================================================================
