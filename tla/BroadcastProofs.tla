----------------------------- MODULE BroadcastProofs -----------------------------
(***************************************************************************)
(* Theorems about Broadcast, for any clients, bots, mtu and bounds.        *)
(***************************************************************************)
EXTENDS Broadcast, VectorProofs, FiniteSetTheorems

-----------------------------------------------------------------------------
(* Sums over the clients. *)

\* t sums f over every set of clients.
IsTotal(t, f) ==
  t = [s \in SUBSET Client |->
         IF s = {} THEN 0 ELSE LET x == CHOOSE y \in s : TRUE IN f[x] + t[s \ {x}]]

Totals(f) == CHOOSE t : IsTotal(t, f)
Total(f) == Totals(f)[Client]

\* The sets of at most n clients, and t over those alone.
UpTo(n) == {s \in SUBSET Client : Cardinality(s) <= n}
IsTotalTo(t, f, n) ==
  t = [s \in UpTo(n) |->
         IF s = {} THEN 0 ELSE LET x == CHOOSE y \in s : TRUE IN f[x] + t[s \ {x}]]

LEMMA Smaller ==
  ASSUME NEW s \in SUBSET Client, s # {}, NEW x \in s
  PROVE  /\ s \ {x} \in SUBSET Client
         /\ Cardinality(s) \in Nat \ {0} /\ Cardinality(s \ {x}) = Cardinality(s) - 1
<1>1. IsFiniteSet(s)
  BY FS_Subset, BroadcastAssumption
<1>2. Cardinality(s) \in Nat /\ Cardinality(s) # 0
  BY <1>1, FS_CardinalityType, FS_EmptySet
<1> QED BY <1>1, <1>2, FS_RemoveElement

LEMMA TotalStep ==
  ASSUME NEW f, NEW n \in Nat \ {0}, NEW u, IsTotalTo(u, f, n - 1)
  PROVE  \E t : IsTotalTo(t, f, n)
<1> DEFINE t == [s \in UpTo(n) |->
                   IF s = {} THEN 0 ELSE LET x == CHOOSE y \in s : TRUE IN f[x] + u[s \ {x}]]
<1>1. ASSUME NEW s \in UpTo(n - 1) PROVE t[s] = u[s]
  <2>1. s \in UpTo(n)
    <3>1. IsFiniteSet(s) BY FS_Subset, BroadcastAssumption DEF UpTo
    <3>2. Cardinality(s) \in Nat BY <3>1, FS_CardinalityType
    <3> QED BY <3>2 DEF UpTo
  <2>2. u[s] = IF s = {} THEN 0 ELSE LET x == CHOOSE y \in s : TRUE IN f[x] + u[s \ {x}]
    BY DEF IsTotalTo
  <2> QED BY <2>1, <2>2
<1>2. ASSUME NEW s \in UpTo(n), s # {}
      PROVE  t[s] = LET x == CHOOSE y \in s : TRUE IN f[x] + t[s \ {x}]
  <2> DEFINE x == CHOOSE y \in s : TRUE
  <2>1. x \in s BY <1>2
  <2> HIDE DEF x
  <2>2. s \ {x} \in UpTo(n - 1) BY <1>2, <2>1, Smaller DEF UpTo
  <2>3. t[s \ {x}] = u[s \ {x}] BY <1>1, <2>2
  <2> HIDE DEF t
  <2>4. t[s] = f[x] + u[s \ {x}] BY <1>2 DEF t, x
  <2>5. t[s] = f[x] + t[s \ {x}] BY <2>3, <2>4
  <2> QED BY <2>5 DEF x
<1>3. ASSUME {} \in UpTo(n) PROVE t[{}] = 0 BY <1>3
<1>4. t = [s \in UpTo(n) |-> t[s]] OBVIOUS
<1> HIDE DEF t
<1>5. IsTotalTo(t, f, n)
  BY <1>2, <1>3, <1>4 DEF IsTotalTo
<1> QED BY <1>5

LEMMA TotalExists ==
  ASSUME NEW f
  PROVE  IsTotal(Totals(f), f)
<1> DEFINE Bad == {n \in Nat : ~\E t : IsTotalTo(t, f, n)}
<1>1. Bad = {}
  <2> SUFFICES ASSUME Bad # {} PROVE FALSE OBVIOUS
  <2>1. PICK n \in Bad : \A k \in Bad : n <= k BY LeastNat
  <2>2. n # 0
    <3>1. \A s \in UpTo(0) : s = {}
      <4>1. \A s \in SUBSET Client : IsFiniteSet(s) BY FS_Subset, BroadcastAssumption
      <4>2. \A s \in SUBSET Client : Cardinality(s) \in Nat /\ (Cardinality(s) = 0 <=> s = {})
        BY <4>1, FS_CardinalityType, FS_EmptySet
      <4> QED BY <4>2 DEF UpTo
    <3>2. IsTotalTo([s \in UpTo(0) |-> 0], f, 0) BY <3>1 DEF IsTotalTo
    <3> QED BY <3>2
  <2>3. n - 1 \in Nat /\ n - 1 \notin Bad BY <2>1, <2>2
  <2>4. PICK u : IsTotalTo(u, f, n - 1) BY <2>3
  <2> QED BY <2>1, <2>2, <2>4, TotalStep
<1>2. Cardinality(Client) \in Nat BY FS_CardinalityType, BroadcastAssumption
<1>3. UpTo(Cardinality(Client)) = SUBSET Client
  BY FS_Subset, BroadcastAssumption DEF UpTo
<1>4. \E t : IsTotalTo(t, f, Cardinality(Client)) BY <1>1, <1>2
<1>5. \E t : IsTotal(t, f) BY <1>3, <1>4 DEF IsTotal, IsTotalTo
<1> QED BY <1>5 DEF Totals

LEMMA TotalOf ==
  ASSUME NEW f, NEW s \in SUBSET Client
  PROVE  /\ s = {} => Totals(f)[s] = 0
         /\ s # {} => \E x \in s : /\ s \ {x} \in SUBSET Client
                                   /\ x = (CHOOSE y \in s : TRUE)
                                   /\ Totals(f)[s] = f[x] + Totals(f)[s \ {x}]
<1> DEFINE t == Totals(f)
<1>1. IsTotal(t, f) BY TotalExists
<1> HIDE DEF t
<1>2. t[s] = IF s = {} THEN 0 ELSE LET x == CHOOSE y \in s : TRUE IN f[x] + t[s \ {x}]
  BY <1>1 DEF IsTotal
<1> QED BY <1>2 DEF t

LEMMA TotalIsSum ==
  ASSUME NEW f \in [Client -> Nat]
  PROVE  SumFunction(f) = Total(f)
<1>1. DOMAIN f = Client OBVIOUS
<1>2. SumFunction(f)
        = (CHOOSE t : t = [s \in SUBSET Client |->
             IF s = {} THEN 0 ELSE LET x == CHOOSE y \in s : TRUE IN f[x] + t[s \ {x}]])[Client]
  BY <1>1 DEF SumFunction, SumFunctionOnSet, FoldFunctionOnSet, MapThenFoldSet
<1> QED BY <1>2 DEF Total, Totals, IsTotal

LEMMA TotalNat ==
  ASSUME NEW f \in [Client -> Nat]
  PROVE  \A s \in SUBSET Client : Totals(f)[s] \in Nat
<1> DEFINE Bad == {n \in Nat : \E s \in SUBSET Client : Cardinality(s) = n /\ Totals(f)[s] \notin Nat}
<1>1. Bad = {}
  <2> SUFFICES ASSUME Bad # {} PROVE FALSE OBVIOUS
  <2>1. PICK n \in Bad : \A k \in Bad : n <= k BY LeastNat
  <2>2. PICK s \in SUBSET Client : Cardinality(s) = n /\ Totals(f)[s] \notin Nat BY <2>1
  <2>3. s # {} BY <2>2, TotalOf
  <2>4. PICK x \in s : s \ {x} \in SUBSET Client /\ Totals(f)[s] = f[x] + Totals(f)[s \ {x}]
    BY <2>3, TotalOf
  <2>5. Cardinality(s \ {x}) = n - 1 /\ n - 1 \in Nat BY <2>2, <2>3, Smaller
  <2>6. n - 1 \notin Bad BY <2>1, <2>5
  <2>7. Totals(f)[s \ {x}] \in Nat BY <2>4, <2>5, <2>6
  <2> QED BY <2>2, <2>4, <2>7
<1>2. \A s \in SUBSET Client : Cardinality(s) \in Nat
  BY FS_Subset, FS_CardinalityType, BroadcastAssumption
<1> QED BY <1>1, <1>2

\* What one client adds, all together have more, if it is among them.
LEMMA TotalsChange ==
  ASSUME NEW f \in [Client -> Nat], NEW g \in [Client -> Nat], NEW c \in Client, NEW d \in Nat,
         f[c] = g[c] + d, \A x \in Client \ {c} : f[x] = g[x]
  PROVE  \A s \in SUBSET Client : Totals(f)[s] = Totals(g)[s] + (IF c \in s THEN d ELSE 0)
<1> DEFINE Fine(s) == Totals(f)[s] = Totals(g)[s] + (IF c \in s THEN d ELSE 0)
           Bad == {n \in Nat : \E s \in SUBSET Client : Cardinality(s) = n /\ ~Fine(s)}
<1>1. Bad = {}
  <2> SUFFICES ASSUME Bad # {} PROVE FALSE OBVIOUS
  <2>1. PICK n \in Bad : \A k \in Bad : n <= k BY LeastNat
  <2>2. PICK s \in SUBSET Client : Cardinality(s) = n /\ ~Fine(s) BY <2>1
  <2>3. s # {} BY <2>2, TotalOf
  <2>4. PICK x \in s : /\ s \ {x} \in SUBSET Client
                       /\ x = (CHOOSE y \in s : TRUE)
                       /\ Totals(f)[s] = f[x] + Totals(f)[s \ {x}]
    BY <2>3, TotalOf
  <2>5. Totals(g)[s] = g[x] + Totals(g)[s \ {x}]
    <3>1. PICK z \in s : z = (CHOOSE y \in s : TRUE) /\ Totals(g)[s] = g[z] + Totals(g)[s \ {z}]
      BY <2>3, TotalOf
    <3>2. z = x BY <2>4, <3>1
    <3> QED BY <3>1, <3>2
  <2>6. Cardinality(s \ {x}) = n - 1 /\ n - 1 \in Nat BY <2>2, <2>3, Smaller
  <2>7. n - 1 \notin Bad BY <2>1, <2>6
  <2>8. Fine(s \ {x}) BY <2>4, <2>6, <2>7
  <2>9. Totals(f)[s \ {x}] \in Nat /\ Totals(g)[s \ {x}] \in Nat BY <2>4, TotalNat
  <2>10. f[x] \in Nat /\ g[x] \in Nat OBVIOUS
  <2>11. CASE x = c
    <3>1. c \in s /\ c \notin s \ {x} BY <2>11
    <3>2. Totals(f)[s \ {x}] = Totals(g)[s \ {x}] BY <2>8, <2>9, <3>1
    <3>4. f[x] = g[x] + d BY <2>11
    <3>5. \A t \in Nat, p \in Nat : (p + d) + t = (p + t) + d OBVIOUS
    <3>6. (g[x] + d) + Totals(g)[s \ {x}] = (g[x] + Totals(g)[s \ {x}]) + d BY <2>9, <2>10, <3>5
    <3>7. Totals(f)[s] = (g[x] + d) + Totals(g)[s \ {x}] BY <2>4, <3>2, <3>4
    <3>3. Totals(f)[s] = Totals(g)[s] + d BY <2>5, <3>6, <3>7
    <3> QED BY <2>2, <3>1, <3>3
  <2>12. CASE x # c
    <3>1. f[x] = g[x] /\ (c \in s <=> c \in s \ {x}) BY <2>12
    <3> QED BY <2>2, <2>4, <2>5, <2>8, <2>9, <2>10, <3>1
  <2> QED BY <2>11, <2>12
<1>2. \A s \in SUBSET Client : Cardinality(s) \in Nat
  BY FS_Subset, FS_CardinalityType, BroadcastAssumption
<1> QED BY <1>1, <1>2

\* The references of all clients, counted, and what one of them holds or drops.
LEMMA SumDrop ==
  ASSUME NEW f \in [Client -> Nat], NEW g \in [Client -> Nat], NEW c \in Client, NEW d \in Nat,
         f[c] = g[c] + d, \A x \in Client \ {c} : f[x] = g[x]
  PROVE  /\ SumFunction(f) \in Nat /\ SumFunction(g) \in Nat
         /\ SumFunction(f) = SumFunction(g) + d
<1>1. Totals(f)[Client] = Totals(g)[Client] + d BY TotalsChange
<1>2. Totals(f)[Client] \in Nat /\ Totals(g)[Client] \in Nat BY TotalNat
<1> QED BY <1>1, <1>2, TotalIsSum DEF Total

LEMMA SumAtLeast ==
  ASSUME NEW f \in [Client -> Nat], NEW c \in Client
  PROVE  SumFunction(f) \in Nat /\ f[c] <= SumFunction(f)
<1> DEFINE g == [f EXCEPT ![c] = 0]
<1>1. g \in [Client -> Nat] /\ f[c] \in Nat /\ g[c] = 0 /\ \A x \in Client \ {c} : f[x] = g[x]
  OBVIOUS
<1> HIDE DEF g
<1>2. SumFunction(f) = SumFunction(g) + f[c] /\ SumFunction(f) \in Nat /\ SumFunction(g) \in Nat
  <2>1. f[c] = g[c] + f[c] BY <1>1
  <2> QED BY <1>1, <2>1, SumDrop
<1> QED BY <1>1, <1>2

LEMMA SumZero ==
  SumFunction([c \in Client |-> 0]) = 0
<1> DEFINE f == [c \in Client |-> 0]
           Bad == {n \in Nat : \E s \in SUBSET Client : Cardinality(s) = n /\ Totals(f)[s] # 0}
<1>0. f \in [Client -> Nat] OBVIOUS
<1>1. Bad = {}
  <2> SUFFICES ASSUME Bad # {} PROVE FALSE OBVIOUS
  <2>1. PICK n \in Bad : \A k \in Bad : n <= k BY LeastNat
  <2>2. PICK s \in SUBSET Client : Cardinality(s) = n /\ Totals(f)[s] # 0 BY <2>1
  <2> HIDE DEF f
  <2>3. s # {} BY <2>2, TotalOf
  <2>4. PICK x \in s : s \ {x} \in SUBSET Client /\ Totals(f)[s] = f[x] + Totals(f)[s \ {x}]
    BY <2>3, TotalOf
  <2>5. Cardinality(s \ {x}) = n - 1 /\ n - 1 \in Nat BY <2>2, <2>3, Smaller
  <2>6. n - 1 \notin Bad BY <2>1, <2>5
  <2>7. Totals(f)[s \ {x}] = 0 BY <2>4, <2>5, <2>6
  <2>8. f[x] = 0 BY DEF f
  <2> QED BY <2>2, <2>4, <2>7, <2>8
<1>2. Cardinality(Client) \in Nat
  BY FS_CardinalityType, BroadcastAssumption
<1>3. Totals(f)[Client] = 0 BY <1>1, <1>2
<1> HIDE DEF f
<1> QED BY <1>0, <1>3, TotalIsSum DEF Total, f
-----------------------------------------------------------------------------
(* The packets that an update builds. *)

IsSequence(s) == \E S : s \in Seq(S)

\* What the folds of the update do with an element: a client, or a speaker of client ci.
Step(chan, ci, st, a) == IF ci = Nil THEN AddClient(chan, st, a) ELSE AddChunk(chan, st, a, ci)

IsFold(t, chan, ci, base, seq) ==
  t = [s \in SUBSET DOMAIN seq |->
         IF s = {} THEN base ELSE LET x == Max(s) IN Step(chan, ci, t[s \ {x}], seq[x])]

Folded(chan, ci, base, seq) == (CHOOSE t : IsFold(t, chan, ci, base, seq))[DOMAIN seq]

Indices(seq, n) == {s \in SUBSET DOMAIN seq : Cardinality(s) <= n}
IsFoldTo(t, chan, ci, base, seq, n) ==
  t = [s \in Indices(seq, n) |->
         IF s = {} THEN base ELSE LET x == Max(s) IN Step(chan, ci, t[s \ {x}], seq[x])]

LEMMA GreatestIn ==
  ASSUME NEW m \in Nat, NEW s \in SUBSET (1 .. m), s # {}
  PROVE  Max(s) \in s /\ \A y \in s : Max(s) >= y
<1> DEFINE R == {m - x : x \in s}
<1>1. R \in SUBSET Nat /\ R # {}
  <2>1. \A x \in s : x \in 1 .. m OBVIOUS
  <2>2. \A x \in 1 .. m : m - x \in Nat OBVIOUS
  <2> QED BY <2>1, <2>2
<1>2. PICK r \in R : \A q \in R : r <= q BY <1>1, LeastNat
<1>3. PICK x \in s : r = m - x OBVIOUS
<1>4. \A y \in s : x >= y
  <2> SUFFICES ASSUME NEW y \in s PROVE x >= y OBVIOUS
  <2>1. m - x <= m - y BY <1>2, <1>3
  <2>2. x \in Nat /\ y \in Nat OBVIOUS
  <2> QED BY <2>1, <2>2
<1> QED BY <1>4 DEF Max

LEMMA FewerIndices ==
  ASSUME NEW seq, IsSequence(seq), NEW s \in SUBSET DOMAIN seq, s # {}
  PROVE  /\ Max(s) \in s /\ s \ {Max(s)} \in SUBSET DOMAIN seq
         /\ Cardinality(s) \in Nat \ {0} /\ Cardinality(s \ {Max(s)}) = Cardinality(s) - 1
<1>1. DOMAIN seq = 1 .. Len(seq) /\ Len(seq) \in Nat BY DEF IsSequence
<1>2. Max(s) \in s BY <1>1, GreatestIn
<1>3. IsFiniteSet(DOMAIN seq) BY <1>1, FS_Interval
<1>4. IsFiniteSet(s) BY <1>3, FS_Subset
<1>5. Cardinality(s) \in Nat /\ Cardinality(s) # 0
  BY <1>4, FS_CardinalityType, FS_EmptySet
<1>6. Cardinality(s \ {Max(s)}) = Cardinality(s) - 1 BY <1>2, <1>4, FS_RemoveElement
<1> QED BY <1>2, <1>5, <1>6

LEMMA IndexSets ==
  ASSUME NEW seq, IsSequence(seq)
  PROVE  /\ \A s \in SUBSET DOMAIN seq : Cardinality(s) \in Nat /\ (Cardinality(s) = 0 <=> s = {})
         /\ Indices(seq, Len(seq)) = SUBSET DOMAIN seq /\ Len(seq) \in Nat
<1>1. DOMAIN seq = 1 .. Len(seq) /\ Len(seq) \in Nat BY DEF IsSequence
<1>2. IsFiniteSet(DOMAIN seq) /\ Cardinality(DOMAIN seq) = Len(seq)
  <2> DEFINE m == Len(seq)
  <2>1. m \in Nat BY <1>1
  <2> HIDE DEF m
  <2>2. /\ IsFiniteSet(1 .. m)
        /\ Cardinality(1 .. m) = IF 1 > m THEN 0 ELSE m - 1 + 1
    BY <2>1, FS_Interval
  <2>3. (IF 1 > m THEN 0 ELSE m - 1 + 1) = m BY <2>1
  <2>4. DOMAIN seq = 1 .. m BY <1>1 DEF m
  <2>5. Cardinality(1 .. m) = m BY <2>2, <2>3
  <2> QED BY <2>2, <2>4, <2>5 DEF m
<1>3. \A s \in SUBSET DOMAIN seq : IsFiniteSet(s) /\ Cardinality(s) <= Len(seq)
  BY <1>2, FS_Subset
<1>4. \A s \in SUBSET DOMAIN seq : Cardinality(s) \in Nat /\ (Cardinality(s) = 0 <=> s = {})
  BY <1>3, FS_CardinalityType, FS_EmptySet
<1>5. Indices(seq, Len(seq)) = SUBSET DOMAIN seq
  BY <1>3 DEF Indices
<1> QED BY <1>1, <1>4, <1>5

LEMMA FoldStep ==
  ASSUME NEW chan, NEW ci, NEW base, NEW seq, IsSequence(seq), NEW n \in Nat \ {0}, NEW u,
         IsFoldTo(u, chan, ci, base, seq, n - 1)
  PROVE  \E t : IsFoldTo(t, chan, ci, base, seq, n)
<1> DEFINE t == [s \in Indices(seq, n) |->
                   IF s = {} THEN base ELSE LET x == Max(s) IN Step(chan, ci, u[s \ {x}], seq[x])]
<1>1. ASSUME NEW s \in Indices(seq, n - 1) PROVE t[s] = u[s]
  <2>1. s \in Indices(seq, n) BY IndexSets DEF Indices
  <2>2. u[s] = IF s = {} THEN base ELSE LET x == Max(s) IN Step(chan, ci, u[s \ {x}], seq[x])
    BY DEF IsFoldTo
  <2> QED BY <2>1, <2>2
<1>2. ASSUME NEW s \in Indices(seq, n), s # {}
      PROVE  t[s] = LET x == Max(s) IN Step(chan, ci, t[s \ {x}], seq[x])
  <2> DEFINE x == Max(s)
  <2>2. s \ {x} \in Indices(seq, n - 1) BY <1>2, FewerIndices DEF Indices
  <2> HIDE DEF x
  <2>3. t[s \ {x}] = u[s \ {x}] BY <1>1, <2>2
  <2> HIDE DEF t
  <2>4. t[s] = Step(chan, ci, u[s \ {x}], seq[x]) BY <1>2 DEF t, x
  <2>5. t[s] = Step(chan, ci, t[s \ {x}], seq[x]) BY <2>3, <2>4
  <2> QED BY <2>5 DEF x
<1>3. ASSUME {} \in Indices(seq, n) PROVE t[{}] = base BY <1>3
<1>4. t = [s \in Indices(seq, n) |-> t[s]] OBVIOUS
<1> HIDE DEF t
<1>5. IsFoldTo(t, chan, ci, base, seq, n)
  BY <1>2, <1>3, <1>4 DEF IsFoldTo
<1> QED BY <1>5

LEMMA FoldExists ==
  ASSUME NEW chan, NEW ci, NEW base, NEW seq, IsSequence(seq)
  PROVE  \E t : IsFold(t, chan, ci, base, seq)
<1> DEFINE Bad == {n \in Nat : ~\E t : IsFoldTo(t, chan, ci, base, seq, n)}
<1>1. Bad = {}
  <2> SUFFICES ASSUME Bad # {} PROVE FALSE OBVIOUS
  <2>1. PICK n \in Bad : \A k \in Bad : n <= k BY LeastNat
  <2>2. n # 0
    <3>1. \A s \in Indices(seq, 0) : s = {} BY IndexSets DEF Indices
    <3>2. IsFoldTo([s \in Indices(seq, 0) |-> base], chan, ci, base, seq, 0) BY <3>1 DEF IsFoldTo
    <3> QED BY <3>2
  <2>3. n - 1 \in Nat /\ n - 1 \notin Bad BY <2>1, <2>2
  <2>4. PICK u : IsFoldTo(u, chan, ci, base, seq, n - 1) BY <2>3
  <2> QED BY <2>1, <2>2, <2>4, FoldStep
<1>2. Len(seq) \in Nat BY IndexSets
<1>3. \E t : IsFoldTo(t, chan, ci, base, seq, Len(seq)) BY <1>1, <1>2
<1> QED BY <1>3, IndexSets DEF IsFold, IsFoldTo

StateFields == {"buf", "base", "ws", "out"}

\* For each listener there is a sequence of packets.
Outs(st) ==
  /\ DOMAIN st = StateFields /\ DOMAIN st.out = Listener
  /\ \A c \in Listener : IsSequence(st.out[c])

LEMMA AppendIsSequence ==
  ASSUME NEW s, IsSequence(s), NEW e
  PROVE  IsSequence(Append(s, e))
<1> PICK S : s \in Seq(S)
  BY DEF IsSequence
<1> DEFINE T == S \cup {e}
<1>1. DOMAIN s = 1 .. Len(s) /\ Len(s) \in Nat /\ \A i \in 1 .. Len(s) : s[i] \in T
  OBVIOUS
<1>2. s \in Seq(T) /\ e \in T
  BY <1>1
<1> HIDE DEF T
<1>3. Append(s, e) \in Seq(T)
  BY <1>2
<1> QED BY <1>3 DEF IsSequence

\* What a section leaves for each client.
ForEach(st) == LET section == SubSeq(st.buf, st.base + 1, Len(st.buf))
               IN [c \in Listener |-> IF c = Tape THEN section
                                      ELSE IF c \in Connected THEN Packet(st, c) ELSE <<>>]

LEMMA SectionKeeps ==
  ASSUME NEW st, Outs(st)
  PROVE  Outs(SendSection(st))
<1> DEFINE for == ForEach(st)
           section == SubSeq(st.buf, st.base + 1, Len(st.buf))
           doubled == Put(st.buf, section)
           out == [c \in Listener |-> IF for[c] = <<>> THEN st.out[c] ELSE Append(st.out[c], for[c])]
           sent == [st EXCEPT !.buf = doubled, !.base = Len(doubled), !.out = out]
<1>1. SendSection(st) = IF section = <<>> THEN st ELSE sent
  BY DEF SendSection, ForEach
<1>2. DOMAIN out = Listener /\ \A c \in Listener : IsSequence(out[c])
  BY AppendIsSequence DEF Outs
<1> HIDE DEF out, doubled, for, section
<1>3. Outs(sent)
  BY <1>2 DEF Outs, StateFields
<1> HIDE DEF sent
<1> QED BY <1>1, <1>3

LEMMA WrittenKeeps ==
  ASSUME NEW st, Outs(st), NEW ci, NEW buf
  PROVE  Outs(Widened(st, ci, buf))
  BY DEF Widened, Outs, StateFields

LEMMA ChunkKeeps ==
  ASSUME NEW st, Outs(st), NEW chan, NEW bi, NEW ci
  PROVE  Outs(AddChunk(chan, st, bi, ci))
<1> DEFINE new == Chunk(chan, bi)
           ahead == IF Len(st.buf) - st.base + Len(new) > Mtu THEN SendSection(st) ELSE st
<1>1. AddChunk(chan, st, bi, ci) = IF new = <<>> THEN st ELSE Written(ahead, ci, new)
  BY DEF AddChunk
<1>2. Outs(ahead)
  BY SectionKeeps
<1> HIDE DEF ahead, new
<1>3. Outs(Written(ahead, ci, new))
  BY <1>2, WrittenKeeps DEF Written
<1> QED BY <1>1, <1>3

\* A fold whose steps keep the packets sequences keeps them.
LEMMA FoldKeeps ==
  ASSUME NEW chan, NEW ci, NEW base, NEW seq, IsSequence(seq), Outs(base),
         ASSUME NEW st, Outs(st), NEW i \in DOMAIN seq PROVE Outs(Step(chan, ci, st, seq[i]))
  PROVE  Outs(Folded(chan, ci, base, seq))
<1> DEFINE t == CHOOSE u : IsFold(u, chan, ci, base, seq)
<1>1. IsFold(t, chan, ci, base, seq)
  BY FoldExists
<1> HIDE DEF t
<1> DEFINE Bad == {n \in Nat : \E s \in SUBSET DOMAIN seq : Cardinality(s) = n /\ ~Outs(t[s])}
<1>2. Bad = {}
  <2> SUFFICES ASSUME Bad # {} PROVE FALSE OBVIOUS
  <2>1. PICK n \in Bad : \A k \in Bad : n <= k BY LeastNat
  <2>2. PICK s \in SUBSET DOMAIN seq : Cardinality(s) = n /\ ~Outs(t[s]) BY <2>1
  <2>3. t[s] = IF s = {} THEN base ELSE LET x == Max(s) IN Step(chan, ci, t[s \ {x}], seq[x])
    BY <1>1 DEF IsFold
  <2>4. s # {} BY <2>2, <2>3
  <2> DEFINE x == Max(s)
  <2>5. t[s] = Step(chan, ci, t[s \ {x}], seq[x]) BY <2>3, <2>4
  <2>6. x \in DOMAIN seq /\ s \ {x} \in SUBSET DOMAIN seq
    BY <2>4, FewerIndices
  <2>7. Cardinality(s \ {x}) = n - 1 /\ n - 1 \in Nat BY <2>2, <2>4, FewerIndices
  <2> HIDE DEF x
  <2>8. n - 1 \notin Bad BY <2>1, <2>7
  <2>9. Outs(t[s \ {x}]) BY <2>6, <2>7, <2>8
  <2> QED BY <2>2, <2>5, <2>6, <2>9
<1>3. \A s \in SUBSET DOMAIN seq : Cardinality(s) \in Nat
  BY IndexSets
<1>4. Outs(t[DOMAIN seq])
  BY <1>2, <1>3
<1> QED BY <1>4 DEF Folded, t

LEMMA ListIsSequence ==
  ASSUME NEW S, IsFiniteSet(S)
  PROVE  SetToSeq(S) \in Seq(S)
<1> DEFINE m == Cardinality(S)
<1>1. m \in Nat /\ ExistsBijection(1 .. m, S)
  BY FS_CardinalityType
<1> HIDE DEF m
<1>2. \E f \in [1 .. m -> S] : IsInjective(f)
  BY <1>1 DEF ExistsBijection, Bijection, Injection
<1>3. SetToSeq(S) \in [1 .. m -> S]
  BY <1>2 DEF SetToSeq, m
<1> QED BY <1>1, <1>3

LEMMA ClientKeeps ==
  ASSUME NEW st, Outs(st), NEW chan, NEW ci \in Client
  PROVE  Outs(AddClient(chan, st, ci))
<1> DEFINE seq == <<ci>> \o SetToSeq(BotsOf(ci))
<1>1. IsSequence(seq)
  <2>1. SetToSeq(BotsOf(ci)) \in Seq(Author)
    <3>1. IsFiniteSet(BotsOf(ci)) BY FS_Subset, BroadcastAssumption DEF BotsOf
    <3>2. SetToSeq(BotsOf(ci)) \in Seq(BotsOf(ci)) BY <3>1, ListIsSequence
    <3>3. BotsOf(ci) \subseteq Author BY DEF BotsOf, Author
    <3> HIDE DEF seq
    <3> DEFINE l == SetToSeq(BotsOf(ci))
    <3>4. l \in Seq(BotsOf(ci)) BY <3>2
    <3> HIDE DEF l
    <3>5. l \in Seq(Author) BY <3>3, <3>4
    <3> QED BY <3>5 DEF l
  <2>2. <<ci>> \in Seq(Author) BY DEF Author
  <2>3. seq \in Seq(Author) BY <2>1, <2>2
  <2> QED BY <2>3 DEF IsSequence
<1>2. ci # Nil BY BroadcastAssumption
<1> HIDE DEF seq
<1>3. AddClient(chan, st, ci) = Folded(chan, ci, st, seq)
  BY <1>2 DEF AddClient, Folded, IsFold, Step, FoldLeft, MapThenFoldSet, seq
<1>4. ASSUME NEW s, Outs(s), NEW i \in DOMAIN seq PROVE Outs(Step(chan, ci, s, seq[i]))
  BY <1>2, <1>4, ChunkKeeps DEF Step
<1>5. Outs(Folded(chan, ci, st, seq))
  BY <1>1, <1>4, FoldKeeps
<1> QED BY <1>3, <1>5

LEMMA SectionsKeep ==
  ASSUME NEW st, Outs(st), NEW chan, clients \in Seq(Client)
  PROVE  Outs(Sections(chan, st))
<1> DEFINE folded == FoldLeft(LAMBDA s, ci : AddClient(chan, s, ci), st, clients)
<1>1. folded = Folded(chan, Nil, st, clients)
  BY DEF Folded, IsFold, Step, FoldLeft, MapThenFoldSet
<1>2. ASSUME NEW s, Outs(s), NEW i \in DOMAIN clients PROVE Outs(Step(chan, Nil, s, clients[i]))
  <2>1. clients[i] \in Client OBVIOUS
  <2> QED BY <1>2, <2>1, ClientKeeps DEF Step
<1>3. IsSequence(clients)
  BY DEF IsSequence
<1>4. Outs(folded)
  BY <1>1, <1>2, <1>3, FoldKeeps
<1> HIDE DEF folded
<1>5. Sections(chan, st) = SendSection(folded)
  BY DEF Sections, folded
<1> QED BY <1>4, <1>5, SectionKeeps

LEMMA PacketsAreSequences ==
  ASSUME clients \in Seq(Client), NEW i \in {1, 2}, NEW c \in Listener
  PROVE  IsSequence(BuiltPackets[i][c])
<1>1. IsSequence(<<>>)
  <2>1. <<>> \in Seq({}) OBVIOUS
  <2> QED BY <2>1 DEF IsSequence
<1>2. Outs(Fresh)
  BY <1>1 DEF Outs, Fresh, StateFields
<1> DEFINE positions == Sections(0, Fresh)
           second == [positions EXCEPT !.out = Fresh.out]
<1>3. Outs(positions)
  BY <1>2, SectionsKeep
<1>4. BuiltPackets = <<positions.out, Sections(1, second).out>>
  BY DEF BuiltPackets
<1> HIDE DEF positions
<1>5. Outs(second)
  BY <1>2, <1>3 DEF Outs, StateFields
<1> HIDE DEF second
<1>6. Outs(Sections(1, second))
  BY <1>5, SectionsKeep
<1> QED BY <1>3, <1>4, <1>6 DEF Outs
-----------------------------------------------------------------------------
(* The inductive invariant. *)

Uses(q, w) == SumFunction([c \in Client |-> q[c][w]])
Column(q, w) == [c \in Client |-> q[c][w]]

\* A buffer that n packets point into.
HeldBy(x, n) == (x.data <=> n > 0) /\ (x.data => x.uses = n)

Queues == [Client -> [1 .. MaxStates -> Nat]]
Buffer == [data : BOOLEAN, uses : Int]

Held(ws, q) ==
  /\ q \in Queues /\ ws \in Seq(Buffer) /\ Len(ws) <= MaxStates
  /\ \A w \in DOMAIN ws : HeldBy(ws[w], Uses(q, w))
  /\ \A c \in Client : \A w \in (1 .. MaxStates) \ DOMAIN ws : q[c][w] = 0

MapsOK ==
  /\ getmap \in [Client -> [kept : BOOLEAN, queued : BOOLEAN]]
  /\ \A c \in Client : getmap[c].kept => getmap[c].queued

Readings == [from : Client \cup {Nil}, cq : Author \cup {Nil}, fate : {"kept", "moved", "deleted"},
             rel : BOOLEAN, promise : BOOLEAN]

ReadingOK ==
  /\ reading \in Readings
  /\ SpeaksForOwn

OwnersOK == DOMAIN owner = Bot

IInv == clients \in Seq(Client) /\ Held(worldstates, queue) /\ MapsOK /\ ReadingOK

LEMMA ColumnIs ==
  ASSUME NEW q \in Queues, NEW w \in 1 .. MaxStates
  PROVE  /\ Column(q, w) \in [Client -> Nat] /\ \A c \in Client : Column(q, w)[c] = q[c][w]
         /\ Uses(q, w) = SumFunction(Column(q, w)) /\ Uses(q, w) \in Nat
<1>1. Column(q, w) \in [Client -> Nat] /\ \A c \in Client : Column(q, w)[c] = q[c][w]
  BY DEF Column, Queues
<1>2. Uses(q, w) = SumFunction(Column(q, w))
  BY DEF Uses, Column
<1>3. Totals(Column(q, w))[Client] \in Nat
  BY <1>1, TotalNat
<1>4. SumFunction(Column(q, w)) \in Nat
  BY <1>1, <1>3, TotalIsSum DEF Total
<1> QED BY <1>1, <1>2, <1>4

LEMMA Places ==
  ASSUME NEW ws, NEW q, Held(ws, q), NEW w \in DOMAIN ws
  PROVE  w \in 1 .. MaxStates /\ ws[w] \in Buffer
<1>1. DOMAIN ws = 1 .. Len(ws) /\ Len(ws) \in Nat /\ MaxStates \in Nat /\ Len(ws) <= MaxStates
  BY BroadcastAssumption DEF Held
<1>2. w \in 1 .. MaxStates
  BY <1>1
<1> QED BY <1>2 DEF Held

LEMMA IsSeq ==
  ASSUME NEW n \in Nat, NEW S, NEW v \in [1 .. n -> S]
  PROVE  v \in Seq(S) /\ Len(v) = n /\ DOMAIN v = 1 .. n
  OBVIOUS

\* n packets of client c are dropped from a buffer.
Dropped(x, n) == [uses |-> x.uses - n, data |-> x.data /\ (n = 0 \/ x.uses - n > 0)]

LEMMA DropHeld ==
  ASSUME NEW q \in Queues, NEW r \in Queues, NEW w \in 1 .. MaxStates, NEW c \in Client, NEW n \in Nat,
         q[c][w] = r[c][w] + n, \A d \in Client \ {c} : q[d][w] = r[d][w],
         NEW x \in Buffer, HeldBy(x, Uses(q, w))
  PROVE  Dropped(x, n) \in Buffer /\ HeldBy(Dropped(x, n), Uses(r, w))
<1> DEFINE f == Column(q, w)
           g == Column(r, w)
<1>1. /\ f \in [Client -> Nat] /\ g \in [Client -> Nat]
      /\ f[c] = g[c] + n /\ \A d \in Client \ {c} : f[d] = g[d]
      /\ Uses(q, w) = SumFunction(f) /\ Uses(r, w) = SumFunction(g)
  BY ColumnIs
<1> HIDE DEF f, g
<1>2. Uses(q, w) = Uses(r, w) + n /\ Uses(q, w) \in Nat /\ Uses(r, w) \in Nat
  BY <1>1, SumDrop
<1>3. x.data \in BOOLEAN /\ x.uses \in Int
  BY DEF Buffer
<1>4. Dropped(x, n) \in Buffer
  BY <1>3 DEF Dropped, Buffer
<1>5. HeldBy(Dropped(x, n), Uses(r, w))
  <2>1. /\ Dropped(x, n).uses = x.uses - n
        /\ Dropped(x, n).data <=> x.data /\ (n = 0 \/ x.uses - n > 0)
    BY DEF Dropped
  <2>2. /\ x.data <=> Uses(q, w) > 0
        /\ x.data => x.uses = Uses(q, w)
    BY DEF HeldBy
  <2> DEFINE a == Uses(q, w)
             b == Uses(r, w)
  <2>3. a = b + n /\ a \in Nat /\ b \in Nat BY <1>2
  <2> HIDE DEF a, b
  <2>4. ASSUME x.data PROVE /\ Dropped(x, n).data <=> b > 0
                            /\ Dropped(x, n).uses = b
    <3>1. x.uses = a BY <2>2, <2>4 DEF a
    <3>2. a > 0 BY <2>2, <2>4 DEF a
    <3> QED BY <2>1, <2>3, <2>4, <3>1, <3>2
  <2>5. ASSUME ~x.data PROVE ~Dropped(x, n).data /\ ~(b > 0)
    <3>1. ~(a > 0) BY <2>2, <2>5 DEF a
    <3> QED BY <2>1, <2>3, <2>5, <3>1
  <2> QED BY <2>4, <2>5 DEF HeldBy, b
<1> QED BY <1>4, <1>5

LEMMA SameUses ==
  ASSUME NEW q \in Queues, NEW r \in Queues, NEW w \in 1 .. MaxStates,
         \A d \in Client : q[d][w] = r[d][w]
  PROVE  Uses(q, w) = Uses(r, w)
  BY DEF Uses

\* Every buffer loses what a client's queue held of it.
LEMMA DropAll ==
  ASSUME NEW ws, NEW q, Held(ws, q), NEW c \in Client,
         NEW v, v = [w \in DOMAIN ws |-> Dropped(ws[w], q[c][w])],
         NEW r, r = [q EXCEPT ![c] = [w \in 1 .. MaxStates |-> 0]]
  PROVE  Held(v, r)
<1>1. q \in Queues /\ ws \in Seq(Buffer)
  BY DEF Held
<1>2. r \in Queues
  BY <1>1 DEF Queues
<1>3. \A w \in 1 .. MaxStates : q[c][w] = r[c][w] + q[c][w] /\ q[c][w] \in Nat
  <2>1. \A w \in 1 .. MaxStates : q[c][w] \in Nat BY <1>1 DEF Queues
  <2>2. \A w \in 1 .. MaxStates : r[c][w] = 0 BY <1>1 DEF Queues
  <2> QED BY <2>1, <2>2
<1>4. \A w \in 1 .. MaxStates : \A d \in Client \ {c} : q[d][w] = r[d][w]
  BY <1>1 DEF Queues
<1>5. ASSUME NEW w \in DOMAIN ws PROVE v[w] \in Buffer /\ HeldBy(v[w], Uses(r, w))
  <2>1. w \in 1 .. MaxStates /\ ws[w] \in Buffer
    BY Places
  <2>2. HeldBy(ws[w], Uses(q, w)) BY DEF Held
  <2>3. v[w] = Dropped(ws[w], q[c][w]) OBVIOUS
  <2> DEFINE n == q[c][w]
  <2>4. n \in Nat /\ q[c][w] = r[c][w] + n BY <1>3, <2>1
  <2>5. \A d \in Client \ {c} : q[d][w] = r[d][w] BY <1>4, <2>1
  <2> HIDE DEF n
  <2>6. Dropped(ws[w], n) \in Buffer /\ HeldBy(Dropped(ws[w], n), Uses(r, w))
    BY <1>1, <1>2, <2>1, <2>2, <2>4, <2>5, DropHeld
  <2> QED BY <2>3, <2>6 DEF n
<1>6. v \in Seq(Buffer) /\ Len(v) = Len(ws) /\ DOMAIN v = DOMAIN ws
  <2>1. DOMAIN ws = 1 .. Len(ws) /\ Len(ws) \in Nat BY <1>1
  <2>2. v \in [1 .. Len(ws) -> Buffer] BY <1>5, <2>1
  <2> QED BY <2>1, <2>2
<1>7. \A d \in Client : \A w \in (1 .. MaxStates) \ DOMAIN v : r[d][w] = 0
  BY <1>1, <1>6 DEF Held, Queues
<1> QED BY <1>2, <1>5, <1>6, <1>7 DEF Held

\* A buffer loses one packet of a client.
LEMMA DropOne ==
  ASSUME NEW ws, NEW q, Held(ws, q), NEW c \in Client, NEW w \in DOMAIN ws, q[c][w] > 0,
         NEW v, v = [ws EXCEPT ![w] = Dropped(ws[w], 1)],
         NEW r, r = [q EXCEPT ![c][w] = q[c][w] - 1]
  PROVE  Held(v, r)
<1>1. q \in Queues /\ ws \in Seq(Buffer) /\ w \in 1 .. MaxStates
  BY Places DEF Held
<1>2. q[c][w] \in Nat /\ q[c][w] - 1 \in Nat
  <2>1. q[c][w] \in Nat BY <1>1 DEF Queues
  <2> QED BY <2>1
<1>3. r \in Queues /\ r[c][w] = q[c][w] - 1
  BY <1>1, <1>2 DEF Queues
<1>4. \A d \in Client : \A x \in 1 .. MaxStates : d # c \/ x # w => r[d][x] = q[d][x]
  BY <1>1 DEF Queues
<1>5. v[w] \in Buffer /\ HeldBy(v[w], Uses(r, w))
  <2>1. v[w] = Dropped(ws[w], 1) /\ ws[w] \in Buffer BY <1>1, Places
  <2>2. HeldBy(ws[w], Uses(q, w)) BY DEF Held
  <2>3. q[c][w] = r[c][w] + 1 BY <1>2, <1>3
  <2>4. \A d \in Client \ {c} : q[d][w] = r[d][w] BY <1>1, <1>4
  <2> QED BY <1>1, <1>3, <2>1, <2>2, <2>3, <2>4, DropHeld
<1>6. ASSUME NEW x \in DOMAIN ws, x # w PROVE v[x] \in Buffer /\ HeldBy(v[x], Uses(r, x))
  <2>1. x \in 1 .. MaxStates /\ ws[x] \in Buffer BY Places
  <2>2. v[x] = ws[x] BY <1>6
  <2>3. Uses(r, x) = Uses(q, x) BY <1>1, <1>3, <1>4, <1>6, <2>1, SameUses
  <2> QED BY <2>1, <2>2, <2>3 DEF Held
<1>7. v \in Seq(Buffer) /\ Len(v) = Len(ws) /\ DOMAIN v = DOMAIN ws
  <2>1. DOMAIN ws = 1 .. Len(ws) /\ Len(ws) \in Nat BY <1>1
  <2>2. v \in [1 .. Len(ws) -> Buffer]
    <3>1. DOMAIN v = 1 .. Len(ws) BY <2>1
    <3>2. \A x \in 1 .. Len(ws) : v[x] \in Buffer BY <1>5, <1>6, <2>1
    <3>3. v = [x \in 1 .. Len(ws) |-> v[x]] BY <2>1
    <3> QED BY <3>1, <3>2, <3>3
  <2> DEFINE n == Len(ws)
  <2>3. n \in Nat /\ v \in [1 .. n -> Buffer] BY <2>1, <2>2
  <2> HIDE DEF n
  <2>4. v \in Seq(Buffer) /\ Len(v) = n /\ DOMAIN v = 1 .. n BY <2>3, IsSeq
  <2> QED BY <2>1, <2>4 DEF n
<1>8. \A d \in Client : \A x \in (1 .. MaxStates) \ DOMAIN v : r[d][x] = 0
  BY <1>4, <1>7 DEF Held
<1> QED BY <1>3, <1>5, <1>6, <1>7, <1>8 DEF Held

-----------------------------------------------------------------------------
(* An update takes a buffer that no packet points into. *)

Free1(ws, w) == w \in DOMAIN ws => ~ws[w].data
Least(ws, w) == Free1(ws, w) /\ \A u \in 1 .. (w - 1) : ws[u].data

LEMMA LeastFree ==
  ASSUME NEW ws \in Seq(Buffer), NEW r \in 1 .. MaxStates, Free1(ws, r)
  PROVE  \E w \in 1 .. (Len(ws) + 1) : Least(ws, w) /\ w <= r
<1> DEFINE F == {w \in Nat : w > 0 /\ Free1(ws, w)}
<1>1. DOMAIN ws = 1 .. Len(ws) /\ Len(ws) \in Nat OBVIOUS
<1>2. r \in F BY BroadcastAssumption
<1>3. PICK w \in F : \A u \in F : w <= u BY <1>2, LeastNat
<1>4. w <= r BY <1>2, <1>3
<1>5. Len(ws) + 1 \in F BY <1>1 DEF Free1
<1>6. w \in 1 .. (Len(ws) + 1) BY <1>1, <1>3, <1>5
<1>7. ASSUME NEW u \in 1 .. (w - 1) PROVE ws[u].data
  <2>1. u \in Nat /\ u > 0 /\ u < w /\ w \in Nat BY <1>3
  <2>2. u \notin F BY <1>3, <2>1
  <2> QED BY <2>1, <2>2 DEF Free1
<1> QED BY <1>3, <1>4, <1>6, <1>7 DEF Least

LEMMA MaxOfTwo ==
  ASSUME NEW a \in Nat, NEW b \in Nat
  PROVE  Max({a, b}) = IF a >= b THEN a ELSE b
  BY DEF Max

\* A buffer is taken, and its packets are queued.
TakenOf(ws, free, count) ==
  [w \in 1 .. Max({free, Len(ws)}) |->
     IF w = free THEN [data |-> SumFunction(count) > 0, uses |-> SumFunction(count)] ELSE ws[w]]
QueuedOf(q, free, count) == [c \in Client |-> [q[c] EXCEPT ![free] = @ + count[c]]]

LEMMA TakeHeld ==
  ASSUME NEW ws, NEW q, Held(ws, q), NEW free \in 1 .. (Len(ws) + 1), free <= MaxStates,
         Free1(ws, free), NEW count \in [Client -> Nat]
  PROVE  Held(TakenOf(ws, free, count), QueuedOf(q, free, count))
<1> DEFINE m == Max({free, Len(ws)})
           v == TakenOf(ws, free, count)
           r == QueuedOf(q, free, count)
           sum == SumFunction(count)
<1>1. /\ q \in Queues /\ ws \in Seq(Buffer) /\ Len(ws) \in Nat /\ DOMAIN ws = 1 .. Len(ws)
      /\ Len(ws) <= MaxStates
  BY DEF Held
<1>2. free \in 1 .. MaxStates /\ free \in Nat /\ free > 0
  BY <1>1, BroadcastAssumption
<1>3. \A c \in Client : q[c][free] = 0
  <2>1. CASE free \notin DOMAIN ws
    BY <1>2, <2>1 DEF Held
  <2>2. CASE free \in DOMAIN ws
    <3>1. ~ws[free].data BY <2>2 DEF Free1
    <3>2. HeldBy(ws[free], Uses(q, free)) BY <2>2 DEF Held
    <3>3. ~(Uses(q, free) > 0) BY <3>1, <3>2 DEF HeldBy
    <3>4. /\ Column(q, free) \in [Client -> Nat] /\ Uses(q, free) = SumFunction(Column(q, free))
          /\ \A c \in Client : Column(q, free)[c] = q[c][free]
      BY <1>1, <1>2, ColumnIs
    <3>5. \A c \in Client : Column(q, free)[c] <= Uses(q, free) /\ Column(q, free)[c] \in Nat
      BY <3>4, SumAtLeast
    <3>6. Uses(q, free) \in Nat BY <1>1, <1>2, ColumnIs
    <3> QED BY <3>3, <3>4, <3>5, <3>6
  <2> QED BY <2>1, <2>2
<1>r. DOMAIN r = Client /\ \A c \in Client : r[c] = [q[c] EXCEPT ![free] = q[c][free] + count[c]]
  BY DEF QueuedOf
<1>v. /\ v = [w \in 1 .. m |-> v[w]]
      /\ \A w \in 1 .. m : v[w] = IF w = free THEN [data |-> sum > 0, uses |-> sum] ELSE ws[w]
  BY DEF TakenOf
<1>d. r = [c \in Client |-> r[c]]
  BY DEF QueuedOf
<1> HIDE DEF v, r, m, sum
<1>4. ASSUME NEW c \in Client PROVE r[c] \in [1 .. MaxStates -> Nat] /\ r[c][free] = count[c]
  <2>1. q[c] \in [1 .. MaxStates -> Nat] BY <1>1 DEF Queues
  <2>2. r[c] = [q[c] EXCEPT ![free] = q[c][free] + count[c]] BY <1>r
  <2>3. q[c][free] + count[c] = count[c] /\ count[c] \in Nat BY <1>3
  <2> QED BY <1>2, <2>1, <2>2, <2>3
<1>5. r \in Queues
  BY <1>4, <1>d DEF Queues
<1>6. \A c \in Client : \A w \in 1 .. MaxStates : w # free => r[c][w] = q[c][w]
  <2> SUFFICES ASSUME NEW c \in Client, NEW w \in 1 .. MaxStates, w # free
               PROVE  r[c][w] = q[c][w]
    OBVIOUS
  <2>1. q[c] \in [1 .. MaxStates -> Nat] BY <1>1 DEF Queues
  <2>2. r[c] = [q[c] EXCEPT ![free] = q[c][free] + count[c]] BY <1>r
  <2> QED BY <2>1, <2>2
<1>7. /\ m \in Nat /\ m <= MaxStates
      /\ 1 .. m = DOMAIN ws \cup {free}
  BY <1>1, <1>2, MaxOfTwo DEF m
<1>8. sum = Uses(r, free) /\ Uses(r, free) \in Nat
  <2>1. Uses(r, free) = SumFunction([c \in Client |-> count[c]])
    BY <1>4 DEF Uses
  <2>2. count = [c \in Client |-> count[c]] OBVIOUS
  <2> QED BY <1>2, <1>5, <2>1, <2>2, ColumnIs DEF sum
<1>9. v[free] \in Buffer /\ HeldBy(v[free], Uses(r, free))
  <2>1. v[free] = [data |-> sum > 0, uses |-> sum] BY <1>7, <1>v
  <2>2. sum \in Int /\ (sum > 0) \in BOOLEAN BY <1>8
  <2>3. v[free] \in Buffer BY <2>1, <2>2 DEF Buffer
  <2>4. HeldBy(v[free], sum)
    <3> DEFINE p == sum > 0
    <3>1. v[free] = [data |-> p, uses |-> sum] BY <2>1
    <3>2. p \in BOOLEAN BY <2>2
    <3> HIDE DEF p
    <3>3. (v[free].data <=> p) /\ v[free].uses = sum BY <3>1, <3>2
    <3>4. (v[free].data <=> sum > 0) /\ v[free].uses = sum BY <3>3 DEF p
    <3> QED BY <3>4 DEF HeldBy
  <2> QED BY <1>8, <2>3, <2>4
<1>10. ASSUME NEW w \in DOMAIN ws, w # free PROVE v[w] \in Buffer /\ HeldBy(v[w], Uses(r, w))
  <2>1. w \in 1 .. MaxStates /\ ws[w] \in Buffer BY Places
  <2>2. v[w] = ws[w] BY <1>7, <1>10, <1>v
  <2>3. \A d \in Client : r[d][w] = q[d][w] BY <1>6, <1>10, <2>1
  <2>4. Uses(r, w) = Uses(q, w) BY <1>1, <1>5, <2>1, <2>3, SameUses
  <2> QED BY <2>1, <2>2, <2>4 DEF Held
<1>11. v \in Seq(Buffer) /\ Len(v) = m /\ DOMAIN v = 1 .. m
  <2>2. \A w \in 1 .. m : v[w] \in Buffer BY <1>7, <1>9, <1>10
  <2>4. v \in [1 .. m -> Buffer] BY <1>v, <2>2
  <2> QED BY <1>7, <2>4, IsSeq
<1>12. \A c \in Client : \A w \in (1 .. MaxStates) \ DOMAIN v : r[c][w] = 0
  <2>1. \A w \in (1 .. MaxStates) \ DOMAIN v : w # free /\ w \notin DOMAIN ws BY <1>7, <1>11
  <2>2. \A c \in Client : \A w \in (1 .. MaxStates) \ DOMAIN v : q[c][w] = 0 BY <2>1 DEF Held
  <2> QED BY <1>6, <2>1, <2>2
<1>13. \A w \in DOMAIN v : HeldBy(v[w], Uses(r, w))
  BY <1>7, <1>9, <1>10, <1>11
<1>14. Held(v, r)
  BY <1>5, <1>7, <1>11, <1>12, <1>13 DEF Held
<1> QED BY <1>14 DEF v, r

LEMMA BuildHeld ==
  ASSUME IInv, Room
  PROVE  Held(Build.worldstates, Build.queue)
<1> DEFINE out == BuiltPackets
           ws == worldstates
           count == [c \in Client |-> IF c \in Connected \ down THEN Len(out[1][c]) + Len(out[2][c]) ELSE 0]
           free == CHOOSE w \in 1..(Len(ws) + 1) :
                     /\ w \in DOMAIN ws => ~ws[w].data
                     /\ \A u \in 1..(w - 1) : ws[u].data
           taken == TakenOf(ws, free, count)
           queued == QueuedOf(queue, free, count)
<1>1. ws \in Seq(Buffer) /\ Len(ws) \in Nat /\ Held(ws, queue) /\ clients \in Seq(Client)
  BY DEF IInv, Held
<1>2. PICK r \in 1 .. MaxStates : Free1(ws, r)
  BY DEF Room, Free1
<1>3. \E w \in 1 .. (Len(ws) + 1) : Least(ws, w) /\ w <= r
  BY <1>1, <1>2, LeastFree
<1>4. free = CHOOSE w \in 1 .. (Len(ws) + 1) : Least(ws, w)
  BY DEF Least, Free1
<1>5. free \in 1 .. (Len(ws) + 1) /\ Least(ws, free)
  BY <1>3, <1>4
<1>6. free <= MaxStates
  <2>1. PICK w \in 1 .. (Len(ws) + 1) : Least(ws, w) /\ w <= r BY <1>3
  <2> HIDE DEF free, ws
  <2>2. ~(free > w)
    <3> SUFFICES ASSUME free > w PROVE FALSE OBVIOUS
    <3>1. w \in 1 .. (free - 1) /\ w \in 1 .. Len(ws) BY <1>1, <1>5
    <3>2. DOMAIN ws = 1 .. Len(ws) BY <1>1
    <3> QED BY <1>5, <2>1, <3>1, <3>2 DEF Least, Free1
  <2> QED BY <1>1, <1>5, <2>1, <2>2, BroadcastAssumption
<1>7. count \in [Client -> Nat]
  <2>1. ASSUME NEW c \in Client PROVE Len(out[1][c]) \in Nat /\ Len(out[2][c]) \in Nat
    <3>1. c \in Listener BY DEF Listener
    <3>2. IsSequence(out[1][c]) /\ IsSequence(out[2][c]) BY <1>1, <3>1, PacketsAreSequences
    <3> HIDE DEF out
    <3>3. \A s : IsSequence(s) => Len(s) \in Nat BY DEF IsSequence
    <3> QED BY <3>2, <3>3
  <2> HIDE DEF out
  <2>2. ASSUME NEW c \in Client PROVE Len(out[1][c]) + Len(out[2][c]) \in Nat
    <3> DEFINE a == Len(out[1][c])
               b == Len(out[2][c])
    <3>1. a \in Nat /\ b \in Nat BY <2>1
    <3> HIDE DEF a, b
    <3>2. a + b \in Nat BY <3>1
    <3> QED BY <3>2 DEF a, b
  <2> QED BY <2>2, Zenon
<1>8. \/ Build.worldstates = ws /\ Build.queue = queue
      \/ Build.worldstates = taken /\ Build.queue = queued
  BY DEF Build, BuildFrom, TakenOf, QueuedOf
<1>9. Held(taken, queued)
  <2> HIDE DEF count, free, ws
  <2> QED BY <1>1, <1>5, <1>6, <1>7, TakeHeld DEF Least
<1> HIDE DEF taken, queued
<1> QED BY <1>1, <1>8, <1>9
-----------------------------------------------------------------------------
(* Every step keeps the invariant. *)

buffers == <<worldstates, queue>>

LEMMA InitKeeps == Init => IInv
<1> SUFFICES ASSUME Init PROVE IInv OBVIOUS
<1>1. clients \in Seq(Client)
  <2> DEFINE l == SetToSeq(Early)
  <2>1. IsFiniteSet(Early) /\ Early \subseteq Client BY FS_Subset, BroadcastAssumption
  <2>2. l \in Seq(Early) BY <2>1, ListIsSequence
  <2>3. clients = l BY DEF Init
  <2> HIDE DEF l
  <2> QED BY <2>1, <2>2, <2>3
<1>2. Held(worldstates, queue)
  <2>1. worldstates = <<>> /\ queue = [c \in Client |-> [w \in 1..MaxStates |-> 0]] BY DEF Init
  <2>2. worldstates \in Seq(Buffer) /\ Len(worldstates) = 0 /\ DOMAIN worldstates = {} BY <2>1
  <2>3. queue \in Queues BY <2>1 DEF Queues
  <2>4. \A c \in Client : \A w \in 1 .. MaxStates : queue[c][w] = 0 BY <2>1
  <2> QED BY <2>2, <2>3, <2>4, BroadcastAssumption DEF Held
<1>3. MapsOK
  BY DEF Init, MapsOK
<1>4. ReadingOK
  BY DEF Init, ReadingOK, Readings, Idle, SpeaksForOwn
<1> QED BY <1>1, <1>2, <1>3, <1>4 DEF IInv

LEMMA BuffersStay ==
  ASSUME IInv, UNCHANGED buffers
  PROVE  Held(worldstates', queue')
  BY DEF IInv, buffers

\* Who reads on with nobody's word changed, or not at all, speaks for its own.
LEMMA ReadingStays ==
  ASSUME IInv, reading' = Idle \/ (UNCHANGED reading /\ (owner' = owner \/ NoPacket))
  PROVE  ReadingOK'
<1>1. CASE reading' = Idle
  BY <1>1 DEF ReadingOK, Readings, Idle, SpeaksForOwn
<1>2. CASE UNCHANGED reading /\ owner' = owner
  BY <1>2 DEF IInv, ReadingOK, SpeaksForOwn, Mine
<1>3. CASE UNCHANGED reading /\ NoPacket
  BY <1>3 DEF ReadingOK, Readings, Idle, SpeaksForOwn, NoPacket
<1> QED BY <1>1, <1>2, <1>3

LEMMA DisconnectKeeps ==
  ASSUME IInv, NEW c \in Client, Disconnect(c)
  PROVE  IInv'
<1>1. clients' \in Seq(Client)
  BY RemovedIs DEF Disconnect, IInv
<1>2. Held(worldstates', queue')
  <2>1. worldstates' = [w \in DOMAIN worldstates |-> Dropped(worldstates[w], queue[c][w])]
    BY DEF Disconnect, Dropped
  <2>2. queue' = [queue EXCEPT ![c] = [w \in 1 .. MaxStates |-> 0]]
    BY DEF Disconnect
  <2>3. Held(worldstates, queue) BY DEF IInv
  <2> QED BY <2>1, <2>2, <2>3, DropAll
<1>3. MapsOK'
  BY DEF Disconnect, IInv, MapsOK
<1>4. ReadingOK'
  BY ReadingStays DEF Disconnect
<1> QED BY <1>1, <1>2, <1>3, <1>4 DEF IInv

\* A check of cq leaves the packet with a speaker of its own, or one lost unchecked before.
LEMMA RecheckedOwns ==
  ASSUME IInv, reading' \in Rechecked(owner')
  PROVE  ReadingOK'
<1> DEFINE dropped == [reading EXCEPT !.cq = Nil, !.fate = "kept"]
<1>1. reading \in Readings /\ (reading.cq # Nil /\ reading.fate = "kept" => Mine(reading.from, reading.cq))
  BY DEF IInv, ReadingOK, SpeaksForOwn
<1>2. dropped \in Readings /\ dropped.cq = Nil
  BY <1>1 DEF Readings
<1>3. reading' = dropped \/ reading' = reading
  BY DEF Rechecked
<1>4. reading' # dropped => reading.fate = "deleted" \/ ~(reading.cq \in Bot /\ owner'[reading.cq] # reading.from)
  BY DEF Rechecked
<1> HIDE DEF dropped
<1>5. CASE reading' = dropped
  BY <1>2, <1>5 DEF ReadingOK, SpeaksForOwn
<1>6. CASE reading' # dropped
  <2>1. reading' = reading BY <1>3, <1>6
  <2>2. ASSUME reading.cq # Nil, reading.fate = "kept"
        PROVE  reading.cq = reading.from \/ (reading.cq \in Bot /\ owner'[reading.cq] = reading.from)
    BY <1>1, <1>4, <1>6, <2>2 DEF Mine
  <2> QED BY <1>1, <2>1, <2>2 DEF ReadingOK, SpeaksForOwn, Mine
<1> QED BY <1>5, <1>6

LEMMA WatchersKeep ==
  ASSUME IInv, NEW c \in Client, Spectate(c) \/ Unspectate(c)
  PROVE  IInv'
<1>1. UNCHANGED <<clients, worldstates, queue, getmap>>
  BY DEF Spectate, Unspectate, relay
<1>2. Held(worldstates', queue')
  BY <1>1, BuffersStay DEF buffers
<1>3. reading' \in Rechecked(owner')
  <2>1. CASE Spectate(c) BY <2>1 DEF Spectate
  <2>2. CASE Unspectate(c)
    <3>1. owner' = owner /\ reading' \in Rechecked(owner) BY <2>2 DEF Unspectate
    <3> QED BY <3>1
  <2> QED BY <2>1, <2>2
<1>4. ReadingOK'
  BY <1>3, RecheckedOwns
<1> QED BY <1>1, <1>2, <1>4 DEF IInv, MapsOK

\* The messages that do not look at cq say what became of it.
LEMMA UncheckedKeep ==
  ASSUME IInv, OwnersOK, (\E c \in Client : Resign(c)) \/ (\E b \in Bot : DeleteBot(b))
  PROVE  IInv'
<1>1. UNCHANGED <<clients, worldstates, queue, getmap>>
  BY DEF Resign, DeleteBot
<1>2. Held(worldstates', queue')
  BY <1>1, BuffersStay DEF buffers
<1>3. PICK f \in {"kept", "moved", "deleted"} :
        /\ reading' = [reading EXCEPT !.fate = f]
        /\ f = "kept" => reading.fate = "kept" /\ (reading.cq \in Bot => owner'[reading.cq] = owner[reading.cq])
  <2>1. reading \in Readings BY DEF IInv, ReadingOK
  <2>2. reading.fate \in {"kept", "moved", "deleted"} BY <2>1 DEF Readings
  <2>3. CASE \E c \in Client : Resign(c)
    <3>1. PICK c \in Client : Resign(c) BY <2>3
    <3> DEFINE f == IF c \in spectator /\ reading.fate = "kept" /\ reading.cq \in BotsOf(c) THEN "moved" ELSE reading.fate
    <3>2. reading' = [reading EXCEPT !.fate = f] BY <3>1 DEF Resign
    <3>3. f \in {"kept", "moved", "deleted"} BY <2>2
    <3>4. ASSUME f = "kept" PROVE reading.fate = "kept" /\ (c \in spectator => reading.cq \notin BotsOf(c))
      BY <3>4
    <3> HIDE DEF f
    <3>5. CASE c \in spectator
      <4>1. PICK heir \in Client \cup {Nil} : ShiftBots(c, heir) BY <3>1, <3>5 DEF Resign, GiveBots
      <4>2. owner' = [b \in Bot |-> IF owner[b] = c THEN heir ELSE owner[b]] BY <4>1 DEF ShiftBots
      <4>3. ASSUME f = "kept", reading.cq \in Bot PROVE owner'[reading.cq] = owner[reading.cq]
        <5>1. owner[reading.cq] # c BY <3>4, <3>5, <4>3 DEF BotsOf
        <5> QED BY <4>2, <4>3, <5>1
      <4> QED BY <3>2, <3>3, <3>4, <4>3
    <3>6. CASE c \notin spectator
      <4>1. owner' = owner BY <3>1, <3>6 DEF Resign, GiveBots
      <4> QED BY <3>2, <3>3, <3>4, <4>1
    <3> QED BY <3>5, <3>6
  <2>4. CASE \E b \in Bot : DeleteBot(b)
    <3>1. PICK b \in Bot : DeleteBot(b) BY <2>4
    <3> DEFINE f == IF reading.cq = b THEN "deleted" ELSE reading.fate
    <3>2. reading' = [reading EXCEPT !.fate = f] /\ owner' = [owner EXCEPT ![b] = Nil] BY <3>1 DEF DeleteBot
    <3>3. f \in {"kept", "moved", "deleted"} BY <2>2
    <3>4. ASSUME f = "kept" PROVE reading.fate = "kept" /\ reading.cq # b BY <3>4
    <3> HIDE DEF f
    <3>5. ASSUME f = "kept", reading.cq \in Bot PROVE owner'[reading.cq] = owner[reading.cq]
      BY <3>2, <3>4, <3>5 DEF OwnersOK
    <3> QED BY <3>2, <3>3, <3>4, <3>5
  <2> QED BY <2>3, <2>4
<1>4. ReadingOK'
  <2>1. reading \in Readings /\ (reading.cq # Nil /\ reading.fate = "kept" => Mine(reading.from, reading.cq))
    BY DEF IInv, ReadingOK, SpeaksForOwn
  <2>2. reading' \in Readings /\ reading'.cq = reading.cq /\ reading'.from = reading.from /\ reading'.fate = f
    BY <1>3, <2>1 DEF Readings
  <2>3. ASSUME reading.cq # Nil, f = "kept"
        PROVE  reading.cq = reading.from \/ (reading.cq \in Bot /\ owner'[reading.cq] = reading.from)
    BY <1>3, <2>1, <2>3 DEF Mine
  <2> QED BY <2>2, <2>3 DEF ReadingOK, SpeaksForOwn, Mine
<1> QED BY <1>1, <1>2, <1>4 DEF IInv, MapsOK

LEMMA FreeKeeps ==
  ASSUME IInv, NEW c \in Client, NEW w \in 1 .. MaxStates, Free(c, w)
  PROVE  IInv'
<1>1. UNCHANGED <<clients, owner, reading, getmap>>
  BY DEF Free, inputs
<1>2. Held(worldstates', queue')
  <2>1. w \in DOMAIN worldstates /\ queue[c][w] > 0 BY DEF Free
  <2>2. Held(worldstates, queue) BY DEF IInv
  <2>3. worldstates' = [worldstates EXCEPT ![w] = Dropped(worldstates[w], 1)]
    BY DEF Free, Release, Dropped
  <2>4. queue' = [queue EXCEPT ![c][w] = queue[c][w] - 1] BY DEF Free
  <2> QED BY <2>1, <2>2, <2>3, <2>4, DropOne
<1>3. ReadingOK'
  BY <1>1, ReadingStays
<1> QED BY <1>1, <1>2, <1>3 DEF IInv, MapsOK

LEMMA PasteKeeps ==
  ASSUME IInv, NEW c \in Client, Paste(c)
  PROVE  IInv'
<1>1. UNCHANGED <<clients, owner, getmap>>
  BY DEF Paste, inputs
<1>2. CASE Needing(c) # {}
  <2>1. Room /\ worldstates' = Build.worldstates /\ queue' = Build.queue
        /\ reading' = [reading EXCEPT !.promise = FALSE]
    BY <1>2 DEF Paste
  <2>2. Held(worldstates', queue')
    BY <2>1, BuildHeld
  <2>3. ReadingOK'
    <3>1. reading \in Readings /\ (reading.cq # Nil /\ reading.fate = "kept" => Mine(reading.from, reading.cq))
      BY DEF IInv, ReadingOK, SpeaksForOwn
    <3>2. /\ reading' \in Readings /\ reading'.cq = reading.cq /\ reading'.from = reading.from
          /\ reading'.fate = reading.fate
      BY <2>1, <3>1 DEF Readings
    <3> QED BY <1>1, <3>1, <3>2 DEF ReadingOK, SpeaksForOwn, Mine
  <2> QED BY <1>1, <2>2, <2>3 DEF IInv, MapsOK
<1>3. CASE Needing(c) = {}
  <2>1. UNCHANGED <<worldstates, queue, reading>>
    BY <1>3 DEF Paste
  <2> QED BY <1>1, <2>1, BuffersStay, ReadingStays DEF IInv, MapsOK, buffers
<1> QED BY <1>2, <1>3

LEMMA UpdateKeeps ==
  ASSUME IInv, Update
  PROVE  IInv'
<1>1. UNCHANGED <<clients, owner, reading, getmap>>
  BY DEF Update, inputs
<1>2. Room /\ worldstates' = Build.worldstates /\ queue' = Build.queue
  BY DEF Update
<1>3. Held(worldstates', queue')
  BY <1>2, BuildHeld
<1> QED BY <1>1, <1>3, ReadingStays DEF IInv, MapsOK

\* The steps that leave the buffers alone.
LEMMA ConnectKeeps ==
  ASSUME IInv, NEW c \in Client, Connect(c)
  PROVE  IInv'
<1>1. clients' \in Seq(Client)
  BY AppendIs DEF Connect, IInv
<1>2. UNCHANGED <<owner, reading, getmap, worldstates, queue>>
  BY DEF Connect
<1> QED BY <1>1, <1>2, BuffersStay, ReadingStays DEF IInv, MapsOK, buffers

LEMMA SpeakersKeep ==
  ASSUME IInv, NEW c \in Client,
         (\E rel \in BOOLEAN : Receive(c, rel)) \/ (\E a \in Author : FromAI(a))
  PROVE  IInv'
<1>1. UNCHANGED <<clients, owner, getmap, worldstates, queue>>
  BY DEF Receive, FromAI, inputs
<1>2. CASE \E rel \in BOOLEAN : Receive(c, rel)
  <2>1. PICK rel \in BOOLEAN : Receive(c, rel) BY <1>2
  <2>2. reading' = [from |-> c, cq |-> c, fate |-> "kept", rel |-> rel, promise |-> rel] BY <2>1 DEF Receive
  <2>3. ReadingOK' BY <2>2 DEF ReadingOK, Readings, SpeaksForOwn, Mine, Author
  <2> QED BY <1>1, <2>3, BuffersStay DEF IInv, MapsOK, buffers
<1>3. CASE \E a \in Author : FromAI(a)
  <2>1. PICK q \in Author : FromAI(q) BY <1>3
  <2> DEFINE cq == IF q \in InGame /\ Mine(reading.from, q) THEN q ELSE Nil
  <2>2. reading' = [reading EXCEPT !.cq = cq, !.fate = "kept"] BY <2>1 DEF FromAI
  <2>3. cq \in Author \cup {Nil} /\ (cq # Nil => Mine(reading.from, cq)) OBVIOUS
  <2> HIDE DEF cq
  <2>4. reading' \in Readings /\ reading'.cq = cq /\ reading'.from = reading.from
    BY <2>2, <2>3 DEF IInv, ReadingOK, Readings
  <2>5. ReadingOK' BY <1>1, <2>3, <2>4 DEF ReadingOK, SpeaksForOwn, Mine
  <2> QED BY <1>1, <2>5, BuffersStay DEF IInv, MapsOK, buffers
<1> QED BY <1>2, <1>3

LEMMA MapsKeep ==
  ASSUME IInv, NEW c \in Client, (\E big \in BOOLEAN : GetMap(c, big)) \/ FreeMap(c)
  PROVE  IInv'
<1>1. UNCHANGED <<clients, owner, reading, worldstates, queue>>
  BY DEF GetMap, FreeMap, inputs, relay
<1>2. PICK kept \in BOOLEAN, queued \in BOOLEAN :
        /\ getmap' = [getmap EXCEPT ![c] = [kept |-> kept, queued |-> queued]]
        /\ kept => queued
  BY DEF GetMap, FreeMap, SendFile
<1>3. MapsOK'
  <2>1. /\ getmap \in [Client -> [kept : BOOLEAN, queued : BOOLEAN]]
        /\ \A d \in Client : getmap[d].kept => getmap[d].queued
    BY DEF IInv, MapsOK
  <2>2. getmap' \in [Client -> [kept : BOOLEAN, queued : BOOLEAN]]
    BY <1>2, <2>1
  <2>3. ASSUME NEW d \in Client PROVE getmap'[d].kept => getmap'[d].queued
    BY <1>2, <2>1
  <2> QED BY <2>2, <2>3 DEF MapsOK
<1> QED BY <1>1, <1>3, BuffersStay, ReadingStays DEF IInv, buffers

\* What is said, copied or moved, and bots that come and go between packets.
LEMMA OthersKeep ==
  ASSUME IInv,
         \/ \E c \in Client : Copy(c) \/ Clipboard(c) \/ Lose(c)
         \/ Done \/ Say
         \/ \E a \in Author : Pos(a) \/ Jump(a) \/ Die(a)
         \/ \E b \in Bot : AddBot(b)
         \/ UNCHANGED vars
  PROVE  IInv'
<1>1. UNCHANGED <<clients, getmap, worldstates, queue>>
  BY DEF Copy, Clipboard, Lose, Done, Say, Pos, Jump, Die, AddBot, vars, inputs, relay
<1>2. reading' = Idle \/ (UNCHANGED reading /\ (owner' = owner \/ NoPacket))
  BY DEF Copy, Clipboard, Lose, Done, Say, Pos, Jump, Die, AddBot, vars, inputs
<1> QED BY <1>1, <1>2, BuffersStay, ReadingStays DEF IInv, MapsOK, buffers

\* Whoever owns a bot, or nobody does: there is one entry for each.
LEMMA OwnersKeep == OwnersOK /\ [Next]_vars => OwnersOK'
<1> SUFFICES ASSUME OwnersOK, [Next]_vars PROVE OwnersOK' OBVIOUS
<1>1. ASSUME NEW c \in Client, NEW heir, ShiftBots(c, heir) PROVE OwnersOK'
  BY <1>1 DEF ShiftBots, OwnersOK
<1>2. ASSUME NEW c \in Client, Disconnect(c) \/ Spectate(c) \/ Resign(c) PROVE OwnersOK'
  <2>1. (\E heir : ShiftBots(c, heir)) \/ owner' = owner BY <1>2 DEF Disconnect, Spectate, Resign, GiveBots
  <2> QED BY <1>1, <2>1 DEF OwnersOK
<1>3. ASSUME NEW b \in Bot, AddBot(b) \/ DeleteBot(b) PROVE OwnersOK'
  BY <1>3 DEF AddBot, DeleteBot, OwnersOK
<1>4. ASSUME NEW c \in Client,
             \/ Connect(c) \/ Unspectate(c) \/ Copy(c) \/ Clipboard(c) \/ Paste(c) \/ FreeMap(c) \/ Lose(c)
             \/ (\E rel \in BOOLEAN : Receive(c, rel)) \/ (\E big \in BOOLEAN : GetMap(c, big))
             \/ \E w \in 1..MaxStates : Free(c, w)
      PROVE  OwnersOK'
  BY <1>4 DEF Connect, Unspectate, Copy, Clipboard, Paste, FreeMap, Lose, Receive, GetMap, Free, inputs, OwnersOK
<1>5. ASSUME Done \/ Say \/ Update \/ (\E a \in Author : FromAI(a) \/ Pos(a) \/ Jump(a) \/ Die(a)) \/ UNCHANGED vars
      PROVE  OwnersOK'
  BY <1>5 DEF Done, Say, Update, FromAI, Pos, Jump, Die, vars, inputs, OwnersOK
<1> QED BY <1>2, <1>3, <1>4, <1>5 DEF Next

LEMMA StepKeeps == IInv /\ OwnersOK /\ [Next]_vars => IInv'
<1> SUFFICES ASSUME IInv, OwnersOK, [Next]_vars PROVE IInv' OBVIOUS
<1>1. CASE \E c \in Client : \/ Copy(c) \/ Clipboard(c) \/ Lose(c)
  BY <1>1, OthersKeep
<1>2. CASE \E c \in Client : Connect(c)
  BY <1>2, ConnectKeeps
<1>3. CASE \E c \in Client : Disconnect(c)
  BY <1>3, DisconnectKeeps
<1>4. CASE \E c \in Client : Spectate(c) \/ Unspectate(c)
  BY <1>4, WatchersKeep
<1>5. CASE \E c \in Client : \E rel \in BOOLEAN : Receive(c, rel)
  BY <1>5, SpeakersKeep
<1>6. CASE \E c \in Client : Paste(c)
  BY <1>6, PasteKeeps
<1>7. CASE \E c \in Client : (\E big \in BOOLEAN : GetMap(c, big)) \/ FreeMap(c)
  BY <1>7, MapsKeep
<1>8. CASE \E c \in Client : \E w \in 1..MaxStates : Free(c, w)
  BY <1>8, FreeKeeps
<1>9. CASE \E a \in Author : FromAI(a)
  <2>1. PICK c : c \in Client BY BroadcastAssumption
  <2> QED BY <1>9, <2>1, SpeakersKeep
<1>10. CASE Done \/ Say \/ (\E a \in Author : Pos(a) \/ Jump(a) \/ Die(a)) \/ UNCHANGED vars
  BY <1>10, OthersKeep
<1>11. CASE \E b \in Bot : AddBot(b)
  BY <1>11, OthersKeep
<1>13. CASE (\E c \in Client : Resign(c)) \/ (\E b \in Bot : DeleteBot(b))
  BY <1>13, UncheckedKeep
<1>12. CASE Update
  BY <1>12, UpdateKeeps
<1> QED
  BY <1>1, <1>2, <1>3, <1>4, <1>5, <1>6, <1>7, <1>8, <1>9, <1>10, <1>11, <1>12, <1>13 DEF Next

LEMMA InvAlways == Spec => []IInv
<1>1. Init => OwnersOK
  BY DEF Init, OwnersOK
<1> QED
  BY <1>1, InitKeeps, StepKeeps, OwnersKeep, PTL DEF Spec

\* The shared buffers of the updates: one is kept while, and only while, a packet in
\* some client's queue points into it, through updates, flushes in the middle of a
\* packet, acknowledgements in any order and clients that leave with their queues,
\* for any number of clients, bots, packets and buffers; a map download counts as
\* running only while its packet is queued (cleanworldstate(), freegetmap()).
THEOREM BuffersKept == Spec => []BuffersHeld
<1>1. IInv => BuffersHeld
  <2> SUFFICES ASSUME IInv PROVE BuffersHeld OBVIOUS
  <2>1. ASSUME NEW w \in DOMAIN worldstates
        PROVE  /\ worldstates[w].data <=> Uses(queue, w) > 0
               /\ worldstates[w].data => worldstates[w].uses = Uses(queue, w)
    BY DEF IInv, Held, HeldBy
  <2>2. \A c \in Client : /\ \A w \in (1..MaxStates) \ DOMAIN worldstates : queue[c][w] = 0
                          /\ getmap[c].kept => getmap[c].queued
    BY DEF IInv, Held, MapsOK
  <2> QED BY <2>1, <2>2 DEF BuffersHeld, Uses
<1>2. QED
  BY <1>1, InvAlways, PTL

\* A packet speaks for its sender or for a bot its sender owns at that moment, also after
\* a message of the packet had bots given away to other clients, for any clients and bots;
\* unless a message that does not look at cq gave that bot away or deleted it and no
\* check has come since (N_FROMAI, N_SPECTATOR; N_SETMASTER, N_DELBOT).
THEOREM OwnVoice == Spec => []SpeaksForOwn
<1>1. IInv => SpeaksForOwn
  BY DEF IInv, ReadingOK
<1>2. QED
  BY <1>1, InvAlways, PTL
=============================================================================
