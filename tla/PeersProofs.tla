---------------------------- MODULE PeersProofs ----------------------------
(***************************************************************************)
(* Theorems about EnetPeers: the host's lists and counts, the events the   *)
(* application gets, and the connect cookies.                              *)
(***************************************************************************)
EXTENDS EnetPeers, VectorProofs, FiniteSetTheorems, TLAPS

HostFields == {"cookies", "idle", "n", "busy", "connected", "limited", "table",
               "window", "inWindow", "data", "index", "stamp"}

\* s is a state of the host and its peers that handlers pass on.
Shaped(s) ==
  /\ DOMAIN s = {"peer", "host", "net", "seen"}
  /\ DOMAIN s.peer = Ends /\ \A e \in Ends : DOMAIN s.peer[e] = DOMAIN Fresh
  /\ DOMAIN s.seen = Peers /\ \A p \in Peers : s.seen[p] \in Int
  /\ DOMAIN s.host = HostFields /\ DOMAIN s.host.idle = Peers /\ DOMAIN s.host.busy = Peers

\* The first m places of a list hold the members of S, each once.
Holds(b, m, S) ==
  /\ \A i \in 0 .. m - 1 : b[i] \in S
  /\ \A q \in S : \E i \in 0 .. m - 1 : b[i] = q
  /\ \A i, j \in 0 .. m - 1 : b[i] = b[j] => i = j

\* The idle list holds the peers in free, the busy list all others.
Listed(h, free) ==
  h.n \in 0 .. NPeers /\ Holds(h.idle, h.n, free) /\ Holds(h.busy, NPeers - h.n, Peers \ free)

\* The host's record has its fields, and its lists say that the peers in free are idle.
Keeper(h, free) ==
  /\ DOMAIN h = HostFields /\ DOMAIN h.idle = Peers /\ DOMAIN h.busy = Peers
  /\ free \in SUBSET Peers /\ Listed(h, free)

SameCounts(h, f) == f.connected = h.connected /\ f.limited = h.limited

Free(s) == {p \in Peers : s.peer[p].state = "DISCONNECTED"}
Ups(s) == {p \in Peers : s.peer[p].state \in Up}
Limits(s) == {p \in Ups(s) : s.peer[p].limited}

Counted(s) == s.host.connected = Cardinality(Ups(s)) /\ s.host.limited = Cardinality(Limits(s))

Fine(s) == Shaped(s) /\ Listed(s.host, Free(s)) /\ Counted(s)

\* Between s and t nothing changes that the lists, the counts and the events depend on.
Similar(s, t) ==
  /\ Shaped(t) /\ t.seen = s.seen
  /\ \A e \in Ends : t.peer[e].state = s.peer[e].state /\ t.peer[e].limited = s.peer[e].limited
  /\ t.host.idle = s.host.idle /\ t.host.busy = s.host.busy /\ t.host.n = s.host.n
  /\ t.host.connected = s.host.connected /\ t.host.limited = s.host.limited

\* No acknowledgement is queued.
Keeps(s, t) == \A e \in Ends : t.peer[e].acks \in {s.peer[e].acks, {}}

Alike(s, t) == Similar(s, t) /\ Keeps(s, t)

\* The states in which the acknowledgement of a DISCONNECT may be waiting.
Leaving == {"ACKNOWLEDGING_DISCONNECT", "ZOMBIE"}

\* From s to t the peer e gets into state st and its application hears k more
\* connections than disconnections; all other peers stay as they are.
Goes(s, t, e, st, k) ==
  /\ Fine(t) /\ Keeps(s, t) /\ t.peer[e].state = st
  /\ s.peer[e].state \in Leaving => st \in Leaving \/ t.peer[e].acks = {}
  /\ \A q \in Ends \ {e} : t.peer[q].state = s.peer[q].state
  /\ \A q \in Peers \ {e} : t.seen[q] = s.seen[q]
  /\ e \in Peers => t.seen[e] = s.seen[e] + k

-----------------------------------------------------------------------------
LEMMA PeersFinite == IsFiniteSet(Peers) /\ NPeers \in Nat \ {0} /\ Clients \cap Peers = {}
<1>1. NPeers \in Nat \ {0} /\ Clients \cap Peers = {}
  BY PeersAssumption DEF Peers
<1>2. IsFiniteSet(0 .. NPeers - 1)
  BY <1>1, FS_Interval
<1>3. QED
  BY <1>1, <1>2 DEF Peers

LEMMA FreshFields ==
  DOMAIN Fresh = {"state", "addr", "id", "to", "outSess", "inSess", "limited", "seq",
                  "sent", "out", "acks", "inbox", "queued"}
  BY DEF Fresh

LEMMA SimilarFine ==
  ASSUME NEW s, NEW t, Fine(s), Similar(s, t)
  PROVE  Fine(t)
<1>1. Free(t) = Free(s) /\ Ups(t) = Ups(s)
  BY DEF Free, Ups, Similar, Ends
<1>2. Limits(t) = Limits(s)
  BY <1>1 DEF Limits, Ups, Similar, Ends
<1>3. Listed(t.host, Free(t))
  BY <1>1 DEF Fine, Listed, Similar
<1>4. QED
  BY <1>1, <1>2, <1>3 DEF Fine, Counted, Similar

LEMMA AlikeFine ==
  ASSUME NEW s, NEW t, Fine(s), Alike(s, t)
  PROVE  Fine(t)
  BY SimilarFine DEF Alike

LEMMA FineKeeper ==
  ASSUME NEW s, Fine(s)
  PROVE  Keeper(s.host, Free(s))
  BY DEF Fine, Shaped, Keeper, Free

LEMMA AlikeGoes ==
  ASSUME NEW s, NEW t, Fine(s), Alike(s, t), NEW e \in Ends
  PROVE  Goes(s, t, e, s.peer[e].state, 0)
<1>1. Fine(t)
  BY AlikeFine
<1>2. QED
  BY <1>1 DEF Goes, Alike, Similar, Fine, Shaped, Ends

LEMMA GoesOn ==
  ASSUME NEW s, NEW t, NEW u, NEW e \in Ends, NEW a, NEW b, NEW k \in Int, NEW l \in Int,
         Fine(s), Goes(s, t, e, a, k), Goes(t, u, e, b, l)
  PROVE  Goes(s, u, e, b, k + l)
  BY DEF Goes, Fine, Shaped, Keeps

\* The last place takes the place of the one that goes.
LEMMA HoldsLess ==
  ASSUME NEW b, NEW m \in 0 .. NPeers, NEW S, Holds(b, m, S), NEW i \in 0 .. m - 1,
         NEW c, NEW p, p = b[i], \A j \in 0 .. m - 2 : c[j] = IF j = i THEN b[m - 1] ELSE b[j]
  PROVE  Holds(c, m - 1, S \ {p})
<1> DEFINE last == m - 1
<1>1. last \in 0 .. m - 1 /\ m \in Nat /\ NPeers \in Nat /\ last \in Nat
  BY PeersFinite
<1>2. \A j \in 0 .. last - 1 : j \in 0 .. m - 1 /\ j # last /\ j \in Peers
  BY <1>1 DEF Peers
<1>3. \A j \in 0 .. m - 1 : j # last => j \in 0 .. last - 1
  BY <1>1
<1>4. \A j \in 0 .. last - 1 : c[j] = IF j = i THEN b[last] ELSE b[j]
  <2>1. last - 1 = m - 2
    BY <1>1
  <2>2. QED
    BY <2>1
<1> HIDE DEF last
<1>5. /\ \A j \in 0 .. m - 1 : b[j] \in S
      /\ \A q \in S : \E j \in 0 .. m - 1 : b[j] = q
      /\ \A j, k \in 0 .. m - 1 : b[j] = b[k] => j = k
  BY DEF Holds
<1>6. \A j \in 0 .. last - 1 : c[j] \in S \ {b[i]}
  <2> SUFFICES ASSUME NEW j \in 0 .. last - 1 PROVE c[j] \in S /\ c[j] # b[i]
    OBVIOUS
  <2>1. CASE j = i
    BY <1>1, <1>2, <1>4, <1>5, <2>1
  <2>2. CASE j # i
    BY <1>2, <1>4, <1>5, <2>2
  <2>3. QED
    BY <2>1, <2>2
<1>7. \A q \in S \ {b[i]} : \E j \in 0 .. last - 1 : c[j] = q
  <2> SUFFICES ASSUME NEW q \in S, q # b[i] PROVE \E j \in 0 .. last - 1 : c[j] = q
    OBVIOUS
  <2>1. PICK j \in 0 .. m - 1 : b[j] = q
    BY <1>5
  <2>2. CASE j = last
    <3>1. i \in 0 .. last - 1
      BY <1>3, <2>1, <2>2
    <3>2. QED
      BY <1>4, <2>1, <2>2, <3>1
  <2>3. CASE j # last
    <3>1. j \in 0 .. last - 1 /\ j # i
      BY <1>3, <2>1, <2>3
    <3>2. QED
      BY <1>4, <2>1, <3>1
  <2>4. QED
    BY <2>2, <2>3
<1>8. \A j, k \in 0 .. last - 1 : c[j] = c[k] => j = k
  <2> SUFFICES ASSUME NEW j \in 0 .. last - 1, NEW k \in 0 .. last - 1, c[j] = c[k] PROVE j = k
    OBVIOUS
  <2>1. /\ j \in 0 .. m - 1 /\ j # last /\ k \in 0 .. m - 1 /\ k # last
        /\ c[j] = IF j = i THEN b[last] ELSE b[j]
        /\ c[k] = IF k = i THEN b[last] ELSE b[k]
    BY <1>2, <1>4
  <2>2. QED
    BY <1>1, <1>5, <2>1
<1>9. QED
  BY <1>6, <1>7, <1>8 DEF Holds, last

LEMMA HoldsMore ==
  ASSUME NEW b, NEW m \in 0 .. NPeers - 1, NEW S, Holds(b, m, S), NEW p, p \notin S,
         NEW c, \A j \in 0 .. m : c[j] = IF j = m THEN p ELSE b[j]
  PROVE  Holds(c, m + 1, S \cup {p})
<1>1. m \in Nat /\ m \in Peers /\ NPeers \in Nat
  BY PeersFinite DEF Peers
<1>2. \A j \in 0 .. m : j \in 0 .. m + 1 - 1 /\ j \in Peers /\ (j # m => j \in 0 .. m - 1)
  BY <1>1 DEF Peers
<1>3. \A j \in 0 .. m + 1 - 1 : j \in 0 .. m
  BY <1>1
<1>4. \A j \in 0 .. m : c[j] = IF j = m THEN p ELSE b[j]
  OBVIOUS
<1>5. \A j \in 0 .. m - 1 : j \in 0 .. m /\ j # m
  BY <1>1
<1>6. m \in 0 .. m
  BY <1>1
<1>7. /\ \A j \in 0 .. m - 1 : b[j] \in S
      /\ \A q \in S : \E j \in 0 .. m - 1 : b[j] = q
      /\ \A j, k \in 0 .. m - 1 : b[j] = b[k] => j = k
  BY DEF Holds
<1>8. \A j \in 0 .. m : c[j] \in S \cup {p}
  BY <1>2, <1>4, <1>7
<1>9. \A q \in S \cup {p} : \E j \in 0 .. m : c[j] = q
  <2>1. c[m] = p
    BY <1>4, <1>6
  <2>2. ASSUME NEW q \in S PROVE \E j \in 0 .. m : c[j] = q
    <3>1. PICK j \in 0 .. m - 1 : b[j] = q
      BY <1>7
    <3>2. j \in 0 .. m /\ c[j] = q
      BY <1>4, <1>5, <3>1
    <3>3. QED
      BY <3>2
  <2>3. QED
    BY <1>6, <2>1, <2>2
<1>10. \A j, k \in 0 .. m : c[j] = c[k] => j = k
  <2> SUFFICES ASSUME NEW j \in 0 .. m, NEW k \in 0 .. m, c[j] = c[k] PROVE j = k
    OBVIOUS
  <2>1. /\ j # m => j \in 0 .. m - 1 /\ c[j] = b[j] /\ b[j] # p
        /\ k # m => k \in 0 .. m - 1 /\ c[k] = b[k] /\ b[k] # p
        /\ j = m => c[j] = p
        /\ k = m => c[k] = p
    BY <1>2, <1>4, <1>7
  <2>2. QED
    BY <1>7, <2>1
<1>11. QED
  <2>1. m + 1 - 1 = m
    BY <1>1
  <2>2. QED
    BY <1>8, <1>9, <1>10, <2>1 DEF Holds

\* enet_peer_reset: the peer leaves the busy list for the idle list.
LEMMA FreedKeeps ==
  ASSUME NEW h, NEW free, Keeper(h, free), NEW p \in Peers
  PROVE  Keeper(Freed(h, p), free \cup {p}) /\ SameCounts(h, Freed(h, p))
<1>0. /\ DOMAIN h = HostFields /\ DOMAIN h.idle = Peers /\ DOMAIN h.busy = Peers
      /\ free \in SUBSET Peers /\ Listed(h, free)
  BY DEF Keeper
<1>1. CASE p \in free
  <2>1. ~ \E i \in 0 .. NPeers - h.n - 1 : h.busy[i] = p
    BY <1>0, <1>1 DEF Listed, Holds
  <2>2. Freed(h, p) = h /\ free \cup {p} = free
    BY <1>1, <2>1 DEF Freed
  <2>3. QED
    BY <2>2 DEF SameCounts
<1>2. CASE p \notin free
  <2>1. \E j \in 0 .. NPeers - h.n - 1 : h.busy[j] = p
    BY <1>0, <1>2 DEF Listed, Holds
  <2> DEFINE i == CHOOSE j \in 0 .. NPeers - h.n - 1 : h.busy[j] = p
             f == Freed(h, p)
             m == NPeers - h.n
  <2>2. i \in 0 .. m - 1 /\ h.busy[i] = p
    BY <2>1
  <2>3. f = [h EXCEPT !.idle[h.n] = p, !.n = @ + 1, !.busy[i] = h.busy[m - 1]]
    BY <2>1 DEF Freed
  <2> HIDE DEF i
  <2>4. /\ h.n \in 0 .. NPeers - 1 /\ m \in 0 .. NPeers /\ NPeers - (h.n + 1) = m - 1
        /\ h.n + 1 \in 0 .. NPeers /\ NPeers \in Nat /\ h.n \in Nat /\ m \in Nat
    BY <1>0, <2>2, PeersFinite DEF Listed
  <2>5. /\ DOMAIN f = HostFields /\ f.n = h.n + 1
        /\ f.connected = h.connected /\ f.limited = h.limited
        /\ f.idle = [h.idle EXCEPT ![h.n] = p]
        /\ f.busy = [h.busy EXCEPT ![i] = h.busy[m - 1]]
    BY <1>0, <2>3 DEF HostFields
  <2> HIDE DEF f
  <2>6. Holds(f.idle, f.n, free \cup {p})
    <3>1. Holds(h.idle, h.n, free)
      BY <1>0 DEF Listed
    <3>2. \A j \in 0 .. h.n : f.idle[j] = IF j = h.n THEN p ELSE h.idle[j]
      BY <1>0, <2>4, <2>5 DEF Peers
    <3>3. Holds(f.idle, h.n + 1, free \cup {p})
      BY <1>2, <2>4, <3>1, <3>2, HoldsMore
    <3>4. QED
      BY <2>5, <3>3
  <2>7. Holds(f.busy, m - 1, Peers \ (free \cup {p}))
    <3>1. Holds(h.busy, m, Peers \ free)
      BY <1>0 DEF Listed
    <3>2. Holds(f.busy, m - 1, (Peers \ free) \ {p})
      <4>1. \A j \in 0 .. m - 2 : j \in Peers
        BY <2>4 DEF Peers
      <4>2. DOMAIN h.busy = Peers
        BY <1>0
      <4> HIDE DEF m
      <4>3. \A j \in 0 .. m - 2 : f.busy[j] = IF j = i THEN h.busy[m - 1] ELSE h.busy[j]
        BY <2>5, <4>1, <4>2
      <4>4. QED
        BY <2>2, <2>4, <3>1, <4>3, HoldsLess
    <3>3. (Peers \ free) \ {p} = Peers \ (free \cup {p})
      OBVIOUS
    <3>4. QED
      BY <3>2, <3>3
  <2>8. QED
    <3>1. DOMAIN f.idle = Peers /\ DOMAIN f.busy = Peers
      BY <1>0, <2>5
    <3>2. QED
      BY <1>0, <2>4, <2>5, <2>6, <2>7, <3>1 DEF Keeper, SameCounts, Listed, f
<1>3. QED
  BY <1>1, <1>2

\* A connection takes an idle peer, which becomes busy.
LEMMA TakenKeeps ==
  ASSUME NEW h, NEW free, Keeper(h, free), NEW i \in 0 .. h.n - 1, NEW p, h.idle[i] = p
  PROVE  p \in free /\ Keeper(Taken(h, p, i), free \ {p}) /\ SameCounts(h, Taken(h, p, i))
<1> DEFINE f == Taken(h, p, i)
           m == NPeers - h.n
<1>1. /\ DOMAIN h = HostFields /\ DOMAIN h.idle = Peers /\ DOMAIN h.busy = Peers
      /\ free \in SUBSET Peers /\ Listed(h, free)
  BY DEF Keeper
<1>2. p \in free
  BY <1>1 DEF Listed, Holds
<1>3. /\ h.n \in 0 .. NPeers /\ m \in 0 .. NPeers - 1 /\ NPeers - (h.n - 1) = m + 1
      /\ h.n - 1 \in 0 .. NPeers /\ NPeers \in Nat /\ h.n \in Nat /\ m \in Nat
  BY <1>1, PeersFinite DEF Listed
<1>4. /\ DOMAIN f = HostFields /\ f.n = h.n - 1
      /\ f.connected = h.connected /\ f.limited = h.limited
      /\ f.idle = [h.idle EXCEPT ![i] = h.idle[h.n - 1]]
      /\ f.busy = [h.busy EXCEPT ![m] = p]
  <2> DEFINE x == h.idle[h.n - 1]
             k == h.n - 1
             b == [h.busy EXCEPT ![m] = p]
             d == [h.idle EXCEPT ![i] = x]
  <2>1. f = [h EXCEPT !.busy = b, !.idle = d, !.n = k]
    <3>1. f = [h EXCEPT !.busy[m] = p, !.idle[i] = x, !.n = @ - 1]
      BY ZenonT(60) DEF Taken
    <3> HIDE DEF f, m, x
    <3>2. QED
      BY <1>1, <3>1 DEF HostFields
  <2>2. DOMAIN h = HostFields
    BY <1>1
  <2> HIDE DEF f, b, d, k
  <2>3. DOMAIN f = HostFields /\ f.n = k /\ f.connected = h.connected /\ f.limited = h.limited
        /\ f.idle = d /\ f.busy = b
    BY <2>1, <2>2 DEF HostFields
  <2>4. QED
    BY <2>3 DEF b, d, k
<1> HIDE DEF f
<1>5. Holds(f.idle, f.n, free \ {p})
  <2>1. Holds(h.idle, h.n, free)
    BY <1>1 DEF Listed
  <2>2. \A j \in 0 .. h.n - 2 : f.idle[j] = IF j = i THEN h.idle[h.n - 1] ELSE h.idle[j]
    BY <1>1, <1>3, <1>4, SMTT(60) DEF Peers
  <2>3. Holds(f.idle, h.n - 1, free \ {p})
    BY <1>3, <2>1, <2>2, HoldsLess
  <2>4. QED
    BY <1>4, <2>3
<1>6. Holds(f.busy, m + 1, Peers \ (free \ {p}))
  <2>1. Holds(h.busy, m, Peers \ free)
    BY <1>1 DEF Listed
  <2>2. Holds(f.busy, m + 1, (Peers \ free) \cup {p})
    <3>1. \A j \in 0 .. m : f.busy[j] = IF j = m THEN p ELSE h.busy[j]
      BY <1>1, <1>3, <1>4 DEF Peers
    <3> HIDE DEF m
    <3>2. QED
      BY <1>2, <1>3, <2>1, <3>1, HoldsMore
  <2>3. (Peers \ free) \cup {p} = Peers \ (free \ {p})
    BY <1>1, <1>2
  <2>4. QED
    BY <2>2, <2>3
<1>7. QED
  <2>1. DOMAIN f.idle = Peers /\ DOMAIN f.busy = Peers
    BY <1>1, <1>4
  <2>2. QED
    BY <1>1, <1>2, <1>3, <1>4, <1>5, <1>6, <2>1 DEF Keeper, SameCounts, Listed, f

-----------------------------------------------------------------------------
(* Steps that only touch queues, sessions and addresses.                    *)

LEMMA ResetAlike ==
  ASSUME NEW s, Shaped(s), NEW e \in Ends
  PROVE  Alike(s, ResetQueues(s, e)) /\ ResetQueues(s, e).peer[e].acks = {}
<1> DEFINE t == ResetQueues(s, e)
<1>1. t = [s EXCEPT !.peer[e] = [@ EXCEPT !.queued = FALSE, !.acks = {}, !.sent = {},
                                          !.out = FALSE, !.inbox = FALSE]]
  BY ZenonT(60) DEF ResetQueues
<1> HIDE DEF t
<1>2. /\ DOMAIN t = {"peer", "host", "net", "seen"} /\ t.host = s.host /\ t.seen = s.seen
      /\ DOMAIN t.peer = Ends
  BY <1>1 DEF Shaped
<1>3. \A q \in Ends : q # e => t.peer[q] = s.peer[q]
  BY <1>1 DEF Shaped
<1>4. /\ DOMAIN t.peer[e] = DOMAIN s.peer[e]
      /\ t.peer[e].state = s.peer[e].state /\ t.peer[e].limited = s.peer[e].limited
      /\ t.peer[e].acks = {}
  BY <1>1, FreshFields DEF Shaped
<1>5. QED
  BY <1>2, <1>3, <1>4 DEF Alike, Similar, Keeps, Shaped, t

LEMMA RemoveAlike ==
  ASSUME NEW s, Shaped(s), NEW e \in Ends, NEW seq
  PROVE  Alike(s, RemoveSent(s, e, seq))
<1> DEFINE t == RemoveSent(s, e, seq)
<1>1. t = [s EXCEPT !.peer[e].sent = {c \in @ : c.seq # seq}]
  BY ZenonT(60) DEF RemoveSent
<1> HIDE DEF t
<1>2. /\ DOMAIN t = {"peer", "host", "net", "seen"} /\ t.host = s.host /\ t.seen = s.seen
      /\ DOMAIN t.peer = Ends
  BY <1>1 DEF Shaped
<1>3. \A q \in Ends : q # e => t.peer[q] = s.peer[q]
  BY <1>1 DEF Shaped
<1>4. /\ DOMAIN t.peer[e] = DOMAIN s.peer[e]
      /\ t.peer[e].state = s.peer[e].state /\ t.peer[e].limited = s.peer[e].limited
      /\ t.peer[e].acks = s.peer[e].acks
  BY <1>1, FreshFields DEF Shaped
<1>5. QED
  BY <1>2, <1>3, <1>4 DEF Alike, Similar, Keeps, Shaped, t

LEMMA OutgoingAlike ==
  ASSUME NEW s, Shaped(s), NEW e \in Ends, NEW kind, NEW ack, NEW arg
  PROVE  Alike(s, QueueOutgoing(s, e, kind, ack, arg))
<1> DEFINE t == QueueOutgoing(s, e, kind, ack, arg)
<1>1. t = [s EXCEPT !.peer[e].seq = s.peer[e].seq + 1,
                    !.peer[e].sent = IF ack THEN @ \cup {[seq |-> s.peer[e].seq + 1, kind |-> kind]} ELSE @,
                    !.net = @ \cup {Datagram(s, e, kind, s.peer[e].seq + 1, ack, None, arg)}]
  BY ZenonT(60) DEF QueueOutgoing
<1> HIDE DEF t
<1>2. /\ DOMAIN t = {"peer", "host", "net", "seen"} /\ t.host = s.host /\ t.seen = s.seen
      /\ DOMAIN t.peer = Ends
  BY <1>1 DEF Shaped
<1>3. \A q \in Ends : q # e => t.peer[q] = s.peer[q]
  BY <1>1 DEF Shaped
<1>4. /\ DOMAIN t.peer[e] = DOMAIN s.peer[e]
      /\ t.peer[e].state = s.peer[e].state /\ t.peer[e].limited = s.peer[e].limited
      /\ t.peer[e].acks = s.peer[e].acks
  BY <1>1, FreshFields DEF Shaped
<1>5. QED
  BY <1>2, <1>3, <1>4 DEF Alike, Similar, Keeps, Shaped, t

\* A peer that has the acknowledgement of a DISCONNECT to send is on its way out.
Parting(q) == (\E a \in q.acks : a.kind = "DISCONNECT") => q.state \in Leaving

LEMMA AcknowledgeSimilar ==
  ASSUME NEW s, Shaped(s), NEW e \in Ends, NEW d, Parting(s.peer[e]),
         d.kind = "DISCONNECT" => s.peer[e].state \in Leaving \cup {"DISCONNECTED"}
  PROVE  LET t == QueueAcknowledgement(s, e, d) IN
         Similar(s, t) /\ Parting(t.peer[e]) /\ \A q \in Ends \ {e} : t.peer[q] = s.peer[q]
<1> DEFINE t == QueueAcknowledgement(s, e, d)
           a == [seq |-> d.seq, t |-> d.t, kind |-> d.kind]
<1>1. t = s \/ t = [s EXCEPT !.peer[e].acks = @ \cup {a}]
  BY ZenonT(60) DEF QueueAcknowledgement
<1> HIDE DEF t, a
<1>2. /\ DOMAIN t = {"peer", "host", "net", "seen"} /\ t.host = s.host /\ t.seen = s.seen
      /\ DOMAIN t.peer = Ends
  BY <1>1 DEF Shaped
<1>3. \A q \in Ends : q # e => t.peer[q] = s.peer[q]
  BY <1>1 DEF Shaped
<1>4. /\ DOMAIN t.peer[e] = DOMAIN s.peer[e]
      /\ t.peer[e].state = s.peer[e].state /\ t.peer[e].limited = s.peer[e].limited
  BY <1>1, FreshFields DEF Shaped
<1>5. Parting(t.peer[e])
  <2>1. a.kind = d.kind
    BY DEF a
  <2>2. t = s \/ t.peer[e].acks = s.peer[e].acks \cup {a}
    BY <1>1, FreshFields DEF Shaped
  <2>3. s.peer[e].state = "DISCONNECTED" => t = s
    BY DEF QueueAcknowledgement, Up, t
  <2>4. QED
    BY <1>4, <2>1, <2>2, <2>3 DEF Parting
<1>6. QED
  BY <1>2, <1>3, <1>4, <1>5 DEF Similar, Shaped, t

-----------------------------------------------------------------------------
(* Counting.                                                                *)

One(b) == IF b THEN 1 ELSE 0

LEMMA CardinalityMoves ==
  ASSUME NEW A \in SUBSET Peers, NEW B \in SUBSET Peers, NEW e \in Peers,
         \A q \in Peers \ {e} : q \in A <=> q \in B
  PROVE  /\ Cardinality(B) = Cardinality(A) + One(e \in B) - One(e \in A)
         /\ Cardinality(A) \in Nat /\ Cardinality(B) \in Nat
<1>1. IsFiniteSet(A) /\ IsFiniteSet(B)
  BY PeersFinite, FS_Subset
<1>2. Cardinality(A) \in Nat /\ Cardinality(B) \in Nat
  BY <1>1, FS_CardinalityType
<1>3. CASE (e \in A) = (e \in B)
  <2>1. A = B
    BY <1>3
  <2>2. QED
    BY <1>2, <2>1 DEF One
<1>4. CASE e \in A /\ e \notin B
  <2>1. B = A \ {e}
    BY <1>4
  <2>2. Cardinality(B) = Cardinality(A) - 1
    BY <1>1, <1>4, <2>1, FS_RemoveElement
  <2>3. QED
    BY <1>2, <1>4, <2>2 DEF One
<1>5. CASE e \notin A /\ e \in B
  <2>1. B = A \cup {e}
    BY <1>5
  <2>2. Cardinality(B) = Cardinality(A) + 1
    BY <1>1, <1>5, <2>1, FS_AddElement
  <2>3. QED
    BY <1>2, <1>5, <2>2 DEF One
<1>6. QED
  BY <1>3, <1>4, <1>5

IsUp(s, e) == s.peer[e].state \in Up
IsLimited(s, e) == s.peer[e].state \in Up /\ s.peer[e].limited

\* The peer's share of the counts from s to t is what e's changes make of it.
Recounts(s, t, e) ==
  /\ t.host.connected = s.host.connected + One(IsUp(t, e)) - One(IsUp(s, e))
  /\ t.host.limited = s.host.limited + One(IsLimited(t, e)) - One(IsLimited(s, e))

Others(s, t, e) ==
  \A q \in Ends \ {e} : t.peer[q].state = s.peer[q].state /\ t.peer[q].limited = s.peer[q].limited

LEMMA CountsMove ==
  ASSUME NEW s, NEW t, NEW e \in Peers, Counted(s), Others(s, t, e), Recounts(s, t, e)
  PROVE  Counted(t)
<1>1. /\ Ups(s) \in SUBSET Peers /\ Ups(t) \in SUBSET Peers
      /\ Limits(s) \in SUBSET Peers /\ Limits(t) \in SUBSET Peers
  BY DEF Ups, Limits
<1>2. \A q \in Peers \ {e} : (q \in Ups(s) <=> q \in Ups(t)) /\ (q \in Limits(s) <=> q \in Limits(t))
  BY DEF Ups, Limits, Others, Ends
<1>3. /\ e \in Ups(s) <=> IsUp(s, e)
      /\ e \in Ups(t) <=> IsUp(t, e)
      /\ e \in Limits(s) <=> IsLimited(s, e)
      /\ e \in Limits(t) <=> IsLimited(t, e)
  BY DEF Ups, Limits, IsUp, IsLimited
<1>4. Cardinality(Ups(t)) = Cardinality(Ups(s)) + One(e \in Ups(t)) - One(e \in Ups(s))
  BY <1>1, <1>2, CardinalityMoves
<1>5. Cardinality(Limits(t)) = Cardinality(Limits(s)) + One(e \in Limits(t)) - One(e \in Limits(s))
  BY <1>1, <1>2, CardinalityMoves
<1>6. /\ One(e \in Ups(t)) = One(IsUp(t, e)) /\ One(e \in Ups(s)) = One(IsUp(s, e))
      /\ One(e \in Limits(t)) = One(IsLimited(t, e)) /\ One(e \in Limits(s)) = One(IsLimited(s, e))
  BY <1>3 DEF One
<1>7. QED
  BY <1>4, <1>5, <1>6 DEF Counted, Recounts

-----------------------------------------------------------------------------
(* What takes a peer from one state to another.                             *)

LEMMA CountsAreInt ==
  ASSUME NEW s, Counted(s)
  PROVE  s.host.connected \in Int /\ s.host.limited \in Int
<1>1. IsFiniteSet(Ups(s)) /\ IsFiniteSet(Limits(s))
  BY PeersFinite, FS_Subset DEF Ups, Limits
<1>2. QED
  BY <1>1, FS_CardinalityType DEF Counted

LEMMA Lands ==
  ASSUME NEW s, Fine(s), NEW t, Shaped(t), NEW e \in Ends, NEW st, NEW k,
         Others(s, t, e), t.peer[e].state = st, \A q \in Peers \ {e} : t.seen[q] = s.seen[q],
         Keeps(s, t), s.peer[e].state \in Leaving => st \in Leaving \/ t.peer[e].acks = {},
         e \in Peers => /\ t.seen[e] = s.seen[e] + k
                        /\ Recounts(s, t, e) /\ Listed(t.host, Free(t)),
         e \notin Peers => /\ t.host.idle = s.host.idle /\ t.host.busy = s.host.busy
                           /\ t.host.n = s.host.n /\ t.host.connected = s.host.connected
                           /\ t.host.limited = s.host.limited
  PROVE  Goes(s, t, e, st, k)
<1>1. CASE e \in Peers
  <2>1. Counted(t)
    BY <1>1, CountsMove DEF Fine
  <2>2. QED
    BY <1>1, <2>1 DEF Goes, Fine, Others
<1>2. CASE e \notin Peers
  <2>1. \A q \in Peers : q \in Ends \ {e}
    BY <1>2 DEF Ends
  <2>2. Free(t) = Free(s) /\ Ups(t) = Ups(s)
    BY <2>1 DEF Free, Ups, Others
  <2>3. Limits(t) = Limits(s)
    BY <2>1, <2>2 DEF Limits, Ups, Others
  <2>4. Listed(t.host, Free(t)) /\ Counted(t)
    BY <1>2, <2>2, <2>3 DEF Fine, Listed, Counted
  <2>5. QED
    BY <1>2, <2>4 DEF Goes, Fine, Others
<1>3. QED
  BY <1>1, <1>2

LEMMA CountFields ==
  ASSUME NEW s, Shaped(s), NEW e \in Ends, NEW n \in Int
  PROVE  /\ Shaped(Count(s, e, n)) /\ Count(s, e, n).peer = s.peer /\ Count(s, e, n).seen = s.seen
         /\ Count(s, e, n).host.idle = s.host.idle /\ Count(s, e, n).host.busy = s.host.busy
         /\ Count(s, e, n).host.n = s.host.n
         /\ e \in Peers => /\ Count(s, e, n).host.connected = s.host.connected + n
                           /\ Count(s, e, n).host.limited
                                = s.host.limited + (IF s.peer[e].limited THEN n ELSE 0)
         /\ e \notin Peers => Count(s, e, n) = s
<1>1. CASE e \notin Peers
  BY <1>1 DEF Count
<1>2. CASE e \in Peers
  <2> DEFINE t == Count(s, e, n)
             l == IF s.peer[e].limited THEN n ELSE 0
  <2>1. t = [s EXCEPT !.host.connected = @ + n, !.host.limited = @ + l]
    BY <1>2, ZenonT(60) DEF Count
  <2> HIDE DEF t, l
  <2>2. /\ DOMAIN t = {"peer", "host", "net", "seen"} /\ t.peer = s.peer /\ t.seen = s.seen
        /\ DOMAIN t.host = DOMAIN s.host
        /\ t.host.idle = s.host.idle /\ t.host.busy = s.host.busy /\ t.host.n = s.host.n
        /\ t.host.connected = s.host.connected + n /\ t.host.limited = s.host.limited + l
    BY <2>1 DEF Shaped, HostFields
  <2>3. Shaped(t)
    BY <2>2 DEF Shaped
  <2>4. QED
    BY <1>2, <2>2, <2>3 DEF t, l
<1>3. QED
  BY <1>1, <1>2

\* s, in which e is counted as being in state st.
Recounted(s, e, st) == IF st \in Up THEN OnConnect(s, e) ELSE OnDisconnect(s, e)

LEMMA RecountedFields ==
  ASSUME NEW s, Shaped(s), Counted(s), NEW e \in Ends, NEW st
  PROVE  LET t == Recounted(s, e, st) IN
         /\ Shaped(t) /\ t.peer = s.peer /\ t.seen = s.seen
         /\ t.host.idle = s.host.idle /\ t.host.busy = s.host.busy /\ t.host.n = s.host.n
         /\ e \in Peers =>
              /\ t.host.connected = s.host.connected + One(st \in Up) - One(IsUp(s, e))
              /\ t.host.limited = s.host.limited + One(st \in Up /\ s.peer[e].limited)
                                  - One(IsLimited(s, e))
         /\ e \notin Peers => t = s
<1> DEFINE t == Recounted(s, e, st)
<1>0. s.host.connected \in Int /\ s.host.limited \in Int
  BY CountsAreInt
<1>1. CASE (st \in Up) <=> IsUp(s, e)
  <2>1. t = s
    BY <1>1 DEF Recounted, OnConnect, OnDisconnect, IsUp
  <2>2. QED
    BY <1>0, <1>1, <2>1 DEF One, IsUp, IsLimited
<1>2. CASE st \in Up /\ ~IsUp(s, e)
  <2>1. t = Count(s, e, 1)
    BY <1>2 DEF Recounted, OnConnect, IsUp
  <2> DEFINE c == Count(s, e, 1)
  <2>2. /\ Shaped(c) /\ c.peer = s.peer /\ c.seen = s.seen
        /\ c.host.idle = s.host.idle /\ c.host.busy = s.host.busy /\ c.host.n = s.host.n
        /\ e \in Peers => /\ c.host.connected = s.host.connected + (1)
                          /\ c.host.limited = s.host.limited + (IF s.peer[e].limited THEN 1 ELSE 0)
        /\ e \notin Peers => c = s
    BY 1 \in Int, CountFields
  <2> HIDE DEF c
  <2>3. /\ One(st \in Up) - One(IsUp(s, e)) = 1
        /\ One(st \in Up /\ s.peer[e].limited) - One(IsLimited(s, e))
             = IF s.peer[e].limited THEN 1 ELSE 0
    BY <1>2 DEF One, IsUp, IsLimited
  <2>4. One(st \in Up) \in Int /\ One(IsUp(s, e)) \in Int /\ One(IsLimited(s, e)) \in Int
        /\ One(st \in Up /\ s.peer[e].limited) \in Int
    BY DEF One
  <2>5. t = c
    BY <2>1 DEF c
  <2> HIDE DEF t
  <2>6. /\ e \in Peers =>
              /\ t.host.connected = s.host.connected + One(st \in Up) - One(IsUp(s, e))
              /\ t.host.limited = s.host.limited + One(st \in Up /\ s.peer[e].limited)
                                  - One(IsLimited(s, e))
    BY <1>0, <2>2, <2>3, <2>4, <2>5
  <2>7. QED
    BY <2>2, <2>5, <2>6 DEF t
<1>3. CASE st \notin Up /\ IsUp(s, e)
  <2>1. t = Count(s, e, -1)
    BY <1>3 DEF Recounted, OnDisconnect, IsUp
  <2> DEFINE c == Count(s, e, -1)
  <2>2. /\ Shaped(c) /\ c.peer = s.peer /\ c.seen = s.seen
        /\ c.host.idle = s.host.idle /\ c.host.busy = s.host.busy /\ c.host.n = s.host.n
        /\ e \in Peers => /\ c.host.connected = s.host.connected + (-1)
                          /\ c.host.limited = s.host.limited + (IF s.peer[e].limited THEN -1 ELSE 0)
        /\ e \notin Peers => c = s
    BY -1 \in Int, CountFields
  <2> HIDE DEF c
  <2>3. /\ One(st \in Up) - One(IsUp(s, e)) = -1
        /\ One(st \in Up /\ s.peer[e].limited) - One(IsLimited(s, e))
             = IF s.peer[e].limited THEN -1 ELSE 0
    BY <1>3 DEF One, IsUp, IsLimited
  <2>4. One(st \in Up) \in Int /\ One(IsUp(s, e)) \in Int /\ One(IsLimited(s, e)) \in Int
        /\ One(st \in Up /\ s.peer[e].limited) \in Int
    BY DEF One
  <2>5. t = c
    BY <2>1 DEF c
  <2> HIDE DEF t
  <2>6. /\ e \in Peers =>
              /\ t.host.connected = s.host.connected + One(st \in Up) - One(IsUp(s, e))
              /\ t.host.limited = s.host.limited + One(st \in Up /\ s.peer[e].limited)
                                  - One(IsLimited(s, e))
    BY <1>0, <2>2, <2>3, <2>4, <2>5
  <2>7. QED
    BY <2>2, <2>5, <2>6 DEF t
<1>4. QED
  BY <1>1, <1>2, <1>3

LEMMA StateSet ==
  ASSUME NEW s, Shaped(s), NEW e \in Ends, NEW st, NEW t, t = [s EXCEPT !.peer[e].state = st]
  PROVE  /\ Shaped(t) /\ t.host = s.host /\ t.seen = s.seen
         /\ \A q \in Ends \ {e} : t.peer[q] = s.peer[q]
         /\ t.peer[e].state = st /\ t.peer[e].limited = s.peer[e].limited
         /\ t.peer[e].acks = s.peer[e].acks
<1>1. /\ DOMAIN t = {"peer", "host", "net", "seen"} /\ t.host = s.host /\ t.seen = s.seen
      /\ DOMAIN t.peer = Ends
  BY DEF Shaped
<1>2. \A q \in Ends \ {e} : t.peer[q] = s.peer[q]
  BY DEF Shaped
<1>3. /\ DOMAIN t.peer[e] = DOMAIN s.peer[e]
      /\ t.peer[e].state = st /\ t.peer[e].limited = s.peer[e].limited
      /\ t.peer[e].acks = s.peer[e].acks
  BY FreshFields DEF Shaped
<1>4. QED
  BY <1>1, <1>2, <1>3 DEF Shaped

LEMMA ChangeStateGoes ==
  ASSUME NEW s, Fine(s), NEW e \in Ends, NEW st,
         s.peer[e].state \in Leaving => st \in Leaving,
         e \in Peers => s.peer[e].state # "DISCONNECTED" /\ st # "DISCONNECTED"
  PROVE  Goes(s, ChangeState(s, e, st), e, st, 0)
<1> DEFINE u == Recounted(s, e, st)
           t == ChangeState(s, e, st)
<1>1. t = [u EXCEPT !.peer[e].state = st]
  BY ZenonT(60) DEF ChangeState, Recounted
<1>2. /\ Shaped(u) /\ u.peer = s.peer /\ u.seen = s.seen
      /\ u.host.idle = s.host.idle /\ u.host.busy = s.host.busy /\ u.host.n = s.host.n
      /\ e \in Peers =>
           /\ u.host.connected = s.host.connected + One(st \in Up) - One(IsUp(s, e))
           /\ u.host.limited = s.host.limited + One(st \in Up /\ s.peer[e].limited)
                               - One(IsLimited(s, e))
      /\ e \notin Peers => u = s
  BY RecountedFields DEF Fine
<1> HIDE DEF u, t
<1>3. /\ Shaped(t) /\ t.host = u.host /\ t.seen = u.seen
      /\ \A q \in Ends \ {e} : t.peer[q] = u.peer[q]
      /\ t.peer[e].state = st /\ t.peer[e].limited = u.peer[e].limited
      /\ t.peer[e].acks = u.peer[e].acks
  BY <1>1, <1>2, StateSet
<1>4. Others(s, t, e)
  BY <1>2, <1>3 DEF Others
<1>5. ASSUME e \in Peers
      PROVE  /\ t.seen[e] = s.seen[e] + 0
             /\ Recounts(s, t, e) /\ Listed(t.host, Free(t))
  <2>1. t.seen[e] = s.seen[e] + 0
    BY <1>2, <1>3, <1>5 DEF Fine, Shaped
  <2>2. IsUp(t, e) = (st \in Up) /\ IsLimited(t, e) = (st \in Up /\ s.peer[e].limited)
    BY <1>2, <1>3 DEF IsUp, IsLimited
  <2>3. Recounts(s, t, e)
    BY <1>2, <1>3, <1>5, <2>2 DEF Recounts
  <2>4. Free(t) = Free(s)
    BY <1>3, <1>4, <1>5 DEF Free, Others, Ends
  <2>5. Listed(t.host, Free(t))
    BY <1>2, <1>3, <2>4 DEF Fine, Listed
  <2>6. QED
    BY <2>1, <2>3, <2>5
<1>6. Keeps(s, t)
  BY <1>2, <1>3 DEF Keeps
<1>7. Goes(s, t, e, st, 0)
  BY <1>2, <1>3, <1>4, <1>5, <1>6, Lands
<1>8. QED
  BY <1>7 DEF t

\* A handler that goes on with what another left.
LEMMA GoesAlike ==
  ASSUME NEW s, Fine(s), NEW e \in Ends, NEW st, NEW k \in Int, NEW t, Goes(s, t, e, st, k),
         NEW u, Alike(t, u)
  PROVE  Goes(s, u, e, st, k)
<1>1. Goes(t, u, e, st, 0)
  BY AlikeGoes DEF Goes
<1>2. Goes(s, u, e, st, k + 0)
  BY <1>1, GoesOn
<1>3. QED
  BY <1>2

LEMMA AlikeThenGoes ==
  ASSUME NEW s, Fine(s), NEW e \in Ends, NEW t, Alike(s, t), NEW st, NEW k \in Int, NEW u,
         Goes(t, u, e, st, k)
  PROVE  Goes(s, u, e, st, k)
<1>1. Goes(s, t, e, s.peer[e].state, 0)
  BY AlikeGoes
<1>2. Goes(s, u, e, st, 0 + k)
  BY <1>1, GoesOn
<1>3. QED
  BY <1>2

\* Only fields of e are touched that nothing depends on.
LEMMA QueuedAlike ==
  ASSUME NEW s, Shaped(s), NEW e \in Ends, NEW b
  PROVE  Alike(s, [s EXCEPT !.peer[e].queued = b])
<1> DEFINE t == [s EXCEPT !.peer[e].queued = b]
<1>2. /\ DOMAIN t = {"peer", "host", "net", "seen"} /\ t.host = s.host /\ t.seen = s.seen
      /\ DOMAIN t.peer = Ends
  BY DEF Shaped
<1>3. \A q \in Ends : q # e => t.peer[q] = s.peer[q]
  BY DEF Shaped
<1>4. /\ DOMAIN t.peer[e] = DOMAIN s.peer[e]
      /\ t.peer[e].state = s.peer[e].state /\ t.peer[e].limited = s.peer[e].limited
      /\ t.peer[e].acks = s.peer[e].acks
  BY FreshFields DEF Shaped
<1> HIDE DEF t
<1>5. Alike(s, t)
  BY <1>2, <1>3, <1>4 DEF Alike, Similar, Keeps, Shaped
<1>6. QED
  BY <1>5 DEF t

LEMMA DispatchStateGoes ==
  ASSUME NEW s, Fine(s), NEW e \in Ends, NEW st,
         s.peer[e].state \in Leaving => st \in Leaving,
         e \in Peers => s.peer[e].state # "DISCONNECTED" /\ st # "DISCONNECTED"
  PROVE  Goes(s, DispatchState(s, e, st), e, st, 0)
<1> DEFINE t == ChangeState(s, e, st)
           u == DispatchState(s, e, st)
<1>1. Goes(s, t, e, st, 0)
  BY ChangeStateGoes
<1>2. u = [t EXCEPT !.peer[e].queued = TRUE]
  BY ZenonT(60) DEF DispatchState
<1> HIDE DEF t, u
<1>3. Shaped(t)
  BY <1>1 DEF Goes, Fine
<1>4. Alike(t, u)
  <2>1. Alike(t, [t EXCEPT !.peer[e].queued = TRUE])
    BY <1>3, QueuedAlike
  <2>2. QED
    BY <1>2, <2>1, ZenonT(60)
<1>5. Goes(s, u, e, st, 0)
  BY <1>1, <1>4, GoesAlike
<1>6. QED
  BY <1>5 DEF u

LEMMA EventGoes ==
  ASSUME NEW s, Fine(s), NEW e \in Ends, NEW n \in Int
  PROVE  Goes(s, Event(s, e, n), e, s.peer[e].state, n)
<1> DEFINE t == Event(s, e, n)
<1>1. CASE e \in Peers
  <2>1. t = [s EXCEPT !.seen[e] = @ + n]
    BY <1>1, ZenonT(60) DEF Event
  <2> HIDE DEF t
  <2>2. /\ DOMAIN t = {"peer", "host", "net", "seen"} /\ t.peer = s.peer /\ t.host = s.host
        /\ DOMAIN t.seen = Peers /\ t.seen[e] = s.seen[e] + n
        /\ \A q \in Peers \ {e} : t.seen[q] = s.seen[q]
    BY <1>1, <2>1 DEF Fine, Shaped
  <2>3. Shaped(t)
    BY <1>1, <2>2 DEF Fine, Shaped
  <2>4. Free(t) = Free(s) /\ Ups(t) = Ups(s) /\ Limits(t) = Limits(s)
    BY <2>2 DEF Free, Ups, Limits
  <2>5. Fine(t)
    BY <2>2, <2>3, <2>4 DEF Fine, Counted
  <2>6. Goes(s, t, e, s.peer[e].state, n)
    BY <2>2, <2>5 DEF Goes, Keeps
  <2>7. QED
    BY <2>6 DEF t
<1>2. CASE e \notin Peers
  <2>1. t = s
    BY <1>2 DEF Event
  <2>2. Goes(s, s, e, s.peer[e].state, n)
    BY <1>2 DEF Goes, Keeps
  <2> HIDE DEF t
  <2>3. Goes(s, t, e, s.peer[e].state, n)
    BY <2>1, <2>2
  <2>4. QED
    BY <2>3 DEF t
<1>3. QED
  BY <1>1, <1>2

LEMMA UntabledKeeps ==
  ASSUME NEW h, DOMAIN h = HostFields, NEW p
  PROVE  LET f == Untabled(h, p) IN
         /\ DOMAIN f = HostFields /\ f.idle = h.idle /\ f.busy = h.busy /\ f.n = h.n
         /\ f.connected = h.connected /\ f.limited = h.limited
<1> DEFINE f == Untabled(h, p)
           w == h.window - TotalSessions * h.table[p].n
           g == [h EXCEPT !.table[p] = NoTable, !.window = w]
<1>1. f \in {h, g}
  BY ZenonT(60) DEF Untabled
<1> HIDE DEF f, g
<1>2. f = h \/ f = g
  BY <1>1
<1>3. g = [h EXCEPT !.table[p] = NoTable, !.window = w]
  BY ZenonT(60) DEF g
<1> HIDE DEF w
<1>4. /\ DOMAIN f = HostFields /\ f.idle = h.idle /\ f.busy = h.busy /\ f.n = h.n
      /\ f.connected = h.connected /\ f.limited = h.limited
  BY <1>2, <1>3 DEF HostFields
<1>5. QED
  BY <1>4 DEF f

\* enet_peer_reset: whatever state a peer was in, it is idle and counted no more.
LEMMA PeerResetGoes ==
  ASSUME NEW s, Fine(s), NEW e \in Ends
  PROVE  Goes(s, PeerReset(s, e), e, "DISCONNECTED", 0) /\ PeerReset(s, e).peer[e].acks = {}
<1> DEFINE h == Untabled(Freed(s.host, e), e)
           listed == IF e \in Peers THEN [s EXCEPT !.host = h] ELSE s
           less == OnDisconnect(listed, e)
           gone == [less EXCEPT !.peer[e] = [@ EXCEPT !.to = None, !.id = 0,
                      !.state = "DISCONNECTED", !.limited = FALSE, !.seq = 0]]
<1>1. PeerReset(s, e) = ResetQueues(gone, e)
  BY ZenonT(60) DEF PeerReset
<1>2. Shaped(s) /\ Counted(s) /\ Listed(s.host, Free(s)) /\ Free(s) \in SUBSET Peers
  BY DEF Fine, Free
<1>3. ASSUME e \in Peers
      PROVE  /\ DOMAIN h = HostFields /\ DOMAIN h.idle = Peers /\ DOMAIN h.busy = Peers
             /\ h.connected = s.host.connected /\ h.limited = s.host.limited
             /\ Listed(h, Free(s) \cup {e})
  <2> DEFINE f == Freed(s.host, e)
  <2>1. /\ DOMAIN f = HostFields /\ DOMAIN f.idle = Peers /\ DOMAIN f.busy = Peers
        /\ f.connected = s.host.connected /\ f.limited = s.host.limited
        /\ Listed(f, Free(s) \cup {e})
    <3>1. Keeper(f, Free(s) \cup {e}) /\ SameCounts(s.host, f)
      BY <1>3, FineKeeper, FreedKeeps
    <3>2. QED
      BY <3>1 DEF Keeper, SameCounts
  <2> HIDE DEF f
  <2>2. /\ DOMAIN Untabled(f, e) = HostFields /\ Untabled(f, e).idle = f.idle
        /\ Untabled(f, e).busy = f.busy /\ Untabled(f, e).n = f.n
        /\ Untabled(f, e).connected = f.connected /\ Untabled(f, e).limited = f.limited
    BY <2>1, UntabledKeeps
  <2>3. h = Untabled(f, e)
    BY DEF f
  <2> HIDE DEF h
  <2>4. QED
    BY <2>1, <2>2, <2>3 DEF Listed
<1> HIDE DEF h
<1>4. /\ Shaped(listed) /\ Counted(listed) /\ listed.peer = s.peer /\ listed.seen = s.seen
      /\ IF e \in Peers THEN listed.host = h ELSE listed = s
  <2>1. CASE e \in Peers
    <3>1. /\ DOMAIN listed = {"peer", "host", "net", "seen"} /\ listed.host = h
          /\ listed.peer = s.peer /\ listed.seen = s.seen
      BY <1>2, <2>1 DEF Shaped
    <3> HIDE DEF listed
    <3>2. Ups(listed) = Ups(s) /\ Limits(listed) = Limits(s)
      BY <3>1 DEF Ups, Limits
    <3>3. Shaped(listed)
      BY <1>2, <1>3, <2>1, <3>1 DEF Shaped
    <3>4. Counted(listed)
      BY <1>2, <1>3, <2>1, <3>1, <3>2 DEF Counted
    <3>5. QED
      BY <2>1, <3>1, <3>3, <3>4
  <2>2. CASE e \notin Peers
    BY <1>2, <2>2
  <2>3. QED
    BY <2>1, <2>2
<1> HIDE DEF listed
<1>5. /\ Shaped(less) /\ less.peer = listed.peer /\ less.seen = listed.seen
      /\ less.host.idle = listed.host.idle /\ less.host.busy = listed.host.busy
      /\ less.host.n = listed.host.n
      /\ e \in Peers =>
           /\ less.host.connected = listed.host.connected + 0 - One(IsUp(listed, e))
           /\ less.host.limited = listed.host.limited + 0 - One(IsLimited(listed, e))
      /\ e \notin Peers => less = listed
  <2>1. less = Recounted(listed, e, "DISCONNECTED")
    BY DEF Recounted, Up
  <2>2. One("DISCONNECTED" \in Up) = 0 /\ One("DISCONNECTED" \in Up /\ listed.peer[e].limited) = 0
    BY DEF One, Up
  <2> HIDE DEF less
  <2>3. QED
    BY <1>4, <2>1, <2>2, RecountedFields
<1> HIDE DEF less
<1>6. /\ Shaped(gone) /\ gone.host = less.host /\ gone.seen = less.seen
      /\ \A q \in Ends \ {e} : gone.peer[q] = less.peer[q]
      /\ gone.peer[e].state = "DISCONNECTED" /\ gone.peer[e].limited = FALSE
  <2>1. /\ DOMAIN gone = {"peer", "host", "net", "seen"} /\ gone.host = less.host
        /\ gone.seen = less.seen /\ DOMAIN gone.peer = Ends
    BY <1>5 DEF Shaped
  <2>2. \A q \in Ends \ {e} : gone.peer[q] = less.peer[q]
    BY <1>5 DEF Shaped
  <2>3. /\ DOMAIN gone.peer[e] = DOMAIN less.peer[e]
        /\ gone.peer[e].state = "DISCONNECTED" /\ gone.peer[e].limited = FALSE
    BY <1>5, FreshFields DEF Shaped
  <2> HIDE DEF gone
  <2>4. QED
    BY <1>5, <2>1, <2>2, <2>3 DEF Shaped
<1> HIDE DEF gone
<1> DEFINE t == ResetQueues(gone, e)
<1>7. Alike(gone, t) /\ t.peer[e].acks = {}
  BY <1>6, ResetAlike
<1> HIDE DEF t
<1>8. Goes(s, t, e, "DISCONNECTED", 0)
  <2>1. Others(s, t, e) /\ Keeps(s, t)
    BY <1>4, <1>5, <1>6, <1>7 DEF Others, Alike, Similar, Keeps
  <2>2. /\ Shaped(t) /\ t.peer[e].state = "DISCONNECTED" /\ t.peer[e].limited = FALSE /\ t.seen = less.seen
        /\ t.host.idle = less.host.idle /\ t.host.busy = less.host.busy /\ t.host.n = less.host.n
        /\ t.host.connected = less.host.connected /\ t.host.limited = less.host.limited
    BY <1>6, <1>7 DEF Alike, Similar
  <2>3. ASSUME e \in Peers
        PROVE  /\ t.seen[e] = s.seen[e] + 0
               /\ Recounts(s, t, e) /\ Listed(t.host, Free(t))
    <3>1. t.seen[e] = s.seen[e] + 0
      BY <1>2, <1>4, <1>5, <2>2, <2>3 DEF Shaped
    <3>2. /\ One(IsUp(t, e)) = 0 /\ One(IsLimited(t, e)) = 0
          /\ IsUp(listed, e) <=> IsUp(s, e)
          /\ IsLimited(listed, e) <=> IsLimited(s, e)
      BY <1>4, <2>2 DEF One, IsUp, IsLimited, Up
    <3>3. One(IsUp(listed, e)) = One(IsUp(s, e)) /\ One(IsLimited(listed, e)) = One(IsLimited(s, e))
      BY <3>2 DEF One
    <3>4. Recounts(s, t, e)
      BY <1>3, <1>4, <1>5, <2>2, <2>3, <3>2, <3>3 DEF Recounts
    <3>5. Free(t) = Free(s) \cup {e}
      BY <2>1, <2>2, <2>3 DEF Free, Others, Ends
    <3>6. Listed(t.host, Free(t))
      BY <1>3, <1>4, <1>5, <2>2, <2>3, <3>5 DEF Listed
    <3>7. QED
      BY <3>1, <3>4, <3>6
  <2>4. QED
    BY <1>4, <1>5, <1>7, <2>1, <2>2, <2>3, Lands
<1>9. QED
  BY <1>1, <1>7, <1>8 DEF t

-----------------------------------------------------------------------------
(* What the application has been told of a peer.                            *)

\* A peer of the server never asks for a connection.
Served == States \ {"CONNECTING", "CONNECTION_SUCCEEDED"}
StatesOf(e) == IF e \in Peers THEN Served ELSE States
Told(st) == IF st \in Up \cup {"DISCONNECTING", "ACKNOWLEDGING_DISCONNECT", "ZOMBIE"} THEN 1 ELSE 0

\* From s to t the application is told what e's change of state is worth.
Pays(s, t, e) ==
  \E st, k : /\ Goes(s, t, e, st, k) /\ k \in Int /\ st \in StatesOf(e)
             /\ e \in Peers => k = Told(st) - Told(s.peer[e].state)

Serves(s, e) == s.peer[e].state \in StatesOf(e)

LEMMA ToldInt == \A st : Told(st) \in Int
  BY DEF Told

LEMMA GoesPays ==
  ASSUME NEW s, NEW t, NEW e \in Ends, NEW st, NEW k \in Int, Goes(s, t, e, st, k), st \in StatesOf(e),
         e \in Peers => k = Told(st) - Told(s.peer[e].state)
  PROVE  Pays(s, t, e) /\ Fine(t) /\ Serves(t, e) /\ t.peer[e].state = st
  BY DEF Pays, Goes, Serves

LEMMA AlikePays ==
  ASSUME NEW s, Fine(s), NEW e \in Ends, Serves(s, e), NEW t, Alike(s, t)
  PROVE  Pays(s, t, e) /\ Fine(t) /\ Serves(t, e) /\ t.peer[e].state = s.peer[e].state
<1>1. Goes(s, t, e, s.peer[e].state, 0)
  BY AlikeGoes
<1>2. s.peer[e].state \in StatesOf(e) /\ 0 = Told(s.peer[e].state) - Told(s.peer[e].state)
  BY ToldInt DEF Serves
<1>3. QED
  BY <1>1, <1>2, GoesPays

LEMMA PaysOn ==
  ASSUME NEW s, Fine(s), NEW e \in Ends, NEW t, Pays(s, t, e), NEW u, Pays(t, u, e)
  PROVE  Pays(s, u, e)
<1>1. PICK a, k : /\ Goes(s, t, e, a, k) /\ k \in Int /\ a \in StatesOf(e)
                  /\ e \in Peers => k = Told(a) - Told(s.peer[e].state)
  BY DEF Pays
<1>2. PICK b, l : /\ Goes(t, u, e, b, l) /\ l \in Int /\ b \in StatesOf(e)
                  /\ e \in Peers => l = Told(b) - Told(t.peer[e].state)
  BY DEF Pays
<1>3. Goes(s, u, e, b, k + l)
  BY <1>1, <1>2, GoesOn
<1>4. t.peer[e].state = a
  BY <1>1 DEF Goes
<1>5. e \in Peers => k + l = Told(b) - Told(s.peer[e].state)
  BY <1>1, <1>2, <1>4, ToldInt
<1>6. QED
  BY <1>1, <1>2, <1>3, <1>5 DEF Pays

LEMMA NotifyConnectPays ==
  ASSUME NEW s, Fine(s), NEW e \in Ends, NEW ev, s.peer[e].state \notin Leaving,
         e \in Peers => s.peer[e].state = "ACKNOWLEDGING_CONNECT"
  PROVE  Pays(s, NotifyConnect(s, e, ev), e)
<1>1. CASE ev
  <2> DEFINE t == ChangeState(s, e, "CONNECTED")
             u == Event(t, e, 1)
  <2>1. NotifyConnect(s, e, ev) = u
    BY <1>1 DEF NotifyConnect
  <2>2. Goes(s, t, e, "CONNECTED", 0)
    BY ChangeStateGoes
  <2> HIDE DEF t
  <2>3. Goes(t, u, e, "CONNECTED", 1)
    BY <2>2, EventGoes DEF Goes
  <2> HIDE DEF u
  <2>4. Goes(s, u, e, "CONNECTED", 0 + 1)
    BY <2>2, <2>3, GoesOn
  <2>5. "CONNECTED" \in StatesOf(e) /\ (e \in Peers => 0 + 1 = Told("CONNECTED") - Told(s.peer[e].state))
    BY DEF StatesOf, Served, States, Told, Up, Early
  <2>6. QED
    BY <2>1, <2>4, <2>5, GoesPays
<1>2. CASE ~ev
  <2> DEFINE st == IF s.peer[e].state = "CONNECTING" THEN "CONNECTION_SUCCEEDED" ELSE "CONNECTION_PENDING"
             u == DispatchState(s, e, st)
  <2>1. NotifyConnect(s, e, ev) = u
    BY <1>2 DEF NotifyConnect
  <2>2. /\ st \in StatesOf(e)
        /\ e \in Peers => /\ st = "CONNECTION_PENDING"
                       /\ s.peer[e].state # "DISCONNECTED" /\ st # "DISCONNECTED"
                       /\ 0 = Told(st) - Told(s.peer[e].state)
    BY DEF StatesOf, Served, States, Told, Up, Early
  <2> HIDE DEF st
  <2>3. Goes(s, u, e, st, 0)
    BY <2>2, DispatchStateGoes
  <2> HIDE DEF u
  <2>4. QED
    BY <2>1, <2>2, <2>3, GoesPays
<1>3. QED
  BY <1>1, <1>2

\* Its own lemma, for the service calls that take events and for enet_host_check_events.
LEMMA ResetToldGoes ==
  ASSUME NEW s, Fine(s), NEW e \in Ends
  PROVE  Goes(s, Event(PeerReset(s, e), e, -1), e, "DISCONNECTED", -1)
<1> DEFINE t == PeerReset(s, e)
           u == Event(t, e, -1)
<1>1. Goes(s, t, e, "DISCONNECTED", 0)
  BY PeerResetGoes
<1> HIDE DEF t
<1>2. Goes(t, u, e, "DISCONNECTED", -1)
  BY <1>1, EventGoes DEF Goes
<1> HIDE DEF u
<1>3. Goes(s, u, e, "DISCONNECTED", 0 + (-1))
  BY <1>1, <1>2, GoesOn
<1>4. QED
  BY <1>3 DEF t, u

LEMMA NotifyDisconnectPays ==
  ASSUME NEW s, Fine(s), NEW e \in Ends, NEW ev, Serves(s, e)
  PROVE  Pays(s, NotifyDisconnect(s, e, ev), e)
<1>1. CASE s.peer[e].state \in Early
  <2>1. NotifyDisconnect(s, e, ev) = PeerReset(s, e)
    BY <1>1 DEF NotifyDisconnect
  <2>2. "DISCONNECTED" \in StatesOf(e) /\ 0 = Told("DISCONNECTED") - Told(s.peer[e].state)
    BY <1>1 DEF StatesOf, Served, States, Told, Up, Early
  <2>3. QED
    BY <2>1, <2>2, PeerResetGoes, GoesPays
<1>2. CASE s.peer[e].state \notin Early /\ ev
  <2>1. NotifyDisconnect(s, e, ev) = Event(PeerReset(s, e), e, -1)
    BY <1>2 DEF NotifyDisconnect
  <2>2. "DISCONNECTED" \in StatesOf(e) /\ (e \in Peers => -1 = Told("DISCONNECTED") - Told(s.peer[e].state))
    BY <1>2 DEF Serves, StatesOf, Served, States, Told, Up, Early
  <2>3. QED
    BY <2>1, <2>2, ResetToldGoes, GoesPays
<1>3. CASE s.peer[e].state \notin Early /\ ~ev
  <2>1. NotifyDisconnect(s, e, ev) = DispatchState(s, e, "ZOMBIE")
    BY <1>3 DEF NotifyDisconnect
  <2>2. /\ "ZOMBIE" \in StatesOf(e)
        /\ e \in Peers => /\ 0 = Told("ZOMBIE") - Told(s.peer[e].state)
                       /\ s.peer[e].state # "DISCONNECTED"
    BY <1>3 DEF Serves, StatesOf, Served, States, Told, Up, Early
  <2>3. Goes(s, DispatchState(s, e, "ZOMBIE"), e, "ZOMBIE", 0)
    <3>1. "ZOMBIE" \in Leaving /\ "ZOMBIE" # "DISCONNECTED"
      BY DEF Leaving
    <3>2. QED
      BY <2>2, <3>1, DispatchStateGoes
  <2>4. QED
    BY <2>1, <2>2, <2>3, GoesPays
<1>4. QED
  BY <1>1, <1>2, <1>3

\* enet_peer_disconnect: who leaves is told of as long as it was announced.
LEMMA DisconnectPays ==
  ASSUME NEW s, Fine(s), NEW e \in Ends, Serves(s, e)
  PROVE  Pays(s, Disconnect(s, e), e)
<1> DEFINE st == s.peer[e].state
           clear == ResetQueues(s, e)
           told == QueueOutgoing(clear, e, "DISCONNECT", st \in Up, None)
<1>1. Alike(s, clear)
  BY ResetAlike DEF Fine
<1>2. Fine(clear) /\ Serves(clear, e) /\ Pays(s, clear, e) /\ clear.peer[e].state = st
  BY <1>1, AlikePays
<1> HIDE DEF clear
<1>3. Alike(clear, told)
  BY <1>2, OutgoingAlike DEF Fine
<1> HIDE DEF told
<1>4. Fine(told) /\ Serves(told, e) /\ Pays(clear, told, e) /\ told.peer[e].state = st
  BY <1>2, <1>3, AlikePays
<1>5. Pays(s, told, e)
  BY <1>2, <1>4, PaysOn
<1>6. CASE st \in {"DISCONNECTING", "DISCONNECTED", "ACKNOWLEDGING_DISCONNECT", "ZOMBIE"}
  <2>1. Disconnect(s, e) = s
    BY <1>6 DEF Disconnect, Up
  <2>2. Alike(s, s)
    BY DEF Alike, Similar, Keeps, Fine
  <2>3. QED
    BY <2>1, <2>2, AlikePays
<1>7. CASE st \in Up
  <2> DEFINE t == ChangeState(told, e, "DISCONNECTING")
  <2>1. Disconnect(s, e) = [OnDisconnect(told, e) EXCEPT !.peer[e].state = "DISCONNECTING"]
    BY <1>7 DEF Disconnect, told, clear, Up
  <2>2. t = [OnDisconnect(told, e) EXCEPT !.peer[e].state = "DISCONNECTING"]
    <3>1. "DISCONNECTING" \notin Up
      BY DEF Up
    <3>2. QED
      BY <3>1, ZenonT(60) DEF ChangeState
  <2>3. told.peer[e].state # "DISCONNECTED" /\ told.peer[e].state \notin Leaving
    BY <1>4, <1>7 DEF Up, Leaving
  <2>4. Goes(told, t, e, "DISCONNECTING", 0)
    BY <1>4, <2>3, ChangeStateGoes
  <2>5. "DISCONNECTING" \in StatesOf(e) /\ 0 = Told("DISCONNECTING") - Told(told.peer[e].state)
    BY <1>4, <1>7 DEF StatesOf, Served, States, Told, Up, Early
  <2> HIDE DEF t
  <2>6. Pays(told, t, e)
    BY <2>4, <2>5, GoesPays
  <2>7. Pays(s, t, e)
    BY <1>5, <2>6, PaysOn
  <2>8. QED
    BY <2>1, <2>2, <2>7
<1>8. CASE st \notin {"DISCONNECTING", "DISCONNECTED", "ACKNOWLEDGING_DISCONNECT", "ZOMBIE"} \cup Up
  <2>1. Disconnect(s, e) = PeerReset(told, e)
    BY <1>8 DEF Disconnect, told, clear
  <2>2. Goes(told, PeerReset(told, e), e, "DISCONNECTED", 0)
    BY <1>4, PeerResetGoes
  <2>3. "DISCONNECTED" \in StatesOf(e) /\ 0 = Told("DISCONNECTED") - Told(told.peer[e].state)
    BY <1>4, <1>8 DEF StatesOf, Served, States, Told, Up, Early
  <2>4. Pays(told, PeerReset(told, e), e)
    BY <2>2, <2>3, GoesPays
  <2>5. QED
    BY <1>5, <2>1, <2>4, PaysOn
<1>9. QED
  BY <1>6, <1>7, <1>8

LEMMA FinishLaterPays ==
  ASSUME NEW s, Fine(s), NEW e \in Ends, Serves(s, e)
  PROVE  Pays(s, FinishLater(s, e), e)
<1>1. FinishLater(s, e) = s \/ FinishLater(s, e) = Disconnect(s, e)
  BY DEF FinishLater
<1>2. Alike(s, s)
  BY DEF Alike, Similar, Keeps, Fine
<1>3. QED
  BY <1>1, <1>2, AlikePays, DisconnectPays

LEMMA DisconnectLaterPays ==
  ASSUME NEW s, Fine(s), NEW e \in Ends, Serves(s, e)
  PROVE  Pays(s, DisconnectLater(s, e), e)
<1> DEFINE t == ChangeState(s, e, "DISCONNECT_LATER")
<1>1. \/ DisconnectLater(s, e) = Disconnect(s, e)
      \/ s.peer[e].state \in Up /\ DisconnectLater(s, e) = [s EXCEPT !.peer[e].state = "DISCONNECT_LATER"]
  BY ZenonT(60) DEF DisconnectLater
<1>2. CASE s.peer[e].state \in Up /\ DisconnectLater(s, e) = [s EXCEPT !.peer[e].state = "DISCONNECT_LATER"]
  <2>1. OnConnect(s, e) = s /\ "DISCONNECT_LATER" \in Up
    BY <1>2 DEF OnConnect, Up
  <2>2. t = [s EXCEPT !.peer[e].state = "DISCONNECT_LATER"]
    BY <2>1, ZenonT(60) DEF ChangeState
  <2>3. s.peer[e].state # "DISCONNECTED" /\ s.peer[e].state \notin Leaving
    BY <1>2 DEF Up, Leaving
  <2>4. Goes(s, t, e, "DISCONNECT_LATER", 0)
    BY <2>3, ChangeStateGoes
  <2>5. "DISCONNECT_LATER" \in StatesOf(e) /\ 0 = Told("DISCONNECT_LATER") - Told(s.peer[e].state)
    BY <1>2 DEF StatesOf, Served, States, Told, Up, Early
  <2> HIDE DEF t
  <2>6. Pays(s, t, e)
    BY <2>4, <2>5, GoesPays
  <2>7. QED
    BY <1>2, <2>2, <2>6
<1>3. QED
  BY <1>1, <1>2, DisconnectPays

LEMMA DisconnectNowGoes ==
  ASSUME NEW s, Fine(s), NEW e \in Ends
  PROVE  Goes(s, DisconnectNow(s, e), e, "DISCONNECTED", 0)
<1> DEFINE clear == ResetQueues(s, e)
           told == QueueOutgoing(clear, e, "DISCONNECT", FALSE, None)
<1>1. Alike(s, clear)
  BY ResetAlike DEF Fine
<1>2. Fine(clear)
  BY <1>1, AlikeFine
<1> HIDE DEF clear
<1>3. Alike(clear, told)
  BY <1>2, OutgoingAlike DEF Fine
<1>4. Goes(told, PeerReset(told, e), e, "DISCONNECTED", 0)
  <2>1. Fine(told)
    BY <1>2, <1>3, AlikeFine
  <2> HIDE DEF told
  <2>2. QED
    BY <2>1, PeerResetGoes
<1> HIDE DEF told
<1>5. Goes(s, PeerReset(told, e), e, "DISCONNECTED", 0)
  <2>1. Goes(clear, PeerReset(told, e), e, "DISCONNECTED", 0)
    BY <1>2, <1>3, <1>4, AlikeThenGoes
  <2>2. QED
    BY <1>1, <2>1, AlikeThenGoes
<1>6. CASE s.peer[e].state = "DISCONNECTED"
  <2>1. DisconnectNow(s, e) = s
    BY <1>6 DEF DisconnectNow
  <2>2. Alike(s, s)
    BY DEF Alike, Similar, Keeps, Fine
  <2>3. QED
    BY <1>6, <2>1, <2>2, AlikeGoes
<1>7. CASE s.peer[e].state \in {"ZOMBIE", "DISCONNECTING"}
  <2>1. DisconnectNow(s, e) = PeerReset(s, e)
    BY <1>7 DEF DisconnectNow
  <2>2. QED
    BY <2>1, PeerResetGoes
<1>8. CASE s.peer[e].state \notin {"DISCONNECTED", "ZOMBIE", "DISCONNECTING"}
  <2>1. DisconnectNow(s, e) = PeerReset(told, e)
    BY <1>8 DEF DisconnectNow, told, clear
  <2>2. QED
    BY <1>5, <2>1
<1>9. QED
  BY <1>6, <1>7, <1>8

-----------------------------------------------------------------------------
(* The handshake.                                                           *)

LEMMA TakesGo ==
  ASSUME NEW s, Fine(s), NEW i \in 0 .. s.host.n - 1, NEW p, s.host.idle[i] = p,
         NEW t, Shaped(t), t.seen = s.seen,
         \A q \in Ends \ {p} : t.peer[q] = s.peer[q], t.peer[p].state = "ACKNOWLEDGING_CONNECT",
         t.peer[p].acks = s.peer[p].acks,
         NEW f, f = Taken(s.host, p, i), t.host.idle = f.idle, t.host.busy = f.busy, t.host.n = f.n,
         t.host.connected = s.host.connected, t.host.limited = s.host.limited
  PROVE  p \in Peers /\ Pays(s, t, p)
<1>1. /\ DOMAIN s.host = HostFields /\ DOMAIN s.host.idle = Peers /\ DOMAIN s.host.busy = Peers
      /\ Listed(s.host, Free(s)) /\ Free(s) \in SUBSET Peers /\ Counted(s)
  BY DEF Fine, Shaped, Free
<1>2. p \in Free(s) /\ Listed(f, Free(s) \ {p})
  BY FineKeeper, TakenKeeps DEF Keeper
<1>3. p \in Peers /\ p \in Ends /\ s.peer[p].state = "DISCONNECTED"
  BY <1>2 DEF Free, Ends
<1>4. Others(s, t, p)
  BY DEF Others
<1>5. t.seen[p] = s.seen[p] + 0
  BY <1>3 DEF Fine, Shaped
<1>6. Recounts(s, t, p)
  <2>1. One(IsUp(t, p)) = 0 /\ One(IsLimited(t, p)) = 0 /\ One(IsUp(s, p)) = 0 /\ One(IsLimited(s, p)) = 0
    BY <1>3 DEF One, IsUp, IsLimited, Up
  <2>2. s.host.connected \in Int /\ s.host.limited \in Int
    BY <1>1, CountsAreInt
  <2>3. QED
    BY <2>1, <2>2 DEF Recounts
<1>7. Free(t) = Free(s) \ {p}
  BY <1>3, <1>4 DEF Free, Others, Ends
<1>8. Listed(t.host, Free(t))
  BY <1>2, <1>7 DEF Listed
<1>9. Goes(s, t, p, "ACKNOWLEDGING_CONNECT", 0)
  <2>1. Keeps(s, t) /\ s.peer[p].state \notin Leaving
    BY <1>3 DEF Keeps, Leaving
  <2>2. QED
    BY <1>3, <1>4, <1>5, <1>6, <1>8, <2>1, Lands
<1>10. "ACKNOWLEDGING_CONNECT" \in StatesOf(p) /\ 0 = Told("ACKNOWLEDGING_CONNECT") - Told(s.peer[p].state)
  BY <1>3 DEF StatesOf, Served, States, Told, Up, Early
<1>11. QED
  BY <1>3, <1>9, <1>10, GoesPays

\* Without cookies a CONNECT takes an idle peer, or nothing happens.
LEMMA HandleConnectPays ==
  ASSUME NEW s, Fine(s), NEW d
  PROVE  \/ HandleConnect(s, d) = s
         \/ \E p \in Peers : Pays(s, HandleConnect(s, d), p)
<1> DEFINE p == s.host.idle[s.host.n - 1]
           o == Offered(s, p, d)
           f == Taken(s.host, p, s.host.n - 1)
           took == [s EXCEPT !.peer[p] = o, !.host = f]
           sent == QueueOutgoing(took, p, "VERIFY", TRUE, VerifyArg(took.peer[p], p))
<1>1. HandleConnect(s, d) = s \/ (s.host.n # 0 /\ HandleConnect(s, d) = sent)
  BY ZenonT(60) DEF HandleConnect
<1>2. SUFFICES ASSUME s.host.n # 0 PROVE \E q \in Peers : Pays(s, sent, q)
  BY <1>1
<1>3. /\ s.host.n \in 0 .. NPeers /\ s.host.n - 1 \in 0 .. s.host.n - 1
      /\ DOMAIN s.host = HostFields /\ DOMAIN s.host.idle = Peers /\ DOMAIN s.host.busy = Peers
      /\ Listed(s.host, Free(s)) /\ Free(s) \in SUBSET Peers /\ Shaped(s)
  BY <1>2, PeersFinite DEF Fine, Listed, Shaped, Free
<1>4. p = s.host.idle[s.host.n - 1] /\ f = Taken(s.host, p, s.host.n - 1)
  OBVIOUS
<1> HIDE DEF p, f
<1>5. /\ p \in Peers /\ p \in Ends
      /\ DOMAIN f = HostFields /\ DOMAIN f.idle = Peers /\ DOMAIN f.busy = Peers
      /\ f.connected = s.host.connected /\ f.limited = s.host.limited
  <2>1. p \in Free(s) /\ Keeper(f, Free(s) \ {p}) /\ SameCounts(s.host, f)
    BY <1>3, <1>4, FineKeeper, TakenKeeps
  <2>2. QED
    BY <2>1 DEF Keeper, SameCounts, Free, Ends
<1>6. DOMAIN o = DOMAIN Fresh /\ o.state = "ACKNOWLEDGING_CONNECT" /\ o.acks = s.peer[p].acks
  <2>1. DOMAIN s.peer[p] = DOMAIN Fresh
    BY <1>3, <1>5 DEF Shaped
  <2>2. QED
    BY <2>1, FreshFields DEF Offered, o
<1> HIDE DEF o
<1>7. /\ DOMAIN took = {"peer", "host", "net", "seen"} /\ took.host = f /\ took.seen = s.seen
      /\ DOMAIN took.peer = Ends /\ took.peer[p] = o /\ \A q \in Ends \ {p} : took.peer[q] = s.peer[q]
  BY <1>3, <1>5 DEF Shaped
<1> HIDE DEF took
<1>8. Shaped(took)
  BY <1>3, <1>5, <1>6, <1>7 DEF Shaped
<1>9. Pays(s, took, p)
  <2> DEFINE i == s.host.n - 1
  <2>1. i \in 0 .. s.host.n - 1 /\ s.host.idle[i] = p /\ f = Taken(s.host, p, i)
    BY <1>3, <1>4
  <2>2. /\ took.seen = s.seen /\ took.peer[p].state = "ACKNOWLEDGING_CONNECT"
        /\ took.peer[p].acks = s.peer[p].acks
        /\ took.host.idle = f.idle /\ took.host.busy = f.busy /\ took.host.n = f.n
        /\ took.host.connected = s.host.connected /\ took.host.limited = s.host.limited
    BY <1>5, <1>6, <1>7
  <2>3. \A q \in Ends \ {p} : took.peer[q] = s.peer[q]
    BY <1>7
  <2> HIDE DEF i
  <2>4. QED
    BY <1>8, <2>1, <2>2, <2>3, TakesGo, SMTT(60)
<1>10. Alike(took, sent)
  BY <1>5, <1>8, OutgoingAlike
<1>11. Fine(took) /\ Serves(took, p)
  BY <1>9 DEF Pays, Goes, Serves
<1> HIDE DEF sent
<1>12. Pays(took, sent, p)
  BY <1>5, <1>10, <1>11, AlikePays
<1>13. Pays(s, sent, p)
  BY <1>5, <1>9, <1>12, PaysOn
<1>14. QED
  BY <1>5, <1>13

\* With cookies it takes none.
LEMMA HandleConnectCookieAlike ==
  ASSUME NEW s, Shaped(s), NEW d, NEW r
  PROVE  Alike(s, HandleConnectCookie(s, d, r))
<1> DEFINE t == HandleConnectCookie(s, d, r)
<1>1. t = s \/ \E m, p, tb, i, c : t = [s EXCEPT !.net = m, !.host = Stored(s.host, p, tb, i, c)]
  BY ZenonT(60) DEF HandleConnectCookie
<1> HIDE DEF t
<1>2. CASE t = s
  BY <1>2 DEF Alike, Similar, Keeps, t
<1>3. CASE t # s
  <2>0. PICK m, p, tb, i, c : t = [s EXCEPT !.net = m, !.host = Stored(s.host, p, tb, i, c)]
    BY <1>1, <1>3
  <2> DEFINE h == s.host
             f == Stored(h, p, tb, i, c)
  <2>1. \E a, w : f = [h EXCEPT !.table[p] = a, !.window = w, !.inWindow = @ + 1, !.data[h.index] = @ + 1]
    BY ZenonT(60) DEF Stored
  <2>2. DOMAIN h = HostFields
    BY DEF Shaped
  <2> HIDE DEF f
  <2>3. /\ DOMAIN f = HostFields /\ f.idle = h.idle /\ f.busy = h.busy /\ f.n = h.n
        /\ f.connected = h.connected /\ f.limited = h.limited
    <3>1. PICK a, w : f = [h EXCEPT !.table[p] = a, !.window = w, !.inWindow = @ + 1, !.data[h.index] = @ + 1]
      BY <2>1
    <3> HIDE DEF h
    <3>2. QED
      BY <2>2, <3>1 DEF HostFields
  <2>4. /\ DOMAIN t = {"peer", "host", "net", "seen"} /\ t.host = f /\ t.seen = s.seen /\ t.peer = s.peer
    BY <2>0 DEF Shaped, f
  <2>5. Shaped(t)
    BY <2>2, <2>3, <2>4 DEF Shaped
  <2>6. Alike(s, t)
    BY <2>3, <2>4, <2>5 DEF Alike, Similar, Keeps
  <2>7. QED
    BY <2>6 DEF t
<1>4. QED
  BY <1>2, <1>3

LEMMA SamePays ==
  ASSUME NEW s, Fine(s), NEW e \in Ends, Serves(s, e)
  PROVE  Pays(s, s, e)
<1>1. Alike(s, s)
  BY DEF Alike, Similar, Keeps, Fine
<1>2. QED
  BY <1>1, AlikePays

\* The acknowledgement of a cookie: it restores an idle peer, or the cookie is used up, or nothing happens.
LEMMA RestoredPays ==
  ASSUME NEW s, Fine(s), NEW p \in Peers, s.peer[p].state = "DISCONNECTED", NEW d
  PROVE  /\ Pays(s, Restored(s, p, d), p)
         /\ Restored(s, p, d).peer[p].state \in {"DISCONNECTED", "ACKNOWLEDGING_CONNECT"}
<1> DEFINE r == Restored(s, p, d)
           tb == s.host.table[p]
           slot == <<d.t % tb.n, d.sess>>
           c == tb.at[slot]
           used == [s EXCEPT !.host.table[p].at[slot] = None]
           i == CHOOSE j \in 0 .. s.host.n - 1 : s.host.idle[j] = p
           g == Untabled(Taken(used.host, p, i), p)
           o == Recovered(used.peer[p], d, c)
           back == [used EXCEPT !.host = g, !.peer[p] = o]
<1>1. r = s \/ r = used \/ r = back
  <2>1. r \in {s, used, back}
    BY ZenonT(60) DEF Restored
  <2> HIDE DEF r, used, back
  <2>2. QED
    BY <2>1
<1>2. /\ DOMAIN s.host = HostFields /\ DOMAIN s.host.idle = Peers /\ DOMAIN s.host.busy = Peers
      /\ Listed(s.host, Free(s)) /\ Shaped(s) /\ p \in Ends /\ p \in Free(s)
  BY DEF Fine, Shaped, Free, Ends
<1>3. i \in 0 .. s.host.n - 1 /\ s.host.idle[i] = p
  BY <1>2 DEF Listed, Holds
<1> HIDE DEF r, c, slot, i
<1>4. /\ DOMAIN used = {"peer", "host", "net", "seen"} /\ used.peer = s.peer /\ used.seen = s.seen
      /\ DOMAIN used.host = HostFields
      /\ used.host.idle = s.host.idle /\ used.host.busy = s.host.busy /\ used.host.n = s.host.n
      /\ used.host.connected = s.host.connected /\ used.host.limited = s.host.limited
  BY <1>2 DEF Shaped, HostFields
<1> HIDE DEF used
<1>5. Alike(s, used)
  <2>1. Shaped(used)
    BY <1>2, <1>4 DEF Shaped
  <2>2. QED
    BY <1>4, <2>1 DEF Alike, Similar, Keeps
<1>6. Fine(used) /\ Serves(s, p) /\ Serves(used, p) /\ Pays(s, used, p)
  <2>1. Serves(s, p)
    BY DEF Serves, StatesOf, Served, States, Early
  <2>2. QED
    BY <1>2, <1>5, <2>1, AlikePays
<1> DEFINE f == Taken(used.host, p, i)
<1>7. /\ DOMAIN f = HostFields /\ DOMAIN f.idle = Peers /\ DOMAIN f.busy = Peers
      /\ f.connected = used.host.connected /\ f.limited = used.host.limited
  <2>1. Keeper(used.host, Free(used))
    BY <1>6, FineKeeper
  <2>2. i \in 0 .. used.host.n - 1 /\ used.host.idle[i] = p
    BY <1>3, <1>4
  <2>3. Keeper(f, Free(used) \ {p}) /\ SameCounts(used.host, f)
    BY <2>1, <2>2, TakenKeeps
  <2>4. QED
    BY <2>3 DEF Keeper, SameCounts
<1>8. f = Taken(used.host, p, i) /\ g = Untabled(f, p)
  OBVIOUS
<1> HIDE DEF f, g
<1>9. /\ DOMAIN g = HostFields /\ g.idle = f.idle /\ g.busy = f.busy /\ g.n = f.n
      /\ g.connected = f.connected /\ g.limited = f.limited
  BY <1>7, <1>8, UntabledKeeps
<1> HIDE DEF o
<1>10. /\ DOMAIN back = {"peer", "host", "net", "seen"} /\ back.host = g /\ back.seen = used.seen
       /\ DOMAIN back.peer = Ends /\ \A q \in Ends \ {p} : back.peer[q] = used.peer[q]
  BY <1>2, <1>4 DEF Shaped
<1>11. /\ DOMAIN back.peer[p] = DOMAIN Fresh /\ back.peer[p].state = "ACKNOWLEDGING_CONNECT"
       /\ back.peer[p].acks = used.peer[p].acks
  <2>1. DOMAIN used.peer[p] = DOMAIN Fresh /\ back.peer[p] = o
    BY <1>2, <1>4 DEF Shaped
  <2> HIDE DEF back
  <2>2. QED
    BY <2>1, FreshFields DEF o, Recovered
<1> HIDE DEF back
<1>12. Shaped(back)
  BY <1>2, <1>4, <1>7, <1>9, <1>10, <1>11 DEF Shaped
<1>13. Pays(used, back, p)
  <2>1. i \in 0 .. used.host.n - 1 /\ used.host.idle[i] = p
    BY <1>3, <1>4
  <2>2. back.host.connected = used.host.connected /\ back.host.limited = used.host.limited
        /\ back.host.idle = f.idle /\ back.host.busy = f.busy /\ back.host.n = f.n
    BY <1>7, <1>9, <1>10
  <2>3. QED
    BY <1>6, <1>8, <1>10, <1>11, <1>12, <2>1, <2>2, TakesGo
<1>14. Pays(s, back, p)
  BY <1>2, <1>6, <1>13, PaysOn
<1>15. Pays(s, s, p)
  BY <1>2, <1>6, SamePays
<1>16. Pays(s, r, p) /\ r.peer[p].state \in {"DISCONNECTED", "ACKNOWLEDGING_CONNECT"}
  BY <1>1, <1>4, <1>6, <1>11, <1>14, <1>15
<1>17. QED
  BY <1>16 DEF r

LEMMA HandleAcknowledgePays ==
  ASSUME NEW s, Fine(s), NEW e \in Ends, Serves(s, e), NEW d, NEW ev,
         s.peer[e].state = "DISCONNECTED" => e \in Peers
  PROVE  Pays(s, HandleAcknowledge(s, e, d, ev), e)
<1> DEFINE st == s.peer[e].state
           acked == RemoveSent(s, e, d.seq)
           kind == KindSent(s, e, d.seq)
           back == Restored(s, e, d)
           r == HandleAcknowledge(s, e, d, ev)
<1>1. CASE st = "DISCONNECTED"
  <2>1. Pays(s, back, e) /\ back.peer[e].state \in {"DISCONNECTED", "ACKNOWLEDGING_CONNECT"}
    BY <1>1, RestoredPays
  <2>2. r = IF back.peer[e].state = "DISCONNECTED" THEN back ELSE NotifyConnect(back, e, ev)
    BY <1>1 DEF HandleAcknowledge
  <2> HIDE DEF back, r
  <2>3. Fine(back)
    BY <2>1 DEF Pays, Goes
  <2>4. CASE back.peer[e].state = "DISCONNECTED"
    BY <2>1, <2>2, <2>4 DEF r
  <2>5. CASE back.peer[e].state = "ACKNOWLEDGING_CONNECT"
    <3>1. Pays(back, NotifyConnect(back, e, ev), e)
      BY <2>3, <2>5, NotifyConnectPays DEF Leaving
    <3>2. QED
      BY <2>1, <2>2, <2>5, <3>1, PaysOn DEF r
  <2>6. QED
    BY <2>1, <2>4, <2>5
<1>2. CASE st # "DISCONNECTED"
  <2>1. \/ st = "ACKNOWLEDGING_CONNECT" /\ r = NotifyConnect(acked, e, ev)
        \/ r = NotifyDisconnect(acked, e, ev)
        \/ r = FinishLater(acked, e)
        \/ r = acked
    BY <1>2 DEF HandleAcknowledge
  <2>2. Alike(s, acked)
    BY RemoveAlike DEF Fine
  <2> HIDE DEF acked, r
  <2>3. Pays(s, acked, e) /\ Fine(acked) /\ Serves(acked, e) /\ acked.peer[e].state = st
    BY <2>2, AlikePays
  <2>4. Pays(acked, r, e)
    <3>1. CASE st = "ACKNOWLEDGING_CONNECT" /\ r = NotifyConnect(acked, e, ev)
      BY <2>3, <3>1, NotifyConnectPays DEF Leaving
    <3>2. QED
      BY <2>1, <2>3, <3>1, NotifyDisconnectPays, FinishLaterPays, SamePays
  <2>5. Pays(s, r, e)
    BY <2>3, <2>4, PaysOn
  <2>6. QED
    BY <2>5 DEF r
<1>3. QED
  BY <1>1, <1>2

\* Only a client hears of its place with a server.
LEMMA HandleVerifyConnectPays ==
  ASSUME NEW s, Fine(s), NEW e \in Ends, Serves(s, e), NEW d, NEW ev
  PROVE  Pays(s, HandleVerifyConnect(s, e, d, ev), e)
<1> DEFINE r == HandleVerifyConnect(s, e, d, ev)
           acked == RemoveSent(s, e, 1)
           known == [acked EXCEPT !.peer[e] = [@ EXCEPT !.to = d.arg.peer, !.inSess = d.arg.inSess,
                                                       !.outSess = d.arg.outSess]]
<1>1. \/ r = s
      \/ s.peer[e].state = "CONNECTING" /\ (r = DispatchState(s, e, "ZOMBIE") \/ r = NotifyConnect(known, e, ev))
  BY ZenonT(60) DEF HandleVerifyConnect
<1>2. s.peer[e].state = "CONNECTING" => e \notin Peers
  BY DEF Serves, StatesOf, Served
<1>3. "ZOMBIE" \in StatesOf(e)
  BY DEF StatesOf, Served, States
<1>4. CASE r = s
  BY <1>4, SamePays DEF r
<1>5. CASE s.peer[e].state = "CONNECTING" /\ r = DispatchState(s, e, "ZOMBIE")
  <2>1. Goes(s, DispatchState(s, e, "ZOMBIE"), e, "ZOMBIE", 0)
    <3>1. s.peer[e].state \notin Leaving
      BY <1>5 DEF Leaving
    <3>2. QED
      BY <1>2, <1>5, <3>1, DispatchStateGoes
  <2>2. Pays(s, DispatchState(s, e, "ZOMBIE"), e)
    BY <1>2, <1>3, <1>5, <2>1, GoesPays
  <2>3. QED
    BY <1>5, <2>2 DEF r
<1>6. CASE s.peer[e].state = "CONNECTING" /\ r = NotifyConnect(known, e, ev)
  <2>1. Alike(s, acked)
    BY RemoveAlike DEF Fine
  <2> HIDE DEF acked, r
  <2>2. Fine(acked) /\ Serves(acked, e) /\ Pays(s, acked, e)
    BY <2>1, AlikePays
  <2>3. Shaped(acked)
    BY <2>2 DEF Fine
  <2>4. /\ DOMAIN known = {"peer", "host", "net", "seen"} /\ known.host = acked.host
        /\ known.seen = acked.seen /\ DOMAIN known.peer = Ends
        /\ \A q \in Ends : q # e => known.peer[q] = acked.peer[q]
    BY <2>3 DEF Shaped
  <2>5. /\ DOMAIN known.peer[e] = DOMAIN acked.peer[e]
        /\ known.peer[e].state = acked.peer[e].state /\ known.peer[e].limited = acked.peer[e].limited
        /\ known.peer[e].acks = acked.peer[e].acks
    BY <2>3, FreshFields DEF Shaped
  <2> HIDE DEF known
  <2>6. Alike(acked, known)
    BY <2>3, <2>4, <2>5 DEF Alike, Similar, Keeps, Shaped
  <2>7. Fine(known) /\ Serves(known, e) /\ Pays(acked, known, e)
    BY <2>2, <2>6, AlikePays
  <2>8. Pays(s, known, e)
    BY <2>2, <2>7, PaysOn
  <2>9. Pays(known, NotifyConnect(known, e, ev), e)
    <3>1. known.peer[e].state \notin Leaving
      BY <1>6, <2>1, <2>6 DEF Alike, Similar, Leaving
    <3>2. QED
      BY <1>2, <1>6, <2>7, <3>1, NotifyConnectPays
  <2>10. Pays(s, r, e)
    BY <1>6, <2>8, <2>9, PaysOn
  <2>11. QED
    BY <2>10 DEF r
<1>7. QED
  BY <1>1, <1>4, <1>5, <1>6

LEMMA HandleDisconnectPays ==
  ASSUME NEW s, Fine(s), NEW e \in Ends, Serves(s, e), NEW d
  PROVE  /\ Pays(s, HandleDisconnect(s, e, d), e)
         /\ HandleDisconnect(s, e, d).peer[e].state \in Leaving \cup {"DISCONNECTED"}
<1> DEFINE st == s.peer[e].state
           clear == ResetQueues(s, e)
           r == HandleDisconnect(s, e, d)
<1>1. Alike(s, clear)
  BY ResetAlike DEF Fine
<1>2. st \in States /\ (e \in Peers => st \in Served)
  BY DEF Serves, StatesOf, Served
<1>3. \/ st \in Leaving \cup {"DISCONNECTED"} /\ r = s
      \/ st \in Up \cup {"CONNECTION_SUCCEEDED", "DISCONNECTING", "CONNECTING"}
         /\ r = DispatchState(clear, e, "ZOMBIE")
      \/ st \in {"ACKNOWLEDGING_CONNECT", "CONNECTION_PENDING"} /\ r = PeerReset(clear, e)
      \/ st \in Up /\ r = ChangeState(clear, e, "ACKNOWLEDGING_DISCONNECT")
  BY <1>2 DEF HandleDisconnect, States, Up, Early, Leaving
<1> HIDE DEF clear, r
<1>4. Fine(clear) /\ Serves(clear, e) /\ Pays(s, clear, e) /\ clear.peer[e].state = st
  BY <1>1, AlikePays
<1>5. CASE st \in Leaving \cup {"DISCONNECTED"} /\ r = s
  BY <1>5, SamePays DEF r
<1>6. CASE st \in Up \cup {"CONNECTION_SUCCEEDED", "DISCONNECTING", "CONNECTING"}
           /\ r = DispatchState(clear, e, "ZOMBIE")
  <2>1. /\ e \in Peers => st # "DISCONNECTED" /\ 0 = Told("ZOMBIE") - Told(clear.peer[e].state)
        /\ "ZOMBIE" \in StatesOf(e)
    BY <1>2, <1>4, <1>6 DEF StatesOf, Served, States, Told, Up, Early
  <2>2. Goes(clear, r, e, "ZOMBIE", 0)
    <3>1. "ZOMBIE" \in Leaving /\ "ZOMBIE" # "DISCONNECTED"
      BY DEF Leaving
    <3>2. QED
      BY <1>4, <1>6, <2>1, <3>1, DispatchStateGoes
  <2>3. Pays(clear, r, e)
    BY <2>1, <2>2, GoesPays
  <2>4. r.peer[e].state \in Leaving \cup {"DISCONNECTED"}
    BY <2>2 DEF Goes, Leaving
  <2>5. QED
    BY <1>4, <2>3, <2>4, PaysOn DEF r
<1>7. CASE st \in {"ACKNOWLEDGING_CONNECT", "CONNECTION_PENDING"} /\ r = PeerReset(clear, e)
  <2>1. "DISCONNECTED" \in StatesOf(e) /\ 0 = Told("DISCONNECTED") - Told(clear.peer[e].state)
    BY <1>4, <1>7 DEF StatesOf, Served, States, Told, Up, Early
  <2>2. Goes(clear, r, e, "DISCONNECTED", 0)
    BY <1>4, <1>7, PeerResetGoes
  <2>3. Pays(clear, r, e)
    BY <2>1, <2>2, GoesPays
  <2>4. r.peer[e].state \in Leaving \cup {"DISCONNECTED"}
    BY <2>2 DEF Goes, Leaving
  <2>5. QED
    BY <1>4, <2>3, <2>4, PaysOn DEF r
<1>8. CASE st \in Up /\ r = ChangeState(clear, e, "ACKNOWLEDGING_DISCONNECT")
  <2>1. /\ 0 = Told("ACKNOWLEDGING_DISCONNECT") - Told(clear.peer[e].state) /\ st # "DISCONNECTED"
        /\ "ACKNOWLEDGING_DISCONNECT" \in StatesOf(e)
    BY <1>4, <1>8 DEF StatesOf, Served, States, Told, Up, Early
  <2>2. Goes(clear, r, e, "ACKNOWLEDGING_DISCONNECT", 0)
    <3>1. "ACKNOWLEDGING_DISCONNECT" \in Leaving /\ "ACKNOWLEDGING_DISCONNECT" # "DISCONNECTED"
      BY DEF Leaving
    <3>2. QED
      BY <1>4, <1>8, <2>1, <3>1, ChangeStateGoes
  <2>3. Pays(clear, r, e)
    BY <2>1, <2>2, GoesPays
  <2>4. r.peer[e].state \in Leaving \cup {"DISCONNECTED"}
    BY <2>2 DEF Goes, Leaving
  <2>5. QED
    BY <1>4, <2>3, <2>4, PaysOn DEF r
<1>9. QED
  BY <1>3, <1>5, <1>6, <1>7, <1>8

-----------------------------------------------------------------------------
(* The inductive invariant: besides lists, counts and events, a server's    *)
(* peer is in no state of a client, and who owes the acknowledgement of a   *)
(* DISCONNECT was announced and has begun to leave, so that the pass that   *)
(* sends it (SendOutgoing) makes no ZOMBIE of an unannounced peer.          *)

Proper(s) ==
  /\ Fine(s)
  /\ \A e \in Ends : Serves(s, e) /\ Parting(s.peer[e])
  /\ \A p \in Peers : s.seen[p] = Told(s.peer[p].state)

LEMMA PaysProper ==
  ASSUME NEW s, Proper(s), NEW e \in Ends, NEW t, Pays(s, t, e)
  PROVE  Proper(t)
<1>1. PICK st, k : /\ Goes(s, t, e, st, k) /\ k \in Int /\ st \in StatesOf(e)
                   /\ e \in Peers => k = Told(st) - Told(s.peer[e].state)
  BY DEF Pays
<1>2. Fine(t) /\ t.peer[e].state = st
  BY <1>1 DEF Goes
<1>3. ASSUME NEW q \in Ends PROVE Serves(t, q) /\ Parting(t.peer[q])
  <2>1. t.peer[q].acks = s.peer[q].acks \/ t.peer[q].acks = {}
    BY <1>1 DEF Goes, Keeps
  <2>2. Serves(s, q) /\ Parting(s.peer[q])
    BY DEF Proper
  <2>3. CASE q = e
    <3>1. Serves(t, q)
      BY <1>1, <1>2, <2>3 DEF Serves
    <3>2. s.peer[e].state \in Leaving => st \in Leaving \/ t.peer[e].acks = {}
      BY <1>1 DEF Goes
    <3>3. QED
      BY <1>2, <2>1, <2>2, <2>3, <3>1, <3>2 DEF Parting
  <2>4. CASE q # e
    <3>1. t.peer[q].state = s.peer[q].state
      BY <1>1, <2>4 DEF Goes
    <3>2. QED
      BY <2>1, <2>2, <3>1 DEF Serves, Parting
  <2>5. QED
    BY <2>3, <2>4
<1>4. ASSUME NEW p \in Peers PROVE t.seen[p] = Told(t.peer[p].state)
  <2>1. s.seen[p] = Told(s.peer[p].state) /\ p \in Ends
    BY DEF Proper, Ends
  <2>2. CASE p = e
    <3>1. t.seen[e] = s.seen[e] + k /\ k = Told(st) - Told(s.peer[e].state)
      BY <1>1, <2>2 DEF Goes
    <3>2. QED
      BY <1>2, <2>1, <2>2, <3>1, ToldInt
  <2>3. CASE p # e
    BY <1>1, <2>1, <2>3 DEF Goes
  <2>4. QED
    BY <2>2, <2>3
<1>5. QED
  BY <1>2, <1>3, <1>4 DEF Proper

LEMMA AlikeProper ==
  ASSUME NEW s, Proper(s), NEW t, Alike(s, t)
  PROVE  Proper(t)
<1>1. 0 \in Ends
  BY PeersFinite DEF Ends, Peers
<1>2. Fine(s) /\ Serves(s, 0)
  BY <1>1 DEF Proper
<1>3. Pays(s, t, 0)
  BY <1>1, <1>2, AlikePays
<1>4. QED
  BY <1>1, <1>3, PaysProper

LEMMA ProperPeer ==
  ASSUME NEW s, Proper(s), NEW e \in Ends
  PROVE  Fine(s) /\ Shaped(s) /\ Serves(s, e) /\ Parting(s.peer[e])
  BY DEF Proper, Fine

LEMMA AcknowledgeProper ==
  ASSUME NEW s, Proper(s), NEW e \in Ends, NEW d,
         d.kind = "DISCONNECT" => s.peer[e].state \in Leaving \cup {"DISCONNECTED"}
  PROVE  Proper(QueueAcknowledgement(s, e, d))
<1> DEFINE t == QueueAcknowledgement(s, e, d)
<1>1. Similar(s, t) /\ Parting(t.peer[e]) /\ \A q \in Ends \ {e} : t.peer[q] = s.peer[q]
  BY ProperPeer, AcknowledgeSimilar
<1> HIDE DEF t
<1>2. Fine(t)
  BY <1>1, SimilarFine DEF Proper
<1>3. ASSUME NEW q \in Ends PROVE Serves(t, q) /\ Parting(t.peer[q])
  BY <1>1 DEF Proper, Similar, Serves
<1>4. \A p \in Peers : t.seen[p] = Told(t.peer[p].state)
  BY <1>1 DEF Proper, Similar, Ends
<1>5. QED
  BY <1>2, <1>3, <1>4 DEF Proper, t

LEMMA HandleDataProper ==
  ASSUME NEW s, Proper(s), NEW e \in Ends, s.peer[e].state \in Up, NEW d
  PROVE  Proper(HandleData(s, e, d))
<1> DEFINE t == HandleData(s, e, d)
           data == [s EXCEPT !.peer[e].inbox = TRUE, !.peer[e].queued = TRUE]
           less == IF e \in Peers /\ s.peer[e].limited THEN -1 ELSE 0
           more == IF e \in Peers /\ d.arg THEN 1 ELSE 0
           n == s.host.limited + less + more
           limit == [s EXCEPT !.peer[e].limited = d.arg, !.host.limited = n]
<1>1. t = s \/ t = data \/ t = limit
  <2>1. t \in {s, data, limit}
    BY ZenonT(60) DEF HandleData
  <2> HIDE DEF t, data, limit
  <2>2. QED
    BY <2>1
<1>2. Fine(s) /\ Shaped(s) /\ Serves(s, e)
  BY ProperPeer
<1> HIDE DEF t
<1>3. Proper(data)
  <2>1. /\ DOMAIN data = {"peer", "host", "net", "seen"} /\ data.host = s.host /\ data.seen = s.seen
        /\ DOMAIN data.peer = Ends /\ \A q \in Ends : q # e => data.peer[q] = s.peer[q]
    BY <1>2 DEF Shaped
  <2>2. /\ DOMAIN data.peer[e] = DOMAIN s.peer[e] /\ data.peer[e].acks = s.peer[e].acks
        /\ data.peer[e].state = s.peer[e].state /\ data.peer[e].limited = s.peer[e].limited
    BY <1>2, FreshFields DEF Shaped
  <2> HIDE DEF data
  <2>3. Alike(s, data)
    BY <1>2, <2>1, <2>2 DEF Alike, Similar, Keeps, Shaped
  <2>4. QED
    BY <2>3, AlikeProper
<1>4. Proper(limit)
  <2> DEFINE st == s.peer[e].state
  <2>0. s.host.limited \in Int /\ s.host.connected \in Int
    BY <1>2, CountsAreInt DEF Fine
  <2>1. e \in Peers => n = s.host.limited + One(d.arg) - One(s.peer[e].limited)
    BY <2>0 DEF One
  <2>2. e \notin Peers => n = s.host.limited
    BY <2>0
  <2> HIDE DEF n
  <2>3. /\ DOMAIN limit = {"peer", "host", "net", "seen"} /\ limit.seen = s.seen
        /\ DOMAIN limit.peer = Ends /\ \A q \in Ends : q # e => limit.peer[q] = s.peer[q]
    BY <1>2 DEF Shaped
  <2>4. /\ DOMAIN limit.peer[e] = DOMAIN s.peer[e] /\ limit.peer[e].acks = s.peer[e].acks
        /\ limit.peer[e].state = st /\ limit.peer[e].limited = d.arg
    BY <1>2, FreshFields DEF Shaped
  <2>5. /\ DOMAIN limit.host = DOMAIN s.host /\ limit.host.idle = s.host.idle
        /\ limit.host.busy = s.host.busy /\ limit.host.n = s.host.n
        /\ limit.host.connected = s.host.connected /\ limit.host.limited = n
    BY <1>2 DEF Shaped, HostFields
  <2> HIDE DEF limit
  <2>6. Shaped(limit) /\ Others(s, limit, e) /\ Keeps(s, limit)
    BY <1>2, <2>3, <2>4, <2>5 DEF Shaped, Others, Keeps
  <2>7. ASSUME e \in Peers
        PROVE  /\ limit.seen[e] = s.seen[e] + 0
               /\ Recounts(s, limit, e) /\ Listed(limit.host, Free(limit))
    <3>1. limit.seen[e] = s.seen[e] + 0
      BY <1>2, <2>3, <2>7 DEF Shaped
    <3>2. /\ IsUp(limit, e) <=> IsUp(s, e)
          /\ IsLimited(limit, e) <=> d.arg
          /\ IsLimited(s, e) <=> s.peer[e].limited
      BY <2>4 DEF IsUp, IsLimited
    <3>3. /\ One(IsUp(limit, e)) = One(IsUp(s, e)) /\ One(IsUp(s, e)) \in Int
          /\ One(IsLimited(limit, e)) = One(d.arg)
          /\ One(IsLimited(s, e)) = One(s.peer[e].limited)
      BY <3>2 DEF One
    <3>4. Recounts(s, limit, e)
      BY <2>0, <2>1, <2>5, <2>7, <3>3 DEF Recounts
    <3>5. Free(limit) = Free(s)
      BY <2>4, <2>6 DEF Free, Others, Ends
    <3>6. Listed(limit.host, Free(limit))
      BY <1>2, <2>5, <3>5 DEF Fine, Listed
    <3>7. QED
      BY <3>1, <3>4, <3>6
  <2>8. Goes(s, limit, e, st, 0)
    BY <1>2, <2>2, <2>3, <2>4, <2>5, <2>6, <2>7, Lands
  <2>9. 0 = Told(st) - Told(s.peer[e].state) /\ st \in StatesOf(e)
    BY <1>2, ToldInt DEF Serves
  <2>10. Pays(s, limit, e)
    BY <2>8, <2>9, GoesPays
  <2>11. QED
    BY <2>10, PaysProper
<1>5. QED
  BY <1>1, <1>3, <1>4 DEF t

LEMMA HandleIncomingProper ==
  ASSUME NEW s, Proper(s), NEW e \in Ends, NEW d, NEW ev,
         s.peer[e].state = "DISCONNECTED" => e \in Peers
  PROVE  Proper(HandleIncoming(s, e, d, ev))
<1> DEFINE r == HandleIncoming(s, e, d, ev)
<1>1. Fine(s) /\ Serves(s, e)
  BY ProperPeer
<1>2. CASE d.kind = "ACK"
  <2>1. r = HandleAcknowledge(s, e, d, ev)
    BY <1>2 DEF HandleIncoming
  <2>2. QED
    BY <1>1, <2>1, HandleAcknowledgePays, PaysProper
<1>3. CASE d.kind = "VERIFY"
  <2>1. r = QueueAcknowledgement(HandleVerifyConnect(s, e, d, ev), e, d)
    BY <1>3 DEF HandleIncoming
  <2>2. Proper(HandleVerifyConnect(s, e, d, ev))
    BY <1>1, HandleVerifyConnectPays, PaysProper
  <2>3. QED
    BY <1>3, <2>1, <2>2, AcknowledgeProper
<1>4. CASE d.kind = "DISCONNECT"
  <2>1. r = QueueAcknowledgement(HandleDisconnect(s, e, d), e, d)
    BY <1>4 DEF HandleIncoming
  <2>2. Proper(HandleDisconnect(s, e, d))
        /\ HandleDisconnect(s, e, d).peer[e].state \in Leaving \cup {"DISCONNECTED"}
    BY <1>1, HandleDisconnectPays, PaysProper
  <2>3. QED
    BY <2>1, <2>2, AcknowledgeProper
<1>5. CASE d.kind \in {"DATA", "LIMIT"} /\ s.peer[e].state \in Up
  <2>1. r = QueueAcknowledgement(HandleData(s, e, d), e, d)
    BY <1>5 DEF HandleIncoming
  <2>2. Proper(HandleData(s, e, d))
    BY <1>5, HandleDataProper
  <2>3. d.kind # "DISCONNECT"
    BY <1>5
  <2>4. QED
    BY <2>1, <2>2, <2>3, AcknowledgeProper
<1>6. CASE d.kind \notin {"ACK", "VERIFY", "DISCONNECT"} /\ ~(d.kind \in {"DATA", "LIMIT"} /\ s.peer[e].state \in Up)
  <2>1. r = s
    BY <1>6 DEF HandleIncoming
  <2>2. QED
    BY <2>1
<1>7. QED
  BY <1>2, <1>3, <1>4, <1>5, <1>6

Made(pr, h, n, sn) == [peer |-> pr, host |-> h, net |-> n, seen |-> sn]

IInv == Proper(Made(peer, host, net, seen))

LEMMA NowProper == ASSUME IInv PROVE Proper(Now)
  BY DEF IInv, Made, Now

LEMMA MadeAlike ==
  ASSUME NEW s, Shaped(s), NEW pr, pr = s.peer, NEW h, DOMAIN h = HostFields, NEW n,
         NEW sn, sn = s.seen, h.idle = s.host.idle, h.busy = s.host.busy, h.n = s.host.n,
         h.connected = s.host.connected, h.limited = s.host.limited
  PROVE  Alike(s, Made(pr, h, n, sn))
<1> DEFINE t == Made(pr, h, n, sn)
<1>1. /\ DOMAIN t = {"peer", "host", "net", "seen"}
      /\ t.peer = s.peer /\ t.host = h /\ t.seen = s.seen
  BY DEF Made
<1> HIDE DEF t
<1>2. Shaped(t)
  BY <1>1 DEF Shaped
<1>3. QED
  BY <1>1, <1>2 DEF Alike, Similar, Keeps, t

LEMMA BecomeProper ==
  ASSUME NEW t, Proper(t), Become(t)
  PROVE  IInv'
<1>1. peer' = t.peer /\ host' = t.host /\ net' = t.net /\ seen' = t.seen
  BY DEF Become
<1>2. Shaped(t) /\ DOMAIN t.host = HostFields
  BY DEF Proper, Fine, Shaped
<1>3. Alike(t, Made(peer', host', net', seen'))
  BY <1>1, <1>2, MadeAlike
<1>4. Proper(Made(peer', host', net', seen'))
  BY <1>3, AlikeProper
<1>5. QED
  BY <1>4 DEF IInv

\* Only the cookie tables and the lists' contents beyond the peers change.
LEMMA HostProper ==
  ASSUME IInv, peer' = peer, seen' = seen, DOMAIN host' = HostFields,
         host'.idle = host.idle, host'.busy = host.busy, host'.n = host.n,
         host'.connected = host.connected, host'.limited = host.limited
  PROVE  IInv'
<1> DEFINE s == Made(peer, host, net, seen)
<1>1. Proper(s)
  BY DEF IInv
<1>2. Shaped(s) /\ s.peer = peer /\ s.host = host /\ s.seen = seen
  BY <1>1 DEF Proper, Fine, Made
<1> HIDE DEF s
<1>3. Alike(s, Made(peer', host', net', seen'))
  BY <1>2, MadeAlike
<1>4. Proper(Made(peer', host', net', seen'))
  BY <1>1, <1>3, AlikeProper
<1>5. QED
  BY <1>4 DEF IInv

LEMMA ReceiveProper ==
  ASSUME IInv, NEW d, NEW ev, Receive(d, ev)
  PROVE  IInv'
<1>1. d.to \in Ends /\ Accepts(Now, d.to, d) /\ Become(HandleIncoming(Now, d.to, d, ev))
  BY DEF Receive
<1>2. Now.peer[d.to].state = "DISCONNECTED" => d.to \in Peers
  BY <1>1 DEF Accepts
<1>3. Proper(HandleIncoming(Now, d.to, d, ev))
  BY <1>1, <1>2, NowProper, HandleIncomingProper
<1>4. QED
  BY <1>1, <1>3, BecomeProper

LEMMA ReceiveConnectProper ==
  ASSUME IInv, NEW d, ReceiveConnect(d)
  PROVE  IInv'
<1>1. \/ Become(HandleConnect(Now, d))
      \/ \E r \in Draws : Become(HandleConnectCookie(Now, d, r))
  BY ZenonT(60) DEF ReceiveConnect
<1>2. Proper(Now) /\ Fine(Now) /\ Shaped(Now)
  BY NowProper DEF Proper, Fine
<1>3. CASE Become(HandleConnect(Now, d))
  <2>1. Proper(HandleConnect(Now, d))
    <3>1. \/ HandleConnect(Now, d) = Now
          \/ \E p \in Peers : Pays(Now, HandleConnect(Now, d), p)
      BY <1>2, HandleConnectPays
    <3>2. \A p \in Peers : p \in Ends
      BY DEF Ends
    <3>3. QED
      BY <1>2, <3>1, <3>2, PaysProper
  <2>2. QED
    BY <1>3, <2>1, BecomeProper
<1>4. ASSUME NEW r \in Draws, Become(HandleConnectCookie(Now, d, r)) PROVE IInv'
  <2>1. Proper(HandleConnectCookie(Now, d, r))
    BY <1>2, HandleConnectCookieAlike, AlikeProper
  <2>2. QED
    BY <1>4, <2>1, BecomeProper
<1>5. QED
  BY <1>1, <1>3, <1>4

LEMMA SendOutgoingProper ==
  ASSUME IInv, NEW e \in Ends, SendOutgoing(e)
  PROVE  IInv'
<1> DEFINE s == Now
           m == s.net \cup {Datagram(Now, e, "ACK", a.seq, FALSE, a.t, None) : a \in peer[e].acks}
           told == [s EXCEPT !.net = m, !.peer[e].acks = {}, !.peer[e].out = FALSE]
           bye == \E a \in peer[e].acks : a.kind = "DISCONNECT"
           t == IF bye THEN DispatchState(told, e, "ZOMBIE") ELSE told
<1>1. s.peer[e].state # "ZOMBIE" /\ Become(FinishLater(t, e))
  BY ZenonT(60) DEF SendOutgoing, Now
<1>2. Proper(s) /\ s.peer = peer
  BY NowProper DEF Now
<1> HIDE DEF s, m
<1>3. Fine(s) /\ Shaped(s) /\ Serves(s, e) /\ Parting(s.peer[e])
  BY <1>2, ProperPeer
<1>4. /\ DOMAIN told = {"peer", "host", "net", "seen"} /\ told.host = s.host /\ told.seen = s.seen
      /\ DOMAIN told.peer = Ends /\ \A q \in Ends : q # e => told.peer[q] = s.peer[q]
  BY <1>3 DEF Shaped
<1>5. /\ DOMAIN told.peer[e] = DOMAIN s.peer[e] /\ told.peer[e].acks = {}
      /\ told.peer[e].state = s.peer[e].state /\ told.peer[e].limited = s.peer[e].limited
  BY <1>3, FreshFields DEF Shaped
<1> HIDE DEF told
<1>6. Alike(s, told)
  BY <1>3, <1>4, <1>5 DEF Alike, Similar, Keeps, Shaped
<1>7. Proper(told)
  BY <1>2, <1>6, AlikeProper
<1>8. Proper(t)
  <2>1. CASE bye
    <3>1. told.peer[e].state = "ACKNOWLEDGING_DISCONNECT"
      BY <1>1, <1>2, <1>3, <1>5, <2>1 DEF Parting, Leaving
    <3>2. "ZOMBIE" \in Leaving /\ "ZOMBIE" # "DISCONNECTED" /\ "ZOMBIE" \in StatesOf(e)
          /\ 0 = Told("ZOMBIE") - Told(told.peer[e].state)
      BY <3>1 DEF Leaving, StatesOf, Served, States, Told, Up, Early
    <3>3. Fine(told)
      BY <1>7 DEF Proper
    <3>4. Goes(told, DispatchState(told, e, "ZOMBIE"), e, "ZOMBIE", 0)
      BY <3>1, <3>2, <3>3, DispatchStateGoes
    <3>5. Pays(told, DispatchState(told, e, "ZOMBIE"), e)
      BY <3>2, <3>4, GoesPays
    <3>6. QED
      BY <1>7, <2>1, <3>5, PaysProper
  <2>2. CASE ~bye
    BY <1>7, <2>2
  <2>3. QED
    BY <2>1, <2>2
<1> HIDE DEF t
<1>9. Proper(FinishLater(t, e))
  <2>1. Fine(t) /\ Serves(t, e)
    BY <1>8, ProperPeer
  <2>2. QED
    BY <1>8, <2>1, FinishLaterPays, PaysProper
<1>10. QED
  BY <1>1, <1>9, BecomeProper

LEMMA TimeOutProper ==
  ASSUME IInv, NEW e \in Ends, NEW ev, TimeOut(e, ev)
  PROVE  IInv'
<1>1. Become(NotifyDisconnect(Now, e, ev))
  BY DEF TimeOut
<1>2. Proper(Now)
  BY NowProper
<1>3. Fine(Now) /\ Serves(Now, e)
  BY <1>2, ProperPeer
<1>4. Proper(NotifyDisconnect(Now, e, ev))
  BY <1>2, <1>3, NotifyDisconnectPays, PaysProper
<1>5. QED
  BY <1>1, <1>4, BecomeProper

LEMMA DispatchProper ==
  ASSUME IInv, NEW e \in Ends, Dispatch(e)
  PROVE  IInv'
<1> DEFINE o == Now
           s == [o EXCEPT !.peer[e].queued = FALSE]
           st == o.peer[e].state
           read == [s EXCEPT !.peer[e].inbox = FALSE]
<1>1. \/ st \in {"CONNECTION_PENDING", "CONNECTION_SUCCEEDED"}
         /\ Become(Event(ChangeState(s, e, "CONNECTED"), e, 1))
      \/ st = "ZOMBIE" /\ Become(Event(PeerReset(s, e), e, -1))
      \/ Become(read)
      \/ Become(s)
  <2>1. Become(CASE st \in {"CONNECTION_PENDING", "CONNECTION_SUCCEEDED"} ->
                      Event(ChangeState(s, e, "CONNECTED"), e, 1)
                 [] st = "ZOMBIE" -> Event(PeerReset(s, e), e, -1)
                 [] st = "CONNECTED" -> read
                 [] OTHER -> s)
    BY ZenonT(60) DEF Dispatch, Now
  <2> HIDE DEF s, read, st
  <2>2. CASE st \in {"CONNECTION_PENDING", "CONNECTION_SUCCEEDED"}
    BY <2>1, <2>2
  <2>3. CASE st = "ZOMBIE"
    BY <2>1, <2>3
  <2>4. CASE st = "CONNECTED"
    BY <2>1, <2>4
  <2>5. CASE st \notin {"CONNECTION_PENDING", "CONNECTION_SUCCEEDED", "ZOMBIE", "CONNECTED"}
    BY <2>1, <2>5
  <2>6. QED
    BY <2>2, <2>3, <2>4, <2>5
<1>2. Proper(o)
  BY NowProper
<1> HIDE DEF o
<1>3. Proper(s) /\ s.peer[e].state = st
  <2>1. Shaped(o)
    BY <1>2 DEF Proper, Fine
  <2>2. Alike(o, s)
    BY <2>1, QueuedAlike
  <2> HIDE DEF s
  <2>3. QED
    BY <1>2, <2>2, AlikeProper DEF Alike, Similar
<1> HIDE DEF s
<1>4. Fine(s) /\ Shaped(s) /\ Serves(s, e)
  BY <1>3, ProperPeer
<1>5. CASE st \in {"CONNECTION_PENDING", "CONNECTION_SUCCEEDED"}
           /\ Become(Event(ChangeState(s, e, "CONNECTED"), e, 1))
  <2> DEFINE t == ChangeState(s, e, "CONNECTED")
             u == Event(t, e, 1)
  <2>1. /\ s.peer[e].state # "DISCONNECTED" /\ s.peer[e].state \notin Leaving
        /\ "CONNECTED" \in StatesOf(e) /\ 0 + 1 = Told("CONNECTED") - Told(s.peer[e].state)
    BY <1>3, <1>5 DEF Leaving, StatesOf, Served, States, Told, Up, Early
  <2>2. Goes(s, t, e, "CONNECTED", 0)
    BY <1>4, <2>1, ChangeStateGoes
  <2> HIDE DEF t
  <2>3. Goes(t, u, e, "CONNECTED", 1)
    BY <2>2, EventGoes DEF Goes
  <2> HIDE DEF u
  <2>4. Goes(s, u, e, "CONNECTED", 0 + 1)
    BY <1>4, <2>2, <2>3, GoesOn
  <2>5. Pays(s, u, e)
    BY <2>1, <2>4, GoesPays
  <2>6. Proper(u)
    BY <1>3, <2>5, PaysProper
  <2>7. QED
    BY <1>5, <2>6, BecomeProper DEF u, t
<1>6. CASE st = "ZOMBIE" /\ Become(Event(PeerReset(s, e), e, -1))
  <2> DEFINE u == Event(PeerReset(s, e), e, -1)
  <2>1. "DISCONNECTED" \in StatesOf(e) /\ -1 = Told("DISCONNECTED") - Told(s.peer[e].state)
    BY <1>3, <1>6 DEF StatesOf, Served, States, Told, Up, Early
  <2>2. Goes(s, u, e, "DISCONNECTED", -1)
    BY <1>4, ResetToldGoes
  <2> HIDE DEF u
  <2>3. Pays(s, u, e)
    BY <2>1, <2>2, GoesPays
  <2>4. Proper(u)
    BY <1>3, <2>3, PaysProper
  <2>5. QED
    BY <1>6, <2>4, BecomeProper DEF u
<1>7. CASE Become(read)
  <2>1. /\ DOMAIN read = {"peer", "host", "net", "seen"} /\ read.host = s.host /\ read.seen = s.seen
        /\ DOMAIN read.peer = Ends /\ \A q \in Ends : q # e => read.peer[q] = s.peer[q]
    BY <1>4 DEF Shaped
  <2>2. /\ DOMAIN read.peer[e] = DOMAIN s.peer[e] /\ read.peer[e].acks = s.peer[e].acks
        /\ read.peer[e].state = s.peer[e].state /\ read.peer[e].limited = s.peer[e].limited
    BY <1>4, FreshFields DEF Shaped
  <2> HIDE DEF read
  <2>3. Alike(s, read)
    BY <1>4, <2>1, <2>2 DEF Alike, Similar, Keeps, Shaped
  <2>4. Proper(read)
    BY <1>3, <2>3, AlikeProper
  <2>5. QED
    BY <1>7, <2>4, BecomeProper
<1>8. CASE Become(s)
  BY <1>3, <1>8, BecomeProper
<1>9. QED
  BY <1>1, <1>5, <1>6, <1>7, <1>8

LEMMA SendProper ==
  ASSUME IInv, NEW e \in Ends, Send(e)
  PROVE  IInv'
<1> DEFINE s == Now
           out == [s EXCEPT !.peer[e].out = TRUE]
<1>1. \/ \E kind, arg : Become(QueueOutgoing(s, e, kind, TRUE, arg))
      \/ Become(out)
  BY ZenonT(60) DEF Send
<1>2. Proper(s) /\ Shaped(s)
  BY NowProper DEF Proper, Fine
<1> HIDE DEF s
<1>3. ASSUME NEW kind, NEW arg, Become(QueueOutgoing(s, e, kind, TRUE, arg)) PROVE IInv'
  <2>1. Proper(QueueOutgoing(s, e, kind, TRUE, arg))
    BY <1>2, OutgoingAlike, AlikeProper
  <2>2. QED
    BY <1>3, <2>1, BecomeProper
<1>4. ASSUME Become(out) PROVE IInv'
  <2>1. /\ DOMAIN out = {"peer", "host", "net", "seen"} /\ out.host = s.host /\ out.seen = s.seen
        /\ DOMAIN out.peer = Ends /\ \A q \in Ends : q # e => out.peer[q] = s.peer[q]
    BY <1>2 DEF Shaped
  <2>2. /\ DOMAIN out.peer[e] = DOMAIN s.peer[e] /\ out.peer[e].acks = s.peer[e].acks
        /\ out.peer[e].state = s.peer[e].state /\ out.peer[e].limited = s.peer[e].limited
    BY <1>2, FreshFields DEF Shaped
  <2> HIDE DEF out
  <2>3. Alike(s, out)
    BY <1>2, <2>1, <2>2 DEF Alike, Similar, Keeps, Shaped
  <2>4. Proper(out)
    BY <1>2, <2>3, AlikeProper
  <2>5. QED
    BY <1>4, <2>4, BecomeProper
<1>5. QED
  BY <1>1, <1>3, <1>4

LEMMA CallDisconnectProper ==
  ASSUME IInv, NEW e \in Ends, CallDisconnect(e) \/ CallDisconnectLater(e)
  PROVE  IInv'
<1>1. Become(Disconnect(Now, e)) \/ Become(DisconnectLater(Now, e))
  BY DEF CallDisconnect, CallDisconnectLater
<1>2. Proper(Now)
  BY NowProper
<1>3. Fine(Now) /\ Serves(Now, e)
  BY <1>2, ProperPeer
<1>4. Proper(Disconnect(Now, e)) /\ Proper(DisconnectLater(Now, e))
  BY <1>2, <1>3, DisconnectPays, DisconnectLaterPays, PaysProper
<1>5. QED
  BY <1>1, <1>4, BecomeProper

\* The application that ends a connection at once needs no event: what it has heard is settled.
LEMMA CallDisconnectNowProper ==
  ASSUME IInv, NEW e \in Ends, CallDisconnectNow(e)
  PROVE  IInv'
<1> DEFINE s == Now
           t == DisconnectNow(s, e)
           settled == [t EXCEPT !.seen[e] = 0]
<1>1. Become(IF e \in Peers THEN settled ELSE t)
  BY ZenonT(60) DEF CallDisconnectNow
<1>2. Proper(s) /\ Fine(s)
  BY NowProper DEF Proper
<1> HIDE DEF s
<1>3. Goes(s, t, e, "DISCONNECTED", 0)
  BY <1>2, DisconnectNowGoes
<1> HIDE DEF t
<1>4. "DISCONNECTED" \in StatesOf(e) /\ Told("DISCONNECTED") = 0
  BY DEF StatesOf, Served, States, Told, Up, Early
<1>5. CASE e \notin Peers
  <2>1. Pays(s, t, e)
    BY <1>3, <1>4, <1>5, GoesPays
  <2>2. QED
    BY <1>1, <1>2, <1>5, <2>1, PaysProper, BecomeProper
<1>6. CASE e \in Peers
  <2> DEFINE n == 0 - Told(s.peer[e].state)
             u == Event(t, e, n)
  <2>1. n \in Int /\ t.seen[e] + n = 0
    <3>1. s.seen[e] = Told(s.peer[e].state) /\ t.seen[e] = s.seen[e] + 0
      BY <1>2, <1>3, <1>6 DEF Proper, Goes
    <3>2. QED
      BY <3>1, ToldInt
  <2> HIDE DEF n
  <2>2. u = settled
    <3>1. u = [t EXCEPT !.seen[e] = t.seen[e] + n]
      BY <1>6, ZenonT(60) DEF Event
    <3> DEFINE z == t.seen[e] + n
    <3>2. u = [t EXCEPT !.seen[e] = z] /\ z = 0
      BY <2>1, <3>1
    <3> HIDE DEF z, u
    <3>3. QED
      BY <3>2, ZenonT(60)
  <2> HIDE DEF settled
  <2>3. Goes(t, u, e, "DISCONNECTED", n)
    BY <1>3, <2>1, EventGoes DEF Goes
  <2> HIDE DEF u
  <2>4. Goes(s, u, e, "DISCONNECTED", 0 + n)
    BY <1>2, <1>3, <2>1, <2>3, GoesOn
  <2>5. 0 + n = Told("DISCONNECTED") - Told(s.peer[e].state)
    BY <1>4, ToldInt DEF n
  <2>6. Pays(s, u, e)
    BY <1>4, <2>1, <2>4, <2>5, GoesPays
  <2>7. Proper(settled)
    BY <1>2, <2>2, <2>6, PaysProper
  <2>8. QED
    BY <1>1, <1>6, <2>7, BecomeProper
<1>7. QED
  BY <1>5, <1>6

LEMMA HostConnectProper ==
  ASSUME IInv, NEW c \in Clients, HostConnect(c)
  PROVE  IInv'
<1> DEFINE o == Now
           s == [o EXCEPT !.peer[c] = [@ EXCEPT !.state = "CONNECTING", !.addr = Server, !.id = connects + 1]]
           a == [id |-> connects + 1, inSess |-> peer[c].inSess, outSess |-> peer[c].outSess, limited |-> TRUE]
<1>1. o.peer[c].state = "DISCONNECTED" /\ Become(QueueOutgoing(s, c, "CONNECT", TRUE, a))
  BY ZenonT(60) DEF HostConnect, Now
<1>2. Proper(o) /\ Fine(o) /\ Shaped(o)
  BY NowProper DEF Proper, Fine
<1>3. c \in Ends /\ c \notin Peers
  BY PeersFinite DEF Ends
<1> HIDE DEF o, a
<1>4. /\ DOMAIN s = {"peer", "host", "net", "seen"} /\ s.host = o.host /\ s.seen = o.seen
      /\ DOMAIN s.peer = Ends /\ \A q \in Ends : q # c => s.peer[q] = o.peer[q]
  BY <1>2, <1>3 DEF Shaped
<1>5. /\ DOMAIN s.peer[c] = DOMAIN o.peer[c] /\ s.peer[c].acks = o.peer[c].acks
      /\ s.peer[c].state = "CONNECTING"
  BY <1>2, <1>3, FreshFields DEF Shaped
<1> HIDE DEF s
<1>6. Shaped(s) /\ Others(o, s, c) /\ Keeps(o, s) /\ o.peer[c].state \notin Leaving
  BY <1>1, <1>2, <1>4, <1>5 DEF Shaped, Others, Keeps, Leaving
<1>7. Goes(o, s, c, "CONNECTING", 0)
  BY <1>2, <1>3, <1>4, <1>5, <1>6, Lands
<1>8. "CONNECTING" \in StatesOf(c)
  BY <1>3 DEF StatesOf, States
<1>9. Proper(s)
  BY <1>2, <1>3, <1>7, <1>8, GoesPays, PaysProper
<1>10. Proper(QueueOutgoing(s, c, "CONNECT", TRUE, a))
  BY <1>3, <1>6, <1>9, OutgoingAlike, AlikeProper
<1>11. QED
  BY <1>1, <1>10, BecomeProper

LEMMA HostFieldsKept ==
  ASSUME IInv
  PROVE  DOMAIN host = HostFields
  BY DEF IInv, Proper, Fine, Shaped, Made

\* The clock only sweeps cookie tables.
LEMMA TickProper ==
  ASSUME IInv, Tick
  PROVE  IInv'
<1> DEFINE i == (host.index + 1) % (CookieTimeout + 1)
           n == host.inWindow - host.data[i]
           shifted == [host EXCEPT !.index = i, !.inWindow = n, !.data[i] = 0, !.stamp = @ + 1]
           aged == IF now' - host.stamp <= 1 THEN host ELSE shifted
           tables == [p \in Peers |-> IF p \in Idle(host) THEN NoTable ELSE aged.table[p]]
           swept == [aged EXCEPT !.window = 0, !.table = tables]
<1>1. host' \in {swept, aged} /\ peer' = peer /\ seen' = seen
  BY ZenonT(60) DEF Tick
<1>2. DOMAIN host = HostFields
  BY HostFieldsKept
<1> HIDE DEF i, n
<1>3. /\ DOMAIN aged = HostFields /\ aged.idle = host.idle /\ aged.busy = host.busy /\ aged.n = host.n
      /\ aged.connected = host.connected /\ aged.limited = host.limited
  BY <1>2 DEF HostFields
<1> HIDE DEF aged, tables
<1>4. /\ DOMAIN swept = HostFields /\ swept.idle = host.idle /\ swept.busy = host.busy /\ swept.n = host.n
      /\ swept.connected = host.connected /\ swept.limited = host.limited
  BY <1>3 DEF HostFields
<1> HIDE DEF swept
<1>5. QED
  BY <1>1, <1>3, <1>4, HostProper

LEMMA ConnectCookiesProper ==
  ASSUME IInv, ConnectCookies
  PROVE  IInv'
<1> DEFINE tables == [p \in Peers |-> NoTable]
           none == [k \in DOMAIN host.data |-> 0]
<1>1. \E on \in BOOLEAN :
        host' = [host EXCEPT !.cookies = on, !.table = tables, !.window = 0,
                   !.inWindow = 0, !.data = none, !.index = 0, !.stamp = now]
  BY ZenonT(60) DEF ConnectCookies
<1>2. peer' = peer /\ seen' = seen
  BY DEF ConnectCookies
<1> HIDE DEF tables, none
<1>3. PICK on \in BOOLEAN :
        host' = [host EXCEPT !.cookies = on, !.table = tables, !.window = 0,
                   !.inWindow = 0, !.data = none, !.index = 0, !.stamp = now]
  BY <1>1
<1>4. DOMAIN host = HostFields
  BY HostFieldsKept
<1>5. /\ DOMAIN host' = HostFields /\ host'.idle = host.idle /\ host'.busy = host.busy /\ host'.n = host.n
      /\ host'.connected = host.connected /\ host'.limited = host.limited
  BY <1>3, <1>4 DEF HostFields
<1>6. QED
  BY <1>2, <1>5, HostProper

-----------------------------------------------------------------------------
(* The theorems.                                                            *)

LEMMA InitProper == Init => IInv
<1> SUFFICES ASSUME Init PROVE IInv
  OBVIOUS
<1> DEFINE s == Made(peer, host, net, seen)
<1>1. /\ DOMAIN s = {"peer", "host", "net", "seen"} /\ s.peer = peer /\ s.host = host /\ s.seen = seen
  BY DEF Made
<1> HIDE DEF s
<1>2. /\ peer = [e \in Ends |-> Fresh] /\ seen = [p \in Peers |-> 0]
      /\ DOMAIN host = HostFields /\ host.idle = [p \in Peers |-> p] /\ host.n = NPeers
      /\ host.busy = [p \in Peers |-> 0] /\ host.connected = 0 /\ host.limited = 0
  BY DEF Init, HostFields
<1>3. Fresh.state = "DISCONNECTED" /\ Fresh.acks = {}
  BY DEF Fresh
<1>4. \A p \in Peers : p \in Ends
  BY DEF Ends
<1>5. Shaped(s)
  BY <1>1, <1>2 DEF Shaped
<1>6. Free(s) = Peers /\ Ups(s) = {} /\ Limits(s) = {}
  BY <1>1, <1>2, <1>3, <1>4 DEF Free, Ups, Limits, Up
<1>7. Listed(s.host, Peers)
  <2>1. NPeers \in Nat /\ Peers = 0 .. NPeers - 1 /\ NPeers - NPeers = 0 /\ 0 .. 0 - 1 = {}
    BY PeersFinite DEF Peers
  <2>2. Holds(host.idle, NPeers, Peers)
    BY <1>2, <2>1 DEF Holds
  <2>3. Holds(host.busy, 0, {})
    BY <2>1 DEF Holds
  <2>4. NPeers \in 0 .. NPeers /\ NPeers - NPeers = 0 /\ Peers \ Peers = {}
    BY <2>1
  <2>5. s.host.n = NPeers /\ s.host.idle = host.idle /\ s.host.busy = host.busy
    BY <1>1, <1>2
  <2>6. QED
    BY <2>2, <2>3, <2>4, <2>5 DEF Listed
<1>8. Counted(s)
  BY <1>1, <1>2, <1>6, FS_EmptySet DEF Counted
<1>9. \A e \in Ends : Serves(s, e) /\ Parting(s.peer[e])
  BY <1>1, <1>2, <1>3 DEF Serves, StatesOf, Served, States, Early, Parting
<1>10. \A p \in Peers : s.seen[p] = Told(s.peer[p].state)
  BY <1>1, <1>2, <1>3, <1>4 DEF Told, Up
<1>11. QED
  BY <1>5, <1>6, <1>7, <1>8, <1>9, <1>10 DEF IInv, Proper, Fine, s

LEMMA NextProper == IInv /\ [Next]_vars => IInv'
<1> SUFFICES ASSUME IInv, [Next]_vars PROVE IInv'
  OBVIOUS
<1>1. ASSUME NEW d \in net, NEW ev \in Services, Receive(d, ev) PROVE IInv'
  BY <1>1, ReceiveProper
<1>2. ASSUME NEW d \in net, ReceiveConnect(d) PROVE IInv'
  BY <1>2, ReceiveConnectProper
<1>3. ASSUME NEW e \in Ends, SendOutgoing(e) PROVE IInv'
  BY <1>3, SendOutgoingProper
<1>4. ASSUME NEW e \in Ends, Dispatch(e) PROVE IInv'
  BY <1>4, DispatchProper
<1>5. ASSUME NEW e \in Ends, Send(e) PROVE IInv'
  BY <1>5, SendProper
<1>6. ASSUME NEW e \in Ends, NEW ev \in Services, TimeOut(e, ev) PROVE IInv'
  BY <1>6, TimeOutProper
<1>7. ASSUME NEW e \in Ends, CallDisconnect(e) \/ CallDisconnectLater(e) PROVE IInv'
  BY <1>7, CallDisconnectProper
<1>8. ASSUME NEW e \in Ends, CallDisconnectNow(e) PROVE IInv'
  BY <1>8, CallDisconnectNowProper
<1>9. ASSUME NEW c \in Clients, HostConnect(c) PROVE IInv'
  BY <1>9, HostConnectProper
<1>10. CASE Tick
  BY <1>10, TickProper
<1>11. CASE ConnectCookies
  BY <1>11, ConnectCookiesProper
<1>12. CASE UNCHANGED vars
  BY <1>12 DEF vars, IInv
<1>13. QED
  BY <1>1, <1>2, <1>3, <1>4, <1>5, <1>6, <1>7, <1>8, <1>9, <1>10, <1>11, <1>12 DEF Next

LEMMA ProperAgrees == IInv => HostAgrees
<1> SUFFICES ASSUME IInv PROVE HostAgrees
  OBVIOUS
<1> DEFINE s == Made(peer, host, net, seen)
<1>1. Fine(s) /\ s.peer = peer /\ s.host = host
  BY DEF IInv, Proper, Made
<1>2. /\ host.n \in 0 .. NPeers /\ Holds(host.idle, host.n, Free(s))
      /\ Holds(host.busy, NPeers - host.n, Peers \ Free(s))
  BY <1>1 DEF Fine, Listed
<1>3. /\ Free(s) = {p \in Peers : peer[p].state = "DISCONNECTED"}
      /\ Ups(s) = {p \in Peers : peer[p].state \in Up}
      /\ Limits(s) = {p \in Ups(s) : peer[p].limited}
      /\ host.connected = Cardinality(Ups(s)) /\ host.limited = Cardinality(Limits(s))
  BY <1>1 DEF Free, Ups, Limits, Fine, Counted
<1> HIDE DEF s
<1>4. Busy(host) = Peers \ Free(s)
  BY <1>2 DEF Busy, Holds
<1>5. Idle(host) = Free(s)
  BY <1>2 DEF Idle, Holds
<1>6. Cardinality(Free(s)) = host.n
  <2>1. host.n \in Nat
    BY <1>2, PeersFinite
  <2> DEFINE f == [i \in 0 .. host.n - 1 |-> host.idle[i]]
  <2>2. f \in Bijection(0 .. host.n - 1, Free(s))
    <3>1. f \in [0 .. host.n - 1 -> Free(s)]
      BY <1>2 DEF Holds
    <3>2. \A i, j \in 0 .. host.n - 1 : f[i] = f[j] => i = j
      BY <1>2 DEF Holds
    <3>3. \A q \in Free(s) : \E i \in 0 .. host.n - 1 : f[i] = q
      BY <1>2 DEF Holds
    <3> HIDE DEF f
    <3>4. QED
      BY <3>1, <3>2, <3>3 DEF Bijection, Injection, Surjection, IsInjective
  <2>3. IsFiniteSet(0 .. host.n - 1) /\ Cardinality(0 .. host.n - 1) = host.n
    <3>1. 0 \in Int /\ host.n - 1 \in Int
      BY <2>1
    <3>2. /\ IsFiniteSet(0 .. host.n - 1)
          /\ Cardinality(0 .. host.n - 1) = IF 0 > host.n - 1 THEN 0 ELSE host.n - 1 - 0 + 1
      BY <3>1, FS_Interval
    <3>3. QED
      BY <2>1, <3>2
  <2>4. Cardinality(Free(s)) = Cardinality(0 .. host.n - 1)
    <3> HIDE DEF f
    <3>1. ExistsBijection(0 .. host.n - 1, Free(s))
      BY <2>2 DEF ExistsBijection
    <3>2. QED
      BY <2>3, <3>1, FS_Bijection
  <2>5. QED
    BY <2>3, <2>4
<1>7. Peers \ Free(s) = {p \in Peers : peer[p].state # "DISCONNECTED"} /\ Peers \ (Peers \ Free(s)) = Free(s)
  BY <1>3
<1>8. QED
  BY <1>3, <1>4, <1>5, <1>6, <1>7 DEF HostAgrees

LEMMA ProperPaired == IInv => EventsPaired
<1> SUFFICES ASSUME IInv PROVE EventsPaired
  OBVIOUS
<1>1. \A p \in Peers : seen[p] = Told(peer[p].state)
  BY DEF IInv, Proper, Made
<1>2. QED
  BY <1>1 DEF EventsPaired, Told

\* Whatever datagrams come, are lost or come again, and whatever the applications
\* call, a peer is in the one of the host's two lists that its state asks for, in
\* one place of it, and connectedPeers and bandwidthLimitedPeers count the peers
\* that are connected.
THEOREM HostsAgree == Spec => []HostAgrees
<1>1. Spec => []IInv
  BY InitProper, NextProper, PTL DEF Spec
<1>2. QED
  BY <1>1, ProperAgrees, PTL

\* The application hears of a peer's connection once, then of its end once, and
\* of the end of no other peer: for any number of peers and clients, with and
\* without cookies, and with service calls that take the events and that do not.
THEOREM EventsInPairs == Spec => []EventsPaired
<1>1. Spec => []IInv
  BY InitProper, NextProper, PTL DEF Spec
<1>2. QED
  BY <1>1, ProperPaired, PTL

-----------------------------------------------------------------------------
(* Connect cookies.  What is counted is spread over the peers' tables.       *)

\* What F gives each peer, with the peer's name.
Spread(F) == UNION {{p} \X F[p] : p \in Peers}

LEMMA SpreadHas ==
  ASSUME NEW F, NEW x
  PROVE  x \in Spread(F) <=> \E p \in Peers : \E i \in F[p] : x = <<p, i>>
  BY DEF Spread

LEMMA SpreadFinite ==
  ASSUME NEW F, \A p \in Peers : IsFiniteSet(F[p])
  PROVE  IsFiniteSet(Spread(F))
<1> DEFINE All == {{p} \X F[p] : p \in Peers}
<1>1. IsFiniteSet(All)
  <2> DEFINE f == [p \in Peers |-> {p} \X F[p]]
  <2>1. f \in Surjection(Peers, All)
    BY DEF Surjection
  <2>2. IsFiniteSet(Peers)
    BY PeersFinite
  <2> HIDE DEF f, All
  <2>3. QED
    BY <2>1, <2>2, FS_Surjection
<1>2. \A T \in All : IsFiniteSet(T)
  <2> SUFFICES ASSUME NEW p \in Peers PROVE IsFiniteSet({p} \X F[p])
    OBVIOUS
  <2>1. IsFiniteSet({p}) /\ IsFiniteSet(F[p])
    BY FS_Singleton
  <2>2. QED
    BY <2>1, FS_Product
<1>3. Spread(F) = UNION All
  BY DEF Spread
<1> HIDE DEF All
<1>4. QED
  BY <1>1, <1>2, <1>3, FS_UNION

LEMMA SpreadLess ==
  ASSUME NEW F, NEW G, \A p \in Peers : IsFiniteSet(F[p]) /\ G[p] \subseteq F[p]
  PROVE  Spread(G) \subseteq Spread(F) /\ IsFiniteSet(Spread(G)) /\ Cardinality(Spread(G)) <= Cardinality(Spread(F))
<1>1. Spread(G) \subseteq Spread(F)
  BY SpreadHas
<1>2. IsFiniteSet(Spread(F))
  BY SpreadFinite
<1>3. QED
  BY <1>1, <1>2, FS_Subset

\* G's spread differs in size from F's by what q has more.
Swapped(F, G, q) ==
  /\ Cardinality(Spread(F)) \in Nat /\ Cardinality(Spread(G)) \in Nat
  /\ Cardinality(F[q]) \in Nat /\ Cardinality(G[q]) \in Nat
  /\ Cardinality(Spread(G)) = Cardinality(Spread(F)) - Cardinality(F[q]) + Cardinality(G[q])

\* The size of a spread follows the change of one peer's set.
LEMMA SpreadSwap ==
  ASSUME NEW F, NEW G, NEW q \in Peers,
         \A p \in Peers : IsFiniteSet(F[p]) /\ IsFiniteSet(G[p]),
         \A p \in Peers \ {q} : G[p] = F[p]
  PROVE  Swapped(F, G, q)
<1> DEFINE Rest == UNION {{p} \X F[p] : p \in Peers \ {q}}
<1>1. IsFiniteSet(Spread(F)) /\ IsFiniteSet(Spread(G))
  BY SpreadFinite
<1>2. Rest \subseteq Spread(F)
  BY DEF Spread
<1>3. IsFiniteSet(Rest) /\ Cardinality(Rest) \in Nat
  BY <1>1, <1>2, FS_Subset, FS_CardinalityType
<1>4. ASSUME NEW S, IsFiniteSet(S)
      PROVE  IsFiniteSet({q} \X S) /\ Cardinality(S) \in Nat /\ Cardinality({q} \X S) = Cardinality(S)
  <2>1. IsFiniteSet({q}) /\ Cardinality({q}) = 1
    BY FS_Singleton
  <2>2. IsFiniteSet({q} \X S) /\ Cardinality({q} \X S) = Cardinality({q}) * Cardinality(S)
    BY <1>4, <2>1, FS_Product
  <2>3. Cardinality(S) \in Nat
    BY <1>4, FS_CardinalityType
  <2>4. QED
    BY <2>1, <2>2, <2>3
<1>5. ASSUME NEW S, IsFiniteSet(S)
      PROVE  Cardinality(Rest \cup ({q} \X S)) = Cardinality(Rest) + Cardinality(S)
  <2>1. Rest \cap ({q} \X S) = {}
    OBVIOUS
  <2>2. Cardinality(Rest \cap ({q} \X S)) = 0
    BY <2>1, FS_EmptySet
  <2> DEFINE T == {q} \X S
  <2>3. IsFiniteSet(T) /\ Cardinality(T) = Cardinality(S) /\ Cardinality(S) \in Nat
    BY <1>4, <1>5
  <2> HIDE DEF Rest, T
  <2>4. Cardinality(Rest \cup T) = Cardinality(Rest) + Cardinality(T) - Cardinality(Rest \cap T)
    BY <1>3, <2>3, FS_Union
  <2>5. Cardinality(Rest \cap T) = 0
    BY <2>2 DEF T
  <2>6. Cardinality(Rest \cup T) = Cardinality(Rest) + Cardinality(S)
    BY <1>3, <2>3, <2>4, <2>5
  <2>7. QED
    BY <2>6 DEF T
<1>6. Spread(F) = Rest \cup ({q} \X F[q])
  BY DEF Spread
<1>7. Spread(G) = Rest \cup ({q} \X G[q])
  BY DEF Spread
<1> HIDE DEF Rest
<1>8. /\ Cardinality(Spread(F)) = Cardinality(Rest) + Cardinality(F[q])
      /\ Cardinality(Spread(G)) = Cardinality(Rest) + Cardinality(G[q])
  BY <1>5, <1>6, <1>7
<1>9. Cardinality(F[q]) \in Nat /\ Cardinality(G[q]) \in Nat
  BY <1>4
<1>10. Cardinality(Spread(F)) \in Nat /\ Cardinality(Spread(G)) \in Nat
  BY <1>1, FS_CardinalityType
<1>11. QED
  BY <1>3, <1>8, <1>9, <1>10 DEF Swapped
-----------------------------------------------------------------------------
(* The cookie tables of idle peers.                                         *)

\* The numbers of slots a table grows through.
Sizes == CHOOSE S \in SUBSET (1 .. Times) : MinSlots \in S /\ \A n \in S : n = Times \/ 2 * n \in S

\* The places of a table, and those whose cookie is not older than x.
PlacesOf(tb) == IF tb.n = 0 THEN {} ELSE Slots(tb.n)
Since(tb, x) == {i \in PlacesOf(tb) : tb.at[i] # None /\ tb.at[i].real >= x}
AllPlaces(T) == Spread([p \in Peers |-> PlacesOf(T[p])])
AllSince(T, x) == Spread([p \in Peers |-> Since(T[p], x)])

\* A table of one of the sizes, with every cookie where its time and session say, none from after t.
Orderly(tb, t) ==
  \/ tb = NoTable
  \/ /\ DOMAIN tb = {"n", "at"} /\ tb.n \in Sizes /\ DOMAIN tb.at = Slots(tb.n)
     /\ \A i \in Slots(tb.n) : tb.at[i] # None =>
          Placed(tb, i) /\ tb.at[i].real \in 0 .. t

LEMMA SizesKnown ==
  /\ Sizes \subseteq 1 .. Times /\ Sizes \subseteq Nat \ {0} /\ MinSlots \in Sizes
  /\ \A n \in Sizes : n = Times \/ 2 * n \in Sizes
<1> DEFINE Doubles(S) == MinSlots \in S /\ \A n \in S : n = Times \/ 2 * n \in S
<1>1. \E S \in SUBSET (1 .. Times) : Doubles(S)
  BY PeersAssumption
<1>2. Sizes = CHOOSE S \in SUBSET (1 .. Times) : Doubles(S)
  BY ZenonT(60) DEF Sizes
<1>3. Sizes \in SUBSET (1 .. Times) /\ Doubles(Sizes)
  <2> HIDE DEF Doubles
  <2>1. QED
    BY <1>1, <1>2
<1>4. Times \in Nat
  BY PeersAssumption
<1>5. QED
  BY <1>3, <1>4

LEMMA SlotsFinite ==
  ASSUME NEW n \in Nat
  PROVE  IsFiniteSet(Slots(n)) /\ Cardinality(Slots(n)) = TotalSessions * n /\ Slots(0) = {}
<1> DEFINE S == 0 .. n - 1
           T == 0 .. TotalSessions - 1
<1>1. TotalSessions \in Nat \ {0}
  BY PeersAssumption
<1>2. IsFiniteSet(S) /\ Cardinality(S) = n
  <2>1. 0 \in Int /\ n - 1 \in Int
    OBVIOUS
  <2>2. /\ IsFiniteSet(0 .. n - 1)
        /\ Cardinality(0 .. n - 1) = IF 0 > n - 1 THEN 0 ELSE n - 1 - 0 + 1
    BY <2>1, FS_Interval
  <2>3. QED
    BY <2>2
<1>3. IsFiniteSet(T) /\ Cardinality(T) = TotalSessions
  <2>1. 0 \in Int /\ TotalSessions - 1 \in Int
    BY <1>1
  <2>2. /\ IsFiniteSet(T)
        /\ Cardinality(T) = IF 0 > TotalSessions - 1 THEN 0 ELSE TotalSessions - 1 - 0 + 1
    BY <2>1, FS_Interval
  <2>3. QED
    BY <1>1, <2>2
<1>4. Slots(n) = S \X T /\ Slots(0) = {}
  BY DEF Slots
<1> HIDE DEF S, T
<1>5. IsFiniteSet(S \X T) /\ Cardinality(S \X T) = Cardinality(S) * Cardinality(T)
  BY <1>2, <1>3, FS_Product
<1>6. Cardinality(S \X T) = TotalSessions * n
  <2>1. Cardinality(S \X T) = n * TotalSessions
    BY <1>2, <1>3, <1>5
  <2>2. n * TotalSessions = TotalSessions * n
    BY <1>1
  <2>3. QED
    BY <2>1, <2>2
<1>7. QED
  BY <1>4, <1>5, <1>6

LEMMA PlacesFinite ==
  ASSUME NEW tb, NEW t, Orderly(tb, t)
  PROVE  /\ tb.n \in Nat /\ PlacesOf(tb) = Slots(tb.n) /\ IsFiniteSet(PlacesOf(tb))
         /\ Cardinality(PlacesOf(tb)) = TotalSessions * tb.n
         /\ \A x : Since(tb, x) \subseteq PlacesOf(tb) /\ IsFiniteSet(Since(tb, x))
<1>1. tb.n \in Nat
  <2>1. tb = NoTable \/ tb.n \in Sizes
    BY DEF Orderly
  <2>2. NoTable.n = 0
    BY DEF NoTable
  <2>3. \A n \in Sizes : n \in Nat
    BY SizesKnown
  <2>4. QED
    BY <2>1, <2>2, <2>3
<1>2. PlacesOf(tb) = Slots(tb.n)
  BY <1>1, SlotsFinite DEF PlacesOf
<1>3. IsFiniteSet(PlacesOf(tb)) /\ Cardinality(PlacesOf(tb)) = TotalSessions * tb.n
  BY <1>1, <1>2, SlotsFinite
<1>4. \A x : Since(tb, x) \subseteq PlacesOf(tb)
  BY DEF Since
<1>5. QED
  BY <1>1, <1>2, <1>3, <1>4, FS_Subset
\* The ticks that connectsInWindow counts.
Span == CookieTimeout + 1

\* Place k of the ring buffer, counted back from the current one.
Behind(i, k) == IF i >= k THEN i - k ELSE i - k + Span

\* Tables are well formed, idle peers' alone, and their places are counted.
Stocked(h, free, t) ==
  /\ DOMAIN h.table = Peers /\ \A p \in Peers : Orderly(h.table[p], t)
  /\ \A p \in Peers : h.table[p] # NoTable => h.cookies /\ p \in free
  /\ h.window = Cardinality(AllPlaces(h.table))

\* D sums the counts of the last ticks.
Sums(h, D) ==
  /\ D \in [0 .. Span -> Nat] /\ D[0] = 0 /\ D[Span] = h.inWindow
  /\ \A k \in 0 .. CookieTimeout : D[k + 1] = D[k] + h.data[Behind(h.index, k)]

\* Every cookie of the last j ticks is in their counts.
Covers(T, D, t) == \A j \in 1 .. Span : Cardinality(AllSince(T, t + 1 - j)) <= D[j]

\* connectsInWindowData is a ring of counts, one of a tick.
Ring(h) == h.data \in [0 .. CookieTimeout -> Nat] /\ h.index \in 0 .. CookieTimeout

\* The cookies and their counts of a host at time t: no cookie is uncounted in its tick.
Cooked(h, free, t) == Stocked(h, free, t) /\ Ring(h) /\ \E D : Sums(h, D) /\ Covers(h.table, D, t)

LEMMA TimeoutNat == CookieTimeout \in Nat /\ Span \in Nat \ {0} /\ Span - 1 = CookieTimeout
  BY PeersAssumption DEF Span

LEMMA SpanPlaces ==
  /\ \A j \in 0 .. Span : j = 0 \/ (j - 1 \in 0 .. CookieTimeout /\ j - 1 \in 0 .. Span /\ j - 1 + 1 = j)
  /\ \A k \in 0 .. CookieTimeout : k \in 0 .. Span /\ k + 1 \in 0 .. Span /\ k + 1 \in 1 .. Span /\ k + 1 # 0
  /\ \A i, k \in 0 .. CookieTimeout : Behind(i, k) \in 0 .. CookieTimeout /\ (Behind(i, k) = i <=> k = 0)
  /\ Span \in 0 .. Span /\ 0 \in 0 .. Span /\ Span \in 1 .. Span /\ \A j \in 1 .. Span : j \in 0 .. Span /\ j # 0
  BY TimeoutNat DEF Behind

\* The sums when k more are counted in the current tick.
More(D, k) == [j \in 0 .. Span |-> IF j = 0 THEN 0 ELSE D[j] + k]

LEMMA SumsMore ==
  ASSUME NEW h, Ring(h), NEW D, Sums(h, D), NEW f, NEW k \in Nat,
         f.inWindow = h.inWindow + k, f.index = h.index, f.data = [h.data EXCEPT ![h.index] = @ + k]
  PROVE  Ring(f) /\ Sums(f, More(D, k))
<1> DEFINE E == More(D, k)
<1>1. /\ D \in [0 .. Span -> Nat] /\ D[0] = 0 /\ D[Span] = h.inWindow
      /\ \A i \in 0 .. CookieTimeout : D[i + 1] = D[i] + h.data[Behind(h.index, i)]
  BY DEF Sums
<1>2. /\ DOMAIN h.data = 0 .. CookieTimeout /\ \A i \in 0 .. CookieTimeout : h.data[i] \in Nat
      /\ h.index \in 0 .. CookieTimeout /\ h.data \in [0 .. CookieTimeout -> Nat]
  BY DEF Ring
<1>3. Ring(f)
  BY <1>2 DEF Ring
<1>4. E \in [0 .. Span -> Nat] /\ E[0] = 0 /\ \A j \in 0 .. Span : j # 0 => E[j] = D[j] + k
  <2>1. 0 \in 0 .. Span
    BY SpanPlaces
  <2>2. QED
    BY <1>1, <2>1 DEF More
<1> HIDE DEF E
<1>5. E[Span] = f.inWindow
  BY <1>1, <1>4, SpanPlaces, TimeoutNat
<1>6. ASSUME NEW i \in 0 .. CookieTimeout PROVE E[i + 1] = E[i] + f.data[Behind(f.index, i)]
  <2> DEFINE b == Behind(h.index, i)
  <2>1. b \in 0 .. CookieTimeout /\ (b = h.index <=> i = 0) /\ i \in 0 .. Span /\ i + 1 \in 0 .. Span /\ i + 1 # 0
    BY <1>2, SpanPlaces
  <2>2. D[i + 1] = D[i] + h.data[b] /\ h.data[b] \in Nat /\ D[i] \in Nat
    BY <1>1, <1>2, <2>1
  <2>3. E[i + 1] = D[i + 1] + k /\ (i # 0 => E[i] = D[i] + k)
    BY <1>4, <2>1
  <2>4. f.data[b] = IF b = h.index THEN h.data[b] + k ELSE h.data[b]
    BY <1>2, <2>1
  <2>5. Behind(f.index, i) = b
    OBVIOUS
  <2> HIDE DEF b
  <2>6. CASE i = 0
    BY <1>1, <1>4, <2>1, <2>2, <2>3, <2>4, <2>5, <2>6
  <2>7. CASE i # 0
    BY <2>1, <2>2, <2>3, <2>4, <2>5, <2>7
  <2>8. QED
    BY <2>6, <2>7
<1>7. QED
  BY <1>3, <1>4, <1>5, <1>6 DEF Sums, E

\* The table of q is replaced; k cookies more are counted in the current tick.
Retabled(h, f, q, k, t) ==
  /\ DOMAIN f.table = Peers /\ (\A p \in Peers \ {q} : f.table[p] = h.table[p]) /\ Orderly(f.table[q], t)
  /\ \A x : Cardinality(Since(f.table[q], x)) <= Cardinality(Since(h.table[q], x)) + k
  /\ f.window = h.window - TotalSessions * h.table[q].n + TotalSessions * f.table[q].n
  /\ f.inWindow = h.inWindow + k /\ f.index = h.index /\ f.data = [h.data EXCEPT ![h.index] = @ + k]

LEMMA TableSet ==
  ASSUME NEW h, NEW free, NEW t \in Nat, Cooked(h, free, t), NEW f, NEW q \in Peers, NEW k \in Nat,
         Retabled(h, f, q, k, t), NEW rest, \A p \in Peers : f.table[p] # NoTable => f.cookies /\ p \in rest
  PROVE  Cooked(f, rest, t)
<1>0. /\ DOMAIN f.table = Peers /\ (\A p \in Peers \ {q} : f.table[p] = h.table[p]) /\ Orderly(f.table[q], t)
      /\ \A x : Cardinality(Since(f.table[q], x)) <= Cardinality(Since(h.table[q], x)) + k
      /\ f.window = h.window - TotalSessions * h.table[q].n + TotalSessions * f.table[q].n
      /\ f.inWindow = h.inWindow + k /\ f.index = h.index /\ f.data = [h.data EXCEPT ![h.index] = @ + k]
  BY DEF Retabled
<1> USE <1>0
<1>1. PICK D : Sums(h, D) /\ Covers(h.table, D, t)
  BY DEF Cooked
<1>2. Stocked(h, free, t) /\ Ring(h)
  BY DEF Cooked
<1>3. /\ \A p \in Peers : Orderly(h.table[p], t) /\ Orderly(f.table[p], t)
      /\ h.window = Cardinality(AllPlaces(h.table)) /\ TotalSessions \in Nat
  BY <1>2, PeersAssumption DEF Stocked
<1> DEFINE E == More(D, k)
<1>4. Ring(f) /\ Sums(f, E)
  BY <1>1, <1>2, SumsMore
<1>5. f.window = Cardinality(AllPlaces(f.table))
  <2> DEFINE F == [p \in Peers |-> PlacesOf(h.table[p])]
             G == [p \in Peers |-> PlacesOf(f.table[p])]
  <2>1. \A p \in Peers : IsFiniteSet(F[p]) /\ IsFiniteSet(G[p])
    BY <1>3, PlacesFinite
  <2>2. \A p \in Peers \ {q} : G[p] = F[p]
    OBVIOUS
  <2>3. Cardinality(F[q]) = TotalSessions * h.table[q].n /\ Cardinality(G[q]) = TotalSessions * f.table[q].n
    BY <1>3, PlacesFinite
  <2>4. AllPlaces(h.table) = Spread(F) /\ AllPlaces(f.table) = Spread(G)
    BY DEF AllPlaces
  <2> HIDE DEF F, G
  <2>5. Swapped(F, G, q)
    BY <2>1, <2>2, SpreadSwap
  <2>6. QED
    BY <1>3, <2>3, <2>4, <2>5 DEF Swapped
<1>6. ASSUME NEW j \in 1 .. Span PROVE Cardinality(AllSince(f.table, t + 1 - j)) <= E[j]
  <2> DEFINE x == t + 1 - j
             F == [p \in Peers |-> Since(h.table[p], x)]
             G == [p \in Peers |-> Since(f.table[p], x)]
  <2>1. \A p \in Peers : IsFiniteSet(F[p]) /\ IsFiniteSet(G[p])
    BY <1>3, PlacesFinite
  <2>2. \A p \in Peers \ {q} : G[p] = F[p]
    OBVIOUS
  <2>3. Cardinality(G[q]) <= Cardinality(F[q]) + k
    OBVIOUS
  <2>4. AllSince(h.table, x) = Spread(F) /\ AllSince(f.table, x) = Spread(G)
    BY DEF AllSince
  <2>5. Cardinality(AllSince(h.table, x)) <= D[j]
    BY <1>1 DEF Covers
  <2>6. D[j] \in Nat /\ E[j] = D[j] + k
    BY <1>1, SpanPlaces DEF Sums, More
  <2> HIDE DEF F, G, E, x
  <2>7. Swapped(F, G, q)
    BY <2>1, <2>2, SpreadSwap
  <2>8. Cardinality(AllSince(f.table, x)) <= E[j]
    BY <2>3, <2>4, <2>5, <2>6, <2>7 DEF Swapped
  <2>9. QED
    BY <2>8 DEF x
<1> HIDE DEF E
<1>7. Covers(f.table, E, t)
  BY <1>6 DEF Covers
<1>8. Stocked(f, rest, t)
  BY <1>3, <1>5 DEF Stocked
<1>9. QED
  BY <1>4, <1>7, <1>8 DEF Cooked

\* Nothing about cookies changes from h to f.
SameBook(h, f) ==
  /\ f.cookies = h.cookies /\ f.table = h.table /\ f.window = h.window
  /\ f.inWindow = h.inWindow /\ f.data = h.data /\ f.index = h.index

LEMMA BookCooked ==
  ASSUME NEW h, NEW free, NEW t, Cooked(h, free, t), NEW f, SameBook(h, f),
         NEW rest, \A p \in Peers : p \in free /\ h.table[p] # NoTable => p \in rest
  PROVE  Cooked(f, rest, t)
<1>1. PICK D : Sums(h, D) /\ Covers(h.table, D, t)
  BY DEF Cooked
<1>2. Stocked(h, free, t) /\ Ring(h)
  BY DEF Cooked
<1>3. Sums(f, D) /\ Covers(f.table, D, t)
  BY <1>1 DEF Sums, Covers, SameBook
<1>4. Stocked(f, rest, t) /\ Ring(f)
  BY <1>2 DEF Stocked, Ring, SameBook
<1>5. QED
  BY <1>3, <1>4 DEF Cooked

\* A table loses cookies.
LEMMA TableLess ==
  ASSUME NEW h, NEW free, NEW t \in Nat, Cooked(h, free, t), NEW f, NEW q \in Peers,
         DOMAIN f.table = Peers, \A p \in Peers \ {q} : f.table[p] = h.table[p], Orderly(f.table[q], t),
         \A x : Since(f.table[q], x) \subseteq Since(h.table[q], x),
         f.window = h.window - TotalSessions * h.table[q].n + TotalSessions * f.table[q].n,
         f.inWindow = h.inWindow, f.index = h.index, f.data = h.data,
         NEW rest, \A p \in Peers : f.table[p] # NoTable => f.cookies /\ p \in rest
  PROVE  Cooked(f, rest, t)
<1>1. Ring(h) /\ Stocked(h, free, t) /\ \E D : Sums(h, D)
  BY DEF Cooked
<1>2. f.data = [h.data EXCEPT ![h.index] = @ + 0]
  BY <1>1 DEF Ring
<1>3. f.inWindow = h.inWindow + 0
  <2>1. h.inWindow \in Nat
    BY <1>1, SpanPlaces DEF Sums
  <2>2. QED
    BY <2>1
<1>4. ASSUME NEW x PROVE Cardinality(Since(f.table[q], x)) <= Cardinality(Since(h.table[q], x)) + 0
  <2> DEFINE S == Since(h.table[q], x)
             T == Since(f.table[q], x)
  <2>1. T \in SUBSET S
    OBVIOUS
  <2>2. Orderly(h.table[q], t)
    BY <1>1 DEF Stocked
  <2>3. IsFiniteSet(S)
    BY <2>2, PlacesFinite
  <2> HIDE DEF S, T
  <2>4. Cardinality(T) <= Cardinality(S) /\ Cardinality(S) \in Nat
    BY <2>1, <2>3, FS_Subset, FS_CardinalityType
  <2>5. Cardinality(T) <= Cardinality(S) + 0
    BY <2>4
  <2>6. QED
    BY <2>5 DEF S, T
<1>5. 0 \in Nat
  OBVIOUS
<1>6. Retabled(h, f, q, 0, t)
  BY <1>2, <1>3, <1>4 DEF Retabled
<1>7. QED
  BY <1>5, <1>6, TableSet

LEMMA NoTableEmpty == NoTable.n = 0 /\ PlacesOf(NoTable) = {} /\ \A x, t : Since(NoTable, x) = {} /\ Orderly(NoTable, t)
  BY DEF NoTable, PlacesOf, Since, Orderly

\* The table of a peer that leaves the idle ones, or that is reset, is given up.
LEMMA UntabledCooked ==
  ASSUME NEW h, DOMAIN h = HostFields, NEW free, NEW t \in Nat, Cooked(h, free, t), NEW p \in Peers,
         NEW rest, \A q \in free : q # p => q \in rest
  PROVE  Cooked(Untabled(h, p), rest, t)
<1> DEFINE f == Untabled(h, p)
           w == h.window - TotalSessions * h.table[p].n
<1>1. Stocked(h, free, t)
  BY DEF Cooked
<1>2. DOMAIN h.table = Peers /\ (\A q \in Peers : Orderly(h.table[q], t))
      /\ \A q \in Peers : h.table[q] # NoTable => h.cookies /\ q \in free
  BY <1>1 DEF Stocked
<1>3. h.table[p] # NoTable => h.table[p].n # 0 /\ h.table[p].n \in Nat
  <2>1. h.table[p] # NoTable => h.table[p].n \in Sizes
    BY <1>2 DEF Orderly
  <2>2. \A n \in Sizes : n \in Nat /\ n # 0
    BY SizesKnown
  <2>3. QED
    BY <2>1, <2>2
<1>4. CASE h.table[p] = NoTable
  <2>1. f = h
    BY <1>4, NoTableEmpty DEF Untabled
  <2>2. \A q \in Peers : q \in free /\ h.table[q] # NoTable => q \in rest
    BY <1>4
  <2>3. SameBook(h, f)
    BY <2>1 DEF SameBook
  <2>4. QED
    BY <2>2, <2>3, BookCooked
<1>5. CASE h.table[p] # NoTable
  <2>1. f = [h EXCEPT !.table[p] = NoTable, !.window = w]
    BY <1>2, <1>3, <1>5, ZenonT(60) DEF Untabled
  <2>2. w = h.window - TotalSessions * h.table[p].n + TotalSessions * NoTable.n
    <3>1. h.window \in Int /\ TotalSessions \in Nat
      <4> DEFINE F == [q \in Peers |-> PlacesOf(h.table[q])]
      <4>1. \A q \in Peers : IsFiniteSet(F[q])
        BY <1>2, PlacesFinite
      <4>2. h.window = Cardinality(Spread(F))
        BY <1>1 DEF Stocked, AllPlaces
      <4> HIDE DEF F
      <4>3. QED
        BY <4>1, <4>2, SpreadFinite, FS_CardinalityType, PeersAssumption
    <3>2. QED
      BY <1>3, <1>5, <3>1, NoTableEmpty
  <2> HIDE DEF w, f
  <2>3. /\ f.window = w /\ f.table = [h.table EXCEPT ![p] = NoTable] /\ f.cookies = h.cookies
        /\ f.inWindow = h.inWindow /\ f.index = h.index /\ f.data = h.data
    BY <2>1 DEF HostFields
  <2>4. DOMAIN f.table = Peers /\ f.table[p] = NoTable /\ \A q \in Peers \ {p} : f.table[q] = h.table[q]
    BY <1>2, <2>3
  <2>5. \A q \in Peers : f.table[q] # NoTable => f.cookies /\ q \in rest
    BY <1>2, <2>3, <2>4
  <2>6. Orderly(f.table[p], t) /\ \A x : Since(f.table[p], x) \subseteq Since(h.table[p], x)
    BY <2>4, NoTableEmpty
  <2>7. Cooked(f, rest, t)
    BY <2>2, <2>3, <2>4, <2>5, <2>6, TableLess
  <2>8. QED
    BY <2>7 DEF f
<1>6. QED
  BY <1>4, <1>5
LEMMA UsedCooked ==
  ASSUME NEW h, DOMAIN h = HostFields, NEW free, NEW t \in Nat, Cooked(h, free, t), NEW p \in Peers,
         h.table[p] # NoTable, NEW slot
  PROVE  Cooked([h EXCEPT !.table[p].at[slot] = None], free, t)
<1> DEFINE f == [h EXCEPT !.table[p].at[slot] = None]
           tb == h.table[p]
           less == [tb EXCEPT !.at[slot] = None]
<1>1. Stocked(h, free, t)
  BY DEF Cooked
<1>2. /\ DOMAIN h.table = Peers /\ (\A q \in Peers : Orderly(h.table[q], t))
      /\ \A q \in Peers : h.table[q] # NoTable => h.cookies /\ q \in free
  BY <1>1 DEF Stocked
<1>3. /\ DOMAIN tb = {"n", "at"} /\ tb.n \in Sizes /\ DOMAIN tb.at = Slots(tb.n)
      /\ \A i \in Slots(tb.n) : tb.at[i] # None =>
           Placed(tb, i) /\ tb.at[i].real \in 0 .. t
  BY <1>2 DEF Orderly
<1>4. f = [h EXCEPT !.table[p] = less]
  BY ZenonT(60) DEF less
<1> HIDE DEF f
<1>5. DOMAIN less = {"n", "at"} /\ less.n = tb.n /\ DOMAIN less.at = DOMAIN tb.at
      /\ \A i \in DOMAIN tb.at : less.at[i] = IF i = slot THEN None ELSE tb.at[i]
  BY <1>3
<1> HIDE DEF less
<1>6. /\ f.window = h.window /\ f.table = [h.table EXCEPT ![p] = less] /\ f.cookies = h.cookies
      /\ f.inWindow = h.inWindow /\ f.index = h.index /\ f.data = h.data
  BY <1>4 DEF HostFields
<1>7. DOMAIN f.table = Peers /\ f.table[p] = less /\ \A q \in Peers \ {p} : f.table[q] = h.table[q]
  BY <1>2, <1>6
<1>8. Orderly(less, t)
  <2>1. \A i \in Slots(tb.n) : less.at[i] # None => less.at[i] = tb.at[i] /\ tb.at[i] # None
    BY <1>3, <1>5
  <2> HIDE DEF tb
  <2>2. \A i \in Slots(tb.n) : less.at[i] # None =>
          Placed(less, i) /\ less.at[i].real \in 0 .. t
    BY <1>3, <1>5, <2>1 DEF Placed
  <2>3. QED
    BY <1>3, <1>5, <2>2 DEF Orderly
<1>9. \A x : Since(less, x) \subseteq Since(tb, x)
  <2> HIDE DEF tb
  <2>1. PlacesOf(less) = PlacesOf(tb)
    BY <1>5 DEF PlacesOf
  <2>2. \A i \in PlacesOf(tb) : less.at[i] # None => less.at[i] = tb.at[i]
    BY <1>3, <1>5 DEF PlacesOf
  <2>3. QED
    BY <2>1, <2>2 DEF Since
<1>10. f.window = h.window - TotalSessions * h.table[p].n + TotalSessions * f.table[p].n
  <2>1. h.window \in Int
    <3> DEFINE F == [q \in Peers |-> PlacesOf(h.table[q])]
    <3>1. \A q \in Peers : IsFiniteSet(F[q])
      BY <1>2, PlacesFinite
    <3>2. h.window = Cardinality(Spread(F))
      BY <1>1 DEF Stocked, AllPlaces
    <3> HIDE DEF F
    <3>3. QED
      BY <3>1, <3>2, SpreadFinite, FS_CardinalityType
  <2>2. TotalSessions * tb.n \in Int
    <3>1. \A n \in Sizes : n \in Nat
      BY SizesKnown
    <3>2. tb.n \in Nat /\ TotalSessions \in Nat
      BY <1>3, <3>1, PeersAssumption
    <3> HIDE DEF tb
    <3>3. QED
      BY <3>2
  <2> DEFINE z == TotalSessions * tb.n
  <2>3. TotalSessions * h.table[p].n = z /\ TotalSessions * f.table[p].n = z
    BY <1>5, <1>7
  <2> HIDE DEF z
  <2>4. QED
    BY <1>6, <2>1, <2>2, <2>3 DEF z
<1>11. \A q \in Peers : f.table[q] # NoTable => f.cookies /\ q \in free
  BY <1>2, <1>6, <1>7
<1>12. Orderly(f.table[p], t) /\ \A x : Since(f.table[p], x) \subseteq Since(h.table[p], x)
  BY <1>7, <1>8, <1>9
<1> HIDE DEF tb
<1>13. Cooked(f, free, t)
  BY <1>6, <1>7, <1>10, <1>11, <1>12, TableLess
<1>14. QED
  BY <1>13 DEF f

-----------------------------------------------------------------------------
(* The clock.                                                               *)

LEMMA NoneYet ==
  ASSUME NEW T, NEW t \in Nat, \A p \in Peers : Orderly(T[p], t)
  PROVE  Cardinality(AllSince(T, t + 1)) = 0
<1>1. ASSUME NEW p \in Peers PROVE Since(T[p], t + 1) = {}
  <2>1. CASE T[p] = NoTable
    BY <2>1, NoTableEmpty
  <2>2. CASE T[p] # NoTable
    <3>1. \A i \in PlacesOf(T[p]) : T[p].at[i] # None => T[p].at[i].real \in 0 .. t
      BY <2>2 DEF Orderly, PlacesOf
    <3>2. \A n \in 0 .. t : ~ (n >= t + 1)
      OBVIOUS
    <3>3. QED
      BY <3>1, <3>2 DEF Since
  <2>3. QED
    BY <2>1, <2>2
<1>2. AllSince(T, t + 1) = {}
  BY <1>1 DEF AllSince, Spread
<1>3. QED
  BY <1>2, FS_EmptySet

LEMMA OrderlyLater ==
  ASSUME NEW tb, NEW t \in Nat, Orderly(tb, t)
  PROVE  Orderly(tb, t + 1)
<1>1. \A n \in 0 .. t : n \in 0 .. t + 1
  OBVIOUS
<1>2. QED
  BY <1>1 DEF Orderly

\* A tick within the current count: it covers the last two ticks then.
LEMMA LaterCooked ==
  ASSUME NEW h, NEW free, NEW t \in Nat, Cooked(h, free, t)
  PROVE  Cooked(h, free, t + 1)
<1>1. PICK D : Sums(h, D) /\ Covers(h.table, D, t)
  BY DEF Cooked
<1>2. Stocked(h, free, t) /\ Ring(h)
  BY DEF Cooked
<1>3. Stocked(h, free, t + 1)
  BY <1>2, OrderlyLater DEF Stocked
<1>4. D \in [0 .. Span -> Nat]
  BY <1>1 DEF Sums
<1>5. ASSUME NEW j \in 1 .. Span PROVE Cardinality(AllSince(h.table, t + 1 + 1 - j)) <= D[j]
  <2>1. CASE j = 1
    <3>1. t + 1 + 1 - j = t + 1
      BY <2>1
    <3>2. Cardinality(AllSince(h.table, t + 1)) = 0
      BY <1>2, NoneYet DEF Stocked
    <3>3. D[j] \in Nat
      BY <1>4, SpanPlaces
    <3>4. QED
      BY <3>1, <3>2, <3>3
  <2>2. CASE j # 1
    <3> DEFINE k == j - 1
    <3>1. k \in 1 .. Span /\ k \in 0 .. CookieTimeout /\ k + 1 = j /\ t + 1 + 1 - j = t + 1 - k
      BY <2>2, TimeoutNat
    <3> HIDE DEF k
    <3>2. Cardinality(AllSince(h.table, t + 1 - k)) <= D[k]
      BY <1>1, <3>1 DEF Covers
    <3>3. D[k + 1] = D[k] + h.data[Behind(h.index, k)] /\ h.data[Behind(h.index, k)] \in Nat
      BY <1>1, <1>2, <3>1, SpanPlaces DEF Sums, Ring
    <3>4. D[k] \in Nat
      BY <1>4, <3>1, SpanPlaces
    <3> DEFINE a == Cardinality(AllSince(h.table, t + 1 - k))
    <3>5. a \in Nat
      <4> DEFINE F == [p \in Peers |-> Since(h.table[p], t + 1 - k)]
      <4>1. \A p \in Peers : IsFiniteSet(F[p])
        BY <1>2, PlacesFinite DEF Stocked
      <4>2. a = Cardinality(Spread(F))
        BY DEF AllSince
      <4> HIDE DEF F, a
      <4>3. QED
        BY <4>1, <4>2, SpreadFinite, FS_CardinalityType
    <3>6. Cardinality(AllSince(h.table, t + 1 + 1 - j)) = a
      BY <3>1
    <3> HIDE DEF a
    <3>7. QED
      BY <3>1, <3>2, <3>3, <3>4, <3>5, <3>6 DEF a
  <2>3. QED
    BY <2>1, <2>2
<1>6. Covers(h.table, D, t + 1)
  BY <1>5 DEF Covers
<1>7. QED
  BY <1>1, <1>2, <1>3, <1>6 DEF Cooked

\* The sums when a tick begins.
Shifted(D) == [j \in 0 .. Span |-> IF j = 0 THEN 0 ELSE D[j - 1]]

\* A tick beyond the current count: the oldest one is dropped, and begins anew.
LEMMA ShiftCooked ==
  ASSUME NEW h, NEW free, NEW t \in Nat, Cooked(h, free, t), NEW f, NEW i,
         i = (h.index + 1) % (CookieTimeout + 1),
         f.cookies = h.cookies, f.table = h.table, f.window = h.window,
         f.index = i, f.inWindow = h.inWindow - h.data[i], f.data = [h.data EXCEPT ![i] = 0]
  PROVE  Cooked(f, free, t + 1)
<1>1. PICK D : Sums(h, D) /\ Covers(h.table, D, t)
  BY DEF Cooked
<1>2. Stocked(h, free, t) /\ Ring(h)
  BY DEF Cooked
<1>3. Stocked(f, free, t + 1)
  BY <1>2, OrderlyLater DEF Stocked
<1>4. /\ D \in [0 .. Span -> Nat] /\ D[0] = 0 /\ D[Span] = h.inWindow
      /\ \A k \in 0 .. CookieTimeout : D[k + 1] = D[k] + h.data[Behind(h.index, k)]
  BY <1>1 DEF Sums
<1>5. h.data \in [0 .. CookieTimeout -> Nat] /\ h.index \in 0 .. CookieTimeout
  BY <1>2 DEF Ring
<1>6. /\ i \in 0 .. CookieTimeout /\ Behind(h.index, CookieTimeout) = i
      /\ \A k \in 0 .. CookieTimeout : k # 0 => k - 1 \in 0 .. CookieTimeout /\ Behind(i, k) = Behind(h.index, k - 1)
  <2> DEFINE c == CookieTimeout
             x == h.index
  <2>1. c \in Nat /\ x \in 0 .. c /\ i = (x + 1) % (c + 1) /\ Span = c + 1
    BY <1>5, TimeoutNat DEF Span
  <2> HIDE DEF c, x
  <2>2. CASE x = c
    <3>1. i = 0
      BY <2>1, <2>2
    <3>2. i \in 0 .. c /\ Behind(x, c) = i /\ \A k \in 0 .. c : k # 0 => k - 1 \in 0 .. c /\ Behind(i, k) = Behind(x, k - 1)
      BY <2>1, <2>2, <3>1 DEF Behind
    <3>3. QED
      BY <3>2 DEF c, x
  <2>3. CASE x # c
    <3>1. i = x + 1
      BY <2>1, <2>3
    <3>2. i \in 0 .. c /\ Behind(x, c) = i /\ \A k \in 0 .. c : k # 0 => k - 1 \in 0 .. c /\ Behind(i, k) = Behind(x, k - 1)
      BY <2>1, <2>3, <3>1 DEF Behind
    <3>3. QED
      BY <3>2 DEF c, x
  <2>4. QED
    BY <2>2, <2>3
<1> DEFINE E == Shifted(D)
<1>7. E \in [0 .. Span -> Nat] /\ E[0] = 0 /\ \A j \in 0 .. Span : j # 0 => E[j] = D[j - 1]
  <2>1. 0 \in 0 .. Span /\ \A j \in 0 .. Span : j # 0 => j - 1 \in 0 .. Span
    BY SpanPlaces
  <2>2. QED
    BY <1>4, <2>1 DEF Shifted
<1> HIDE DEF E
<1>8. Ring(f)
  BY <1>5, <1>6 DEF Ring
<1>9. E[Span] = f.inWindow
  <2>1. CookieTimeout \in 0 .. CookieTimeout /\ CookieTimeout + 1 = Span /\ CookieTimeout \in 0 .. Span
        /\ Span \in 0 .. Span /\ Span # 0 /\ Span - 1 = CookieTimeout
    BY TimeoutNat DEF Span
  <2>2. D[Span] = D[CookieTimeout] + h.data[i] /\ D[CookieTimeout] \in Nat /\ h.data[i] \in Nat
    BY <1>4, <1>5, <1>6, <2>1
  <2>3. E[Span] = D[CookieTimeout]
    BY <1>7, <2>1
  <2>4. QED
    BY <1>4, <2>2, <2>3
<1>10. ASSUME NEW k \in 0 .. CookieTimeout PROVE E[k + 1] = E[k] + f.data[Behind(f.index, k)]
  <2>1. k \in 0 .. Span /\ k + 1 \in 0 .. Span /\ k + 1 # 0 /\ k + 1 - 1 = k
    BY SpanPlaces
  <2>2. E[k + 1] = D[k]
    BY <1>7, <2>1
  <2>3. CASE k = 0
    <3>1. Behind(f.index, k) = i
      BY <1>6, <2>3, SpanPlaces
    <3>2. f.data[i] = 0
      BY <1>5, <1>6
    <3>3. QED
      BY <1>4, <1>7, <2>2, <2>3, <3>1, <3>2
  <2>4. CASE k # 0
    <3> DEFINE b == Behind(h.index, k - 1)
    <3>1. k - 1 \in 0 .. CookieTimeout /\ Behind(f.index, k) = b /\ k - 1 + 1 = k
      BY <1>6, <2>4
    <3>2. b \in 0 .. CookieTimeout /\ b # i
      BY <1>5, <1>6, <2>4, <3>1, SpanPlaces
    <3>3. D[k] = D[k - 1] + h.data[b] /\ E[k] = D[k - 1]
      BY <1>4, <1>7, <2>1, <2>4, <3>1
    <3>4. f.data[b] = h.data[b]
      BY <1>5, <3>2
    <3> HIDE DEF b
    <3>5. QED
      BY <2>2, <3>1, <3>3, <3>4
  <2>5. QED
    BY <2>3, <2>4
<1>11. ASSUME NEW j \in 1 .. Span PROVE Cardinality(AllSince(f.table, t + 1 + 1 - j)) <= E[j]
  <2>0. j \in 0 .. Span /\ j # 0
    BY SpanPlaces
  <2>1. CASE j = 1
    <3>1. t + 1 + 1 - j = t + 1
      BY <2>1
    <3>2. Cardinality(AllSince(f.table, t + 1)) = 0
      BY <1>2, NoneYet DEF Stocked
    <3>3. E[j] \in Nat
      BY <1>7, <2>0
    <3>4. QED
      BY <3>1, <3>2, <3>3
  <2>2. CASE j # 1
    <3> DEFINE k == j - 1
    <3>1. k \in 1 .. Span /\ t + 1 + 1 - j = t + 1 - k
      BY <2>2, TimeoutNat
    <3>2. E[j] = D[k]
      BY <1>7, <2>0
    <3> HIDE DEF k
    <3>3. Cardinality(AllSince(h.table, t + 1 - k)) <= D[k]
      BY <1>1, <3>1 DEF Covers
    <3>4. QED
      BY <3>1, <3>2, <3>3
  <2>3. QED
    BY <2>1, <2>2
<1>12. Covers(f.table, E, t + 1)
  BY <1>11 DEF Covers
<1>13. Sums(f, E)
  BY <1>7, <1>9, <1>10 DEF Sums
<1>14. QED
  BY <1>3, <1>8, <1>12, <1>13 DEF Cooked

\* All tables are given up.
LEMMA ClearedCooked ==
  ASSUME NEW f, f.table = [p \in Peers |-> NoTable], f.window = 0, Ring(f), NEW D, Sums(f, D), NEW free, NEW t
  PROVE  Cooked(f, free, t)
<1>1. DOMAIN f.table = Peers /\ \A p \in Peers : f.table[p] = NoTable
  OBVIOUS
<1>2. AllPlaces(f.table) = {} /\ \A x : AllSince(f.table, x) = {}
  BY <1>1, NoTableEmpty DEF AllPlaces, AllSince, Spread
<1>3. Cardinality({}) = 0
  BY FS_EmptySet
<1>4. Stocked(f, free, t)
  <2>1. \A p \in Peers : Orderly(f.table[p], t)
    BY <1>1 DEF Orderly
  <2>2. Cardinality(AllPlaces(f.table)) = 0
    BY <1>2, <1>3
  <2>3. QED
    BY <1>1, <2>1, <2>2 DEF Stocked
<1>5. Covers(f.table, D, t)
  <2>1. \A j \in 1 .. Span : D[j] \in Nat /\ D[j] >= 0
    <3>1. D \in [0 .. Span -> Nat]
      BY DEF Sums
    <3>2. \A j \in 1 .. Span : j \in 0 .. Span
      BY SpanPlaces
    <3>3. \A n \in Nat : n >= 0
      OBVIOUS
    <3>4. QED
      BY <3>1, <3>2, <3>3
  <2>2. \A j \in 1 .. Span : Cardinality(AllSince(f.table, t + 1 - j)) = 0
    BY <1>2, <1>3
  <2>3. QED
    BY <2>1, <2>2 DEF Covers
<1>6. QED
  BY <1>4, <1>5 DEF Cooked
-----------------------------------------------------------------------------
(* Storing a cookie.                                                        *)

\* A table of twice the slots holds the same cookies, or fewer.
LEMMA MaxIn ==
  ASSUME NEW m \in Nat, NEW S \in SUBSET (0 .. m - 1), S # {}
  PROVE  Max(S) \in S
<1> DEFINE T == {m - x : x \in S}
<1>1. T \in SUBSET Nat /\ T # {}
  OBVIOUS
<1>2. PICK y \in T : \A z \in T : y <= z
  BY <1>1, LeastNat
<1>3. PICK x \in S : y = m - x
  BY <1>2
<1>4. \A z \in S : x >= z
  <2> SUFFICES ASSUME NEW z \in S PROVE x >= z
    OBVIOUS
  <2>1. m - x <= m - z
    BY <1>2, <1>3
  <2>2. x \in Int /\ z \in Int
    OBVIOUS
  <2>3. QED
    BY <2>1, <2>2
<1>5. Max(S) = CHOOSE v \in S : \A z \in S : v >= z
  BY ZenonT(60) DEF Max
<1>6. QED
  BY <1>4, <1>5

LEMMA ExtendedFits ==
  ASSUME NEW tb, NEW t \in Nat, Orderly(tb, t), tb # NoTable, tb.n # Times
  PROVE  /\ Orderly(Extended(tb), t) /\ Extended(tb) # NoTable
         /\ \A x : Cardinality(Since(Extended(tb), x)) <= Cardinality(Since(tb, x))
<1> DEFINE n == 2 * tb.n
           Rows(i) == {k \in 0 .. tb.n - 1 : tb.at[<<k, i[2]>>] # None /\ tb.at[<<k, i[2]>>].t % n = i[1]}
           Old(i) == <<Max(Rows(i)), i[2]>>
           at == [i \in Slots(n) |-> IF Rows(i) = {} THEN None ELSE tb.at[Old(i)]]
           e == Extended(tb)
<1>1. e = [n |-> n, at |-> at]
  BY ZenonT(60) DEF Extended
<1> HIDE DEF e
<1>2. /\ tb.n \in Sizes /\ DOMAIN tb.at = Slots(tb.n)
      /\ \A i \in Slots(tb.n) : tb.at[i] # None => Placed(tb, i) /\ tb.at[i].real \in 0 .. t
  BY DEF Orderly
<1>0. tb.n \in Nat
  BY <1>2, SizesKnown
<1>3. n \in Sizes /\ n # 0
  <2>1. n \in Sizes
    BY <1>2, SizesKnown
  <2> HIDE DEF n
  <2>2. \A k \in Sizes : k # 0
    BY SizesKnown
  <2>3. QED
    BY <2>1, <2>2
<1> HIDE DEF n
<1>4. ASSUME NEW i \in Slots(n), at[i] # None
      PROVE  /\ Old(i) \in Slots(tb.n) /\ Old(i)[2] = i[2] /\ at[i].t % n = i[1]
             /\ tb.at[Old(i)] = at[i] /\ tb.at[Old(i)] # None
  <2>1. at[i] = IF Rows(i) = {} THEN None ELSE tb.at[Old(i)]
    OBVIOUS
  <2> HIDE DEF at
  <2>2. Rows(i) # {} /\ at[i] = tb.at[Old(i)]
    BY <1>4, <2>1
  <2> DEFINE k == Max(Rows(i))
  <2>3. k \in Rows(i)
    <3> DEFINE S == Rows(i)
    <3>1. S \in SUBSET (0 .. tb.n - 1) /\ S # {}
      BY <2>2
    <3> HIDE DEF S
    <3>2. Max(S) \in S
      BY <1>0, <3>1, MaxIn
    <3>3. QED
      BY <3>2 DEF S
  <2> HIDE DEF k
  <2>4. k \in 0 .. tb.n - 1 /\ tb.at[<<k, i[2]>>] # None /\ tb.at[<<k, i[2]>>].t % n = i[1]
    BY <2>3
  <2>5. Old(i) = <<k, i[2]>>
    BY DEF k
  <2> HIDE DEF Old, Rows
  <2>6. <<k, i[2]>> \in Slots(tb.n)
    BY <2>4 DEF Slots
  <2>7. QED
    BY <2>2, <2>4, <2>5, <2>6
<1>5. DOMAIN e = {"n", "at"} /\ e.n = n /\ e.at = at /\ DOMAIN at = Slots(n)
  BY <1>1
<1> HIDE DEF at, Old, Rows
<1>6. Orderly(e, t)
  <2>1. ASSUME NEW i \in Slots(n), at[i] # None PROVE Placed(e, i) /\ at[i].real \in 0 .. t
    <3>1. /\ Old(i) \in Slots(tb.n) /\ Old(i)[2] = i[2] /\ at[i].t % n = i[1]
          /\ tb.at[Old(i)] = at[i] /\ tb.at[Old(i)] # None
      BY <1>4, <2>1
    <3>2. Placed(tb, Old(i)) /\ at[i].real \in 0 .. t
      BY <1>2, <3>1
    <3>3. i = <<i[1], i[2]>>
      BY DEF Slots
    <3>4. CASE tb.at[Old(i)].stray
      BY <1>5, <3>1, <3>2, <3>4 DEF Placed
    <3>5. CASE Old(i) = <<tb.at[Old(i)].t % tb.n, tb.at[Old(i)].sess>>
      <4>1. Old(i)[2] = at[i].sess
        BY <3>1, <3>5
      <4>2. i = <<at[i].t % n, at[i].sess>>
        BY <3>1, <3>3, <4>1
      <4>3. QED
        BY <1>5, <3>2, <4>2 DEF Placed
    <3>6. QED
      BY <3>2, <3>4, <3>5 DEF Placed
  <2>2. QED
    BY <1>3, <1>5, <2>1 DEF Orderly
<1>7. e # NoTable
  BY <1>3, <1>5, NoTableEmpty
<1>8. ASSUME NEW x PROVE Cardinality(Since(e, x)) <= Cardinality(Since(tb, x))
  <2> DEFINE S == Since(e, x)
             T == Since(tb, x)
             f == [i \in S |-> Old(i)]
  <2>1. \A i \in S : i \in Slots(n) /\ at[i] # None /\ at[i].real >= x
    BY <1>3, <1>5 DEF Since, PlacesOf
  <2>2. tb.n # 0
    BY <1>2, SizesKnown
  <2>3. ASSUME NEW i \in S PROVE Old(i) \in T
    <3>1. Old(i) \in Slots(tb.n) /\ tb.at[Old(i)] = at[i] /\ tb.at[Old(i)] # None
      BY <1>4, <2>1
    <3>2. QED
      BY <2>1, <2>2, <3>1 DEF Since, PlacesOf
  <2> HIDE DEF S, T
  <2>5. f \in [S -> T] /\ \A i \in S : f[i] = Old(i)
    BY <2>3
  <2> HIDE DEF f
  <2>6. ASSUME NEW i \in S, NEW j \in S, f[i] = f[j] PROVE i = j
    <3>1. Old(i) = Old(j)
      BY <2>5, <2>6
    <3>2. /\ Old(i)[2] = i[2] /\ at[i].t % n = i[1] /\ tb.at[Old(i)] = at[i]
          /\ Old(j)[2] = j[2] /\ at[j].t % n = j[1] /\ tb.at[Old(j)] = at[j]
      BY <1>4, <2>1
    <3>3. i[1] = j[1] /\ i[2] = j[2]
      BY <3>1, <3>2
    <3>4. i = <<i[1], i[2]>> /\ j = <<j[1], j[2]>>
      BY <2>1 DEF Slots
    <3>5. QED
      BY <3>3, <3>4
  <2>7. f \in Injection(S, T)
    BY <2>5, <2>6 DEF Injection, IsInjective
  <2>8. IsFiniteSet(T)
    BY PlacesFinite DEF T
  <2>9. Cardinality(S) <= Cardinality(T)
    BY <2>7, <2>8, FS_Injection
  <2>10. QED
    BY <2>9 DEF S, T
<1>9. QED
  BY <1>6, <1>7, <1>8 DEF e

LEMMA StoredCooked ==
  ASSUME NEW h, DOMAIN h = HostFields, NEW free, NEW t \in Nat, Cooked(h, free, t), h.cookies,
         NEW p \in Peers, p \in free, NEW tb, Orderly(tb, t), tb # NoTable,
         \A x : Cardinality(Since(tb, x)) <= Cardinality(Since(h.table[p], x)), NEW c, c.real = t,
         NEW slot, c.stray \/ slot = <<c.t % tb.n, c.sess>>
  PROVE  Cooked(Stored(h, p, tb, slot, c), free, t)
<1> DEFINE f == Stored(h, p, tb, slot, c)
           new == [tb EXCEPT !.at[slot] = c]
           w == h.window + TotalSessions * (tb.n - h.table[p].n)
<1>1. f = [h EXCEPT !.table[p] = new, !.window = w, !.inWindow = @ + 1, !.data[h.index] = @ + 1]
  BY ZenonT(60) DEF Stored
<1>2. Stocked(h, free, t)
  BY DEF Cooked
<1>3. /\ DOMAIN h.table = Peers /\ (\A q \in Peers : Orderly(h.table[q], t))
      /\ \A q \in Peers : h.table[q] # NoTable => h.cookies /\ q \in free
  BY <1>2 DEF Stocked
<1>4. /\ DOMAIN tb = {"n", "at"} /\ tb.n \in Sizes /\ DOMAIN tb.at = Slots(tb.n)
      /\ \A i \in Slots(tb.n) : tb.at[i] # None =>
           Placed(tb, i) /\ tb.at[i].real \in 0 .. t
  BY DEF Orderly
<1> HIDE DEF f
<1>5. DOMAIN new = {"n", "at"} /\ new.n = tb.n /\ DOMAIN new.at = DOMAIN tb.at
      /\ \A i \in DOMAIN tb.at : new.at[i] = IF i = slot THEN c ELSE tb.at[i]
  BY <1>4
<1> HIDE DEF new
<1>6. Orderly(new, t)
  <2>1. t \in 0 .. t
    OBVIOUS
  <2>2. \A i \in Slots(tb.n) : new.at[i] # None =>
          Placed(new, i) /\ new.at[i].real \in 0 .. t
    BY <1>4, <1>5, <2>1 DEF Placed
  <2>3. QED
    BY <1>4, <1>5, <2>2 DEF Orderly
<1>7. ASSUME NEW x PROVE Cardinality(Since(new, x)) <= Cardinality(Since(h.table[p], x)) + 1
  <2> DEFINE S == Since(new, x)
             T == Since(tb, x)
             U == Since(h.table[p], x)
  <2>1. S \subseteq T \cup {slot}
    <3>1. PlacesOf(new) = PlacesOf(tb)
      BY <1>5 DEF PlacesOf
    <3>2. \A i \in PlacesOf(tb) : i # slot => new.at[i] = tb.at[i]
      BY <1>4, <1>5 DEF PlacesOf
    <3>3. QED
      BY <3>1, <3>2 DEF Since
  <2>2. IsFiniteSet(T) /\ IsFiniteSet(U)
    BY <1>3, PlacesFinite
  <2>3. Cardinality(T) <= Cardinality(U)
    OBVIOUS
  <2> HIDE DEF S, T, U
  <2>4. IsFiniteSet(T \cup {slot}) /\ Cardinality(T \cup {slot}) = IF slot \in T THEN Cardinality(T) ELSE Cardinality(T) + 1
    BY <2>2, FS_AddElement
  <2>5. S \in SUBSET (T \cup {slot})
    BY <2>1
  <2>6. IsFiniteSet(S) /\ Cardinality(S) <= Cardinality(T \cup {slot})
    BY <2>4, <2>5, FS_Subset
  <2>7. Cardinality(S) \in Nat /\ Cardinality(T) \in Nat /\ Cardinality(U) \in Nat
    BY <2>2, <2>6, FS_CardinalityType
  <2>8. Cardinality(S) <= Cardinality(U) + 1
    BY <2>3, <2>4, <2>6, <2>7
  <2>9. QED
    BY <2>8 DEF S, U
<1> HIDE DEF w
<1>8. /\ f.window = w /\ f.table = [h.table EXCEPT ![p] = new] /\ f.cookies = h.cookies
      /\ f.inWindow = h.inWindow + 1 /\ f.index = h.index /\ f.data = [h.data EXCEPT ![h.index] = @ + 1]
  BY <1>1 DEF HostFields
<1>9. DOMAIN f.table = Peers /\ f.table[p] = new /\ \A q \in Peers \ {p} : f.table[q] = h.table[q]
  BY <1>3, <1>8
<1>10. f.window = h.window - TotalSessions * h.table[p].n + TotalSessions * f.table[p].n
  <2>1. h.window \in Int
    <3> DEFINE F == [q \in Peers |-> PlacesOf(h.table[q])]
    <3>1. \A q \in Peers : IsFiniteSet(F[q])
      BY <1>3, PlacesFinite
    <3>2. h.window = Cardinality(Spread(F))
      BY <1>2 DEF Stocked, AllPlaces
    <3> HIDE DEF F
    <3>3. QED
      BY <3>1, <3>2, SpreadFinite, FS_CardinalityType
  <2> DEFINE a == h.table[p].n
             b == tb.n
  <2>2. a \in Nat /\ b \in Nat /\ TotalSessions \in Nat
    BY <1>3, PlacesFinite, PeersAssumption
  <2>3. f.table[p].n = b
    BY <1>5, <1>9
  <2>4. w = h.window + TotalSessions * (b - a)
    BY DEF w
  <2> HIDE DEF a, b
  <2>5. TotalSessions * (b - a) = TotalSessions * b - TotalSessions * a
        /\ TotalSessions * b \in Int /\ TotalSessions * a \in Int
    BY <2>2
  <2>6. f.window = h.window - TotalSessions * a + TotalSessions * f.table[p].n
    BY <1>8, <2>1, <2>3, <2>4, <2>5
  <2>7. QED
    BY <2>6 DEF a
<1>11. \A q \in Peers : f.table[q] # NoTable => f.cookies /\ q \in free
  BY <1>3, <1>8, <1>9
<1>12. Orderly(f.table[p], t) /\ \A x : Cardinality(Since(f.table[p], x)) <= Cardinality(Since(h.table[p], x)) + 1
  BY <1>6, <1>7, <1>9
<1>13. 1 \in Nat
  OBVIOUS
<1>14. Retabled(h, f, p, 1, t)
  BY <1>8, <1>9, <1>10, <1>12 DEF Retabled
<1>15. Cooked(f, free, t)
  BY <1>11, <1>13, <1>14, TableSet
<1>16. QED
  BY <1>15 DEF f

-----------------------------------------------------------------------------
(* Drawing a place for a cookie.                                            *)

LEMMA Quotient ==
  ASSUME NEW n \in Nat \ {0}, NEW q \in Nat, NEW r \in 0 .. n - 1
  PROVE  (q * n + r) \div n = q /\ (q * n + r) % n = r
  OBVIOUS

LEMMA Times3 ==
  ASSUME NEW a \in Nat, NEW b \in Nat, NEW c \in Nat, a <= b
  PROVE  a * c <= b * c /\ a * c \in Nat /\ b * c \in Nat
  OBVIOUS

LEMMA Assoc ==
  ASSUME NEW i \in Nat, NEW m \in Nat, NEW s \in Nat, NEW a \in Nat
  PROVE  (i * m + a) * s = i * (s * m) + a * s
<1>1. (i * m + a) * s = (i * m) * s + a * s
  OBVIOUS
<1>2. (i * m) * s = i * (s * m)
  OBVIOUS
<1>3. QED
  BY <1>1, <1>2

Product3(s, m, n) == s * m * n
Names3(r, s, m, i, a, b) == r % s = b /\ (r \div s) % m = a /\ r \div (s * m) = i

\* Which random names a session, a time and a peer.
LEMMA RandomFor ==
  ASSUME NEW s \in Nat \ {0}, NEW m \in Nat \ {0}, NEW n \in Nat, NEW i \in 0 .. n - 1, NEW a \in 0 .. m - 1, NEW b \in 0 .. s - 1
  PROVE  \E r \in 0 .. Product3(s, m, n) - 1 : Names3(r, s, m, i, a, b)
<1> DEFINE u == i * m + a
           r == u * s + b
           v == a * s + b
           k == s * m
<1>1. i \in Nat /\ a \in Nat /\ b \in Nat /\ u \in Nat /\ k \in Nat \ {0}
  OBVIOUS
<1>2. r % s = b /\ r \div s = u
  <2> HIDE DEF u
  <2>1. QED
    BY <1>1, Quotient
<1>3. u % m = a
  BY <1>1, Quotient
<1>4. r = i * k + v
  <2>1. u * s = i * k + a * s
    BY <1>1, Assoc
  <2>2. i * k \in Nat /\ a * s \in Nat
    BY <1>1
  <2> HIDE DEF u, k
  <2>3. QED
    BY <1>1, <2>1, <2>2
<1>5. v \in 0 .. k - 1
  <2>1. a * s + s <= m * s
    <3>1. (a + 1) * s <= m * s
      BY <1>1, Times3
    <3>2. (a + 1) * s = a * s + s
      BY <1>1
    <3>3. QED
      BY <3>1, <3>2
  <2>2. m * s = k /\ a * s \in Nat
    BY <1>1
  <2> HIDE DEF k
  <2>3. QED
    BY <1>1, <2>1, <2>2
<1> HIDE DEF k, v, r
<1>6. r \div k = i
  BY <1>1, <1>4, <1>5, Quotient
<1>7. r \in 0 .. k * n - 1
  <2>1. i * k + k <= n * k
    <3>1. (i + 1) * k <= n * k
      BY <1>1, Times3
    <3>2. (i + 1) * k = i * k + k
      BY <1>1
    <3>3. QED
      BY <3>1, <3>2
  <2>2. n * k = k * n /\ i * k \in Nat /\ k * n \in Nat
    BY <1>1
  <2>3. QED
    BY <1>1, <1>4, <1>5, <2>1, <2>2
<1>8. QED
  BY <1>2, <1>3, <1>6, <1>7 DEF k, u, Product3, Names3

LEMMA Turn ==
  ASSUME NEW n \in Nat \ {0}, NEW x \in Nat, NEW r \in 0 .. n - 1
  PROVE  \E k \in 0 .. n - 1 : (x + k) % n = r
<1> DEFINE q == x \div n
           m == x % n
<1>1. m \in 0 .. n - 1 /\ q \in Int /\ x = n * q + m
  OBVIOUS
<1>2. q \in Nat
  OBVIOUS
<1>3. n * q = q * n /\ (q + 1) * n = q * n + n /\ q * n \in Nat
  BY <1>2
<1> HIDE DEF q, m
<1>4. CASE r >= m
  <2>1. r - m \in 0 .. n - 1 /\ x + (r - m) = q * n + r
    BY <1>1, <1>3, <1>4
  <2>2. (q * n + r) % n = r
    BY <1>2, Quotient
  <2>3. QED
    BY <2>1, <2>2
<1>5. CASE r < m
  <2>1. r - m + n \in 0 .. n - 1 /\ x + (r - m + n) = (q + 1) * n + r
    BY <1>1, <1>3, <1>5
  <2>2. ((q + 1) * n + r) % n = r
    BY <1>2, Quotient
  <2>3. QED
    BY <2>1, <2>2
<1>6. QED
  BY <1>1, <1>4, <1>5

LEMMA Percent ==
  ASSUME NEW w \in Nat \ {0}, NEW c \in Nat, w <= c
  PROVE  ~ ((c * 100) \div w < 100)
<1> DEFINE x == c * 100
           q == x \div w
           m == x % w
<1>1. m \in 0 .. w - 1 /\ q \in Int /\ x = w * q + m /\ x \in Nat /\ x >= w * 100
  OBVIOUS
<1> HIDE DEF q, m, x
<1>2. ASSUME q < 100 PROVE FALSE
  <2>1. q + 1 <= 100
    BY <1>1, <1>2
  <2>2. w * (q + 1) <= w * 100
    BY <1>1, <2>1
  <2>3. w * (q + 1) = w * q + w
    BY <1>1
  <2>4. w * q \in Int
    BY <1>1
  <2>5. QED
    BY <1>1, <2>2, <2>3, <2>4
<1>3. QED
  BY <1>2 DEF q, x

\* The least of a set of numbers is one of them.
LEMMA MinIn ==
  ASSUME NEW S \in SUBSET Nat, S # {}
  PROVE  Min(S) \in S /\ \A k \in S : Min(S) <= k
<1>1. PICK m \in S : \A n \in S : m <= n
  BY LeastNat
<1>2. Min(S) = CHOOSE x \in S : \A y \in S : x =< y
  BY ZenonT(60) DEF Min
<1>3. QED
  BY <1>1, <1>2

LEMMA RandomsNat == Randoms \in Nat \ {0} /\ TotalSessions \in Nat \ {0} /\ Times \in Nat \ {0} /\ NPeers \in Nat \ {0}
<1>1. TotalSessions \in Nat \ {0} /\ NPeers \in Nat \ {0}
  BY PeersAssumption
<1>2. Times \in Nat /\ Times # 0
  <2>1. Times \in Nat /\ MinSlots \in 1 .. Times
    BY PeersAssumption, SizesKnown
  <2>2. QED
    BY <2>1
<1>3. TotalSessions * Times \in Nat \ {0}
  BY <1>1, <1>2
<1>4. Randoms \in Nat \ {0}
  BY <1>1, <1>3 DEF Randoms
<1>5. QED
  BY <1>1, <1>2, <1>4

\* Every place of an idle peer's table is named by one of the randoms that follow r0.
LEMMA PlaceDrawn ==
  ASSUME NEW h, NEW n, n = h.n, NEW i \in 0 .. n - 1, n \in 1 .. NPeers, NEW b \in 0 .. TotalSessions - 1,
         NEW m \in 1 .. Times, NEW a \in 0 .. m - 1, NEW r0 \in Nat
  PROVE  \E k \in 0 .. Randoms - 1 :
           PeerOf(h, After(r0, k)) = h.idle[i] /\ TimeOf(After(r0, k)) % m = a /\ SessionOf(After(r0, k)) = b
<1>1. Randoms \in Nat \ {0} /\ TotalSessions \in Nat \ {0} /\ Times \in Nat \ {0} /\ NPeers \in Nat \ {0}
  BY RandomsNat
<1>2. i \in 0 .. NPeers - 1 /\ a \in 0 .. Times - 1
  BY <1>1
<1>3. PICK r \in 0 .. Randoms - 1 :
        r % TotalSessions = b /\ (r \div TotalSessions) % Times = a /\ r \div (TotalSessions * Times) = i
  <2>1. \E r \in 0 .. Product3(TotalSessions, Times, NPeers) - 1 : Names3(r, TotalSessions, Times, i, a, b)
    BY <1>1, <1>2, RandomFor
  <2>2. QED
    BY <2>1 DEF Randoms, Product3, Names3
<1>4. PICK k \in 0 .. Randoms - 1 : (r0 + k) % Randoms = r
  BY <1>1, Turn
<1>5. After(r0, k) = r
  BY <1>4 DEF After
<1>6. i % n = i
  BY <1>1
<1>7. a % m = a
  BY <1>1
<1>8. PeerOf(h, r) = h.idle[i]
  BY <1>3, <1>6 DEF PeerOf
<1>9. TimeOf(r) % m = a /\ SessionOf(r) = b
  BY <1>3, <1>7 DEF TimeOf, SessionOf
<1>10. QED
  BY <1>5, <1>8, <1>9

\* While there is a table its places are counted.
LEMMA TablesCounted ==
  ASSUME NEW h, NEW free, NEW t, Cooked(h, free, t), NEW p \in Peers, h.table[p].n # 0
  PROVE  h.window # 0
<1> DEFINE G == [q \in Peers |-> PlacesOf(h.table[q])]
           m == h.table[p].n
<1>1. (\A q \in Peers : Orderly(h.table[q], t)) /\ h.window = Cardinality(AllPlaces(h.table))
  BY DEF Cooked, Stocked
<1>2. \A q \in Peers : IsFiniteSet(G[q])
  BY <1>1, PlacesFinite
<1>3. AllPlaces(h.table) = Spread(G)
  BY DEF AllPlaces
<1>4. m \in Nat /\ m # 0
  BY <1>1, PlacesFinite
<1>5. PlacesOf(h.table[p]) = Slots(m)
  BY DEF PlacesOf
<1> HIDE DEF G, m
<1>6. <<0, 0>> \in Slots(m)
  BY <1>4, RandomsNat DEF Slots
<1>7. <<p, <<0, 0>>>> \in AllPlaces(h.table)
  BY <1>5, <1>6 DEF AllPlaces, Spread
<1>8. IsFiniteSet(AllPlaces(h.table))
  BY <1>2, <1>3, SpreadFinite
<1>9. Cardinality(AllPlaces(h.table)) # 0
  BY <1>7, <1>8, FS_EmptySet
<1>10. QED
  BY <1>1, <1>9

LEMMA WindowNat ==
  ASSUME NEW h, NEW free, NEW t, Cooked(h, free, t)
  PROVE  h.window \in Nat
<1> DEFINE G == [q \in Peers |-> PlacesOf(h.table[q])]
<1>1. (\A q \in Peers : Orderly(h.table[q], t)) /\ h.window = Cardinality(AllPlaces(h.table))
  BY DEF Cooked, Stocked
<1>2. \A q \in Peers : IsFiniteSet(G[q])
  BY <1>1, PlacesFinite
<1>3. AllPlaces(h.table) = Spread(G)
  BY DEF AllPlaces
<1> HIDE DEF G
<1>4. QED
  BY <1>1, <1>2, <1>3, SpreadFinite, FS_CardinalityType

\* While the recent connects fill less than their share of the places, one is
\* free: the search that begins again with every collision ends.
LEMMA RoomToDraw ==
  ASSUME NEW h, NEW free, h.n \in 1 .. NPeers, \A p \in free : \E i \in 0 .. h.n - 1 : h.idle[i] = p,
         now \in Nat, Cooked(h, free, now), NEW r0 \in Nat,
         Collides(h, r0), ~ ((h.inWindow * 100) \div h.window >= ratio), PeerOf(h, r0) \in Peers, ratio \in 0 .. 100
  PROVE  \E k \in 0 .. Randoms - 1 : ~ Collides(h, After(r0, k))
<1> SUFFICES ASSUME \A k \in 0 .. Randoms - 1 : Collides(h, After(r0, k)) PROVE FALSE
  OBVIOUS
<1>1. Stocked(h, free, now) /\ \E D : Sums(h, D) /\ Covers(h.table, D, now)
  BY DEF Cooked
<1>2. PICK D : Sums(h, D) /\ Covers(h.table, D, now)
  BY <1>1
<1>3. /\ DOMAIN h.table = Peers /\ (\A p \in Peers : Orderly(h.table[p], now))
      /\ (\A p \in Peers : h.table[p] # NoTable => h.cookies /\ p \in free)
      /\ h.window = Cardinality(AllPlaces(h.table))
  BY <1>1 DEF Stocked
<1> DEFINE x == now + 1 - Span
<1>4. ASSUME NEW p \in Peers PROVE PlacesOf(h.table[p]) \subseteq Since(h.table[p], x)
  <2> SUFFICES ASSUME NEW w \in PlacesOf(h.table[p]) PROVE w \in Since(h.table[p], x)
    OBVIOUS
  <2> DEFINE m == h.table[p].n
  <2>1. h.table[p] # NoTable
    BY NoTableEmpty
  <2>2. m \in Sizes /\ w \in Slots(m)
    BY <1>3, <2>1, PlacesFinite DEF Orderly
  <2>3. m \in 1 .. Times
    BY <2>2, SizesKnown
  <2>4. PICK a \in 0 .. m - 1, b \in 0 .. TotalSessions - 1 : w = <<a, b>>
    BY <2>2 DEF Slots
  <2>5. PICK i \in 0 .. h.n - 1 : h.idle[i] = p
    BY <1>3, <2>1
  <2> HIDE DEF m
  <2>6. PICK k \in 0 .. Randoms - 1 :
          PeerOf(h, After(r0, k)) = h.idle[i] /\ TimeOf(After(r0, k)) % m = a /\ SessionOf(After(r0, k)) = b
    BY <2>3, PlaceDrawn
  <2> DEFINE r == After(r0, k)
  <2>7. Collides(h, r) /\ PeerOf(h, r) = p /\ TimeOf(r) % m = a /\ SessionOf(r) = b
    BY <2>5, <2>6
  <2> HIDE DEF r
  <2>8. CookieAt(h, r) = h.table[p].at[w]
    BY <2>4, <2>7 DEF CookieAt, SlotIn, m
  <2>9. h.table[p].at[w] # None /\ ~ Expired(h.table[p].at[w])
    BY <2>7, <2>8 DEF Collides
  <2>10. h.table[p].at[w].real \in Nat
    <3>1. h.table[p].at[w].real \in 0 .. now
      BY <1>3, <2>1, <2>2, <2>9 DEF Orderly, m
    <3>2. QED
      BY <3>1
  <2>11. h.table[p].at[w].real >= x
    BY <2>9, <2>10, TimeoutNat DEF Expired
  <2>12. QED
    BY <2>9, <2>11 DEF Since
<1>5. Cardinality(AllPlaces(h.table)) <= Cardinality(AllSince(h.table, x))
  <2> DEFINE F == [p \in Peers |-> Since(h.table[p], x)]
             G == [p \in Peers |-> PlacesOf(h.table[p])]
  <2>1. \A p \in Peers : IsFiniteSet(F[p]) /\ G[p] \subseteq F[p]
    BY <1>3, <1>4, PlacesFinite
  <2>2. AllPlaces(h.table) = Spread(G) /\ AllSince(h.table, x) = Spread(F)
    BY DEF AllPlaces, AllSince
  <2> HIDE DEF F, G, x
  <2>3. QED
    BY <2>1, <2>2, SpreadLess
<1>6. Cardinality(AllSince(h.table, x)) <= h.inWindow /\ h.inWindow \in Nat
  <2>1. Span \in 1 .. Span /\ Span \in 0 .. Span
    BY SpanPlaces
  <2>2. Cardinality(AllSince(h.table, x)) <= D[Span]
    BY <1>2, <2>1 DEF Covers
  <2>3. D[Span] = h.inWindow /\ D[Span] \in Nat
    BY <1>2, <2>1 DEF Sums
  <2>4. QED
    BY <2>2, <2>3
<1>7. h.window \in Nat /\ Cardinality(AllSince(h.table, x)) \in Nat
  <2> DEFINE F == [p \in Peers |-> Since(h.table[p], x)]
             G == [p \in Peers |-> PlacesOf(h.table[p])]
  <2>1. \A p \in Peers : IsFiniteSet(F[p]) /\ IsFiniteSet(G[p])
    BY <1>3, PlacesFinite
  <2>2. AllPlaces(h.table) = Spread(G) /\ AllSince(h.table, x) = Spread(F)
    BY DEF AllPlaces, AllSince
  <2> HIDE DEF F, G, x
  <2>3. QED
    BY <1>3, <2>1, <2>2, SpreadFinite, FS_CardinalityType
<1> HIDE DEF x
<1>8. h.window # 0
  BY TablesCounted DEF Collides
<1>9. h.window \in Nat \ {0} /\ h.window <= h.inWindow
  BY <1>3, <1>5, <1>6, <1>7, <1>8
<1> DEFINE q == (h.inWindow * 100) \div h.window
<1>10. ~ (q < 100)
  BY <1>6, <1>9, Percent
<1>11. q \in Int
  BY <1>6, <1>9
<1>12. ~ (q >= ratio) /\ ratio \in 0 .. 100
  OBVIOUS
<1> HIDE DEF q
<1>13. QED
  BY <1>10, <1>11, <1>12

\* The place before the one that is drawn is taken.
LEMMA RetriesEnd ==
  ASSUME NEW h, NEW free, h.n \in 1 .. NPeers, \A p \in free : \E i \in 0 .. h.n - 1 : h.idle[i] = p,
         now \in Nat, Cooked(h, free, now), NEW r0 \in Nat, PeerOf(h, r0) \in Peers, ratio \in 0 .. 100
  PROVE  /\ Retries(h, r0) \in Nat
         /\ Retries(h, r0) # 0 => Retries(h, r0) - 1 \in Nat /\ Collides(h, After(r0, Retries(h, r0) - 1))
<1> DEFINE full == (h.inWindow * 100) \div h.window >= ratio
           K == {k \in 0 .. Randoms - 1 : ~ Collides(h, After(r0, k))}
<1>1. CASE ~ Collides(h, r0) \/ full
  <2>1. Retries(h, r0) = 0
    BY <1>1, ZenonT(60) DEF Retries
  <2>2. QED
    BY <2>1
<1>2. CASE Collides(h, r0) /\ ~ full
  <2>1. Retries(h, r0) = Min(K)
    BY <1>2, ZenonT(60) DEF Retries
  <2>3. \E k \in 0 .. Randoms - 1 : ~ Collides(h, After(r0, k))
    BY <1>2, RoomToDraw
  <2>4. K # {}
    BY <2>3
  <2>5. K \in SUBSET Nat
    BY RandomsNat
  <2> DEFINE m == Min(K)
  <2>6. m \in K /\ \A k \in K : m <= k
    <3> HIDE DEF K
    <3>1. QED
      BY <2>4, <2>5, MinIn
  <2> HIDE DEF m
  <2>7. m \in 0 .. Randoms - 1 /\ Randoms \in Nat
    BY <2>6, RandomsNat
  <2>8. ASSUME m # 0 PROVE m - 1 \in Nat /\ Collides(h, After(r0, m - 1))
    <3>1. m - 1 \in 0 .. Randoms - 1 /\ ~ (m <= m - 1)
      BY <2>7, <2>8
    <3>2. m - 1 \notin K
      BY <2>6, <3>1
    <3>3. QED
      BY <3>1, <3>2
  <2>9. Retries(h, r0) = m /\ m \in Nat
    BY <2>1, <2>7 DEF m
  <2>10. QED
    BY <2>8, <2>9
<1>3. QED
  BY <1>1, <1>2

-----------------------------------------------------------------------------
(* The cookies with the handlers: a peer that is not idle has no table.     *)

\* The same of a state that handlers pass on.
Booked(s) == now \in Nat /\ Cooked(s.host, Free(s), now)

LEMMA SameBookOn ==
  ASSUME NEW f, NEW g, NEW h, SameBook(f, g), SameBook(g, h)
  PROVE  SameBook(f, h)
  BY DEF SameBook

\* All peers but e stay in their states.
Apart(s, t, e) == \A q \in Ends \ {e} : t.peer[q].state = s.peer[q].state

LEMMA PaysApart ==
  ASSUME NEW s, NEW t, NEW e \in Ends, Pays(s, t, e)
  PROVE  Fine(t) /\ Apart(s, t, e)
  BY DEF Pays, Goes, Apart

LEMMA GoesApart ==
  ASSUME NEW s, NEW t, NEW e \in Ends, NEW st, NEW k, Goes(s, t, e, st, k)
  PROVE  Fine(t) /\ Apart(s, t, e) /\ t.peer[e].state = st
  BY DEF Goes, Apart

LEMMA SameBooked ==
  ASSUME NEW s, NEW t, Booked(s), NEW e \in Ends, Apart(s, t, e), SameBook(s.host, t.host),
         e \in Peers /\ s.peer[e].state = "DISCONNECTED" => t.peer[e].state = "DISCONNECTED" \/ s.host.table[e] = NoTable
  PROVE  Booked(t)
<1>1. ASSUME NEW p \in Peers, p \in Free(s), s.host.table[p] # NoTable PROVE p \in Free(t)
  <2>1. s.peer[p].state = "DISCONNECTED" /\ p \in Ends
    BY <1>1 DEF Free, Ends
  <2>2. t.peer[p].state = "DISCONNECTED"
    BY <1>1, <2>1 DEF Apart
  <2>3. QED
    BY <2>2 DEF Free
<1>2. Cooked(s.host, Free(s), now) /\ now \in Nat
  BY DEF Booked
<1>3. Cooked(t.host, Free(t), now)
  BY <1>1, <1>2, BookCooked
<1>4. QED
  BY <1>2, <1>3 DEF Booked

LEMMA AlikeBooked ==
  ASSUME NEW s, NEW t, Booked(s), Alike(s, t), SameBook(s.host, t.host)
  PROVE  Booked(t)
<1>1. Free(t) = Free(s)
  BY DEF Alike, Similar, Free, Ends
<1>2. Cooked(t.host, Free(t), now)
  BY <1>1, BookCooked DEF Booked
<1>3. QED
  BY <1>2 DEF Booked

LEMMA CountBook ==
  ASSUME NEW s, Shaped(s), NEW e \in Ends, NEW n \in Int
  PROVE  SameBook(s.host, Count(s, e, n).host)
<1>1. CASE e \notin Peers
  BY <1>1 DEF Count, SameBook
<1>2. CASE e \in Peers
  <2> DEFINE t == Count(s, e, n)
             l == IF s.peer[e].limited THEN n ELSE 0
  <2>1. t = [s EXCEPT !.host.connected = @ + n, !.host.limited = @ + l]
    BY <1>2, ZenonT(60) DEF Count
  <2> HIDE DEF t, l
  <2>2. SameBook(s.host, t.host)
    BY <2>1 DEF Shaped, HostFields, SameBook
  <2>3. QED
    BY <2>2 DEF t
<1>3. QED
  BY <1>1, <1>2

LEMMA CountedBook ==
  ASSUME NEW s, Shaped(s), NEW e \in Ends
  PROVE  /\ Shaped(OnConnect(s, e)) /\ SameBook(s.host, OnConnect(s, e).host)
         /\ Shaped(OnDisconnect(s, e)) /\ SameBook(s.host, OnDisconnect(s, e).host)
<1>1. SameBook(s.host, s.host)
  BY DEF SameBook
<1>2. 1 \in Int /\ -1 \in Int
  OBVIOUS
<1>3. /\ Shaped(Count(s, e, 1)) /\ SameBook(s.host, Count(s, e, 1).host)
      /\ Shaped(Count(s, e, -1)) /\ SameBook(s.host, Count(s, e, -1).host)
  BY <1>2, CountBook, CountFields
<1>4. OnConnect(s, e) \in {s, Count(s, e, 1)} /\ OnDisconnect(s, e) \in {s, Count(s, e, -1)}
  BY DEF OnConnect, OnDisconnect
<1>5. QED
  BY <1>1, <1>3, <1>4

LEMMA ChangeStateBook ==
  ASSUME NEW s, Shaped(s), NEW e \in Ends, NEW st
  PROVE  Shaped(ChangeState(s, e, st)) /\ SameBook(s.host, ChangeState(s, e, st).host)
<1> DEFINE c == IF st \in Up THEN OnConnect(s, e) ELSE OnDisconnect(s, e)
           t == [c EXCEPT !.peer[e].state = st]
<1>1. Shaped(c) /\ SameBook(s.host, c.host)
  BY CountedBook
<1>2. ChangeState(s, e, st) = t
  BY ZenonT(60) DEF ChangeState
<1> HIDE DEF c
<1>3. Shaped(t) /\ t.host = c.host
  BY <1>1, StateSet
<1>4. QED
  BY <1>1, <1>2, <1>3

LEMMA DispatchStateBook ==
  ASSUME NEW s, Shaped(s), NEW e \in Ends, NEW st
  PROVE  SameBook(s.host, DispatchState(s, e, st).host)
<1> DEFINE c == ChangeState(s, e, st)
<1>1. Shaped(c) /\ SameBook(s.host, c.host)
  BY ChangeStateBook
<1>2. DispatchState(s, e, st) = [c EXCEPT !.peer[e].queued = TRUE]
  BY ZenonT(60) DEF DispatchState
<1> HIDE DEF c
<1>3. [c EXCEPT !.peer[e].queued = TRUE].host = c.host
  BY <1>1 DEF Shaped
<1>4. QED
  BY <1>1, <1>2, <1>3

LEMMA HostKept ==
  ASSUME NEW s, Shaped(s), NEW e \in Ends
  PROVE  /\ \A n : Event(s, e, n).host = s.host
         /\ ResetQueues(s, e).host = s.host
         /\ \A seq : RemoveSent(s, e, seq).host = s.host
         /\ \A d : QueueAcknowledgement(s, e, d).host = s.host
         /\ \A kind, ack, arg : QueueOutgoing(s, e, kind, ack, arg).host = s.host
<1>1. DOMAIN s = {"peer", "host", "net", "seen"}
  BY DEF Shaped
<1>2. ASSUME NEW n PROVE Event(s, e, n).host = s.host
  BY <1>1 DEF Event
<1>3. ResetQueues(s, e).host = s.host
  BY <1>1 DEF ResetQueues
<1>4. ASSUME NEW seq PROVE RemoveSent(s, e, seq).host = s.host
  BY <1>1 DEF RemoveSent
<1>5. ASSUME NEW d PROVE QueueAcknowledgement(s, e, d).host = s.host
  BY <1>1 DEF QueueAcknowledgement
<1>6. ASSUME NEW kind, NEW ack, NEW arg PROVE QueueOutgoing(s, e, kind, ack, arg).host = s.host
  BY <1>1 DEF QueueOutgoing
<1>7. QED
  BY <1>2, <1>3, <1>4, <1>5, <1>6

LEMMA FreedBook ==
  ASSUME NEW h, DOMAIN h = HostFields, NEW p
  PROVE  SameBook(h, Freed(h, p))
<1> DEFINE i == CHOOSE j \in 0 .. NPeers - h.n - 1 : h.busy[j] = p
           f == [h EXCEPT !.idle[h.n] = p, !.n = @ + 1, !.busy[i] = h.busy[NPeers - h.n - 1]]
<1>1. Freed(h, p) = h \/ Freed(h, p) = f
  BY ZenonT(60) DEF Freed
<1> HIDE DEF i
<1>2. SameBook(h, f) /\ SameBook(h, h)
  BY DEF HostFields, SameBook
<1> HIDE DEF f
<1>3. QED
  BY <1>1, <1>2

LEMMA TakenBook ==
  ASSUME NEW h, DOMAIN h = HostFields, NEW p, NEW i
  PROVE  SameBook(h, Taken(h, p, i))
  BY DEF HostFields, SameBook, Taken

\* Whoever is reset gives its table up.
LEMMA PeerResetBooked ==
  ASSUME NEW s, Fine(s), Booked(s), NEW e \in Ends
  PROVE  Booked(PeerReset(s, e)) /\ Fine(PeerReset(s, e)) /\ PeerReset(s, e).peer[e].state = "DISCONNECTED"
<1> DEFINE g == Freed(s.host, e)
           h == Untabled(g, e)
           listed == IF e \in Peers THEN [s EXCEPT !.host = h] ELSE s
           less == OnDisconnect(listed, e)
           gone == [less EXCEPT !.peer[e] = [@ EXCEPT !.to = None, !.id = 0,
                      !.state = "DISCONNECTED", !.limited = FALSE, !.seq = 0]]
           t == ResetQueues(gone, e)
<1>1. PeerReset(s, e) = t
  BY ZenonT(60) DEF PeerReset
<1>2. Goes(s, PeerReset(s, e), e, "DISCONNECTED", 0)
  BY PeerResetGoes
<1>3. Shaped(s) /\ Free(s) \in SUBSET Peers
  BY DEF Fine, Free
<1>4. Cooked(s.host, Free(s), now) /\ now \in Nat
  BY DEF Booked
<1> HIDE DEF t
<1>5. Fine(t) /\ Apart(s, t, e) /\ t.peer[e].state = "DISCONNECTED"
  BY <1>1, <1>2, GoesApart
<1>6. /\ DOMAIN s.host = HostFields /\ DOMAIN s = {"peer", "host", "net", "seen"}
      /\ Cooked(g, Free(s), now)
      /\ e \in Peers => DOMAIN g = HostFields /\ DOMAIN g.idle = Peers /\ DOMAIN g.busy = Peers
  <2>1. DOMAIN s.host = HostFields /\ DOMAIN s = {"peer", "host", "net", "seen"}
    BY <1>3 DEF Shaped
  <2>2. SameBook(s.host, g)
    BY <2>1, FreedBook
  <2>3. Cooked(g, Free(s), now)
    BY <1>4, <2>2, BookCooked
  <2>4. ASSUME e \in Peers PROVE DOMAIN g = HostFields /\ DOMAIN g.idle = Peers /\ DOMAIN g.busy = Peers
    <3>1. Keeper(g, Free(s) \cup {e})
      BY <2>4, FineKeeper, FreedKeeps
    <3> HIDE DEF g
    <3>2. QED
      BY <3>1 DEF Keeper
  <2>5. QED
    BY <2>1, <2>3, <2>4
<1> HIDE DEF g
<1>7. \A q \in Free(s) : q # e => q \in Free(t)
  BY <1>5 DEF Free, Apart, Ends
<1>8. Cooked(IF e \in Peers THEN h ELSE s.host, Free(t), now)
  <2>1. CASE e \in Peers
    <3>1. Cooked(h, Free(t), now)
      BY <1>4, <1>6, <1>7, <2>1, UntabledCooked
    <3>2. QED
      BY <2>1, <3>1
  <2>2. CASE e \notin Peers
    <3>1. \A p \in Peers : p \in Free(s) /\ s.host.table[p] # NoTable => p \in Free(t)
      BY <1>7, <2>2
    <3>2. SameBook(s.host, s.host)
      BY DEF SameBook
    <3>3. Cooked(s.host, Free(t), now)
      BY <1>4, <3>1, <3>2, BookCooked
    <3>4. QED
      BY <2>2, <3>3
  <2>3. QED
    BY <2>1, <2>2
<1>9. e \in Peers => DOMAIN h = HostFields /\ DOMAIN h.idle = Peers /\ DOMAIN h.busy = Peers
  BY <1>6, UntabledKeeps
<1> HIDE DEF h
<1>10. listed.host = (IF e \in Peers THEN h ELSE s.host) /\ Shaped(listed)
  <2>1. CASE e \in Peers
    BY <1>3, <1>6, <1>9, <2>1 DEF Shaped
  <2>2. CASE e \notin Peers
    BY <1>3, <2>2
  <2>3. QED
    BY <2>1, <2>2
<1> HIDE DEF listed
<1>11. Shaped(less) /\ SameBook(listed.host, less.host)
  BY <1>10, CountedBook
<1> HIDE DEF less
<1>12. gone.host = less.host /\ DOMAIN gone = {"peer", "host", "net", "seen"}
  BY <1>11 DEF Shaped
<1> HIDE DEF gone
<1>13. t.host = gone.host
  BY <1>12 DEF t, ResetQueues
<1>14. Cooked(t.host, Free(t), now)
  <2>1. SameBook(listed.host, t.host)
    BY <1>11, <1>12, <1>13
  <2>2. Cooked(listed.host, Free(t), now)
    BY <1>8, <1>10
  <2>3. QED
    BY <2>1, <2>2, BookCooked
<1>15. Booked(t)
  BY <1>4, <1>14 DEF Booked
<1>16. QED
  BY <1>1, <1>5, <1>15

LEMMA SameBookSelf == \A h : SameBook(h, h)
  BY DEF SameBook

LEMMA ChangeStateBooked ==
  ASSUME NEW s, Fine(s), Booked(s), NEW e \in Ends, NEW st, s.peer[e].state \in Leaving => st \in Leaving,
         e \in Peers => s.peer[e].state # "DISCONNECTED" /\ st # "DISCONNECTED"
  PROVE  Booked(ChangeState(s, e, st)) /\ Fine(ChangeState(s, e, st)) /\ ChangeState(s, e, st).peer[e].state = st
<1> DEFINE t == ChangeState(s, e, st)
<1>1. Goes(s, t, e, st, 0)
  BY ChangeStateGoes
<1>2. SameBook(s.host, t.host)
  BY ChangeStateBook DEF Fine
<1> HIDE DEF t
<1>3. Fine(t) /\ Apart(s, t, e) /\ t.peer[e].state = st
  BY <1>1, GoesApart
<1>4. Booked(t)
  BY <1>2, <1>3, SameBooked
<1>5. QED
  BY <1>3, <1>4 DEF t

LEMMA DispatchStateBooked ==
  ASSUME NEW s, Fine(s), Booked(s), NEW e \in Ends, NEW st, s.peer[e].state \in Leaving => st \in Leaving,
         e \in Peers => s.peer[e].state # "DISCONNECTED" /\ st # "DISCONNECTED"
  PROVE  Booked(DispatchState(s, e, st)) /\ Fine(DispatchState(s, e, st))
<1> DEFINE t == DispatchState(s, e, st)
<1>1. Goes(s, t, e, st, 0)
  BY DispatchStateGoes
<1>2. SameBook(s.host, t.host)
  BY DispatchStateBook DEF Fine
<1> HIDE DEF t
<1>3. Fine(t) /\ Apart(s, t, e)
  BY <1>1, GoesApart
<1>4. Booked(t)
  BY <1>2, <1>3, SameBooked
<1>5. QED
  BY <1>3, <1>4 DEF t

LEMMA EventBooked ==
  ASSUME NEW s, Fine(s), Booked(s), NEW e \in Ends, NEW n \in Int
  PROVE  Booked(Event(s, e, n)) /\ Fine(Event(s, e, n))
<1> DEFINE t == Event(s, e, n)
<1>1. Goes(s, t, e, s.peer[e].state, n)
  BY EventGoes
<1>2. t.host = s.host
  BY HostKept DEF Fine
<1> HIDE DEF t
<1>3. Fine(t) /\ Apart(s, t, e) /\ t.peer[e].state = s.peer[e].state
  BY <1>1, GoesApart
<1>4. Booked(t)
  BY <1>2, <1>3, SameBooked, SameBookSelf
<1>5. QED
  BY <1>3, <1>4 DEF t

\* The queues are emptied, and an order to disconnect is sent.
LEMMA ToldBooked ==
  ASSUME NEW s, Fine(s), Booked(s), NEW e \in Ends
  PROVE  LET clear == ResetQueues(s, e) IN
         /\ Booked(clear) /\ Fine(clear) /\ clear.peer[e].state = s.peer[e].state
         /\ \A kind, ack, arg : LET told == QueueOutgoing(clear, e, kind, ack, arg) IN
              Booked(told) /\ Fine(told) /\ told.peer[e].state = s.peer[e].state
<1> DEFINE clear == ResetQueues(s, e)
<1>1. Alike(s, clear) /\ clear.host = s.host
  BY ResetAlike, HostKept DEF Fine
<1> HIDE DEF clear
<1>2. Booked(clear) /\ Fine(clear) /\ clear.peer[e].state = s.peer[e].state
  BY <1>1, AlikeBooked, AlikeFine, SameBookSelf DEF Alike, Similar
<1>3. ASSUME NEW kind, NEW ack, NEW arg
      PROVE  LET told == QueueOutgoing(clear, e, kind, ack, arg) IN
             Booked(told) /\ Fine(told) /\ told.peer[e].state = s.peer[e].state
  <2> DEFINE told == QueueOutgoing(clear, e, kind, ack, arg)
  <2>1. Alike(clear, told) /\ told.host = clear.host
    BY <1>2, OutgoingAlike, HostKept DEF Fine
  <2> HIDE DEF told
  <2>2. Booked(told) /\ Fine(told) /\ told.peer[e].state = clear.peer[e].state
    BY <1>2, <2>1, AlikeBooked, AlikeFine, SameBookSelf DEF Alike, Similar
  <2>3. QED
    BY <1>2, <2>2 DEF told
<1>4. QED
  BY <1>2, <1>3 DEF clear

LEMMA NotifyConnectBooked ==
  ASSUME NEW s, Fine(s), Booked(s), NEW e \in Ends, NEW ev, s.peer[e].state \notin Leaving,
         e \in Peers => s.peer[e].state = "ACKNOWLEDGING_CONNECT"
  PROVE  Booked(NotifyConnect(s, e, ev))
<1>1. CASE ev
  <2> DEFINE t == ChangeState(s, e, "CONNECTED")
  <2>1. Booked(t) /\ Fine(t)
    BY ChangeStateBooked
  <2>2. NotifyConnect(s, e, ev) = Event(t, e, 1)
    BY <1>1 DEF NotifyConnect
  <2> HIDE DEF t
  <2>3. QED
    BY <2>1, <2>2, EventBooked
<1>2. CASE ~ ev
  <2> DEFINE st == IF s.peer[e].state = "CONNECTING" THEN "CONNECTION_SUCCEEDED" ELSE "CONNECTION_PENDING"
  <2>1. NotifyConnect(s, e, ev) = DispatchState(s, e, st)
    BY <1>2 DEF NotifyConnect
  <2>2. st # "DISCONNECTED"
    OBVIOUS
  <2> HIDE DEF st
  <2>3. QED
    BY <2>1, <2>2, DispatchStateBooked
<1>3. QED
  BY <1>1, <1>2

LEMMA NotifyDisconnectBooked ==
  ASSUME NEW s, Fine(s), Booked(s), NEW e \in Ends, NEW ev
  PROVE  Booked(NotifyDisconnect(s, e, ev))
<1>1. CASE s.peer[e].state \in Early
  BY <1>1, PeerResetBooked DEF NotifyDisconnect
<1>2. CASE s.peer[e].state \notin Early /\ ev
  <2> DEFINE t == PeerReset(s, e)
  <2>1. NotifyDisconnect(s, e, ev) = Event(t, e, -1)
    BY <1>2 DEF NotifyDisconnect
  <2>2. Booked(t) /\ Fine(t)
    BY PeerResetBooked
  <2> HIDE DEF t
  <2>3. QED
    BY <2>1, <2>2, -1 \in Int, EventBooked
<1>3. CASE s.peer[e].state \notin Early /\ ~ ev
  <2>1. NotifyDisconnect(s, e, ev) = DispatchState(s, e, "ZOMBIE")
    BY <1>3 DEF NotifyDisconnect
  <2>2. s.peer[e].state # "DISCONNECTED" /\ "ZOMBIE" \in Leaving /\ "ZOMBIE" # "DISCONNECTED"
    BY <1>3 DEF Early, Leaving
  <2>3. QED
    BY <2>1, <2>2, DispatchStateBooked
<1>4. QED
  BY <1>1, <1>2, <1>3

LEMMA DisconnectBooked ==
  ASSUME NEW s, Fine(s), Booked(s), NEW e \in Ends
  PROVE  Booked(Disconnect(s, e))
<1> DEFINE st == s.peer[e].state
           clear == ResetQueues(s, e)
           told == QueueOutgoing(clear, e, "DISCONNECT", st \in Up, None)
           t == ChangeState(told, e, "DISCONNECTING")
<1>1. Booked(told) /\ Fine(told) /\ told.peer[e].state = st
  BY ToldBooked
<1>2. \/ Disconnect(s, e) = s
      \/ st \in Up /\ Disconnect(s, e) = [OnDisconnect(told, e) EXCEPT !.peer[e].state = "DISCONNECTING"]
      \/ Disconnect(s, e) = PeerReset(told, e)
  <2>1. CASE st \in {"DISCONNECTING", "DISCONNECTED", "ACKNOWLEDGING_DISCONNECT", "ZOMBIE"}
    BY <2>1 DEF Disconnect, Up
  <2>2. CASE st \in Up
    BY <2>2 DEF Disconnect, Up
  <2>3. CASE st \notin {"DISCONNECTING", "DISCONNECTED", "ACKNOWLEDGING_DISCONNECT", "ZOMBIE"} \cup Up
    BY <2>3 DEF Disconnect
  <2>4. QED
    BY <2>1, <2>2, <2>3
<1>3. t = [OnDisconnect(told, e) EXCEPT !.peer[e].state = "DISCONNECTING"]
  <2>1. "DISCONNECTING" \notin Up
    BY DEF Up
  <2>2. QED
    BY <2>1, ZenonT(60) DEF ChangeState
<1> HIDE DEF told
<1>4. ASSUME st \in Up PROVE Booked(t)
  <2>1. told.peer[e].state # "DISCONNECTED" /\ told.peer[e].state \notin Leaving
    BY <1>1, <1>4 DEF Up, Leaving
  <2>2. QED
    BY <1>1, <2>1, ChangeStateBooked
<1>5. Booked(PeerReset(told, e))
  BY <1>1, PeerResetBooked
<1>6. QED
  BY <1>2, <1>3, <1>4, <1>5

LEMMA FinishLaterBooked ==
  ASSUME NEW s, Fine(s), Booked(s), NEW e \in Ends
  PROVE  Booked(FinishLater(s, e))
<1>1. FinishLater(s, e) = s \/ FinishLater(s, e) = Disconnect(s, e)
  BY DEF FinishLater
<1>2. QED
  BY <1>1, DisconnectBooked

LEMMA DisconnectLaterBooked ==
  ASSUME NEW s, Fine(s), Booked(s), NEW e \in Ends
  PROVE  Booked(DisconnectLater(s, e))
<1> DEFINE t == ChangeState(s, e, "DISCONNECT_LATER")
<1>1. \/ DisconnectLater(s, e) = Disconnect(s, e)
      \/ s.peer[e].state \in Up /\ DisconnectLater(s, e) = [s EXCEPT !.peer[e].state = "DISCONNECT_LATER"]
  BY ZenonT(60) DEF DisconnectLater
<1>2. CASE s.peer[e].state \in Up /\ DisconnectLater(s, e) = [s EXCEPT !.peer[e].state = "DISCONNECT_LATER"]
  <2>1. OnConnect(s, e) = s /\ "DISCONNECT_LATER" \in Up
    BY <1>2 DEF OnConnect, Up
  <2>2. t = [s EXCEPT !.peer[e].state = "DISCONNECT_LATER"]
    BY <2>1, ZenonT(60) DEF ChangeState
  <2>3. s.peer[e].state # "DISCONNECTED" /\ s.peer[e].state \notin Leaving
    BY <1>2 DEF Up, Leaving
  <2>4. Booked(t)
    BY <2>3, ChangeStateBooked
  <2>5. QED
    BY <1>2, <2>2, <2>4
<1>3. QED
  BY <1>1, <1>2, DisconnectBooked

LEMMA DisconnectNowBooked ==
  ASSUME NEW s, Fine(s), Booked(s), NEW e \in Ends
  PROVE  Booked(DisconnectNow(s, e))
<1> DEFINE clear == ResetQueues(s, e)
           told == QueueOutgoing(clear, e, "DISCONNECT", FALSE, None)
<1>1. Booked(told) /\ Fine(told)
  BY ToldBooked
<1>2. DisconnectNow(s, e) = s \/ DisconnectNow(s, e) = PeerReset(s, e) \/ DisconnectNow(s, e) = PeerReset(told, e)
  BY ZenonT(60) DEF DisconnectNow
<1> HIDE DEF told
<1>3. QED
  BY <1>1, <1>2, PeerResetBooked

LEMMA HandleDisconnectBooked ==
  ASSUME NEW s, Fine(s), Booked(s), NEW e \in Ends, Serves(s, e), NEW d
  PROVE  Booked(HandleDisconnect(s, e, d))
<1> DEFINE st == s.peer[e].state
           clear == ResetQueues(s, e)
           r == HandleDisconnect(s, e, d)
<1>1. Booked(clear) /\ Fine(clear) /\ clear.peer[e].state = st
  BY ToldBooked
<1>2. st \in States
  BY DEF Serves, StatesOf, Served
<1>3. \/ r = s
      \/ st # "DISCONNECTED" /\ r = DispatchState(clear, e, "ZOMBIE")
      \/ r = PeerReset(clear, e)
      \/ st \in Up /\ r = ChangeState(clear, e, "ACKNOWLEDGING_DISCONNECT")
  BY <1>2 DEF HandleDisconnect, States, Up, Early
<1> HIDE DEF clear, r
<1>4. "ZOMBIE" \in Leaving /\ "ZOMBIE" # "DISCONNECTED"
      /\ "ACKNOWLEDGING_DISCONNECT" \in Leaving /\ "ACKNOWLEDGING_DISCONNECT" # "DISCONNECTED"
      /\ "DISCONNECTED" \notin Up
  BY DEF Leaving, Up
<1>5. st # "DISCONNECTED" => Booked(DispatchState(clear, e, "ZOMBIE"))
  BY <1>1, <1>4, DispatchStateBooked
<1>6. st # "DISCONNECTED" => Booked(ChangeState(clear, e, "ACKNOWLEDGING_DISCONNECT"))
  BY <1>1, <1>4, ChangeStateBooked
<1>7. Booked(PeerReset(clear, e))
  BY <1>1, PeerResetBooked
<1>8. Booked(r)
  BY <1>3, <1>4, <1>5, <1>6, <1>7
<1>9. QED
  BY <1>8 DEF r

LEMMA HandleVerifyConnectBooked ==
  ASSUME NEW s, Fine(s), Booked(s), NEW e \in Ends, Serves(s, e), NEW d, NEW ev
  PROVE  Booked(HandleVerifyConnect(s, e, d, ev))
<1> DEFINE r == HandleVerifyConnect(s, e, d, ev)
           acked == RemoveSent(s, e, 1)
           known == [acked EXCEPT !.peer[e] = [@ EXCEPT !.to = d.arg.peer, !.inSess = d.arg.inSess,
                                                       !.outSess = d.arg.outSess]]
<1>1. \/ r = s
      \/ s.peer[e].state = "CONNECTING" /\ (r = DispatchState(s, e, "ZOMBIE") \/ r = NotifyConnect(known, e, ev))
  BY ZenonT(60) DEF HandleVerifyConnect
<1>2. s.peer[e].state = "CONNECTING" => e \notin Peers
  BY DEF Serves, StatesOf, Served
<1>3. s.peer[e].state = "CONNECTING" => s.peer[e].state \notin Leaving
  BY DEF Leaving
<1> HIDE DEF r
<1>4. Alike(s, acked) /\ acked.host = s.host
  BY RemoveAlike, HostKept DEF Fine
<1> HIDE DEF acked
<1>5. Fine(acked) /\ Booked(acked) /\ Shaped(acked)
  BY <1>4, AlikeFine, AlikeBooked, SameBookSelf DEF Fine
<1>6. Alike(acked, known) /\ known.host = acked.host
  <2>1. /\ DOMAIN known = {"peer", "host", "net", "seen"} /\ known.host = acked.host
        /\ known.seen = acked.seen /\ DOMAIN known.peer = Ends
        /\ \A q \in Ends : q # e => known.peer[q] = acked.peer[q]
    BY <1>5 DEF Shaped
  <2>2. /\ DOMAIN known.peer[e] = DOMAIN acked.peer[e]
        /\ known.peer[e].state = acked.peer[e].state /\ known.peer[e].limited = acked.peer[e].limited
        /\ known.peer[e].acks = acked.peer[e].acks
    BY <1>5, FreshFields DEF Shaped
  <2> HIDE DEF known
  <2>3. QED
    BY <1>5, <2>1, <2>2 DEF Alike, Similar, Keeps, Shaped
<1> HIDE DEF known
<1>7. Fine(known) /\ Booked(known) /\ known.peer[e].state = s.peer[e].state
  BY <1>4, <1>5, <1>6, AlikeFine, AlikeBooked, SameBookSelf DEF Alike, Similar
<1>8. s.peer[e].state = "CONNECTING" => Booked(NotifyConnect(known, e, ev))
  BY <1>2, <1>3, <1>7, NotifyConnectBooked
<1>9. s.peer[e].state = "CONNECTING" => Booked(DispatchState(s, e, "ZOMBIE"))
  BY <1>2, <1>3, DispatchStateBooked
<1>10. Booked(r)
  BY <1>1, <1>8, <1>9
<1>11. QED
  BY <1>10 DEF r

LEMMA HandleDataBooked ==
  ASSUME NEW s, Fine(s), Booked(s), NEW e \in Ends, NEW d
  PROVE  Booked(HandleData(s, e, d))
<1> DEFINE t == HandleData(s, e, d)
           data == [s EXCEPT !.peer[e].inbox = TRUE, !.peer[e].queued = TRUE]
           less == IF e \in Peers /\ s.peer[e].limited THEN -1 ELSE 0
           more == IF e \in Peers /\ d.arg THEN 1 ELSE 0
           n == s.host.limited + less + more
           limit == [s EXCEPT !.peer[e].limited = d.arg, !.host.limited = n]
<1>1. t = s \/ t = data \/ t = limit
  <2>1. t \in {s, data, limit}
    BY ZenonT(60) DEF HandleData
  <2> HIDE DEF t, data, limit
  <2>2. QED
    BY <2>1
<1>2. Shaped(s)
  BY DEF Fine
<1> HIDE DEF t, n
<1>3. /\ data.host = s.host /\ DOMAIN data.peer = Ends
      /\ \A q \in Ends : q # e => data.peer[q] = s.peer[q]
  BY <1>2 DEF Shaped
<1>4. data.peer[e].state = s.peer[e].state
  BY <1>2, FreshFields DEF Shaped
<1>5. /\ SameBook(s.host, limit.host) /\ DOMAIN limit.peer = Ends
      /\ \A q \in Ends : q # e => limit.peer[q] = s.peer[q]
  BY <1>2 DEF Shaped, HostFields, SameBook
<1>6. limit.peer[e].state = s.peer[e].state
  BY <1>2, FreshFields DEF Shaped
<1> HIDE DEF data, limit
<1>7. Booked(data)
  <2>1. Apart(s, data, e) /\ SameBook(s.host, data.host)
    BY <1>3, SameBookSelf DEF Apart
  <2>2. QED
    BY <1>4, <2>1, SameBooked
<1>8. Booked(limit)
  <2>1. Apart(s, limit, e)
    BY <1>5 DEF Apart
  <2>2. QED
    BY <1>5, <1>6, <2>1, SameBooked
<1>9. QED
  BY <1>1, <1>7, <1>8 DEF t

\* While no cookies are in use no peer has a table: taking one leaves the books as they are.
LEMMA HandleConnectBooked ==
  ASSUME NEW s, Fine(s), Booked(s), NEW d, ~ s.host.cookies \/ s.host.n = 0
  PROVE  Booked(HandleConnect(s, d))
<1> DEFINE p == s.host.idle[s.host.n - 1]
           o == Offered(s, p, d)
           f == Taken(s.host, p, s.host.n - 1)
           took == [s EXCEPT !.peer[p] = o, !.host = f]
           sent == QueueOutgoing(took, p, "VERIFY", TRUE, VerifyArg(took.peer[p], p))
           t == HandleConnect(s, d)
<1>1. t = s \/ (s.host.n # 0 /\ t = sent)
  BY ZenonT(60) DEF HandleConnect
<1>2. CASE t = s
  BY <1>2
<1>3. CASE t # s
  <2>1. s.host.n # 0 /\ t = sent /\ ~ s.host.cookies
    BY <1>1, <1>3
  <2>2. PICK e \in Peers : Pays(s, t, e)
    BY <1>3, HandleConnectPays
  <2>3. e \in Ends
    BY DEF Ends
  <2>4. Apart(s, t, e)
    BY <2>2, <2>3, PaysApart
  <2>5. SameBook(s.host, t.host)
    <3>1. DOMAIN s = {"peer", "host", "net", "seen"} /\ DOMAIN s.host = HostFields
      BY DEF Fine, Shaped
    <3>2. SameBook(s.host, f)
      BY <3>1, TakenBook
    <3> HIDE DEF f, p, o
    <3>3. took.host = f /\ DOMAIN took = {"peer", "host", "net", "seen"}
      BY <3>1
    <3> HIDE DEF took, t
    <3>4. sent.host = took.host
      BY <3>3 DEF QueueOutgoing
    <3> HIDE DEF sent
    <3>5. QED
      BY <2>1, <3>2, <3>3, <3>4
  <2>6. s.host.table[e] = NoTable
    BY <2>1 DEF Booked, Cooked, Stocked
  <2> HIDE DEF t
  <2>7. Booked(t)
    BY <2>3, <2>4, <2>5, <2>6, SameBooked
  <2>8. QED
    BY <2>7 DEF t
<1>4. QED
  BY <1>2, <1>3

LEMMA EmptyFits ==
  ASSUME NEW n \in Sizes, NEW t
  PROVE  Orderly(EmptyTable(n), t) /\ EmptyTable(n) # NoTable /\ \A x : Since(EmptyTable(n), x) = {}
<1> DEFINE e == EmptyTable(n)
<1>1. e = [n |-> n, at |-> [i \in Slots(n) |-> None]]
  BY ZenonT(60) DEF EmptyTable
<1>2. n # 0
  BY SizesKnown
<1> HIDE DEF e
<1>3. DOMAIN e = {"n", "at"} /\ e.n = n /\ DOMAIN e.at = Slots(n) /\ \A i \in Slots(n) : e.at[i] = None
  BY <1>1
<1>4. Orderly(e, t)
  BY <1>3 DEF Orderly
<1>5. e # NoTable
  BY <1>2, <1>3, NoTableEmpty
<1>6. \A x : Since(e, x) = {}
  BY <1>3 DEF Since, PlacesOf
<1>7. QED
  BY <1>4, <1>5, <1>6 DEF e

\* What a cookie is stored in: a new table, the peer's own, or one of twice its slots.
LEMMA TableFits ==
  ASSUME NEW h, NEW free, NEW t \in Nat, Cooked(h, free, t), NEW p \in Peers,
         NEW tb, \/ h.table[p].n = 0 /\ tb = EmptyTable(MinSlots)
                 \/ h.table[p].n # 0 /\ h.table[p].n # Times /\ tb = Extended(h.table[p])
                 \/ h.table[p].n # 0 /\ tb = h.table[p]
  PROVE  /\ Orderly(tb, t) /\ tb # NoTable
         /\ \A x : Cardinality(Since(tb, x)) <= Cardinality(Since(h.table[p], x))
<1> DEFINE old == h.table[p]
<1>1. Orderly(old, t)
  BY DEF Cooked, Stocked
<1>2. \A x : Cardinality(Since(old, x)) \in Nat
  BY <1>1, PlacesFinite, FS_CardinalityType
<1>3. CASE old.n = 0 /\ tb = EmptyTable(MinSlots)
  <2>1. MinSlots \in Sizes
    BY SizesKnown
  <2>2. Orderly(tb, t) /\ tb # NoTable /\ \A x : Since(tb, x) = {}
    BY <1>3, <2>1, EmptyFits
  <2>3. Cardinality({}) = 0
    BY FS_EmptySet
  <2> HIDE DEF old
  <2>4. \A x : Cardinality(Since(tb, x)) = 0
    BY <2>2, <2>3
  <2>5. \A x : Cardinality(Since(tb, x)) <= Cardinality(Since(old, x))
    BY <1>2, <2>4
  <2>6. QED
    BY <2>2, <2>5 DEF old
<1>4. CASE old.n # 0 /\ old.n # Times /\ tb = Extended(old)
  <2>1. old # NoTable
    BY <1>4, NoTableEmpty
  <2>2. QED
    BY <1>1, <1>4, <2>1, ExtendedFits
<1>5. CASE old.n # 0 /\ tb = old
  <2>1. old # NoTable
    BY <1>5, NoTableEmpty
  <2>2. QED
    BY <1>1, <1>2, <1>5, <2>1
<1>6. QED
  BY <1>3, <1>4, <1>5

LEMMA HandleConnectCookieBooked ==
  ASSUME NEW s, Fine(s), Booked(s), NEW d, NEW r0 \in Nat, s.host.cookies, ratio \in 0 .. 100
  PROVE  Booked(HandleConnectCookie(s, d, r0))
<1> DEFINE h == s.host
           k == Retries(h, r0)
           r == After(r0, k)
           p == PeerOf(h, r)
           n == h.table[p].n
           crowded == Collides(h, r)
           stray == k # 0 /\ n = 0
           last == After(r0, k - 1)
           own == IF stray THEN PeerOf(h, last) ELSE p
           tm == IF crowded THEN TimeOf(r) - n * Bit(TimeOf(r), n) + n * (1 - Bit(CookieAt(h, r).t, n))
                 ELSE TimeOf(r)
           tb == CASE n = 0 /\ ~ stray -> EmptyTable(MinSlots) [] crowded -> Extended(h.table[p]) [] OTHER -> h.table[own]
           i == IF stray THEN SlotIn(tb, last) ELSE <<tm % tb.n, SessionOf(r)>>
           q == [Offered(s, p, d) EXCEPT !.inSess = SessionOf(r)]
           c == [addr |-> d.from, id |-> q.id, t |-> tm, sess |-> q.inSess, real |-> now,
                 outSess |-> q.outSess, limited |-> q.limited, stray |-> stray]
           reply == Datagram([s EXCEPT !.peer[p] = q], p, "VERIFY", 1, TRUE, tm, VerifyArg(q, p))
           t == HandleConnectCookie(s, d, r0)
<1>1. t = s \/ (h.n # 0 /\ ~ (crowded /\ n = Times) /\ t = [s EXCEPT !.net = @ \cup {reply}, !.host = Stored(h, own, tb, i, c)])
  BY ZenonT(60) DEF HandleConnectCookie
<1> HIDE DEF reply
<1>2. CASE t = s
  BY <1>2
<1>3. CASE t # s
  <2>1. h.n # 0 /\ ~ (crowded /\ n = Times) /\ t = [s EXCEPT !.net = @ \cup {reply}, !.host = Stored(h, own, tb, i, c)]
    BY <1>1, <1>3
  <2>2. Alike(s, t)
    BY HandleConnectCookieAlike DEF Fine
  <2>3. /\ DOMAIN h = HostFields /\ DOMAIN s = {"peer", "host", "net", "seen"}
        /\ h.n \in 1 .. NPeers /\ (\A j \in 0 .. h.n - 1 : h.idle[j] \in Free(s))
        /\ (\A j \in Free(s) : \E l \in 0 .. h.n - 1 : h.idle[l] = j) /\ Free(s) \in SUBSET Peers
    <3>1. h.n # 0
      BY <2>1
    <3>2. Shaped(s) /\ Listed(h, Free(s))
      BY DEF Fine
    <3> HIDE DEF h
    <3>3. DOMAIN h = HostFields /\ DOMAIN s = {"peer", "host", "net", "seen"} /\ Free(s) \in SUBSET Peers
      BY <3>2 DEF Shaped, Free, h
    <3>4. QED
      BY <3>1, <3>2, <3>3, PeersFinite DEF Listed, Holds
  <2>4. now \in Nat /\ Cooked(h, Free(s), now) /\ h.cookies
    BY DEF Booked
  <2> HIDE DEF h
  <2>5. ASSUME NEW x \in Nat PROVE PeerOf(h, x) \in Free(s) /\ PeerOf(h, x) \in Peers
    <3>1. x \div (TotalSessions * Times) \in Int
      BY RandomsNat
    <3> DEFINE y == x \div (TotalSessions * Times)
    <3> HIDE DEF y
    <3>2. y % h.n \in 0 .. h.n - 1
      BY <2>3, <3>1 DEF y
    <3>3. h.idle[y % h.n] \in Free(s)
      BY <2>3, <3>2
    <3>4. QED
      BY <2>3, <3>3 DEF PeerOf, y
  <2>6. k \in Nat /\ (k # 0 => k - 1 \in Nat /\ Collides(h, last))
    BY <2>3, <2>4, <2>5, RetriesEnd
  <2>7. r \in Nat /\ (k # 0 => last \in Nat)
    <3> HIDE DEF k
    <3>1. \A j \in Nat : After(r0, j) \in Nat
      <4> SUFFICES ASSUME NEW j \in Nat PROVE (r0 + j) % Randoms \in Nat
        BY DEF After
      <4>1. r0 + j \in Int /\ Randoms \in Nat \ {0}
        BY RandomsNat
      <4>2. QED
        BY <4>1
    <3>2. QED
      BY <2>6, <3>1
  <2> HIDE DEF r
  <2>8. p \in Free(s) /\ p \in Peers /\ own \in Free(s) /\ own \in Peers
    <3> HIDE DEF last, k
    <3>1. QED
      BY <2>5, <2>7
  <2>9. /\ c.real = now /\ c.stray = stray /\ c.t = tm /\ c.sess = SessionOf(r)
    <3> HIDE DEF tm, stray
    <3>1. q.inSess = SessionOf(r)
      BY DEF Offered
    <3> HIDE DEF q
    <3>2. QED
      BY <3>1
  <2> HIDE DEF c
  <2>10. ~ (crowded /\ n = Times) /\ (crowded => n # 0)
    BY <2>1 DEF Collides
  <2>11. stray => h.table[own].n # 0
    BY <2>6 DEF Collides
  <2>12. \/ h.table[own].n = 0 /\ tb = EmptyTable(MinSlots)
         \/ h.table[own].n # 0 /\ h.table[own].n # Times /\ tb = Extended(h.table[own])
         \/ h.table[own].n # 0 /\ tb = h.table[own]
    <3> DEFINE x == EmptyTable(MinSlots)
               y == Extended(h.table[p])
    <3>0. ~ stray => own = p
      OBVIOUS
    <3>1. stray => n = 0
      OBVIOUS
    <3>2. n = h.table[p].n
      OBVIOUS
    <3> HIDE DEF crowded, x, y, own, stray
    <3>3. tb = CASE n = 0 /\ ~ stray -> x [] crowded -> y [] OTHER -> h.table[own]
      BY DEF x, y
    <3> HIDE DEF tb, n
    <3>4. \/ n = 0 /\ ~ stray /\ tb = x
          \/ n # 0 /\ n # Times /\ tb = y
          \/ (n # 0 \/ stray) /\ tb = h.table[own]
      BY <2>10, <3>3
    <3>5. CASE n = 0 /\ ~ stray /\ tb = x
      BY <3>0, <3>2, <3>5 DEF x
    <3>6. CASE n # 0 /\ n # Times /\ tb = y
      BY <3>0, <3>1, <3>2, <3>6 DEF y
    <3>7. CASE (n # 0 \/ stray) /\ tb = h.table[own]
      BY <2>11, <3>0, <3>2, <3>7
    <3>8. QED
      BY <3>4, <3>5, <3>6, <3>7
  <2>13. c.stray \/ i = <<c.t % tb.n, c.sess>>
    <3>1. stray \/ i = <<tm % tb.n, SessionOf(r)>>
      OBVIOUS
    <3> HIDE DEF stray, i, tm, tb
    <3>2. QED
      BY <2>9, <3>1
  <2> HIDE DEF tb, i, own
  <2>14. /\ Orderly(tb, now) /\ tb # NoTable
         /\ \A x : Cardinality(Since(tb, x)) <= Cardinality(Since(h.table[own], x))
    BY <2>4, <2>8, <2>12, TableFits
  <2>15. Cooked(Stored(h, own, tb, i, c), Free(s), now)
    BY <2>3, <2>4, <2>8, <2>9, <2>13, <2>14, StoredCooked
  <2> HIDE DEF t
  <2>16. t.host = Stored(h, own, tb, i, c)
    BY <2>1, <2>3
  <2>17. Free(t) = Free(s)
    BY <2>2 DEF Alike, Similar, Free, Ends
  <2>18. Booked(t)
    BY <2>4, <2>15, <2>16, <2>17 DEF Booked
  <2>19. QED
    BY <2>18 DEF t
<1>4. QED
  BY <1>2, <1>3

LEMMA RestoredBooked ==
  ASSUME NEW s, Fine(s), Booked(s), NEW p \in Peers, s.peer[p].state = "DISCONNECTED", s.host.table[p].n # 0, NEW d
  PROVE  Booked(Restored(s, p, d))
<1> DEFINE r == Restored(s, p, d)
           tb == s.host.table[p]
           slot == <<d.t % tb.n, d.sess>>
           c == tb.at[slot]
           used == [s EXCEPT !.host.table[p].at[slot] = None]
           i == CHOOSE j \in 0 .. s.host.n - 1 : s.host.idle[j] = p
           f == Taken(used.host, p, i)
           g == Untabled(f, p)
           o == Recovered(used.peer[p], d, c)
           back == [used EXCEPT !.host = g, !.peer[p] = o]
<1>1. r = s \/ r = used \/ r = back
  <2>1. r \in {s, used, back}
    BY ZenonT(60) DEF Restored
  <2> HIDE DEF r, used, back
  <2>2. QED
    BY <2>1
<1>2. DOMAIN s.host = HostFields /\ DOMAIN s = {"peer", "host", "net", "seen"} /\ Shaped(s) /\ p \in Ends
  BY DEF Fine, Shaped, Ends
<1>3. Pays(s, r, p)
  BY RestoredPays
<1>4. Apart(s, r, p)
  BY <1>2, <1>3, PaysApart
<1>5. now \in Nat /\ Cooked(s.host, Free(s), now)
  BY DEF Booked
<1> HIDE DEF r, c, slot, i
<1> DEFINE less == [s.host EXCEPT !.table[p].at[slot] = None]
<1>6. Cooked(less, Free(s), now)
  <2>1. s.host.table[p] # NoTable
    BY NoTableEmpty
  <2>2. QED
    BY <1>2, <1>5, <2>1, UsedCooked
<1>7. used.host = less /\ used.peer = s.peer /\ DOMAIN less = HostFields /\ DOMAIN used = DOMAIN s
  BY <1>2
<1> HIDE DEF used, less, o
<1>8. CASE r = s
  BY <1>8 DEF r
<1>9. CASE r = used
  <2>1. Free(used) = Free(s)
    BY <1>7 DEF Free
  <2>2. Booked(used)
    BY <1>5, <1>6, <1>7, <2>1 DEF Booked
  <2>3. QED
    BY <1>9, <2>2 DEF r
<1>10. CASE r = back
  <2>1. SameBook(less, f) /\ DOMAIN f = HostFields
    <3>1. f = Taken(less, p, i)
      BY <1>7
    <3>2. DOMAIN Taken(less, p, i) = HostFields
      BY <1>7 DEF Taken
    <3> HIDE DEF f
    <3>3. QED
      BY <1>7, <3>1, <3>2, TakenBook
  <2> HIDE DEF f
  <2>2. Cooked(f, Free(s), now)
    BY <1>6, <2>1, BookCooked
  <2>3. \A q \in Free(s) : q # p => q \in Free(r)
    BY <1>4 DEF Free, Apart, Ends
  <2>4. Cooked(g, Free(r), now)
    BY <1>5, <2>1, <2>2, <2>3, UntabledCooked
  <2> HIDE DEF g
  <2>5. r.host = g
    BY <1>2, <1>7, <1>10
  <2>6. Booked(r)
    BY <1>5, <2>4, <2>5 DEF Booked
  <2>7. QED
    BY <2>6 DEF r
<1>11. QED
  BY <1>1, <1>8, <1>9, <1>10

LEMMA HandleAcknowledgeBooked ==
  ASSUME NEW s, Fine(s), Booked(s), NEW e \in Ends, NEW d, NEW ev,
         s.peer[e].state = "DISCONNECTED" => e \in Peers /\ s.host.table[e].n # 0
  PROVE  Booked(HandleAcknowledge(s, e, d, ev))
<1> DEFINE st == s.peer[e].state
           acked == RemoveSent(s, e, d.seq)
           kind == KindSent(s, e, d.seq)
           back == Restored(s, e, d)
           r == HandleAcknowledge(s, e, d, ev)
<1>1. CASE st = "DISCONNECTED"
  <2>1. Pays(s, back, e) /\ back.peer[e].state \in {"DISCONNECTED", "ACKNOWLEDGING_CONNECT"}
    BY <1>1, RestoredPays
  <2>2. r = IF back.peer[e].state = "DISCONNECTED" THEN back ELSE NotifyConnect(back, e, ev)
    BY <1>1 DEF HandleAcknowledge
  <2>3. Booked(back)
    BY <1>1, RestoredBooked
  <2> HIDE DEF back, r
  <2>4. Fine(back)
    BY <2>1 DEF Pays, Goes
  <2>5. CASE back.peer[e].state = "DISCONNECTED"
    BY <2>2, <2>3, <2>5 DEF r
  <2>6. CASE back.peer[e].state = "ACKNOWLEDGING_CONNECT"
    <3>1. Booked(NotifyConnect(back, e, ev))
      BY <2>3, <2>4, <2>6, NotifyConnectBooked DEF Leaving
    <3>2. QED
      BY <2>2, <2>6, <3>1 DEF r
  <2>7. QED
    BY <2>1, <2>5, <2>6
<1>2. CASE st # "DISCONNECTED"
  <2>1. \/ st = "ACKNOWLEDGING_CONNECT" /\ r = NotifyConnect(acked, e, ev)
        \/ r = NotifyDisconnect(acked, e, ev)
        \/ r = FinishLater(acked, e)
        \/ r = acked
    BY <1>2 DEF HandleAcknowledge
  <2>2. Alike(s, acked) /\ acked.host = s.host
    BY RemoveAlike, HostKept DEF Fine
  <2> HIDE DEF acked, r
  <2>3. Fine(acked) /\ Booked(acked) /\ acked.peer[e].state = st
    BY <2>2, AlikeFine, AlikeBooked, SameBookSelf DEF Alike, Similar
  <2>4. Booked(NotifyDisconnect(acked, e, ev)) /\ Booked(FinishLater(acked, e))
    BY <2>3, NotifyDisconnectBooked, FinishLaterBooked
  <2>5. st = "ACKNOWLEDGING_CONNECT" => Booked(NotifyConnect(acked, e, ev))
    BY <2>3, NotifyConnectBooked DEF Leaving
  <2>6. Booked(r)
    BY <2>1, <2>3, <2>4, <2>5
  <2>7. QED
    BY <2>6 DEF r
<1>3. QED
  BY <1>1, <1>2

LEMMA AcknowledgementBooked ==
  ASSUME NEW s, Fine(s), Booked(s), NEW e \in Ends, NEW d
  PROVE  Booked(QueueAcknowledgement(s, e, d))
<1> DEFINE t == QueueAcknowledgement(s, e, d)
           a == [seq |-> d.seq, t |-> d.t, kind |-> d.kind]
<1>1. t = s \/ t = [s EXCEPT !.peer[e].acks = @ \cup {a}]
  BY ZenonT(60) DEF QueueAcknowledgement
<1>2. Shaped(s)
  BY DEF Fine
<1>3. t.host = s.host
  BY <1>2, HostKept
<1> HIDE DEF t, a
<1>4. DOMAIN t.peer = Ends /\ \A q \in Ends : q # e => t.peer[q] = s.peer[q]
  BY <1>1, <1>2 DEF Shaped
<1>5. t.peer[e].state = s.peer[e].state
  BY <1>1, <1>2, FreshFields DEF Shaped
<1>6. Apart(s, t, e)
  BY <1>4 DEF Apart
<1>7. Booked(t)
  BY <1>3, <1>5, <1>6, SameBooked, SameBookSelf
<1>8. QED
  BY <1>7 DEF t

LEMMA HandleIncomingBooked ==
  ASSUME NEW s, Proper(s), Booked(s), NEW e \in Ends, NEW d, NEW ev,
         s.peer[e].state = "DISCONNECTED" => e \in Peers /\ s.host.table[e].n # 0
  PROVE  Booked(HandleIncoming(s, e, d, ev))
<1> DEFINE r == HandleIncoming(s, e, d, ev)
           v == HandleVerifyConnect(s, e, d, ev)
           x == HandleDisconnect(s, e, d)
           w == HandleData(s, e, d)
<1>1. Fine(s) /\ Serves(s, e)
  BY ProperPeer
<1>2. \/ r = HandleAcknowledge(s, e, d, ev)
      \/ r = QueueAcknowledgement(v, e, d)
      \/ r = QueueAcknowledgement(x, e, d)
      \/ s.peer[e].state \in Up /\ r = QueueAcknowledgement(w, e, d)
      \/ r = s
  BY DEF HandleIncoming
<1>3. Booked(v) /\ Booked(x) /\ Booked(w)
  BY <1>1, HandleVerifyConnectBooked, HandleDisconnectBooked, HandleDataBooked
<1>4. Fine(v) /\ Fine(x)
  <2>1. Pays(s, v, e) /\ Pays(s, x, e)
    BY <1>1, HandleVerifyConnectPays, HandleDisconnectPays
  <2>2. QED
    BY <2>1, PaysApart
<1>5. s.peer[e].state \in Up => Fine(w)
  BY HandleDataProper DEF Proper
<1>6. Booked(HandleAcknowledge(s, e, d, ev))
  BY <1>1, HandleAcknowledgeBooked
<1> HIDE DEF v, x, w, r
<1>7. Booked(r)
  BY <1>2, <1>3, <1>4, <1>5, <1>6, AcknowledgementBooked
<1>8. QED
  BY <1>7 DEF r

-----------------------------------------------------------------------------
(* The inductive invariant of the cookies.  That connectsInWindow counts     *)
(* every live cookie is not inductive: a tick subtracts the count of the    *)
(* oldest tick, so that each suffix of the ring has to cover the cookies    *)
(* that are no older.  And only idle peers have tables, because the         *)
(* clean-up sweeps the idle ones and sets connectsWindow to 0.              *)

\* The peers that are idle, and the invariant.
IdleNow == {p \in Peers : peer[p].state = "DISCONNECTED"}

CInv == now \in Nat /\ Cooked(host, IdleNow, now)

\* The share of the places that connects may fill is a percentage.
RInv == ratio \in 0 .. 100

LEMMA RatioKept == RInv /\ [Next]_vars => RInv'
<1> SUFFICES ASSUME RInv, [Next]_vars PROVE RInv'
  OBVIOUS
<1>1. CASE ratio' = ratio
  BY <1>1 DEF RInv
<1>2. CASE ConnectCookies
  BY <1>2, PeersAssumption DEF ConnectCookies, RInv
<1>3. CASE UNCHANGED vars
  BY <1>1, <1>3 DEF vars
<1>4. \A s : Become(s) => ratio' = ratio
  BY DEF Become
<1>5. ASSUME NEW d, NEW ev, Receive(d, ev) PROVE ratio' = ratio
  BY <1>4, <1>5 DEF Receive
<1>6. ASSUME NEW d, ReceiveConnect(d) PROVE ratio' = ratio
  BY <1>4, <1>6, ZenonT(60) DEF ReceiveConnect
<1>7. ASSUME NEW e, SendOutgoing(e) \/ Dispatch(e) \/ Send(e) PROVE ratio' = ratio
  BY <1>4, <1>7, ZenonT(60) DEF SendOutgoing, Dispatch, Send
<1>8. ASSUME NEW e, NEW ev, TimeOut(e, ev) PROVE ratio' = ratio
  BY <1>4, <1>8 DEF TimeOut
<1>9. ASSUME NEW e, CallDisconnect(e) \/ CallDisconnectLater(e) \/ CallDisconnectNow(e) PROVE ratio' = ratio
  BY <1>4, <1>9, ZenonT(60) DEF CallDisconnect, CallDisconnectLater, CallDisconnectNow
<1>10. ASSUME NEW c, HostConnect(c) PROVE ratio' = ratio
  BY <1>4, <1>10, ZenonT(60) DEF HostConnect
<1>11. CASE Tick
  BY <1>1, <1>11 DEF Tick
<1>12. QED
  BY <1>1, <1>2, <1>3, <1>5, <1>6, <1>7, <1>8, <1>9, <1>10, <1>11 DEF Next

LEMMA RatioFirst == Init => RInv
  BY PeersAssumption DEF Init, RInv

LEMMA NowBooked == ASSUME CInv PROVE Booked(Now)
<1>1. Now.host = host /\ Now.peer = peer
  BY DEF Now
<1>2. Free(Now) = IdleNow
  BY <1>1 DEF Free, IdleNow
<1>3. QED
  BY <1>1, <1>2 DEF Booked, CInv

LEMMA BecomeBooked ==
  ASSUME NEW t, Booked(t), Become(t), now' = now
  PROVE  CInv'
<1>1. peer' = t.peer /\ host' = t.host
  BY DEF Become
<1>2. IdleNow' = Free(t)
  BY <1>1 DEF Free, IdleNow
<1>3. now \in Nat /\ Cooked(t.host, Free(t), now)
  BY DEF Booked
<1>4. now' \in Nat /\ Cooked(host', IdleNow', now')
  BY <1>1, <1>2, <1>3
<1>5. QED
  BY <1>4 DEF CInv

LEMMA ReceiveCooked ==
  ASSUME IInv, CInv, NEW d, NEW ev, Receive(d, ev)
  PROVE  CInv'
<1>1. d.to \in Ends /\ Accepts(Now, d.to, d) /\ Become(HandleIncoming(Now, d.to, d, ev)) /\ now' = now
  BY DEF Receive, Still
<1>2. Now.peer[d.to].state = "DISCONNECTED" => d.to \in Peers /\ Now.host.table[d.to].n # 0
  BY <1>1 DEF Accepts
<1>3. Booked(HandleIncoming(Now, d.to, d, ev))
  BY <1>1, <1>2, NowProper, NowBooked, HandleIncomingBooked
<1>4. QED
  BY <1>1, <1>3, BecomeBooked

LEMMA ReceiveConnectCooked ==
  ASSUME IInv, CInv, RInv, NEW d, ReceiveConnect(d)
  PROVE  CInv'
<1>1. \/ (~ host.cookies \/ host.n = 0) /\ Become(HandleConnect(Now, d))
      \/ host.cookies /\ \E r \in Draws : Become(HandleConnectCookie(Now, d, r))
  BY ZenonT(60) DEF ReceiveConnect
<1>2. now' = now
  BY DEF ReceiveConnect
<1>3. Fine(Now) /\ Booked(Now) /\ Now.host = host
  BY NowProper, NowBooked DEF Proper, Now
<1>4. CASE (~ host.cookies \/ host.n = 0) /\ Become(HandleConnect(Now, d))
  <2>1. Booked(HandleConnect(Now, d))
    BY <1>3, <1>4, HandleConnectBooked
  <2>2. QED
    BY <1>2, <1>4, <2>1, BecomeBooked
<1>5. ASSUME host.cookies, NEW r \in Draws, Become(HandleConnectCookie(Now, d, r)) PROVE CInv'
  <2>1. r \in Nat
    BY RandomsNat, PeersAssumption DEF Randoms
  <2>2. Booked(HandleConnectCookie(Now, d, r))
    BY <1>3, <1>5, <2>1, HandleConnectCookieBooked DEF RInv
  <2>3. QED
    BY <1>2, <1>5, <2>2, BecomeBooked
<1>6. QED
  BY <1>1, <1>4, <1>5

LEMMA SendOutgoingCooked ==
  ASSUME IInv, CInv, NEW e \in Ends, SendOutgoing(e)
  PROVE  CInv'
<1> DEFINE s == Now
           m == s.net \cup {Datagram(Now, e, "ACK", a.seq, FALSE, a.t, None) : a \in peer[e].acks}
           told == [s EXCEPT !.net = m, !.peer[e].acks = {}, !.peer[e].out = FALSE]
           bye == \E a \in peer[e].acks : a.kind = "DISCONNECT"
           t == IF bye THEN DispatchState(told, e, "ZOMBIE") ELSE told
<1>1. Become(FinishLater(t, e))
  BY ZenonT(60) DEF SendOutgoing, Now
<1>2. s.peer = peer /\ now' = now
  BY DEF Now, SendOutgoing, Still
<1>3. Proper(s) /\ Booked(s)
  BY NowProper, NowBooked
<1> HIDE DEF s, m
<1>4. Fine(s) /\ Shaped(s) /\ Parting(s.peer[e])
  BY <1>3, ProperPeer
<1>5. /\ DOMAIN told = {"peer", "host", "net", "seen"} /\ told.host = s.host /\ told.seen = s.seen
      /\ DOMAIN told.peer = Ends /\ \A q \in Ends : q # e => told.peer[q] = s.peer[q]
  BY <1>4 DEF Shaped
<1>6. /\ DOMAIN told.peer[e] = DOMAIN s.peer[e] /\ told.peer[e].acks = {}
      /\ told.peer[e].state = s.peer[e].state /\ told.peer[e].limited = s.peer[e].limited
  BY <1>4, FreshFields DEF Shaped
<1> HIDE DEF told
<1>7. Alike(s, told)
  BY <1>4, <1>5, <1>6 DEF Alike, Similar, Keeps, Shaped
<1>8. Fine(told) /\ Booked(told)
  BY <1>3, <1>4, <1>5, <1>7, AlikeFine, AlikeBooked, SameBookSelf
<1>9. Fine(t) /\ Booked(t)
  <2>1. CASE bye
    <3>1. told.peer[e].state \in Leaving /\ "ZOMBIE" \in Leaving /\ "ZOMBIE" # "DISCONNECTED" /\ "DISCONNECTED" \notin Leaving
      BY <1>2, <1>4, <1>6, <2>1 DEF Parting, Leaving
    <3>2. Booked(DispatchState(told, e, "ZOMBIE")) /\ Fine(DispatchState(told, e, "ZOMBIE"))
      BY <1>8, <3>1, DispatchStateBooked
    <3>3. QED
      BY <2>1, <3>2
  <2>2. CASE ~ bye
    BY <1>8, <2>2
  <2>3. QED
    BY <2>1, <2>2
<1> HIDE DEF t
<1>10. Booked(FinishLater(t, e))
  BY <1>9, FinishLaterBooked
<1>11. QED
  BY <1>1, <1>2, <1>10, BecomeBooked

LEMMA DispatchCooked ==
  ASSUME IInv, CInv, NEW e \in Ends, Dispatch(e)
  PROVE  CInv'
<1> DEFINE o == Now
           s == [o EXCEPT !.peer[e].queued = FALSE]
           st == o.peer[e].state
           read == [s EXCEPT !.peer[e].inbox = FALSE]
<1>1. \/ st \in {"CONNECTION_PENDING", "CONNECTION_SUCCEEDED"}
         /\ Become(Event(ChangeState(s, e, "CONNECTED"), e, 1))
      \/ st = "ZOMBIE" /\ Become(Event(PeerReset(s, e), e, -1))
      \/ Become(read)
      \/ Become(s)
  <2>1. Become(CASE st \in {"CONNECTION_PENDING", "CONNECTION_SUCCEEDED"} ->
                      Event(ChangeState(s, e, "CONNECTED"), e, 1)
                 [] st = "ZOMBIE" -> Event(PeerReset(s, e), e, -1)
                 [] st = "CONNECTED" -> read
                 [] OTHER -> s)
    BY ZenonT(60) DEF Dispatch, Now
  <2> HIDE DEF s, read, st
  <2>2. CASE st \in {"CONNECTION_PENDING", "CONNECTION_SUCCEEDED"}
    BY <2>1, <2>2
  <2>3. CASE st = "ZOMBIE"
    BY <2>1, <2>3
  <2>4. CASE st = "CONNECTED"
    BY <2>1, <2>4
  <2>5. CASE st \notin {"CONNECTION_PENDING", "CONNECTION_SUCCEEDED", "ZOMBIE", "CONNECTED"}
    BY <2>1, <2>5
  <2>6. QED
    BY <2>2, <2>3, <2>4, <2>5
<1>2. Fine(o) /\ Shaped(o) /\ Booked(o) /\ now' = now
  BY NowProper, NowBooked DEF Proper, Fine, Dispatch, Still
<1> HIDE DEF o
<1>3. Fine(s) /\ Booked(s) /\ s.peer[e].state = st
  <2>1. Alike(o, s) /\ s.host = o.host
    BY <1>2, QueuedAlike DEF Shaped
  <2> HIDE DEF s
  <2>2. QED
    BY <1>2, <2>1, AlikeFine, AlikeBooked, SameBookSelf DEF Alike, Similar
<1> HIDE DEF s
<1>4. CASE st \in {"CONNECTION_PENDING", "CONNECTION_SUCCEEDED"}
           /\ Become(Event(ChangeState(s, e, "CONNECTED"), e, 1))
  <2> DEFINE t == ChangeState(s, e, "CONNECTED")
  <2>1. s.peer[e].state # "DISCONNECTED" /\ s.peer[e].state \notin Leaving /\ "CONNECTED" # "DISCONNECTED"
    BY <1>3, <1>4 DEF Leaving
  <2>2. Booked(t) /\ Fine(t)
    BY <1>3, <2>1, ChangeStateBooked
  <2> HIDE DEF t
  <2>3. Booked(Event(t, e, 1))
    BY <2>2, 1 \in Int, EventBooked
  <2>4. QED
    BY <1>2, <1>4, <2>3, BecomeBooked DEF t
<1>5. CASE st = "ZOMBIE" /\ Become(Event(PeerReset(s, e), e, -1))
  <2> DEFINE t == PeerReset(s, e)
  <2>1. Booked(t) /\ Fine(t)
    BY <1>3, PeerResetBooked
  <2> HIDE DEF t
  <2>2. Booked(Event(t, e, -1))
    BY <2>1, -1 \in Int, EventBooked
  <2>3. QED
    BY <1>2, <1>5, <2>2, BecomeBooked DEF t
<1>6. CASE Become(read)
  <2>0. Shaped(s)
    BY <1>3 DEF Fine
  <2>1. /\ read.host = s.host /\ DOMAIN read.peer = Ends
        /\ \A q \in Ends : q # e => read.peer[q] = s.peer[q]
    BY <2>0 DEF Shaped
  <2>2. read.peer[e].state = s.peer[e].state
    BY <2>0, FreshFields DEF Shaped
  <2> HIDE DEF read
  <2>3. Apart(s, read, e)
    BY <2>1 DEF Apart
  <2>4. Booked(read)
    BY <1>3, <2>1, <2>2, <2>3, SameBooked, SameBookSelf
  <2>5. QED
    BY <1>2, <1>6, <2>4, BecomeBooked
<1>7. CASE Become(s)
  BY <1>2, <1>3, <1>7, BecomeBooked
<1>8. QED
  BY <1>1, <1>4, <1>5, <1>6, <1>7

LEMMA OutgoingHost ==
  ASSUME NEW s, Shaped(s), NEW e \in Ends, NEW kind, NEW ack, NEW arg
  PROVE  QueueOutgoing(s, e, kind, ack, arg).host = s.host
  BY HostKept

LEMMA SendCooked ==
  ASSUME IInv, CInv, NEW e \in Ends, Send(e)
  PROVE  CInv'
<1> DEFINE s == Now
           out == [s EXCEPT !.peer[e].out = TRUE]
<1>1. \/ \E kind, ack, arg : Become(QueueOutgoing(s, e, kind, ack, arg))
      \/ Become(out)
  BY ZenonT(60) DEF Send
<1>2. Fine(s) /\ Shaped(s) /\ Booked(s) /\ now' = now
  BY NowProper, NowBooked DEF Proper, Fine, Send
<1> HIDE DEF s
<1>3. ASSUME NEW kind, NEW ack, NEW arg, Become(QueueOutgoing(s, e, kind, ack, arg)) PROVE CInv'
  <2> DEFINE t == QueueOutgoing(s, e, kind, ack, arg)
  <2>1. Alike(s, t)
    BY <1>2, OutgoingAlike
  <2>a. t.host = s.host
    BY <1>2, OutgoingHost
  <2> HIDE DEF t
  <2>2. Booked(t)
    BY <1>2, <2>1, <2>a, AlikeBooked, SameBookSelf
  <2>3. QED
    BY <1>2, <1>3, <2>2, BecomeBooked DEF t
<1>4. ASSUME Become(out) PROVE CInv'
  <2>1. /\ out.host = s.host /\ DOMAIN out.peer = Ends /\ \A q \in Ends : q # e => out.peer[q] = s.peer[q]
    BY <1>2 DEF Shaped
  <2>2. out.peer[e].state = s.peer[e].state
    BY <1>2, FreshFields DEF Shaped
  <2> HIDE DEF out
  <2>3. Apart(s, out, e)
    BY <2>1 DEF Apart
  <2>4. Booked(out)
    BY <1>2, <2>1, <2>2, <2>3, SameBooked, SameBookSelf
  <2>5. QED
    BY <1>2, <1>4, <2>4, BecomeBooked
<1>5. QED
  BY <1>1, <1>3, <1>4

LEMMA CallCooked ==
  ASSUME IInv, CInv, NEW e \in Ends,
         \/ CallDisconnect(e) \/ CallDisconnectLater(e) \/ CallDisconnectNow(e) \/ \E ev : TimeOut(e, ev)
  PROVE  CInv'
<1> DEFINE s == Now
           t == DisconnectNow(s, e)
           u == [t EXCEPT !.seen[e] = 0]
<1>1. /\ now' = now
      /\ \/ Become(Disconnect(s, e)) \/ Become(DisconnectLater(s, e)) \/ \E ev : Become(NotifyDisconnect(s, e, ev))
         \/ Become(IF e \in Peers THEN u ELSE t)
  BY ZenonT(60) DEF CallDisconnect, CallDisconnectLater, CallDisconnectNow, TimeOut, Called, Still
<1>2. Fine(s) /\ Booked(s)
  BY NowProper, NowBooked DEF Proper
<1> HIDE DEF s
<1>3. Booked(Disconnect(s, e)) /\ Booked(DisconnectLater(s, e)) /\ \A ev : Booked(NotifyDisconnect(s, e, ev))
  BY <1>2, DisconnectBooked, DisconnectLaterBooked, NotifyDisconnectBooked
<1>4. Booked(t)
  BY <1>2, DisconnectNowBooked
<1>5. Goes(s, t, e, "DISCONNECTED", 0)
  BY <1>2, DisconnectNowGoes
<1> HIDE DEF t
<1>6. Booked(u)
  <2>1. DOMAIN t = {"peer", "host", "net", "seen"}
    BY <1>5 DEF Goes, Fine, Shaped
  <2>2. u.host = t.host /\ u.peer = t.peer
    BY <2>1
  <2> HIDE DEF u
  <2>3. Free(u) = Free(t)
    BY <2>2 DEF Free
  <2>4. QED
    BY <1>4, <2>2, <2>3 DEF Booked
<1> HIDE DEF u
<1>7. QED
  BY <1>1, <1>3, <1>4, <1>6, BecomeBooked

LEMMA HostConnectCooked ==
  ASSUME IInv, CInv, NEW c \in Clients, HostConnect(c)
  PROVE  CInv'
<1> DEFINE o == Now
           s == [o EXCEPT !.peer[c] = [@ EXCEPT !.state = "CONNECTING", !.addr = Server, !.id = connects + 1]]
           a == [id |-> connects + 1, inSess |-> peer[c].inSess, outSess |-> peer[c].outSess, limited |-> TRUE]
           ack == TRUE
           t == QueueOutgoing(s, c, "CONNECT", ack, a)
<1>1. Become(t) /\ now' = now
  BY ZenonT(60) DEF HostConnect
<1>2. Fine(o) /\ Shaped(o) /\ Booked(o)
  BY NowProper, NowBooked DEF Proper, Fine
<1>3. c \in Ends /\ c \notin Peers
  BY PeersFinite DEF Ends
<1> HIDE DEF o, a, ack
<1>4. /\ DOMAIN s = {"peer", "host", "net", "seen"} /\ s.host = o.host /\ s.seen = o.seen
      /\ DOMAIN s.peer = Ends /\ \A q \in Ends : q # c => s.peer[q] = o.peer[q]
  BY <1>2, <1>3 DEF Shaped
<1>5. DOMAIN s.peer[c] = DOMAIN o.peer[c]
  BY <1>2, <1>3, FreshFields DEF Shaped
<1> HIDE DEF s
<1>6. Shaped(s) /\ Apart(o, s, c)
  BY <1>2, <1>4, <1>5 DEF Shaped, Apart
<1>7. Booked(s)
  BY <1>2, <1>3, <1>4, <1>6, SameBooked, SameBookSelf
<1>8. Alike(s, t)
  BY <1>3, <1>6, OutgoingAlike
<1>a. t.host = s.host
  BY <1>3, <1>6, OutgoingHost
<1> HIDE DEF t
<1>9. Booked(t)
  BY <1>7, <1>8, <1>a, AlikeBooked, SameBookSelf
<1>10. QED
  BY <1>1, <1>9, BecomeBooked

LEMMA TickCooked ==
  ASSUME IInv, CInv, Tick
  PROVE  CInv'
<1> DEFINE i == (host.index + 1) % (CookieTimeout + 1)
           n == host.inWindow - host.data[i]
           shifted == [host EXCEPT !.index = i, !.inWindow = n, !.data[i] = 0, !.stamp = @ + 1]
           aged == IF now' - host.stamp <= 1 THEN host ELSE shifted
           tables == [p \in Peers |-> IF p \in Idle(host) THEN NoTable ELSE aged.table[p]]
           swept == [aged EXCEPT !.window = 0, !.table = tables]
<1>1. host' \in {swept, aged} /\ peer' = peer /\ now' = now + 1
  BY ZenonT(60) DEF Tick
<1>2. DOMAIN host = HostFields
  BY HostFieldsKept
<1>3. now \in Nat /\ now + 1 \in Nat /\ Cooked(host, IdleNow, now)
  BY DEF CInv
<1>4. aged \in {host, shifted}
  OBVIOUS
<1> DEFINE Data == [host.data EXCEPT ![i] = 0]
<1>5. /\ DOMAIN shifted = HostFields /\ shifted.cookies = host.cookies /\ shifted.table = host.table
      /\ shifted.window = host.window /\ shifted.index = i /\ shifted.inWindow = n /\ shifted.data = Data
  <2> HIDE DEF i, n
  <2>1. QED
    BY <1>2 DEF HostFields
<1>6. i = (host.index + 1) % (CookieTimeout + 1) /\ n = host.inWindow - host.data[i]
  OBVIOUS
<1> HIDE DEF i, n, shifted
<1>7. Cooked(host, IdleNow, now + 1)
  BY <1>3, LaterCooked
<1>8. Cooked(shifted, IdleNow, now + 1)
  BY <1>3, <1>5, <1>6, ShiftCooked
<1>9. DOMAIN aged = HostFields /\ Cooked(aged, IdleNow, now + 1)
  BY <1>2, <1>4, <1>5, <1>7, <1>8
<1> HIDE DEF aged
<1>10. Cooked(swept, IdleNow, now + 1)
  <2>1. Idle(host) = IdleNow
    <3>1. HostAgrees
      BY ProperAgrees
    <3>2. Busy(host) = {p \in Peers : peer[p].state # "DISCONNECTED"} /\ Idle(host) = Peers \ Busy(host)
      BY <3>1 DEF HostAgrees
    <3>3. QED
      BY <3>2 DEF IdleNow
  <2>2. \A p \in Peers : aged.table[p] # NoTable => p \in IdleNow
    BY <1>9 DEF Cooked, Stocked
  <2>3. tables = [p \in Peers |-> NoTable]
    <3>1. \A p \in Peers : (IF p \in Idle(host) THEN NoTable ELSE aged.table[p]) = NoTable
      BY <2>1, <2>2
    <3>2. QED
      BY <3>1
  <2> HIDE DEF tables
  <2>4. /\ swept.table = tables /\ swept.window = 0 /\ swept.inWindow = aged.inWindow
        /\ swept.data = aged.data /\ swept.index = aged.index
    BY <1>9 DEF HostFields
  <2> HIDE DEF swept
  <2>5. PICK D : Sums(aged, D)
    BY <1>9 DEF Cooked
  <2>6. Ring(swept)
    BY <1>9, <2>4 DEF Cooked, Ring
  <2>7. Sums(swept, D)
    BY <2>4, <2>5 DEF Sums
  <2>8. QED
    BY <2>3, <2>4, <2>6, <2>7, ClearedCooked
<1> HIDE DEF swept
<1>11. Cooked(host', IdleNow, now + 1)
  BY <1>1, <1>9, <1>10
<1>12. IdleNow' = IdleNow
  BY <1>1 DEF IdleNow
<1>13. QED
  BY <1>1, <1>3, <1>11, <1>12 DEF CInv

\* No table and no count.
LEMMA EmptyCooked ==
  ASSUME NEW f, f.table = [p \in Peers |-> NoTable], f.window = 0, f.inWindow = 0, f.index = 0,
         f.data = [k \in 0 .. CookieTimeout |-> 0], NEW free, NEW t
  PROVE  Cooked(f, free, t)
<1> DEFINE D == [j \in 0 .. Span |-> 0]
<1>1. 0 \in 0 .. CookieTimeout /\ 0 \in Nat /\ 0 + 0 = 0
  BY TimeoutNat
<1>2. Ring(f)
  BY <1>1 DEF Ring
<1>3. D \in [0 .. Span -> Nat] /\ \A j \in 0 .. Span : D[j] = 0
  BY <1>1
<1> HIDE DEF D
<1>4. ASSUME NEW k \in 0 .. CookieTimeout PROVE D[k + 1] = D[k] + f.data[Behind(f.index, k)]
  <2>1. Behind(f.index, k) \in 0 .. CookieTimeout
    BY <1>1, SpanPlaces
  <2>2. f.data[Behind(f.index, k)] = 0
    BY <2>1
  <2>3. D[k + 1] = 0 /\ D[k] = 0
    BY <1>3, SpanPlaces
  <2>4. QED
    BY <1>1, <2>2, <2>3
<1>5. Sums(f, D)
  BY <1>3, <1>4, SpanPlaces DEF Sums
<1>6. QED
  BY <1>2, <1>5, ClearedCooked

LEMMA ConnectCookiesCooked ==
  ASSUME IInv, CInv, ConnectCookies
  PROVE  CInv'
<1> DEFINE tables == [p \in Peers |-> NoTable]
           none == [k \in DOMAIN host.data |-> 0]
<1>1. /\ \E on \in BOOLEAN :
           host' = [host EXCEPT !.cookies = on, !.table = tables, !.window = 0,
                      !.inWindow = 0, !.data = none, !.index = 0, !.stamp = now]
      /\ peer' = peer /\ now' = now
  BY ZenonT(60) DEF ConnectCookies, Called
<1>2. now \in Nat /\ Ring(host)
  BY DEF CInv, Cooked
<1>3. none = [k \in 0 .. CookieTimeout |-> 0]
  BY <1>2 DEF Ring
<1>4. DOMAIN host = HostFields
  BY HostFieldsKept
<1>5. tables = [p \in Peers |-> NoTable]
  OBVIOUS
<1> HIDE DEF tables, none
<1>6. /\ host'.table = tables /\ host'.window = 0 /\ host'.inWindow = 0
      /\ host'.data = none /\ host'.index = 0
  BY <1>1, <1>4 DEF HostFields
<1>7. Cooked(host', IdleNow', now')
  BY <1>3, <1>5, <1>6, EmptyCooked
<1>8. QED
  BY <1>1, <1>2, <1>7 DEF CInv

LEMMA InitCooked == Init => CInv
<1> SUFFICES ASSUME Init PROVE CInv
  OBVIOUS
<1>1. /\ host.table = [p \in Peers |-> NoTable] /\ host.window = 0 /\ host.inWindow = 0
      /\ host.data = [i \in 0 .. CookieTimeout |-> 0] /\ host.index = 0 /\ now = 0
  BY DEF Init
<1>2. Cooked(host, IdleNow, now)
  BY <1>1, EmptyCooked
<1>3. QED
  BY <1>1, <1>2 DEF CInv

LEMMA NextCooked == IInv /\ CInv /\ RInv /\ [Next]_vars => CInv'
<1> SUFFICES ASSUME IInv, CInv, RInv, [Next]_vars PROVE CInv'
  OBVIOUS
<1>1. ASSUME NEW d \in net, NEW ev \in Services, Receive(d, ev) PROVE CInv'
  BY <1>1, ReceiveCooked
<1>2. ASSUME NEW d \in net, ReceiveConnect(d) PROVE CInv'
  BY <1>2, ReceiveConnectCooked
<1>3. ASSUME NEW e \in Ends, SendOutgoing(e) PROVE CInv'
  BY <1>3, SendOutgoingCooked
<1>4. ASSUME NEW e \in Ends, Dispatch(e) PROVE CInv'
  BY <1>4, DispatchCooked
<1>5. ASSUME NEW e \in Ends, Send(e) PROVE CInv'
  BY <1>5, SendCooked
<1>6. ASSUME NEW e \in Ends, NEW ev \in Services, TimeOut(e, ev) PROVE CInv'
  BY <1>6, CallCooked
<1>7. ASSUME NEW e \in Ends, CallDisconnect(e) \/ CallDisconnectLater(e) \/ CallDisconnectNow(e) PROVE CInv'
  BY <1>7, CallCooked
<1>8. ASSUME NEW c \in Clients, HostConnect(c) PROVE CInv'
  BY <1>8, HostConnectCooked
<1>9. CASE Tick
  BY <1>9, TickCooked
<1>10. CASE ConnectCookies
  BY <1>10, ConnectCookiesCooked
<1>11. CASE UNCHANGED vars
  BY <1>11 DEF vars, CInv, IdleNow
<1>12. QED
  BY <1>1, <1>2, <1>3, <1>4, <1>5, <1>6, <1>7, <1>8, <1>9, <1>10, <1>11 DEF Next

\* The cookies of a table that can still be answered.
Alive(tb) == {i \in PlacesOf(tb) : tb.at[i] # None /\ ~ Expired(tb.at[i])}

LEMMA CookedAccounts == CInv => CookiesAccounted
<1> SUFFICES ASSUME CInv PROVE CookiesAccounted
  OBVIOUS
<1>1. now \in Nat /\ Stocked(host, IdleNow, now)
  BY DEF CInv, Cooked
<1>2. PICK D : Sums(host, D) /\ Covers(host.table, D, now)
  BY DEF CInv, Cooked
<1> DEFINE Some(F(_)) == UNION {{p} \X F(p) : p \in Peers}
           Places(p) == IF host.table[p].n = 0 THEN {} ELSE Slots(host.table[p].n)
           Live(p) == {i \in Places(p) : host.table[p].at[i] # None /\ ~ Expired(host.table[p].at[i])}
<1>3. \A p \in Peers : Places(p) = PlacesOf(host.table[p]) /\ Live(p) = Alive(host.table[p])
  BY DEF PlacesOf, Alive
<1>4. Some(Places) = AllPlaces(host.table)
  BY <1>3 DEF AllPlaces, Spread
<1>5. Some(Live) = Spread([p \in Peers |-> Alive(host.table[p])])
  BY <1>3 DEF Spread
<1>6. ASSUME NEW p \in Peers, NEW i \in Alive(host.table[p])
      PROVE  /\ Placed(host.table[p], i)
             /\ i \in Since(host.table[p], now + 1 - Span)
  <2> DEFINE tb == host.table[p]
  <2>1. Orderly(tb, now)
    BY <1>1 DEF Stocked
  <2> HIDE DEF tb
  <2>2. i \in PlacesOf(tb) /\ tb.at[i] # None /\ ~ (now - tb.at[i].real > CookieTimeout)
    BY <1>6 DEF Alive, Expired, tb
  <2>3. tb # NoTable /\ i \in Slots(tb.n)
    BY <2>2, NoTableEmpty DEF PlacesOf
  <2>4. Placed(tb, i) /\ tb.at[i].real \in 0 .. now
    BY <2>1, <2>2, <2>3 DEF Orderly
  <2>5. tb.at[i].real >= now + 1 - Span
    <3> DEFINE r == tb.at[i].real
    <3>1. r \in 0 .. now /\ ~ (now - r > CookieTimeout)
      BY <2>2, <2>4
    <3> HIDE DEF r
    <3>2. r >= now + 1 - Span
      BY <1>1, <3>1, TimeoutNat DEF Span
    <3>3. QED
      BY <3>2 DEF r
  <2>6. QED
    BY <2>2, <2>4, <2>5 DEF Since, tb
<1>7. Cardinality(Some(Live)) <= host.inWindow
  <2> DEFINE F == [p \in Peers |-> Since(host.table[p], now + 1 - Span)]
             G == [p \in Peers |-> Alive(host.table[p])]
  <2>1. \A p \in Peers : IsFiniteSet(F[p]) /\ G[p] \subseteq F[p]
    BY <1>1, <1>6, PlacesFinite DEF Stocked
  <2>2. Spread(F) = AllSince(host.table, now + 1 - Span)
    BY DEF AllSince
  <2>3. Cardinality(Some(Live)) = Cardinality(Spread(G))
    BY <1>5
  <2> HIDE DEF F, G
  <2>4. Cardinality(Spread(G)) <= Cardinality(Spread(F)) /\ Cardinality(Spread(G)) \in Nat /\ Cardinality(Spread(F)) \in Nat
    <3>1. IsFiniteSet(Spread(F)) /\ IsFiniteSet(Spread(G)) /\ Cardinality(Spread(G)) <= Cardinality(Spread(F))
      BY <2>1, SpreadLess, SpreadFinite
    <3>2. QED
      BY <3>1, FS_CardinalityType
  <2>5. Cardinality(Spread(F)) <= D[Span]
    BY <1>2, <2>2, SpanPlaces DEF Covers
  <2>6. D[Span] = host.inWindow /\ D[Span] \in Nat
    BY <1>2, SpanPlaces DEF Sums
  <2> HIDE DEF Some, Live
  <2>7. QED
    BY <2>3, <2>4, <2>5, <2>6
<1>8. host.window = Cardinality(Some(Places))
  BY <1>1, <1>4 DEF Stocked
<1>9. \A p \in Peers : \A i \in Live(p) : Placed(host.table[p], i)
  BY <1>3, <1>6
<1>10. QED
  BY <1>7, <1>8, <1>9 DEF CookiesAccounted

\* What the host counts is what there is, whatever datagrams come and in
\* whatever order: its lists and counts of peers agree with their states,
\* connectsWindow is the number of cookie places, so that the division by it in
\* handle_connect is never by 0, every cookie that can still be answered is where
\* its time and session say, and connectsInWindow counts no fewer, so that the
\* clean-up of the tables throws none away.
THEOREM Accounts == Spec => []HostAccounts
<1>1. Spec => [](IInv /\ CInv /\ RInv)
  BY InitProper, NextProper, InitCooked, NextCooked, RatioFirst, RatioKept, PTL DEF Spec
<1>2. IInv /\ CInv => HostAccounts
  BY ProperAgrees, CookedAccounts DEF HostAccounts
<1>3. QED
  BY <1>1, <1>2, PTL

\* Handling a CONNECT, the host divides by connectsWindow at a collision alone,
\* and begins its search again only when a place is free: "goto retry" ends.
SearchEnds ==
  \A r \in Nat : host.n # 0 /\ Collides(host, r) =>
    /\ host.window # 0
    /\ (host.inWindow * 100) \div host.window < ratio =>
         \E k \in 0 .. Randoms - 1 : ~ Collides(host, After(r, k))

LEMMA CookedSearch == IInv /\ CInv /\ RInv => SearchEnds
<1> SUFFICES ASSUME IInv, CInv, RInv, NEW r \in Nat, host.n # 0, Collides(host, r)
             PROVE  /\ host.window # 0
                    /\ (host.inWindow * 100) \div host.window < ratio =>
                         \E k \in 0 .. Randoms - 1 : ~ Collides(host, After(r, k))
  BY DEF SearchEnds
<1>1. now \in Nat /\ Cooked(host, IdleNow, now)
  BY DEF CInv
<1>2. host.n \in 1 .. NPeers /\ Holds(host.idle, host.n, IdleNow)
  <2> DEFINE s == Made(peer, host, net, seen)
  <2>1. Fine(s) /\ s.peer = peer /\ s.host = host
    BY DEF IInv, Proper, Made
  <2>2. host.n \in 0 .. NPeers /\ Holds(host.idle, host.n, Free(s)) /\ Free(s) = IdleNow
    BY <2>1 DEF Fine, Listed, Free, IdleNow
  <2>3. QED
    BY <2>2, PeersFinite
<1>3. PeerOf(host, r) \in Peers
  <2> DEFINE y == r \div (TotalSessions * Times)
  <2>1. y \in Int
    BY RandomsNat
  <2> HIDE DEF y
  <2>2. y % host.n \in 0 .. host.n - 1
    BY <1>2, <2>1, PeersFinite
  <2>3. host.idle[y % host.n] \in IdleNow
    BY <1>2, <2>2 DEF Holds
  <2>4. QED
    BY <2>3 DEF PeerOf, IdleNow, y
<1>4. host.window # 0
  BY <1>1, <1>3, TablesCounted DEF Collides
<1>5. ASSUME (host.inWindow * 100) \div host.window < ratio
      PROVE  \E k \in 0 .. Randoms - 1 : ~ Collides(host, After(r, k))
  <2>1. ratio \in Int /\ (host.inWindow * 100) \div host.window \in Int
    <3>1. host.inWindow \in Nat
      BY <1>1, SpanPlaces DEF Cooked, Sums
    <3>2. host.window \in Nat
      BY <1>1, WindowNat
    <3>3. QED
      BY <1>4, <3>1, <3>2 DEF RInv
  <2>2. ~ ((host.inWindow * 100) \div host.window >= ratio)
    BY <1>5, <2>1
  <2>3. \A p \in IdleNow : \E i \in 0 .. host.n - 1 : host.idle[i] = p
    BY <1>2 DEF Holds
  <2>4. QED
    BY <1>1, <1>2, <1>3, <2>2, <2>3, RoomToDraw DEF RInv
<1>6. QED
  BY <1>4, <1>5

\* A host that is asked for a connection does not search for a place for ever,
\* nor divides by 0, in any state it can get into.
THEOREM SearchFinds == Spec => []SearchEnds
<1>1. Spec => [](IInv /\ CInv /\ RInv)
  BY InitProper, NextProper, InitCooked, NextCooked, RatioFirst, RatioKept, PTL DEF Spec
<1>2. QED
  BY <1>1, CookedSearch, PTL
=============================================================================
