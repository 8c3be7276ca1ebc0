----------------------------- MODULE EnetPeers -----------------------------
(***************************************************************************)
(* Connections of an ENet host (src/enet): the peer table with its busy    *)
(* and idle lists, the handshake with and without connect cookies, session *)
(* numbers, orderly and forced disconnection, and the events the           *)
(* application gets.  Both ends run the library's code: the server has     *)
(* NPeers peers, each client one.  The network keeps every datagram, so    *)
(* that it may be lost, repeated, delayed and overtaken; a retransmission  *)
(* is the datagram again.  A datagram carries one command.                 *)
(***************************************************************************)
EXTENDS Integers, Sequences, FiniteSets, FiniteSetsExt

CONSTANTS
  Clients,         \* client hosts, model values; each is its own address
  NPeers,          \* host->peerCount of the server
  TotalSessions,   \* ENET_PROTOCOL_TOTAL_SESSIONS
  DuplicatePeers,  \* host->duplicatePeers
  CookieTimeout,   \* host->connectingPeerTimeout, when set, in ticks of CONNECTS_TIME_DELTA
  Times,           \* number of randomTimeSent values, a power of 2
  MinSlots,        \* ENET_PEER_MINIMUM_TIME_SENT_MASK + 1
  Ratios,          \* what enet_host_connect_cookies sets connectsWindowRatio to, in percent
  Cleanup,         \* ENET_HOST_CONNECTS_CLEANUP_SIZE in cookies
  Services,        \* whether service calls take events: a set of BOOLEANs
  Draws,           \* bound: the randoms drawn: session, time and peer by their remainders
  MaxConnects,     \* bound: connection attempts
  MaxOpens,        \* bound: CONNECT datagrams, repeated ones included, that reach the server
  MaxSends,        \* bound: sends
  MaxCalls,        \* bound: other calls of the applications
  MaxTicks,        \* bound: the clock
  None

ASSUME PeersAssumption ==
  /\ NPeers \in Nat \ {0} /\ TotalSessions \in Nat \ {0}
  /\ {CookieTimeout, Times, MinSlots, Cleanup, MaxConnects, MaxOpens, MaxSends, MaxCalls, MaxTicks, DuplicatePeers} \subseteq Nat
  /\ None \notin Clients /\ Clients \cap (0 .. NPeers - 1) = {}
  /\ Ratios \subseteq 1 .. 100 /\ Draws \subseteq 0 .. TotalSessions * Times * NPeers - 1
  /\ \E S \in SUBSET (1 .. Times) :  \* the slots of a table: MinSlots doubled, up to Times
       MinSlots \in S /\ \A n \in S : n = Times \/ 2 * n \in S

VARIABLES
  peer,     \* every end's ENetPeer
  host,     \* the server's lists, counters and cookie tables
  ratio,    \* host->connectsWindowRatio
  net,      \* datagrams ever sent
  seen,     \* connect minus disconnect events the server got of a peer
  connects, \* connect ids given out
  opens,    \* CONNECT datagrams handled
  sends,    \* sends made
  calls,    \* other calls made
  drawn,    \* randomTimeSent values drawn for cookies
  now       \* serviceTime

vars == <<peer, host, ratio, net, seen, connects, opens, sends, calls, drawn, now>>

Peers == 0 .. NPeers - 1
Ends == Peers \cup Clients
Server == None                       \* the server's address
Unset == 255                         \* a session id never given
Up == {"CONNECTED", "DISCONNECT_LATER"}
Early == {"DISCONNECTED", "ACKNOWLEDGING_CONNECT", "CONNECTION_PENDING"}
States == Up \cup Early \cup {"CONNECTING", "CONNECTION_SUCCEEDED", "DISCONNECTING",
                              "ACKNOWLEDGING_DISCONNECT", "ZOMBIE"}

\* enet_host_create: a peer before its first use.
Fresh == [state |-> "DISCONNECTED", addr |-> None, id |-> 0, to |-> None,
          outSess |-> Unset, inSess |-> Unset, limited |-> FALSE, seq |-> 0,
          sent |-> {}, out |-> FALSE, acks |-> {}, inbox |-> FALSE, queued |-> FALSE]

NoTable == [n |-> 0, at |-> <<>>]

Init ==
  /\ peer = [e \in Ends |-> Fresh]
  /\ ratio \in Ratios \cup {0}
  /\ \E on \in BOOLEAN :
       host = [cookies |-> on, idle |-> [p \in Peers |-> p], n |-> NPeers, busy |-> [p \in Peers |-> 0],
             connected |-> 0, limited |-> 0, table |-> [p \in Peers |-> NoTable],
             window |-> 0, inWindow |-> 0, data |-> [i \in 0 .. CookieTimeout |-> 0],
             index |-> 0, stamp |-> 0]
  /\ host.cookies <=> ratio # 0
  /\ net = {} /\ seen = [p \in Peers |-> 0] /\ connects = 0 /\ opens = 0 /\ sends = 0 /\ calls = 0 /\ drawn = {} /\ now = 0

(***************************************************************************)
(* A handler calls others that change the same peer and the same host: an  *)
(* operator takes the state s it finds and returns the one it leaves.      *)
(***************************************************************************)
Now == [peer |-> peer, host |-> host, net |-> net, seen |-> seen]

Become(s) == /\ peer' = s.peer /\ host' = s.host /\ net' = s.net /\ seen' = s.seen /\ ratio' = ratio

Count(s, e, n) ==
  IF e \notin Peers THEN s
  ELSE [s EXCEPT !.host.connected = @ + n,
                 !.host.limited = @ + (IF s.peer[e].limited THEN n ELSE 0)]

OnConnect(s, e) == IF s.peer[e].state \in Up THEN s ELSE Count(s, e, 1)

OnDisconnect(s, e) == IF s.peer[e].state \in Up THEN Count(s, e, -1) ELSE s

\* Wrong on purpose, to be put in the place of the next definition: the counts stay.
ChangeStateUncounted(s, e, st) ==
  [(IF st \in Up THEN OnConnect(s, e) ELSE s) EXCEPT !.peer[e].state = st]

ChangeState(s, e, st) ==
  [(IF st \in Up THEN OnConnect(s, e) ELSE OnDisconnect(s, e)) EXCEPT !.peer[e].state = st]

\* The order of host->dispatchQueue is left out: any queued peer may be next.
DispatchState(s, e, st) == [ChangeState(s, e, st) EXCEPT !.peer[e].queued = TRUE]

Event(s, e, n) == IF e \in Peers THEN [s EXCEPT !.seen[e] = @ + n] ELSE s

ResetQueues(s, e) ==
  [s EXCEPT !.peer[e] = [@ EXCEPT !.queued = FALSE, !.acks = {}, !.sent = {}, !.out = FALSE, !.inbox = FALSE]]

\* enet_peer_reset moves the peer from the busy to the idle list.
Busy(h) == {h.busy[i] : i \in 0 .. NPeers - h.n - 1}
Idle(h) == {h.idle[i] : i \in 0 .. h.n - 1}

Freed(h, p) ==
  IF ~ \E i \in 0 .. NPeers - h.n - 1 : h.busy[i] = p THEN h
  ELSE LET i == CHOOSE j \in 0 .. NPeers - h.n - 1 : h.busy[j] = p
       IN [h EXCEPT !.idle[h.n] = p, !.n = @ + 1, !.busy[i] = h.busy[NPeers - h.n - 1]]

Untabled(h, p) ==
  IF ~ h.cookies \/ h.table[p].n = 0 THEN h
  ELSE [h EXCEPT !.table[p] = NoTable, !.window = @ - TotalSessions * h.table[p].n]

PeerReset(s, e) ==
  LET listed == IF e \in Peers THEN [s EXCEPT !.host = Untabled(Freed(@, e), e)] ELSE s
      gone == [OnDisconnect(listed, e) EXCEPT !.peer[e] = [@ EXCEPT !.to = None, !.id = 0,
                 !.state = "DISCONNECTED", !.limited = FALSE, !.seq = 0]]
  IN ResetQueues(gone, e)

NotifyConnect(s, e, ev) ==
  IF ev THEN Event(ChangeState(s, e, "CONNECTED"), e, 1)
  ELSE DispatchState(s, e, IF s.peer[e].state = "CONNECTING" THEN "CONNECTION_SUCCEEDED"
                           ELSE "CONNECTION_PENDING")

\* Wrong on purpose, to be put in the place of the next definition: also who was never announced is announced to leave.
NotifyDisconnectAlways(s, e, ev) ==
  IF ev THEN Event(PeerReset(s, e), e, -1) ELSE DispatchState(s, e, "ZOMBIE")

NotifyDisconnect(s, e, ev) ==
  CASE s.peer[e].state \in Early -> PeerReset(s, e)
    [] ev /\ s.peer[e].state \notin Early -> Event(PeerReset(s, e), e, -1)
    [] OTHER -> DispatchState(s, e, "ZOMBIE")

(***************************************************************************)
(* Sending.  A command is transmitted as it is queued: the network may     *)
(* hold it back.  One counter numbers the commands of all channels.        *)
(***************************************************************************)
AddressOf(e) == IF e \in Peers THEN Server ELSE e

Datagram(s, e, kind, seq, ack, t, arg) ==
  LET p == s.peer[e]
  IN [from |-> AddressOf(e), addr |-> p.addr, to |-> p.to, kind |-> kind, seq |-> seq,
      sess |-> IF p.to = None THEN None ELSE p.outSess, ack |-> ack, t |-> t, arg |-> arg]

QueueOutgoing(s, e, kind, ack, arg) ==
  LET q == s.peer[e].seq + 1
  IN [s EXCEPT !.peer[e].seq = q,
               !.peer[e].sent = IF ack THEN @ \cup {[seq |-> q, kind |-> kind]} ELSE @,
               !.net = @ \cup {Datagram(s, e, kind, q, ack, None, arg)}]

Disconnect(s, e) ==
  LET st == s.peer[e].state
      clear == ResetQueues(s, e)
      told == QueueOutgoing(clear, e, "DISCONNECT", st \in Up, None)
  IN CASE st \in {"DISCONNECTING", "DISCONNECTED", "ACKNOWLEDGING_DISCONNECT", "ZOMBIE"} -> s
       [] st \in Up -> [OnDisconnect(told, e) EXCEPT !.peer[e].state = "DISCONNECTING"]
       [] OTHER -> PeerReset(told, e)

DisconnectNow(s, e) ==
  CASE s.peer[e].state = "DISCONNECTED" -> s
    [] s.peer[e].state \in {"ZOMBIE", "DISCONNECTING"} -> PeerReset(s, e)
    [] OTHER -> PeerReset(QueueOutgoing(ResetQueues(s, e), e, "DISCONNECT", FALSE, None), e)

Drained(p) == ~ p.out /\ p.sent = {}

DisconnectLater(s, e) ==
  IF s.peer[e].state \in Up /\ ~ Drained(s.peer[e])
  THEN [s EXCEPT !.peer[e].state = "DISCONNECT_LATER"]
  ELSE Disconnect(s, e)

\* Wrong on purpose, to be put in the place of the next definition: the test of what is sent is turned round.
FinishLaterUnsent(s, e) ==
  IF s.peer[e].state = "DISCONNECT_LATER" /\ ~ s.peer[e].out /\ s.peer[e].sent # {} THEN Disconnect(s, e) ELSE s

FinishLater(s, e) ==
  IF s.peer[e].state = "DISCONNECT_LATER" /\ Drained(s.peer[e]) THEN Disconnect(s, e) ELSE s

(***************************************************************************)
(* The handshake.  Without cookies a CONNECT takes a peer at once; with    *)
(* them it only leaves a cookie in the table of a random idle peer, and    *)
(* the client's acknowledgement restores it.                               *)
(***************************************************************************)
NextSession(given, own) ==
  LET x == ((IF given = Unset THEN own ELSE given) + 1) % TotalSessions
  IN IF x = own THEN (x + 1) % TotalSessions ELSE x

Taken(h, p, i) ==  \* p = idle[i] becomes busy; the last idle peer takes its place
  [h EXCEPT !.busy[NPeers - h.n] = p, !.idle[i] = h.idle[h.n - 1], !.n = @ - 1]

Offered(s, p, d) ==
  [s.peer[p] EXCEPT !.addr = d.from, !.id = d.arg.id, !.to = d.from, !.limited = d.arg.limited,
     !.outSess = NextSession(d.arg.inSess, @), !.inSess = NextSession(d.arg.outSess, @),
     !.state = "ACKNOWLEDGING_CONNECT"]

VerifyArg(q, p) == [id |-> q.id, peer |-> p, inSess |-> q.outSess, outSess |-> q.inSess]

HandleConnect(s, d) ==
  LET same == {p \in Busy(s.host) : s.peer[p].addr = d.from}
      p == s.host.idle[s.host.n - 1]
      took == [s EXCEPT !.peer[p] = Offered(s, p, d), !.host = Taken(@, p, s.host.n - 1)]
  IN IF s.host.n = 0 \/ Cardinality(same) >= DuplicatePeers
        \/ \E p0 \in same : s.peer[p0].id = d.arg.id
     THEN s ELSE QueueOutgoing(took, p, "VERIFY", TRUE, VerifyArg(took.peer[p], p))

SessionOf(r) == r % TotalSessions
TimeOf(r) == (r \div TotalSessions) % Times
PeerOf(h, r) == h.idle[(r \div (TotalSessions * Times)) % h.n]
Expired(c) == now - c.real > CookieTimeout
SlotIn(tb, r) == <<TimeOf(r) % tb.n, SessionOf(r)>>
CookieAt(h, r) == h.table[PeerOf(h, r)].at[SlotIn(h.table[PeerOf(h, r)], r)]
Collides(h, r) ==
  /\ h.table[PeerOf(h, r)].n # 0 /\ CookieAt(h, r) # None /\ ~ Expired(CookieAt(h, r))

\* goto retry: with room left, the number of the next random whose place is free.
Randoms == TotalSessions * Times * NPeers
After(r0, k) == (r0 + k) % Randoms
Retries(h, r0) ==
  IF ~ Collides(h, r0) \/ (h.inWindow * 100) \div h.window >= ratio THEN 0
  ELSE Min({k \in 0 .. Randoms - 1 : ~ Collides(h, After(r0, k))})

Slots(n) == (0 .. n - 1) \X (0 .. TotalSessions - 1)
EmptyTable(n) == [n |-> n, at |-> [i \in Slots(n) |-> None]]

Extended(tb) ==  \* twice the slots, every cookie moved to the slot of its own time, the later ones last
  LET n == 2 * tb.n
      Rows(i) == {k \in 0 .. tb.n - 1 : tb.at[<<k, i[2]>>] # None /\ tb.at[<<k, i[2]>>].t % n = i[1]}
  IN [n |-> n, at |-> [i \in Slots(n) |-> IF Rows(i) = {} THEN None ELSE tb.at[<<Max(Rows(i)), i[2]>>]]]

Bit(t, n) == (t \div n) % 2

Stored(h, p, tb, i, c) ==
  [h EXCEPT !.table[p] = [tb EXCEPT !.at[i] = c],
            !.window = @ + TotalSessions * (tb.n - h.table[p].n),
            !.inWindow = @ + 1, !.data[h.index] = @ + 1]

\* cookie still points to the last place that was taken when a retry comes to a
\* peer without a table: none is made and the cookie there goes.
HandleConnectCookie(s, d, r0) ==
  LET h == s.host
      k == Retries(h, r0)
      r == After(r0, k)
      p == PeerOf(h, r)
      n == h.table[p].n
      crowded == Collides(h, r)
      stray == k # 0 /\ n = 0
      last == After(r0, k - 1)
      own == IF stray THEN PeerOf(h, last) ELSE p
      t == IF crowded THEN TimeOf(r) - n * Bit(TimeOf(r), n) + n * (1 - Bit(CookieAt(h, r).t, n))
           ELSE TimeOf(r)
      tb == CASE n = 0 /\ ~ stray -> EmptyTable(MinSlots) [] crowded -> Extended(h.table[p]) [] OTHER -> h.table[own]
      i == IF stray THEN SlotIn(tb, last) ELSE <<t % tb.n, SessionOf(r)>>
      q == [Offered(s, p, d) EXCEPT !.inSess = SessionOf(r)]
      c == [addr |-> d.from, id |-> q.id, t |-> t, sess |-> q.inSess, real |-> now,
            outSess |-> q.outSess, limited |-> q.limited, stray |-> stray]
      reply == Datagram([s EXCEPT !.peer[p] = q], p, "VERIFY", 1, TRUE, t, VerifyArg(q, p))
  IN IF h.n = 0 \/ DuplicatePeers = 0 \/ (crowded /\ n = Times) THEN s
     ELSE [s EXCEPT !.net = @ \cup {reply}, !.host = Stored(h, own, tb, i, c)]

Recovered(q, d, c) ==
  [q EXCEPT !.addr = d.from, !.id = c.id, !.to = c.addr, !.limited = c.limited,
     !.inSess = d.sess, !.outSess = c.outSess, !.seq = 1, !.state = "ACKNOWLEDGING_CONNECT"]

Restored(s, p, d) ==
  LET tb == s.host.table[p]
      slot == <<d.t % tb.n, d.sess>>
      c == tb.at[slot]
      used == [s EXCEPT !.host.table[p].at[slot] = None]
      same == {q \in Peers : s.peer[q].addr = d.from}
      i == CHOOSE j \in 0 .. s.host.n - 1 : s.host.idle[j] = p
  IN CASE d.t = None \/ d.seq # 1 -> s
       [] d.t # None /\ d.seq = 1 /\ (c = None \/ c.t # d.t \/ c.addr # d.from) -> s
       [] OTHER ->
          IF Expired(c) \/ Min({Cardinality(same), DuplicatePeers}) > DuplicatePeers THEN used
          ELSE [used EXCEPT !.host = Untabled(Taken(@, p, i), p), !.peer[p] = Recovered(@, d, c)]

(***************************************************************************)
(* Receiving.                                                              *)
(***************************************************************************)
RemoveSent(s, e, seq) == [s EXCEPT !.peer[e].sent = {c \in @ : c.seq # seq}]
KindSent(s, e, seq) == {c.kind : c \in {x \in s.peer[e].sent : x.seq = seq}}

HandleAcknowledge(s, e, d, ev) ==
  LET st == s.peer[e].state
      acked == RemoveSent(s, e, d.seq)
      kind == KindSent(s, e, d.seq)
      back == Restored(s, e, d)
  IN CASE st = "DISCONNECTED" ->
            IF back.peer[e].state = "DISCONNECTED" THEN back ELSE NotifyConnect(back, e, ev)
       [] st = "ACKNOWLEDGING_CONNECT" /\ kind = {"VERIFY"} -> NotifyConnect(acked, e, ev)
       [] st = "DISCONNECTING" /\ kind = {"DISCONNECT"} -> NotifyDisconnect(acked, e, ev)
       [] st = "DISCONNECT_LATER" -> FinishLater(acked, e)
       [] OTHER -> acked

\* Wrong on purpose, to be put in the place of the next definition: an answer that comes again counts again.
HandleVerifyConnectAgain(s, e, d, ev) ==
  IF s.peer[e].state \notin {"CONNECTING", "CONNECTED"} THEN s
  ELSE IF d.arg.id # s.peer[e].id THEN DispatchState(s, e, "ZOMBIE")
  ELSE NotifyConnect([RemoveSent(s, e, 1) EXCEPT !.peer[e] = [@ EXCEPT !.to = d.arg.peer,
                        !.inSess = d.arg.inSess, !.outSess = d.arg.outSess]], e, ev)

HandleVerifyConnect(s, e, d, ev) ==
  IF s.peer[e].state # "CONNECTING" THEN s
  ELSE IF d.arg.id # s.peer[e].id THEN DispatchState(s, e, "ZOMBIE")
  ELSE NotifyConnect([RemoveSent(s, e, 1) EXCEPT !.peer[e] = [@ EXCEPT !.to = d.arg.peer,
                        !.inSess = d.arg.inSess, !.outSess = d.arg.outSess]], e, ev)

HandleDisconnect(s, e, d) ==
  LET st == s.peer[e].state
      clear == ResetQueues(s, e)
  IN CASE st \in {"DISCONNECTED", "ZOMBIE", "ACKNOWLEDGING_DISCONNECT"} -> s
       [] st \in {"CONNECTION_SUCCEEDED", "DISCONNECTING", "CONNECTING"} -> DispatchState(clear, e, "ZOMBIE")
       [] st \in {"ACKNOWLEDGING_CONNECT", "CONNECTION_PENDING"} -> PeerReset(clear, e)
       [] st \in Up /\ d.ack -> ChangeState(clear, e, "ACKNOWLEDGING_DISCONNECT")
       [] st \in Up /\ ~ d.ack -> DispatchState(clear, e, "ZOMBIE")

\* Pings, packets and bandwidth limits are refused outside a connection.
HandleData(s, e, d) ==
  CASE d.kind = "DATA" /\ s.peer[e].state = "CONNECTED" ->
         [s EXCEPT !.peer[e].inbox = TRUE, !.peer[e].queued = TRUE]
    [] d.kind = "LIMIT" ->
         LET less == IF e \in Peers /\ s.peer[e].limited THEN -1 ELSE 0
             more == IF e \in Peers /\ d.arg THEN 1 ELSE 0
         IN [s EXCEPT !.peer[e].limited = d.arg, !.host.limited = @ + less + more]
    [] OTHER -> s

QueueAcknowledgement(s, e, d) ==
  LET st == s.peer[e].state
  IN IF d.ack /\ ( \/ st = "ACKNOWLEDGING_DISCONNECT" /\ d.kind = "DISCONNECT"
                   \/ st \in Up \cup {"CONNECTING", "CONNECTION_PENDING", "CONNECTION_SUCCEEDED"})
     THEN [s EXCEPT !.peer[e].acks = @ \cup {[seq |-> d.seq, t |-> d.t, kind |-> d.kind]}] ELSE s

Accepts(s, e, d) ==
  LET p == s.peer[e]
  IN CASE p.state = "DISCONNECTED" -> e \in Peers /\ s.host.cookies /\ s.host.table[e].n # 0
       [] p.state = "ZOMBIE" -> FALSE
       [] OTHER -> p.addr = d.from /\ (p.to # None => d.sess = p.inSess)

HandleIncoming(s, e, d, ev) ==
  CASE d.kind = "ACK" -> HandleAcknowledge(s, e, d, ev)
    [] d.kind = "VERIFY" -> QueueAcknowledgement(HandleVerifyConnect(s, e, d, ev), e, d)
    [] d.kind = "DISCONNECT" -> QueueAcknowledgement(HandleDisconnect(s, e, d), e, d)
    [] d.kind \in {"DATA", "LIMIT"} /\ s.peer[e].state \in Up ->
         QueueAcknowledgement(HandleData(s, e, d), e, d)
    [] OTHER -> s

(***************************************************************************)
(* The library's steps.  ev says whether the service call takes events.    *)
(***************************************************************************)
Still == UNCHANGED <<connects, opens, sends, calls, drawn, now>>

Receive(d, ev) ==
  /\ d.to \in Ends
  /\ LET e == d.to IN /\ (e \in Peers => d.from # Server) /\ (e \in Clients => d.from = Server)
                      /\ Accepts(Now, e, d) /\ Become(HandleIncoming(Now, e, d, ev))
  /\ Still

Cookies(h) == UNION {{h.table[p].at[i] : i \in Slots(h.table[p].n)} : p \in Peers} \ {None}

\* The 16 random bits of a cookie are taken to differ from those of others.
ReceiveConnect(d) ==
  /\ d.kind = "CONNECT" /\ opens < MaxOpens /\ opens' = opens + 1
  /\ IF ~ host.cookies \/ host.n = 0 THEN Become(HandleConnect(Now, d)) /\ UNCHANGED drawn
     ELSE \E r \in Draws :
            LET s == HandleConnectCookie(Now, d, r)
                new == {c.t : c \in Cookies(s.host) \ Cookies(host)}
            IN Become(s) /\ new \cap drawn = {} /\ drawn' = drawn \cup new
  /\ UNCHANGED <<connects, sends, calls, now>>

\* One pass of enet_protocol_send_outgoing_commands over a peer.
SendOutgoing(e) ==
  LET p == peer[e]
      acks == {Datagram(Now, e, "ACK", a.seq, FALSE, a.t, None) : a \in p.acks}
      told == [Now EXCEPT !.net = @ \cup acks, !.peer[e].acks = {}, !.peer[e].out = FALSE]
      bye == \E a \in p.acks : a.kind = "DISCONNECT"
  IN /\ p.state # "ZOMBIE" /\ (p.acks # {} \/ p.out)
     /\ Become(FinishLater(IF bye THEN DispatchState(told, e, "ZOMBIE") ELSE told, e))
     /\ Still

\* enet_protocol_check_timeouts gives a peer up; retransmissions need no action.
TimeOut(e, ev) ==
  /\ peer[e].state # "ZOMBIE" /\ peer[e].sent # {}
  /\ Become(NotifyDisconnect(Now, e, ev)) /\ Still

Dispatch(e) ==
  LET s == [Now EXCEPT !.peer[e].queued = FALSE]
      st == peer[e].state
  IN /\ peer[e].queued
     /\ Become(CASE st \in {"CONNECTION_PENDING", "CONNECTION_SUCCEEDED"} ->
                      Event(ChangeState(s, e, "CONNECTED"), e, 1)
                 [] st = "ZOMBIE" -> Event(PeerReset(s, e), e, -1)
                 [] st = "CONNECTED" -> [s EXCEPT !.peer[e].inbox = FALSE]
                 [] OTHER -> s)
     /\ Still

\* serviceTime advances and the service call ages the count of connects; time
\* that passes while there is no cookie table is left out.
Tick ==
  /\ host.cookies /\ host.window # 0 /\ now < MaxTicks /\ now' = now + 1
  /\ LET i == (host.index + 1) % (CookieTimeout + 1)
         aged == IF now' - host.stamp <= 1 THEN host
                 ELSE [host EXCEPT !.index = i, !.inWindow = @ - host.data[i], !.data[i] = 0, !.stamp = @ + 1]
         swept == [aged EXCEPT !.window = 0,
                     !.table = [p \in Peers |-> IF p \in Idle(host) THEN NoTable ELSE @[p]]]
     IN host' = IF aged.inWindow = 0 /\ aged.window > Cleanup THEN swept ELSE aged
  /\ UNCHANGED <<peer, ratio, net, seen, connects, opens, sends, calls, drawn>>

(***************************************************************************)
(* The application's calls.                                                *)
(***************************************************************************)
HostConnect(c) ==
  LET s == [Now EXCEPT !.peer[c] = [@ EXCEPT !.state = "CONNECTING", !.addr = Server, !.id = connects + 1]]
  IN /\ peer[c].state = "DISCONNECTED" /\ connects < MaxConnects
     /\ connects' = connects + 1
     /\ Become(QueueOutgoing(s, c, "CONNECT", TRUE,
                 [id |-> connects + 1, inSess |-> peer[c].inSess, outSess |-> peer[c].outSess, limited |-> TRUE]))
     /\ UNCHANGED <<opens, sends, calls, drawn, now>>

Called == calls < MaxCalls /\ calls' = calls + 1 /\ UNCHANGED <<connects, opens, sends, drawn, now>>

Send(e) ==
  /\ peer[e].state = "CONNECTED" /\ sends < MaxSends /\ sends' = sends + 1
  /\ \/ Become(QueueOutgoing(Now, e, "DATA", TRUE, None))
     \/ e \in Clients /\ Become(QueueOutgoing(Now, e, "LIMIT", TRUE, FALSE))
     \/ Become([Now EXCEPT !.peer[e].out = TRUE])  \* an unreliable packet waits for a pass
  /\ UNCHANGED <<connects, opens, calls, drawn, now>>

CallDisconnect(e) == Called /\ peer[e].state # "DISCONNECTED" /\ Become(Disconnect(Now, e))

CallDisconnectLater(e) == Called /\ peer[e].state \in Up /\ Become(DisconnectLater(Now, e))

\* enet_host_connect_cookies, with and without a random function.
ConnectCookies ==
  /\ Called /\ UNCHANGED <<peer, net, seen>>
  /\ \E on \in BOOLEAN :
       host' = [host EXCEPT !.cookies = on, !.table = [p \in Peers |-> NoTable], !.window = 0,
                  !.inWindow = 0, !.data = [i \in DOMAIN host.data |-> 0], !.index = 0, !.stamp = now]
  /\ ratio' \in Ratios \cup {0} /\ (host'.cookies <=> ratio' # 0)

\* No event follows: the application knows.
CallDisconnectNow(e) ==
  /\ Called /\ peer[e].state # "DISCONNECTED"
  /\ Become(LET s == DisconnectNow(Now, e) IN IF e \in Peers THEN [s EXCEPT !.seen[e] = 0] ELSE s)

Next ==
  \/ \E d \in net, ev \in Services : Receive(d, ev)
  \/ \E d \in net : ReceiveConnect(d)
  \/ \E e \in Ends : SendOutgoing(e) \/ Dispatch(e) \/ Send(e)
  \/ \E e \in Ends, ev \in Services : TimeOut(e, ev)
  \/ \E e \in Ends : CallDisconnect(e) \/ CallDisconnectLater(e) \/ CallDisconnectNow(e)
  \/ \E c \in Clients : HostConnect(c)
  \/ Tick \/ ConnectCookies

Fairness ==
  \A e \in Ends : /\ WF_vars(SendOutgoing(e)) /\ WF_vars(Dispatch(e)) /\ WF_vars(TimeOut(e, TRUE))

Spec == Init /\ [][Next]_vars /\ Fairness

(***************************************************************************)
(* Properties                                                              *)
(***************************************************************************)
TypeOK ==
  /\ \A e \in Ends : peer[e].state \in States /\ peer[e].seq \in Nat
  /\ host.n \in 0 .. NPeers /\ host.connected \in 0 .. NPeers /\ host.limited \in 0 .. NPeers
  /\ host.window \in Nat /\ host.inWindow \in Nat /\ now \in 0 .. MaxTicks

\* A peer is in exactly one of the two lists, idle when it is disconnected, busy
\* in every other state; connectedPeers and bandwidthLimitedPeers count those
\* that are connected or about to disconnect: whichever way a peer got there or
\* left, on_connect and on_disconnect are paired.
HostAgrees ==
  LET up == {p \in Peers : peer[p].state \in Up}
  IN /\ Busy(host) = {p \in Peers : peer[p].state # "DISCONNECTED"}
     /\ Idle(host) = Peers \ Busy(host)
     /\ Cardinality(Idle(host)) = host.n
     /\ host.connected = Cardinality(up) /\ host.limited = Cardinality({p \in up : peer[p].limited})

\* The application hears of a peer's connection once, before it hears of its
\* end, and of its end once: a peer it was never told of goes silently.
EventsPaired ==
  \A p \in Peers :
    seen[p] = IF peer[p].state \in Up \cup {"DISCONNECTING", "ACKNOWLEDGING_DISCONNECT", "ZOMBIE"}
              THEN 1 ELSE 0

\* Two ends connected under one connect id address each other with the
\* sessions the other expects, and no second peer holds that connection,
\* whatever old datagrams arrive late or twice.
Agreed ==
  \A c \in Clients, p \in Peers :
    peer[c].state = "CONNECTED" /\ peer[p].state = "CONNECTED" /\ peer[c].id = peer[p].id =>
      /\ peer[c].to = p /\ peer[p].to = c
      /\ peer[c].outSess = peer[p].inSess /\ peer[p].outSess = peer[c].inSess

Placed(tb, i) == tb.at[i].stray \/ i = <<tb.at[i].t % tb.n, tb.at[i].sess>>

\* connectsWindow is the number of cookie places, never 0 while there is a
\* table (handle_connect divides by it); no live cookie is outside the count of
\* recent connects, so the clean-up discards none; each is where its time says,
\* but for those a retry left in the place of another.
CookiesAccounted ==
  LET Places(p) == IF host.table[p].n = 0 THEN {} ELSE Slots(host.table[p].n)
      Live(p) == {i \in Places(p) : host.table[p].at[i] # None /\ ~ Expired(host.table[p].at[i])}
      All(F(_)) == UNION {{p} \X F(p) : p \in Peers}
  IN /\ host.window = Cardinality(All(Places))
     /\ Cardinality(All(Live)) <= host.inWindow
     /\ \A p \in Peers : \A i \in Live(p) :
          Placed(host.table[p], i)

\* What the host counts is what there is: peers, connections, cookies.
HostAccounts == HostAgrees /\ CookiesAccounted

\* enet_host_broadcast reaches every connected peer: it walks as many places of
\* the idle list as there are busy peers.
Broadcasted == {host.idle[i] : i \in 0 .. NPeers - host.n - 1}
BroadcastReachesAll == {p \in Peers : peer[p].state = "CONNECTED"} \subseteq Broadcasted

\* A peer on its way out gets to be free again.
ShutdownEnds ==
  \A p \in Peers :
    peer[p].state \in {"DISCONNECT_LATER", "DISCONNECTING", "ACKNOWLEDGING_DISCONNECT", "ZOMBIE"}
      ~> peer[p].state = "DISCONNECTED"
=============================================================================
