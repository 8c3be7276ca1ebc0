------------------------------ MODULE Throttle ------------------------------
(* How a host of ENet shares its bandwidth: enet_host_bandwidth_throttle()  *)
(* once a second and enet_peer_throttle() at every acknowledgement.  A      *)
(* throttle of n lets n in Scale unreliable packets through.                *)
EXTENDS Integers, Sequences, SequencesExt, FiniteSetsExt

Scale == 32              \* ENET_PEER_PACKET_THROTTLE_SCALE
Interval == 1000         \* ENET_HOST_BANDWIDTH_THROTTLE_INTERVAL
Acceleration == 2
Deceleration == 2
Unlimited == 10 ^ 6      \* ~0

\* in and out are the bandwidths the peer named, 0 for none, told is its share
NewPeer(in, out) ==
  [limit |-> Scale, throttle |-> Scale, sent |-> 0, in |-> in, out |-> out, told |-> 0]
PeerThrottle(p, rtt, last, variance) ==
  CASE last <= variance -> [p EXCEPT !.throttle = p.limit]
    [] last > variance /\ rtt <= last -> [p EXCEPT !.throttle = Min({@ + Acceleration, p.limit})]
    [] last > variance /\ rtt > last + 2 * variance -> [p EXCEPT !.throttle = IF @ > Deceleration THEN @ - Deceleration ELSE 0]
    [] OTHER -> p

Per(bandwidth, elapsed) == (bandwidth * elapsed) \div Interval
SetLimit(p, limit) == [p EXCEPT !.limit = limit, !.throttle = Min({@, limit}), !.sent = 0]
ThrottleOf(a) == IF a.total <= a.bandwidth THEN Scale ELSE (a.bandwidth * Scale) \div a.total

\* one round over the peers in visit: those that name less than their part
\* are held to what they name
LimitRound(a, visit, elapsed) ==
  LET throttle == ThrottleOf(a)
      hold(b, i) ==
        LET p == b.peers[i]
            bw == Per(p.in, elapsed)
        IN IF p.in = 0 \/ i \in b.done \/ (throttle * p.sent) \div Scale <= bw THEN b
           ELSE [b EXCEPT !.peers[i] = SetLimit(p, Max({1, (bw * Scale) \div p.sent})), !.done = @ \union {i},
                          !.adjust = TRUE, !.remaining = @ - 1, !.bandwidth = @ - bw, !.total = @ - bw]
  IN FoldLeft(hold, [a EXCEPT !.adjust = FALSE], visit)
RECURSIVE LimitRounds(_, _, _)
LimitRounds(a, visit, elapsed) ==
  IF a.remaining = 0 \/ ~a.adjust THEN a ELSE LimitRounds(LimitRound(a, visit, elapsed), visit, elapsed)
LimitOutgoing(h, visit, elapsed) ==
  LET limited == \E i \in DOMAIN h.peers : h.peers[i].in > 0
      a == LimitRounds([peers |-> h.peers, remaining |-> Len(h.peers), adjust |-> limited, done |-> {},
                        bandwidth |-> IF h.outgoing = 0 THEN Unlimited ELSE Per(h.outgoing, elapsed),
                        total |-> IF h.outgoing = 0 THEN Unlimited ELSE FoldLeft(LAMBDA n, i : n + h.peers[i].sent, 0, visit)],
                       visit, elapsed)
  IN IF a.remaining = 0 THEN a.peers
     ELSE FoldLeft(LAMBDA ps, i : IF i \in a.done THEN ps ELSE [ps EXCEPT ![i] = SetLimit(@, ThrottleOf(a))], a.peers, visit)

\* the rest of the incoming bandwidth is shared by those that send most
RECURSIVE ShareRounds(_, _)
ShareRounds(a, visit) ==
  LET share == a.bandwidth \div a.remaining
      grant(b, i) == LET out == b.peers[i].out
                     IN IF i \in b.done \/ (out > 0 /\ out >= share) THEN b
                        ELSE [b EXCEPT !.done = @ \union {i}, !.remaining = @ - 1, !.bandwidth = @ - out, !.adjust = TRUE]
  IN IF a.remaining = 0 \/ ~a.adjust THEN a
     ELSE ShareRounds(FoldLeft(grant, [a EXCEPT !.adjust = FALSE, !.limit = share], visit), visit)
ShareIncoming(peers, incoming, visit) ==
  LET start == [peers |-> peers, remaining |-> Len(peers), bandwidth |-> incoming, limit |-> 0, adjust |-> TRUE, done |-> {}]
      a == IF incoming = 0 THEN start ELSE ShareRounds(start, visit)
  IN FoldLeft(LAMBDA ps, i : [ps EXCEPT ![i].told = IF i \in a.done THEN ps[i].out ELSE a.limit], peers, visit)

\* enet_host_bandwidth_throttle(): all the peers of h are connected
HostThrottle(h, visit, elapsed) ==
  IF elapsed < Interval \/ h.peers = <<>> THEN h
  ELSE LET limited == LimitOutgoing(h, visit, elapsed)
       IN [h EXCEPT !.recalculate = FALSE, !.peers = IF h.recalculate THEN ShareIncoming(limited, h.incoming, visit) ELSE limited]
-----------------------------------------------------------------------------
\* What the peers visited may send again is no more than the host's
\* bandwidth, and no more than each of them named, but that a peer is never
\* stopped; what they are told to send is no more than the host takes, and
\* one that is told less than it named is told no less than any other.
Shared(h, visit, elapsed) ==
  LET r == HostThrottle(h, visit, elapsed)
      named(p) == IF p.in > 0 THEN Per(p.in, elapsed) ELSE Unlimited
      again(i) == LET n == (r.peers[i].limit * h.peers[i].sent) \div Scale
                  IN IF r.peers[i].limit = 1 THEN Min({n, named(h.peers[i])}) ELSE n
  IN /\ \A i \in DOMAIN r.peers : r.peers[i].throttle <= r.peers[i].limit /\ r.peers[i].limit \in 0..Scale
     /\ h.outgoing > 0 => FoldLeft(LAMBDA n, i : n + again(i), 0, visit) <= Per(h.outgoing, elapsed)
     /\ \A i \in ToSet(visit) : again(i) <= named(h.peers[i])
     /\ h.recalculate /\ h.incoming > 0 /\ (\A i \in DOMAIN h.peers : h.peers[i].out > 0) =>
          /\ FoldLeft(LAMBDA n, i : n + r.peers[i].told, 0, visit) <= h.incoming
          /\ \A i, j \in ToSet(visit) : r.peers[i].told < h.peers[i].out => r.peers[j].told <= r.peers[i].told
=============================================================================
