---------------------------- MODULE EnetChannel ----------------------------
(***************************************************************************)
(* One channel of an ENet connection, from the sender's queue to the       *)
(* receiver's application (src/enet/peer.c, protocol.c): reliable,         *)
(* unreliable, fragmented and unsequenced packets, 16 bit sequence numbers *)
(* in windows, acknowledgements and retransmission.  The network keeps     *)
(* every datagram: it may be lost, repeated, delayed and overtaken.  A     *)
(* datagram carries one command, and every fragment is one unit of data.   *)
(***************************************************************************)
EXTENDS Integers, Sequences, SequencesExt, FiniteSets

CONSTANTS
  M,           \* sequence numbers: 2^16 in the code
  W,           \* ENET_PEER_RELIABLE_WINDOW_SIZE
  FREE,        \* ENET_PEER_FREE_RELIABLE_WINDOWS
  Groups,      \* unsequenced groups: 2^16 in the code
  GroupWindow, \* ENET_PEER_UNSEQUENCED_WINDOW_SIZE
  FreeGroups,  \* ENET_PEER_FREE_UNSEQUENCED_WINDOWS
  MaxUnrel,    \* the unreliable number after which packets go reliably
  Transit,     \* data in transit the window size allows, at least the mtu
  Scenarios    \* where runs start: the number both ends are at, the flags and
               \* fragments of packets, how many are sent (a bound), the buffer's size

Windows == M \div W

ASSUME ChannelAssumption ==
  /\ {M, W, FREE, Groups, GroupWindow, FreeGroups, MaxUnrel, Transit} \subseteq Nat \ {0}
  /\ M % W = 0 /\ FREE > 2 /\ Windows > FREE + 2
  /\ \A x \in Scenarios : x.start \in 0 .. M - 1 /\ x.max \in Nat /\ 2 * x.sends <= M - W * FREE

VARIABLES
  sc,    \* the scenario
  sent,  \* how each packet given to enet_peer_send is carried
  out,   \* the sender's end of the channel
  in,    \* the receiver's
  net,   \* commands ever transmitted
  acks,  \* acknowledgements ever transmitted
  last,  \* last sequenced packet the application received
  loose  \* unsequenced packets it received

vars == <<sc, sent, out, in, net, acks, last, loose>>

Init ==
  /\ sc \in Scenarios
  /\ sent = <<>> /\ net = {} /\ acks = {} /\ last = 0 /\ loose = {}
  /\ LET g == sc.start % Groups
     IN /\ out = [queue |-> <<>>, inFlight |-> <<>>, rel |-> sc.start, unrel |-> 0, group |-> g,
                  count |-> [w \in 0 .. Windows - 1 |-> 0], used |-> {}, transit |-> 0]
        /\ in = [rel |-> sc.start, unrel |-> 0, relQ |-> <<>>, unrelQ |-> <<>>, ready |-> <<>>,
                 group |-> g - (g % GroupWindow), bits |-> IF g = 0 THEN {} ELSE {g % GroupWindow}, waiting |-> 0]

(***************************************************************************)
(* The sender.                                                             *)
(***************************************************************************)
\* enet_peer_send: how a packet of n fragments with these flags is carried.
Carried(flags, n) ==
  CASE n > 1 /\ flags = "unreliable_fragment" /\ out.unrel < MaxUnrel -> "unreliable"
    [] n = 1 /\ flags = "unsequenced" -> "unsequenced"
    [] n = 1 /\ flags \in {"unreliable", "unreliable_fragment"} /\ out.unrel < MaxUnrel -> "unreliable"
    [] OTHER -> "reliable"

\* enet_peer_setup_outgoing_command numbers fragment f of packet i.
Setup(o, kind, i, f, n) ==
  LET rel == IF kind = "reliable" THEN (o.rel + 1) % M ELSE o.rel
      unrel == CASE kind = "reliable" -> 0
                 [] kind = "unreliable" /\ f = 0 -> o.unrel + 1
                 [] OTHER -> o.unrel
      group == IF kind = "unsequenced" THEN (o.group + 1) % Groups ELSE o.group
      loosely == kind = "unsequenced"
      c == [kind |-> kind, pkt |-> i, frag |-> f, n |-> n, group |-> IF loosely THEN group ELSE 0,
            rel |-> IF loosely THEN 0 ELSE rel, unrel |-> IF loosely THEN 0 ELSE unrel,
            start |-> IF kind = "reliable" THEN (rel + M - f) % M ELSE unrel]
  IN [o EXCEPT !.rel = rel, !.unrel = unrel, !.group = group,
               !.queue = Append(@, [cmd |-> c, tried |-> FALSE])]

Send(flags, n) ==
  LET kind == Carried(flags, n)
      i == Len(sent) + 1
  IN /\ i <= sc.sends
     /\ sent' = Append(sent, kind)
     /\ out' = FoldLeft(LAMBDA o, f : Setup(o, kind, i, f, n), out, [f \in 1 .. n |-> f - 1])
     /\ UNCHANGED <<sc, in, net, acks, last, loose>>

Without(q, i) == SubSeq(q, 1, i - 1) \o SubSeq(q, i + 1, Len(q))

Reliable(i) == out.queue[i].cmd.kind = "reliable"
WindowOf(seq) == seq \div W

\* A new window waits until the one before is not full and those it will
\* come to share numbers with are free; everything reliable behind it waits.
Wraps(i) ==
  LET c == out.queue[i]
      w == WindowOf(c.cmd.rel)
  IN /\ Reliable(i) /\ ~ c.tried /\ c.cmd.rel % W = 0
     /\ \/ out.count[(w + Windows - 1) % Windows] >= W
        \/ out.used \cap {(w + k) % Windows : k \in 0 .. FREE + 1} # {}

Skipped(i) == Reliable(i) /\ (out.transit >= Transit \/ \E j \in 1 .. i : Wraps(j))

IsNext(i) == ~ Skipped(i) /\ \A j \in 1 .. i - 1 : Skipped(j)

Transmit(i) ==
  LET c == out.queue[i]
      w == WindowOf(c.cmd.rel)
      moved == [out EXCEPT !.queue = Without(@, i), !.inFlight = Append(@, [c EXCEPT !.tried = TRUE]),
                           !.transit = @ + 1]
  IN /\ net' = net \cup {c.cmd}
     /\ out' = CASE ~ Reliable(i) -> [out EXCEPT !.queue = Without(@, i)]
                 [] Reliable(i) /\ c.tried -> moved
                 [] OTHER -> [moved EXCEPT !.used = @ \cup {w}, !.count[w] = @ + 1]

\* The throttle drops a packet with all its fragments: with every command behind
\* it that has its numbers.
Throttle(i) ==
  LET c == out.queue[i].cmd
      Same(j) == out.queue[j].cmd.rel = c.rel /\ out.queue[j].cmd.unrel = c.unrel
      Alike(k) == \A j \in i .. k : Same(j)
      end == CHOOSE k \in i .. Len(out.queue) : Alike(k) /\ (k < Len(out.queue) => ~ Alike(k + 1))
  IN /\ ~ Reliable(i) /\ c.frag = 0 /\ UNCHANGED net
     /\ out' = [out EXCEPT !.queue = SubSeq(@, 1, i - 1) \o SubSeq(@, end + 1, Len(@))]

\* enet_protocol_check_outgoing_commands, command by command.
CheckOutgoing ==
  /\ \E i \in 1 .. Len(out.queue) : IsNext(i) /\ (Transmit(i) \/ Throttle(i))
  /\ UNCHANGED <<sc, sent, in, acks, last, loose>>

\* enet_protocol_check_timeouts: those that timed out go to the queue's front.
CheckTimeouts ==
  \E late \in SUBSET (1 .. Len(out.inFlight)) \ {{}} :
    LET Picked(S) == [k \in 1 .. Cardinality(S) |->
                        out.inFlight[CHOOSE i \in S : Cardinality({j \in S : j < i}) = k - 1]]
    IN /\ out' = [out EXCEPT !.queue = Picked(late) \o @, !.transit = @ - Cardinality(late),
                             !.inFlight = Picked(DOMAIN out.inFlight \ late)]
       /\ UNCHANGED <<sc, sent, in, net, acks, last, loose>>

Acknowledged(o, seq) ==
  LET w == WindowOf(seq)
  IN IF o.count[w] = 0 THEN o
     ELSE [o EXCEPT !.count[w] = @ - 1, !.used = IF o.count[w] = 1 THEN @ \ {w} ELSE @]

\* enet_protocol_remove_sent_reliable_command looks among the commands in
\* flight, then in the queue up to the first that was never sent.
HandleAcknowledge(seq) ==
  LET flying == {i \in DOMAIN out.inFlight : out.inFlight[i].cmd.rel = seq}
      queued == {i \in DOMAIN out.queue : /\ Reliable(i) /\ out.queue[i].cmd.rel = seq
                                          /\ \A j \in 1 .. i : Reliable(j) => out.queue[j].tried}
      First(S) == CHOOSE i \in S : \A j \in S : i <= j
      o == Acknowledged(out, seq)
  IN /\ out' = CASE flying # {} -> [o EXCEPT !.inFlight = Without(@, First(flying)), !.transit = @ - 1]
                 [] flying = {} /\ queued # {} -> [o EXCEPT !.queue = Without(@, First(queued))]
                 [] OTHER -> out
     /\ UNCHANGED <<sc, sent, in, net, acks, last, loose>>

(***************************************************************************)
(* The receiver.  An operator takes the end r it finds and returns the one *)
(* it leaves.                                                              *)
(***************************************************************************)
Ahead(r, seq) == WindowOf(seq) + (IF seq < r.rel THEN Windows ELSE 0)
InWindow(r, seq) == Ahead(r, seq) \in WindowOf(r.rel) .. WindowOf(r.rel) + FREE - 2
Order(r, seq) == IF seq < r.rel THEN seq + M ELSE seq

\* Places the walk from the end of a queue stops after.
NotAfter(r, c, d) ==
  Order(r, c.rel) < Order(r, d.rel) \/ (c.rel = d.rel /\ c.unrel <= d.unrel)

Inserted(r, q, c) ==
  LET k == Cardinality({i \in DOMAIN q : NotAfter(r, q[i], c)})
  IN SubSeq(q, 1, k) \o <<c>> \o SubSeq(q, k + 1, Len(q))

Queued(q, c) == \E i \in DOMAIN q : q[i].rel = c.rel /\ q[i].unrel = c.unrel

Pick(q, S) == LET P == SelectSeq([i \in DOMAIN q |-> i], LAMBDA i : i \in S)
              IN [k \in DOMAIN P |-> q[P[k]]]

\* enet_peer_dispatch_incoming_unreliable_commands: at command i, those from
\* start up to it are handed over, those before drop are thrown away; fresh is
\* the command just queued, which stays.
Walk(r, i, s) ==
  LET c == r.unrelQ[i]
      handed == [s EXCEPT !.moved = @ \cup (s.start .. i - 1), !.start = i + 1]
  IN CASE s.stop # 0 \/ c.kind = "unsequenced" -> s
       [] s.stop = 0 /\ c.kind # "unsequenced" /\ c.rel = r.rel /\ c.left = {} -> [s EXCEPT !.unrel = c.unrel]
       [] s.stop = 0 /\ c.kind # "unsequenced" /\ c.rel = r.rel /\ c.left # {} ->
            IF s.start # i THEN [handed EXCEPT !.drop = i]
            ELSE [handed EXCEPT !.drop = IF @ = i THEN i ELSE i - 1]
       [] s.stop = 0 /\ c.kind # "unsequenced" /\ c.rel # r.rel ->
            IF InWindow(r, c.rel) THEN [s EXCEPT !.stop = i] ELSE [handed EXCEPT !.drop = i + 1]

HandOver(r, fresh, s) ==
  LET q == r.unrelQ
      end == IF s.stop = 0 THEN Len(q) + 1 ELSE s.stop
      moved == s.moved \cup (s.start .. end - 1)
      drop == IF s.start # end THEN end ELSE s.drop
      kept == {i \in DOMAIN q \ moved : i >= drop \/ q[i].pkt = fresh}
  IN [r EXCEPT !.unrel = s.unrel, !.ready = @ \o Pick(q, moved), !.unrelQ = Pick(q, kept)]

DispatchUnreliable(r, fresh) ==
  HandOver(r, fresh,
           FoldLeft(LAMBDA x, i : Walk(r, i, x),
                    [start |-> 1, drop |-> 1, moved |-> {}, unrel |-> r.unrel, stop |-> 0],
                    [i \in DOMAIN r.unrelQ |-> i]))

\* enet_peer_dispatch_incoming_reliable_commands
DispatchReliable(r) ==
  LET q == r.relQ
      Next1(rel, i) == q[i].left = {} /\ q[i].rel = (rel + 1) % M
      s == FoldLeft(LAMBDA x, i : IF x.n = i - 1 /\ Next1(x.rel, i)
                                  THEN [n |-> i, rel |-> (q[i].rel + q[i].n - 1) % M] ELSE x,
                    [n |-> 0, rel |-> r.rel], [i \in DOMAIN q |-> i])
      moved == [r EXCEPT !.rel = s.rel, !.unrel = 0, !.ready = @ \o SubSeq(q, 1, s.n),
                         !.relQ = SubSeq(q, s.n + 1, Len(q))]
  IN IF s.n = 0 THEN r ELSE DispatchUnreliable(moved, 0)

Full(r) == r.waiting >= sc.max

\* What was delivered or waits already.
OldRepeats(r, c) ==
  CASE c.kind = "reliable" -> c.rel = r.rel \/ Queued(r.relQ, c)
    [] c.kind = "unreliable" -> Queued(r.unrelQ, c)
    [] OTHER -> FALSE

Old(r, c) ==
  CASE c.kind = "reliable" -> c.rel = r.rel \/ Queued(r.relQ, c)
    [] c.kind = "unreliable" -> (c.rel = r.rel /\ c.unrel <= r.unrel) \/ Queued(r.unrelQ, c)
    [] OTHER -> FALSE

\* enet_peer_queue_incoming_command of c, whose fragments in c.left are awaited.
\* A refused command leaves ok FALSE and is not acknowledged.
\* the command becomes an entry of its queue, which is dispatched at once
Enqueued(r, c) ==
  LET taken == [r EXCEPT !.waiting = @ + 1]
  IN CASE c.kind = "reliable" -> DispatchReliable([taken EXCEPT !.relQ = Inserted(r, @, c)])
       [] c.kind = "unreliable" -> DispatchUnreliable([taken EXCEPT !.unrelQ = Inserted(r, @, c)], c.pkt)
       [] OTHER -> DispatchUnreliable([taken EXCEPT !.unrelQ = <<c>> \o @], c.pkt)
Queue(r, c) ==
  LET refused == (c.kind # "unsequenced" /\ ~ InWindow(r, c.rel)) \/ Old(r, c)
  IN IF refused THEN [ok |-> c.n = 1, r |-> r]
     ELSE IF Full(r) THEN [ok |-> FALSE, r |-> r]
     ELSE [ok |-> TRUE, r |-> Enqueued(r, c)]

Entry(d, left) == [kind |-> d.kind, pkt |-> d.pkt, n |-> d.n, left |-> left,
                   rel |-> IF d.n > 1 /\ d.kind = "reliable" THEN d.start ELSE d.rel, unrel |-> d.unrel]

Same(e, c) == e.rel = c.rel /\ e.unrel = c.unrel
Marked(q, c, f) == [i \in DOMAIN q |-> IF Same(q[i], c) THEN [q[i] EXCEPT !.left = @ \ {f}] ELSE q[i]]
Completes(q, c, f) == \E i \in DOMAIN q : Same(q[i], c) /\ q[i].left = {f}

HandleSendFragment(r, d) ==
  LET c == Entry(d, 0 .. d.n - 1)
      s == IF Queued(r.relQ, c) THEN [ok |-> TRUE, r |-> r] ELSE Queue(r, c)
      m == [s.r EXCEPT !.relQ = Marked(@, c, d.frag)]
  IN CASE ~ InWindow(r, c.rel) -> [ok |-> TRUE, r |-> r]
       [] InWindow(r, c.rel) /\ ~ s.ok -> s
       [] OTHER -> [ok |-> TRUE, r |-> IF Completes(s.r.relQ, c, d.frag) THEN DispatchReliable(m) ELSE m]

HandleSendUnreliableFragment(r, d) ==
  LET c == Entry(d, 0 .. d.n - 1)
      past == ~ InWindow(r, c.rel) \/ (d.rel = r.rel /\ d.start <= r.unrel)
      s == IF Queued(r.unrelQ, c) THEN [ok |-> TRUE, r |-> r] ELSE Queue(r, c)
      m == [s.r EXCEPT !.unrelQ = Marked(@, c, d.frag)]
  IN CASE past -> [ok |-> TRUE, r |-> r]
       [] ~ past /\ ~ s.ok -> s
       [] OTHER -> [ok |-> TRUE, r |-> IF Completes(s.r.unrelQ, c, d.frag) THEN DispatchUnreliable(m, 0) ELSE m]

HandleUnsequenced(r, d) ==
  LET index == d.group % GroupWindow
      ahead == d.group + (IF d.group < r.group THEN Groups ELSE 0)
      new == r.group # d.group - index
      open == IF new THEN [r EXCEPT !.group = d.group - index, !.bits = {}] ELSE r
      q == Queue(open, Entry(d, {}))
  IN CASE ahead >= r.group + FreeGroups * GroupWindow \/ (~ new /\ index \in r.bits) -> [ok |-> TRUE, r |-> r]
       [] OTHER -> [q EXCEPT !.r.bits = IF q.ok THEN @ \cup {index} ELSE @]

\* Wrong on purpose, to be put in the place of the next definition: what is not taken is acknowledged too.
HandleAcksAll(r, d) ==
  LET h == CASE d.kind = "unsequenced" -> HandleUnsequenced(r, d)
             [] d.kind = "reliable" /\ d.n > 1 -> HandleSendFragment(r, d)
             [] d.kind = "unreliable" /\ d.n > 1 -> HandleSendUnreliableFragment(r, d)
             [] OTHER -> Queue(r, Entry(d, {}))
  IN [h EXCEPT !.ok = TRUE]

Handle(r, d) ==
  CASE d.kind = "unsequenced" -> HandleUnsequenced(r, d)
    [] d.kind = "reliable" /\ d.n > 1 -> HandleSendFragment(r, d)
    [] d.kind = "unreliable" /\ d.n > 1 -> HandleSendUnreliableFragment(r, d)
    [] OTHER -> Queue(r, Entry(d, {}))

\* enet_peer_queue_acknowledgement stays silent about what lies just past the
\* windows in use, and acknowledges what is older.
Acknowledges(r, seq) == Ahead(r, seq) \notin WindowOf(r.rel) + FREE - 1 .. WindowOf(r.rel) + FREE

Receive(d) ==
  /\ \E h \in {Handle(in, d)} :
       /\ in' = h.r
       /\ acks' = IF h.ok /\ d.kind = "reliable" /\ Acknowledges(h.r, d.rel) THEN acks \cup {d.rel} ELSE acks
  /\ UNCHANGED <<sc, sent, out, net, last, loose>>

\* enet_peer_receive
Take ==
  /\ in.ready # <<>>
  /\ LET c == Head(in.ready)
     IN /\ in' = [in EXCEPT !.ready = Tail(@), !.waiting = @ - 1]
        /\ IF c.kind = "unsequenced" THEN loose' = loose \cup {c.pkt} /\ UNCHANGED last
           ELSE last' = c.pkt /\ UNCHANGED loose
  /\ UNCHANGED <<sc, sent, out, net, acks>>

Next ==
  \/ \E p \in sc.packets : Send(p[1], p[2])
  \/ CheckOutgoing \/ CheckTimeouts \/ Take
  \/ \E seq \in acks : HandleAcknowledge(seq)
  \/ \E d \in net : Receive(d)

Spec == Init /\ [][Next]_vars

(***************************************************************************)
(* Properties                                                              *)
(***************************************************************************)
Promise == INSTANCE EnetOrder

\* What the application receives obeys the channel's contract, whatever the
\* network does: order, at most once, no reliable packet overtaken.
Contract == Promise!OrderSpec

Held == in.relQ \o in.unrelQ \o in.ready
CommandsOf(q) == {q[i].cmd : i \in DOMAIN q}

\* The sender's bookkeeping is that of its queues: the counts of reliable
\* windows and the mask of those in use follow the commands sent and not
\* acknowledged, and the data in transit is that of the commands in flight.
SenderAccounts ==
  LET tried(w) == {i \in DOMAIN out.queue : out.queue[i].tried /\ WindowOf(out.queue[i].cmd.rel) = w}
      flying(w) == {i \in DOMAIN out.inFlight : WindowOf(out.inFlight[i].cmd.rel) = w}
  IN /\ out.transit = Len(out.inFlight)
     /\ \A w \in 0 .. Windows - 1 : /\ out.count[w] = Cardinality(tried(w)) + Cardinality(flying(w))
                                    /\ w \in out.used <=> out.count[w] > 0

\* A reliable packet stays with the sender until the receiver has it: until it
\* waits there in full, is ready, or was received.
ReliableKept ==
  \A i \in DOMAIN sent :
    sent[i] = "reliable" /\ i > last =>
      \/ \E c \in CommandsOf(out.queue) \cup CommandsOf(out.inFlight) : c.pkt = i
      \/ \E j \in DOMAIN Held : Held[j].pkt = i /\ Held[j].left = {}

\* The sender never waits for nothing: when commands wait, one of them may be
\* sent or one in flight will be acknowledged or time out.
NeverStuck == out.queue # <<>> => out.inFlight # <<>> \/ \E i \in DOMAIN out.queue : IsNext(i)

\* The sender's bookkeeping is right, it loses nothing and does not stall.
SenderKeeps == SenderAccounts /\ ReliableKept /\ NeverStuck
=============================================================================
