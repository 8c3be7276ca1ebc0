----------------------------- MODULE Algorithms -----------------------------
(* The algorithms the server is built on, each used step by step: `unit'    *)
(* names the one in use, impl is its state as the code keeps it and ref     *)
(* what its callers take it for.                                            *)
EXTENDS Containers, RangeCoder, Curves, Wire, MasterLink, Streams, GameRules, Demos, ServerInfo, Throttle, Messages, Runtime

CONSTANTS MaxItems,  \* items a container holds
          MaxSteps,  \* operations on it
          MaxBytes,  \* bytes of a packet or a stream
          MaxSlices, \* of the link to the master server
          MaxValues, \* values of a message
          CurveOrder \* of the base point

VARIABLES unit, impl, ref, steps
vars == <<unit, impl, ref, steps>>

Item == 1..2
Key == 1..3

Use(i, r) ==
  /\ steps < MaxSteps
  /\ impl' = i /\ ref' = r /\ steps' = steps + 1 /\ UNCHANGED unit
-----------------------------------------------------------------------------
Vector ==
  \/ \E x \in Item :
       /\ Len(ref) < MaxItems
       /\ \/ Use(VAdd(impl, x), Append(ref, x))
          \/ Use(VAddUnique(impl, x), IF x \in ToSet(ref) THEN ref ELSE Append(ref, x))
          \/ \E i \in 1..Len(ref) + 1 : Use(VInsert(impl, i, <<x>>), InsertAt(ref, i, x))
  \/ \E x \in Item : Use(VRemoveObj(impl, x), SelectSeq(ref, LAMBDA y : y # x))
  \/ \E x \in ToSet(ref) :
       Use(VReplaceWithLast(impl, x), Front(ReplaceAt(ref, SelectInSeq(ref, LAMBDA y : y = x), Last(ref))))
  \/ Len(ref) <= MaxItems - 2 /\ Use(VMove(impl, VAdd(VAdd(NoVector, 2), 1)), ref \o <<2, 1>>)
  \/ /\ Len(ref) \in 1..MaxItems - 2
     /\ \/ Use(VDup(impl), Append(ref, Last(ref)))
        \/ Use(VPut(impl, <<1, 2>>), ref \o <<1, 2>>)
        \/ \E i \in 1..Len(ref) :
             Use(VInsert(impl, i, <<2, 1>>), SubSeq(ref, 1, i - 1) \o <<2, 1>> \o SubSeq(ref, i, Len(ref)))
  \/ \E i \in DOMAIN ref :
       \/ Use(VRemove(impl, i, 1), RemoveAt(ref, i))
       \/ Use(VRemoveUnordered(impl, i), Front(ReplaceAt(ref, i, Last(ref))))
       \/ i < Len(ref) /\ Use(VRemove(impl, i, 2), RemoveAt(RemoveAt(ref, i), i))
  \/ Use(VReverse(impl), Reverse(ref))

Sort == \E x \in Key : /\ Len(ref) < 2 * MaxItems
                       /\ Use(Sorted(Append(ref, 10 * x + Len(ref))), Append(ref, 10 * x + Len(ref)))

Heap ==
  \/ \E x \in Key : Len(ref) < MaxItems + 2 /\ Use(AddHeap(impl, x), Append(ref, x))
  \/ ref # <<>> /\ Use(RemoveHeap(impl), RemoveFirst(ref, Contents(impl)[1]))
  \/ Use(BuildHeap(VReverse(impl)), ref)

Table ==
  \/ \E k \in 1..5, d \in Item : \/ Use(HSet(impl, k, d), (k :> d) @@ ref)
                                 \/ Use(HAccess(impl, k, d), ref @@ (k :> d))
  \/ \E k \in 1..5 : Use(HRemove(impl, k), [l \in DOMAIN ref \ {k} |-> ref[l]])
  \/ Use(HClear(impl), <<>>)

\* a queue that is full takes nothing more, the history of a reversequeue does
Queue ==
  \/ \E x \in Key : Len(ref) < RingSize /\ Use(QAdd(impl, x), Append(ref, x))
  \/ \E x \in Key : LET q == QReserve(impl, <<x, 1>>)
                    IN Len(ref) < RingSize - 1 /\ Use(q, ref \o SubSeq(<<x, 1>>, 1, q.len - Len(ref)))
  \/ /\ ref # <<>>
     /\ \/ Use(QRemove(impl), Tail(ref))
        \/ Use(QPop(impl), Front(ref))
  \/ \E i \in DOMAIN ref : Use(QRemoveAt(impl, i - 1), RemoveAt(ref, i))
History == \E x \in Key : Use(QAdd(impl, x), <<x>> \o IF Len(ref) = RingSize THEN Front(ref) ELSE ref)

Sets ==
  \E x, y \in 0..4 : Use(Unite(impl, x, y),
                         {p \in (0..4) \X (0..4) :
                            p \in ref \/ \E a, b \in {x, y} : <<p[1], a>> \in ref /\ <<b, p[2]>> \in ref})
-----------------------------------------------------------------------------
Compress == \E v \in {0, 1, B - 1} : Len(ref) < MaxBytes /\ Use(CompressByte(impl, v), Append(ref, v))

Gzip ==
  \/ \E n \in 1..4 : LET bytes == [i \in 1..n |-> Len(ref) + i]
                     IN Len(ref) + n <= MaxBytes /\ Use(GzWrite(impl, bytes), ref \o bytes)
  \/ Use(GzFlush(impl), ref)

Ints == {0, 127, 128, -126, -127, -128, 32767, 32768, -32768, -32769, 2147483647, -2147483647 - 1, 255, 65535, -1}
Uints == {0, 127, 128, 2 ^ 14 - 1, 2 ^ 14, 2 ^ 21 - 1, 2 ^ 21, 2 ^ 28 - 1, -1, -128, -(2 ^ 28)}
Texts == {<<>>, <<65>>, <<-1, -128>>, <<66, 67, 68, 69>>}
Message ==
  /\ Len(ref) < MaxValues
  /\ \/ \E n \in Ints : Use(PutInt(impl, n), Append(ref, <<"int", n>>))
     \/ \E n \in Uints : Use(PutUint(impl, n), Append(ref, <<"uint", n>>))
     \/ \E t \in Texts : Use(SendString(impl, t), Append(ref, <<"string", t>>))
     \/ Use(PutFloat(impl, <<0, 0, 128, 63>>), Append(ref, <<"float", <<0, 0, 128, 63>>>>))

\* ref is the time
Master ==
  \/ steps < MaxSlices /\ \E fails \in Failures : Use(RequestMaster(impl, <<1, Newline>>, ref, fails), ref)
  \/ \E sent \in -1..Sendable(impl), readable, writable, error \in BOOLEAN, fails \in {"", "unresolved", "refused"},
        chunk \in {<<>>, <<1>>, <<Newline, 1>>, <<1, Newline, Newline>>}, now \in {ref, ref + 2} :
       /\ steps < MaxSlices /\ (~readable => chunk = <<>>) /\ (error => fails = "")
       /\ Use(MasterSlice(impl, now, [sent |-> sent, readable |-> readable, writable |-> writable, error |-> error,
                                      chunk |-> chunk, fails |-> fails]), now)

\* ref is the mode
Player ==
  /\ steps < MaxItems
  /\ \/ \E t \in {Rifle, Pistol} \union Health..Quad :
          CanSpawnItem(ref, t) /\ CanPickup(impl, t) /\ Use(Pickup(impl, t), ref)
     \/ \E d \in {31, 75, 120} : DoDamage(impl, d).health > 0 /\ Use(DoDamage(impl, d), ref)

\* ref is the teams played and the frags of those that had a place
Teams ==
  \/ \E team \in 1..3, f \in 0..1 :
       LET infos == AddTeamInfo(impl, ref.played, team, f)
       IN Use(infos, [ref EXCEPT !.score[team] = IF team \in Names(infos) THEN @ + f ELSE @])
  \/ \E played \in SUBSET (1..3) : Use(impl, [ref EXCEPT !.played = played])

\* ref is the time, the packets of the recording, and those of the demos kept
MaxDemos == 2
Demo ==
  LET ended(d, log) == IF d.rec THEN ref.logs
                       ELSE SubSeq(Append(ref.logs, log), Max({1, Len(ref.logs) + 2 - MaxDemos}), Len(ref.logs) + 1)
      packet == [stamp |-> ref.now, chan |-> 1, data |-> <<steps>>]
  IN \/ ~impl.rec /\ LET d == SetupDemoRecord(impl, ref.now, <<steps>>, 0, MaxDemos)
                     IN Use(d, [ref EXCEPT !.log = <<packet>>, !.logs = IF d.rec THEN @ ELSE ended(d, <<packet>>)])
     \/ \E len \in 0..2, lag \in {0, Held}, t \in 0..1 :
          LET p == [stamp |-> ref.now + t, chan |-> 0, data |-> SubSeq(<<steps, 9>>, 1, len)]
              d == RecordPacket(impl, p.stamp, p.chan, p.data, lag, MaxDemos, FALSE)
          IN impl.rec /\ Use(d, [now |-> p.stamp, log |-> Append(ref.log, p), logs |-> ended(d, Append(ref.log, p))])
     \/ impl.rec /\ LET d == EndDemoRecord(impl, MaxDemos) IN Use(d, [ref EXCEPT !.logs = ended(d, ref.log)])
     \/ ~impl.rec /\ \E n \in 0..Len(ref.logs) :
          Use(ClearDemos(impl, n), [ref EXCEPT !.logs = IF n = 0 THEN <<>> ELSE RemoveAt(@, n)])

\* ref is the peers the throttle visits
Bandwidth ==
  \E i \in DOMAIN impl.peers :
    \/ \E n \in {40, 100, 700} : impl.peers[i].sent = 0 /\ Use([impl EXCEPT !.peers[i].sent = n], ref)
    \/ \E rtt \in {4, 20} : Use([impl EXCEPT !.peers[i] = PeerThrottle(@, rtt, 5, 2)], ref)
    \/ i = 1 /\ \E elapsed \in {1000, 2000} : Use(HostThrottle(impl, ref, elapsed), ref)

Parsing ==
  \/ \E types \in {<<>>, <<"SOUND", "TAUNT">>, <<"EDITF">>, <<"CHECKMAPS", "TAUNT", "SPAWN">>} \X (DOMAIN MsgSizes) \X (DOMAIN MsgSizes) :
       LET all == types[1] \o <<types[2], types[3]>>
       IN impl.gone = "" /\ Use([ParsePacket(impl, Packet(all)) EXCEPT !.handled = <<>>], ref)
  \/ Use(NextUpdate(impl), ref)

\* ref is what the traversals under way have to call and have called
Groups ==
  LET last == Len(ref)
  IN \/ LuaIdle(impl) /\ last < 2 /\ impl.group # <<>> /\ Use(CallHooks(impl), Append(ref, [due |-> ToSet(impl.group), called |-> <<>>]))
     \/ /\ ~LuaIdle(impl)
        /\ IF Innermost(impl).at > Len(Cells(impl, Innermost(impl))) THEN Use(EndCall(impl), Front(ref))
           ELSE Use(Enter(impl), [ref EXCEPT ![last].called = Append(@, Cells(impl, Innermost(impl))[Innermost(impl).at])])
     \/ LuaIdle(impl) /\ last > 0 /\ Use(Leave(impl), ref)
     \/ LuaIdle(impl) /\ impl.fresh < MaxItems /\ \E prepend \in BOOLEAN :
          Use(AddHook(impl, prepend),
              [i \in DOMAIN ref |-> IF prepend \/ impl.frames[i].no # impl.no THEN ref[i] ELSE [ref[i] EXCEPT !.due = @ \union {impl.fresh}]])
     \/ LuaIdle(impl) /\ \E token \in 1..impl.fresh - 1 : Use(RemoveHook(impl, token), ref)

\* clientinfo 1 frees its table itself; 2 and 3 are scores, 2 the static one.
\* ref is the table of each
Extras ==
  \/ 1 \notin DOMAIN ref /\ Use(ExtraInit(Extra(impl, 1, TRUE), 1), (1 :> impl.tables + 1) @@ ref)
  \/ 1 \in DOMAIN ref /\ Use(ExtraGone(ExtraFini(impl, 1), 1, TRUE), [o \in DOMAIN ref \ {1} |-> ref[o]])
  \/ 2 \in DOMAIN ref /\ Use(ExtraInit(ExtraFini(impl, 2), 2), [ref EXCEPT ![2] = impl.tables + 1])
  \/ \E o \in {2, 3} \ DOMAIN ref :
       \/ Use(Extra(impl, o, FALSE), (o :> impl.tables + 1) @@ ref)
       \/ \E from \in DOMAIN ref : Use(ExtraCopy(impl, o, from), (o :> ref[from]) @@ ref)
  \/ \E o \in {2, 3} \intersect DOMAIN ref :
       \/ Use(ExtraGone(impl, o, FALSE), [x \in DOMAIN ref \ {o} |-> ref[x]])
       \/ Use(ExtraFini(impl, o), [ref EXCEPT ![o] = 0])
       \/ \E from \in DOMAIN ref \ {o} : Use(ExtraAssign(impl, o, from), [ref EXCEPT ![o] = ref[from]])

Variables ==
  /\ steps < MaxItems
  /\ \/ impl.peers = 0 /\ \E opt \in {"u", "c", "j", "o"}, n \in {-1, 0, 1, 200} : Use(ServerOption(impl, opt, n), ref)
     \/ impl.peers = 0 /\ \E opt \in {"i", "m", "n", "y", "p"}, s \in {"", "a"} : Use(ServerOption(impl, opt, s), ref)
     \/ impl.peers = 0 /\ Use(HostCreate(impl), ref)
     \/ \E name \in {"maxclients", "maxdupclients", "serverport", "masterport"}, n \in {0, 5, 70000} : Use(SetVar(impl, name, n), ref)

Process ==
  \/ impl.phase = "start" /\ \E got \in [host : {"made", "none", "failed"}, pong : {"made", "none", "failed"}, lan : {"made", "none"}] :
       Use(InitServer(impl, got), ref)
  \/ /\ impl.phase = "running"
     /\ \/ Len(impl.slots) < 3 /\ Use(AddClient(impl), ref)
        \/ \E n \in DOMAIN impl.slots :
             \/ impl.slots[n] = "tcpip" /\ Use([impl EXCEPT !.joined = @ \union {n}], ref)
             \/ Use(DisconnectClient(impl, n), ref)
        \/ impl.joined # {} /\ impl.bots < 1 /\ Use([impl EXCEPT !.bots = @ + 1], ref)
        \/ Use(EndServer(impl), ref)

\* ref is the time at the game's speed and the slices of pauses
Clock ==
  steps < MaxItems /\ \E elapsed \in {0, 7, 999, 2500}, speed \in {100, 75, 133}, paused \in BOOLEAN :
    Use(Advance(impl, elapsed, speed, paused),
        IF paused THEN [ref EXCEPT !.pauses = @ + 1] ELSE [ref EXCEPT !.scaled = @ + elapsed * speed])

\* ref counts the packetbufs and the references of Lua; queue is the commands
\* of ENet, and of each whether it carries the packet
Holders ==
  /\ impl.freed = 0 /\ steps < MaxItems + 2
  /\ \/ ref.bufs < 2 /\ Use(Taken(impl), [ref EXCEPT !.bufs = @ + 1])
     \/ ref.bufs > 0 /\ \/ Use(Released(impl), [ref EXCEPT !.bufs = @ - 1])
                        \/ \E n \in 1..2 : Len(ref.queue) < 4 /\ Use(Queued(impl, n), [ref EXCEPT !.queue = @ \o [i \in 1..n |-> TRUE]])
     \/ Len(ref.queue) < 4 /\ Use(impl, [ref EXCEPT !.queue = Append(@, FALSE)])
     \/ ref.queue # <<>> /\ Use(IF ref.queue[1] THEN Released(impl) ELSE impl, [ref EXCEPT !.queue = Tail(@)])
     \/ \E from, exclude \in 0..Len(ref.queue) : \E to \in from..Len(ref.queue) :
          LET r == RemoveCommands(impl, ref.queue, from + 1, to, exclude) IN Use(r.p, [ref EXCEPT !.queue = r.queue])
     \/ ref.others < 2 /\ Use(Taken(impl), [ref EXCEPT !.others = @ + 1])
     \/ ref.others > 0 /\ Use(Released(impl), [ref EXCEPT !.others = @ - 1])

\* ref is the bytes written and kept since
Resizing ==
  /\ steps < MaxItems
  /\ \/ \E n \in 0..4, fails \in BOOLEAN :
          LET q == Resize(impl, n, fails) IN Use(q, SubSeq(ref, 1, Min({q.length, Len(ref)})))
     \/ Len(ref) < impl.length /\ Use([impl EXCEPT !.block[Len(ref) + 1] = steps], Append(ref, steps))

\* ref is the streams the callers hold; they delete one that no other they
\* hold works through
Opening ==
  /\ steps < MaxItems + 1
  /\ \/ \E opens \in BOOLEAN : LET h == OpenRawFile(impl, opens) IN Use(h, ref \union (DOMAIN h.open \ DOMAIN impl.open))
     \/ \E file \in {0} \union ref, opens, fits \in BOOLEAN :
          LET h == OpenThrough(impl, file, opens, fits)
          IN Use(h, ref \union {s \in DOMAIN h.open \ DOMAIN impl.open : s = h.next - 1})
     \/ \E s \in ref : /\ \A t \in ref : impl.open[t].source # s
                       /\ Use(DeleteStream(impl, s), ref \ {s})

\* ref is the keys given last
Users ==
  \/ \E name, desc \in {"a", "b"}, priv \in {"a", "m", "n"} :
       Use(AddUser(impl, name, desc, steps, priv), [ref EXCEPT ![name, desc] = steps])
  \/ Use(<<>>, [u \in DOMAIN ref |-> -1])

\* inputs for the algorithms that are one call each
ArgNames == \E s \in UNION {[1..n -> {",", " ", "a", "b"}] : n \in 0..5} : Use(s, ref)
Hook ==
  \E names \in {<<"ci", "val">>, <<"ci", "ci">>, <<"skip", "val">>}, skippable \in BOOLEAN, consts \in SUBSET {1, 2}, hook \in {"nil", "f"},
     script \in UNION {[1..n -> {"ci", "skip", "own"} \X {"yes", "other"}] : n \in 0..2} :
    Use(<<names, skippable, consts, hook, script>>, ref)
Log == \E hook \in [skip : BOOLEAN, says : {<<>>, <<"x">>, <<"x", "y">>}] : Use(hook, ref)
Digits(n) == Shrink([i \in 1..4 |-> (n \div Base ^ (i - 1)) % Base])
Numbers == \E x, y \in 0..Base ^ 3 - 1 : Use(<<Digits(x), Digits(y)>>, ref)
Edges == {0, 1, 2, Base, Base ^ UnitDigits - 1, Base ^ UnitDigits, Base ^ (2 * UnitDigits) - 1}
Field == \E x, y \in Edges \union {FieldP \div 2, FieldP \div 2 + 1} \union {FieldP - 1 - e : e \in Edges} :
           Use(<<Number(x), Number(y)>>, ref)
Points == \E j, k \in {0, 1, 2, 3, 5, CurveOrder - 3, CurveOrder - 1} : Use(<<j, k>>, ref)
Keys == \E j \in {1, 2, CurveOrder \div 2, CurveOrder - 1}, k \in {1, 3, CurveOrder \div 2 - 1} : Use(<<j, k>>, ref)
Masks == \E octets \in UNION {[1..n -> {-1, 0, 10, 255}] : n \in 0..4}, range \in {-1, 0, 4, 8, 12, 20, 31, 32, 40} :
           Use([octets |-> octets, range |-> range], ref)
Filter == \E n \in 1..3, line, forced \in BOOLEAN, t \in UNION {[1..k -> {"text", "space", "break", "odd", "color"}] : k \in 0..4} :
            Use(<<t, line, forced, n>>, ref)
Paths == \E s \in UNION {[1..n -> {"/", ".", "a"}] : n \in 0..7} : Use(s, ref)
Utf8 == \E t \in UNION {[1..n -> {65, 233, 1071, Colour, 8364, 70000}] : n \in 0..4} : Use(t, ref)
ModeWords == {ModeWord(FALSE, TRUE, {})} \union [not : BOOLEAN, all : {FALSE}, modes : {{11, 12, 17}, {11}, {0}, {1}, {3, 4, 12}}]
Rules == \E words \in UNION {[1..n -> ModeWords] : n \in 0..3} : Use(words, ref)
Items == \E mode \in ModeNumbers : Use(mode, ref)
Pinged(players, teammode, hide, paused, left) ==
  [clients |-> players, teammode |-> teammode, hidefrags |-> hide, paused |-> paused, gamespeed |-> 100, gamelimit |-> 600000,
   gamemillis |-> 600000 - left, gamemode |-> 5, timed |-> TRUE, protocol |-> 260, maxclients |-> 8, mastermode |-> 0, map |-> 33,
   desc |-> 44, totalsecs |-> 3, showip |-> FALSE, frags |-> (101 :> 7), scores |-> <<[team |-> 102, score |-> 9]>>, bases |-> (102 :> <<4>>)]
Players == {<<>>} \union UNION {{[i \in 1..n |-> [cn |-> <<4, 0, 128>>[i], bot |-> i = 3, ip |-> 1, stats |-> <<11, 12>>] @@ w[i]] :
                                w \in [1..n -> [team : {0, 101, 102, 103}, spec : BOOLEAN]]} : n \in 1..3}
Pings == \E req \in {<<>>, <<1>>, <<0>>, <<0, 0, 1>>, <<0, 1, -1>>, <<0, 1, 0>>, <<0, 1, 3>>, <<0, 1>>, <<0, 2>>, <<0, 9>>, <<0, 2, 5, 5, 5>>},
            players \in Players, teammode, hide, paused \in BOOLEAN, left \in {-1, 2000} :
           Use(<<req, Pinged(players, teammode, hide, paused, left)>>, ref)
Name == [top : {"packages", "data"}]
Lookup == \E disk \in SUBSET ({"h", ".", "p", "q"} \X Name), home \in {"", "h"}, f \in Name, n \in 0..2 :
          Use(<<disk, home, SubSeq(<<[dir |-> "q", filter |-> "packages"], [dir |-> "p", filter |-> ""]>>, 1, n), f>>, ref)
Packages == \E dir \in UNION {[1..n -> {"~", "packages", "a"}] : n \in 1..4}, home \in {<<>>, <<"u">>, <<"packages", "u">>},
               f \in UNION {[1..n -> {"packages", "a"}] : n \in 1..3} :
              (\A i \in DOMAIN dir \ {1} : dir[i] # "~") /\ Use(<<dir, home, f>>, ref)
Editing ==
  /\ steps < MaxItems /\ impl # Astray
  /\ \/ \E i \in -1..2, type \in {0, Cg, Health, Quad} : Use(EditEnt(impl, ref, i, type), ref)
     \/ \E curtime \in {1, 9000} : Use(SpawnItems(impl, curtime), ref)
     \/ \E i \in DOMAIN impl, over \in BOOLEAN : Use(TakeItem(impl, [RespawnState EXCEPT !.health = 50], ref, over, 1, i).sents, ref)
Grouped == steps < MaxItems /\ \E ammotype \in -3..1 : \E bases \in AddBase(impl, ammotype) : Use(bases, ref)
Shown == \E clients \in UNION {[1..n -> [name : {"", "a", "b"}, bot : BOOLEAN]] : n \in 1..3} : Use(clients, ref)

\* ref is unused, impl the pieces a caller of sendf gives: a letter and values
Pieces == {<<"i", <<5>>>>, <<"i", <<-128, 32768>>>>, <<"v", <<>>>>, <<"v", <<1, 2, 3, 4>>>>, <<"s", <<65, 66>>>>,
           <<"f", <<<<0, 0, 128, 63>>>>>>, <<"f", <<<<0, 0, 128, 63>>, <<1, 2, 3, 4>>>>>>, <<"m", <<7, 8, 9, 10>>>>, <<"x", 3>>}
Formats == \E reliable \in BOOLEAN, pieces \in UNION {[1..n -> Pieces] : n \in 0..3} : Use(<<reliable, pieces>>, ref)

\* the clients a newcomer is told of, the last of them bots
Client3 == [num : {0}, owner : {0}, ai : {0}, skill : {0}, model : {2}, name : {<<>>, <<65, -128>>}, team : {<<>>, <<66>>}, connected : BOOLEAN]
Bot3 == [num : {128}, owner : {0}, ai : {1}, skill : {100, 300}, model : {-1}, name : {<<65>>}, team : {<<>>, <<66>>}, connected : {TRUE}]
Roster == \E humans \in UNION {[1..n -> Client3] : n \in 0..2}, bots \in UNION {[1..n -> Bot3] : n \in 0..1}, exclude \in -1..1 :
            Use(<<[i \in DOMAIN humans |-> [humans[i] EXCEPT !.num = i - 1]] \o bots, exclude>>, ref)
Undo == \E unpacklen \in {-1, 0, 300}, packlen \in {-1, 0, 1, 3, MaxPacked, MaxPacked + 1}, payload \in {<<>>, <<1, 2>>, <<1, 2, 3>>, <<1, 2, 3, 4, 5>>},
           spectates \in BOOLEAN : Use(<<unpacklen, packlen, payload, spectates>>, ref)
Hear == \E clients \in UNION {[1..n -> [team : {"", "a", "b"}, spectates : BOOLEAN, bot : BOOLEAN]] : n \in 1..3}, teammode \in BOOLEAN :
          Use(<<clients, teammode>>, ref)
-----------------------------------------------------------------------------
Init ==
  /\ steps = 0
  /\ \/ unit \in {"vector", "heap"} /\ impl = NoVector /\ ref = <<>>
     \/ unit = "sort" /\ impl = <<>> /\ ref = <<>>
     \/ unit = "table" /\ impl = NoTable /\ ref = <<>>
     \/ unit \in {"queue", "history"} /\ impl = NoRing /\ ref = <<>>
     \/ unit = "sets" /\ impl = NoSets /\ ref = {<<x, x>> : x \in 0..4}
     \/ unit = "coder" /\ impl = Compressor /\ ref = <<>>
     \/ unit = "gzip" /\ impl = GzWriter /\ ref = <<>>
     \/ unit = "message" /\ impl \in {Buffer(9, 0), Buffer(2, 3)} /\ ref = <<>>
     \/ unit = "master" /\ impl = NoLink /\ ref = 0
     \/ unit = "player" /\ ref \in ModeNumbers /\ \E blue \in BOOLEAN : impl \in SpawnStates(ref, blue)
     \/ unit = "demo" /\ impl = NoRecorder /\ ref = [now |-> 0, log |-> <<>>, logs |-> <<>>]
     \/ unit = "bandwidth" /\ ref \in {<<1, 2, 3>>, <<3, 1>>, <<2>>}
        /\ \E outgoing, incoming \in {0, 100}, a, b \in {0, 30, 90} :
             impl = [outgoing |-> outgoing, incoming |-> incoming, recalculate |-> TRUE,
                     peers |-> <<NewPeer(a, 20), NewPeer(b, a), NewPeer(0, 60)>>]
     \/ unit = "parsing" /\ ref = <<>> /\ \E edit \in BOOLEAN : impl = Client(edit)
     \/ unit = "groups" /\ impl = NoHooks /\ ref = <<>>
     \/ unit = "extras" /\ impl = NoExtras /\ ref = <<>>
     \/ unit = "variables" /\ impl = NoVars /\ ref = <<>>
     \/ unit = "process" /\ impl = NoProcess /\ ref = <<>>
     \/ unit = "clock" /\ impl = NoClock /\ ref = [scaled |-> 0, pauses |-> 0]
     \/ unit = "packet" /\ impl = Taken(NoPacket) /\ ref = [bufs |-> 1, others |-> 0, queue |-> <<>>]
     \/ unit = "resize" /\ ref = <<>> /\ \E noallocate \in BOOLEAN : impl = [block |-> <<"?", "?">>, length |-> 2, noallocate |-> noallocate]
     \/ unit = "edits" /\ impl = <<>> /\ ref = 1
     \/ unit = "bases" /\ impl = <<>> /\ ref = <<>>
     \/ unit = "streams" /\ impl = NoStreams /\ ref = {}
     \/ unit = "users" /\ impl = <<>> /\ ref = [u \in {"a", "b"} \X {"a", "b"} |-> -1]
     \/ unit = "teams" /\ impl = {} /\ ref = [played |-> {}, score |-> [team \in 1..3 |-> 0]]
     \/ unit \in {"numbers", "field", "points", "keys", "masks", "filter", "paths", "utf8", "find", "rules", "items", "pings", "names", "hook", "log", "packages", "format", "shown", "roster", "undo", "hear"} /\ impl = <<>> /\ ref = <<>>

Next ==
  \/ unit = "vector" /\ Vector
  \/ unit = "sort" /\ Sort
  \/ unit = "heap" /\ Heap
  \/ unit = "table" /\ Table
  \/ unit = "queue" /\ Queue
  \/ unit = "history" /\ History
  \/ unit = "sets" /\ Sets
  \/ unit = "coder" /\ Compress
  \/ unit = "gzip" /\ Gzip
  \/ unit = "message" /\ Message
  \/ unit = "master" /\ Master
  \/ unit = "player" /\ Player
  \/ unit = "teams" /\ Teams
  \/ unit = "demo" /\ Demo
  \/ unit = "parsing" /\ Parsing
  \/ unit = "bandwidth" /\ steps < MaxItems - 1 /\ Bandwidth
  \/ unit = "groups" /\ Groups
  \/ unit = "extras" /\ Extras
  \/ unit = "variables" /\ Variables
  \/ unit = "process" /\ Process
  \/ unit = "clock" /\ Clock
  \/ unit = "packet" /\ Holders
  \/ unit = "resize" /\ Resizing
  \/ unit = "streams" /\ Opening
  \/ unit = "edits" /\ Editing
  \/ unit = "bases" /\ Grouped
  \/ unit = "users" /\ steps < MaxItems /\ Users
  \/ /\ steps = 0
     /\ \/ unit = "names" /\ ArgNames
        \/ unit = "hook" /\ Hook
        \/ unit = "log" /\ Log
        \/ unit = "numbers" /\ Numbers
        \/ unit = "field" /\ Field
        \/ unit = "points" /\ Points
        \/ unit = "keys" /\ Keys
        \/ unit = "masks" /\ Masks
        \/ unit = "filter" /\ Filter
        \/ unit = "paths" /\ Paths
        \/ unit = "utf8" /\ Utf8
        \/ unit = "packages" /\ Packages
        \/ unit = "format" /\ Formats
        \/ unit = "shown" /\ Shown
        \/ unit = "roster" /\ Roster
        \/ unit = "undo" /\ Undo
        \/ unit = "hear" /\ Hear
        \/ unit = "find" /\ Lookup
        \/ unit = "rules" /\ Rules
        \/ unit = "items" /\ Items
        \/ unit = "pings" /\ Pings
Spec == Init /\ [][Next]_vars
-----------------------------------------------------------------------------
Count(s, x) == Cardinality({i \in DOMAIN s : s[i] = x})
Permuted(s, t) == \A x \in ToSet(s) \union ToSet(t) : Count(s, x) = Count(t, x)

\* The containers hold what their callers put there: vectors and queues the
\* same sequence through every loop that moves cells, over the end of a ring
\* and across growth; sorts and heaps the same items in order; a hash table
\* the last value of each key, with no node lost.
ContainersKeep ==
  CASE unit = "vector" -> Contents(impl) = ref
    [] unit = "sort" -> Permuted(impl, ref) /\ \A i \in 1..Len(impl) - 1 : ~Lt(impl[i + 1], impl[i])
    [] unit = "heap" -> /\ Permuted(Contents(impl), ref)
                        /\ \A i \in 2..impl.ulen : impl.buf[i \div 2] <= impl.buf[i]
    [] unit = "table" -> /\ \A k \in 1..5 : IF k \in DOMAIN ref THEN impl.chains[Hash(k)][At(impl, k)] = <<k, ref[k]>>
                                            ELSE At(impl, k) = 0
                         /\ impl.numelems = Cardinality(DOMAIN ref)
                         /\ impl.numelems + impl.unused = impl.chunks * ChunkSize
    [] unit = "queue" -> impl.len = Len(ref) /\ \A i \in DOMAIN ref : Removing(impl, i - 1) = ref[i]
    [] unit = "history" -> \A i \in DOMAIN ref : Added(impl, i - 1) = ref[i]
    [] unit = "sets" -> \A x, y \in 0..4 : (UFind(impl, x) = UFind(impl, y)) <=> <<x, y>> \in ref
    [] OTHER -> TRUE

\* What ENet does with packets on their way: one is decompressed to what was
\* compressed, for every packet that fits, as the encoder and the decoder
\* rebuild the same contexts, in different orders and through every rescaling
\* (enet_range_coder_compress, _decompress); and the peers share the bandwidth
\* (enet_host_bandwidth_throttle).
PacketsPass ==
  /\ unit = "coder" => RoundTrips(ref, impl)
  /\ unit = "packet" => PacketSound(impl, ref.bufs, ref.others + Count(ref.queue, TRUE))
  /\ unit = "resize" => ResizeSound(impl, ref)
  /\ unit = "bandwidth" => \A elapsed \in {1000, 2000} : Shared(impl, ref, elapsed)

RECURSIVE ReadAll(_, _)
ReadAll(r, values) ==
  LET v == Head(values)
      got == CASE v[1] = "int" -> GetInt(r) [] v[1] = "uint" -> GetUint(r)
               [] v[1] = "string" -> GetString(r, <<>>, 6) [] v[1] = "float" -> GetFloat(r)
  IN IF values = <<>> THEN r ELSE IF got.n # v[2] THEN [r EXCEPT !.overread = TRUE] ELSE ReadAll(got.r, Tail(values))

\* What filtertext leaves in a name or a line is text and blanks, and what
\* fits is all of it.
Filters(text, line, forced, n) ==
  LET out == FilterText(text, line, forced, n)
  IN /\ Len(out) <= n /\ "odd" \notin ToSet(out) /\ "color" \notin ToSet(out)
     /\ ~line \/ forced => "break" \notin ToSet(out)
     /\ Len(out) < n => Len(out) >= Cardinality({i \in DOMAIN text : text[i] = "text" /\ (i = 1 \/ text[i - 1] # "color")})

\* What the callers of sendf name is in the packet, in their order, and every
\* value they pass is taken once.
Letters(piece) ==
  LET n == Len(piece[2])
  IN CASE piece[1] \in {"i", "f"} -> <<piece[1]>> \o (IF n = 1 THEN <<>> ELSE <<ToString(n)>>) [] OTHER -> <<piece[1]>>
Passed(piece) ==
  CASE piece[1] \in {"i", "f"} -> piece[2] [] piece[1] \in {"v", "m"} -> <<Len(piece[2]), piece[2]>> [] OTHER -> <<piece[2]>>
Meant(piece) ==
  CASE piece[1] \in {"i", "v"} -> [k \in DOMAIN piece[2] |-> <<"int", piece[2][k]>>]
    [] piece[1] = "f" -> [k \in DOMAIN piece[2] |-> <<"float", piece[2][k]>>]
    [] piece[1] = "m" -> <<<<"float", piece[2]>>>> [] piece[1] = "s" -> <<<<"string", piece[2]>>>> [] OTHER -> <<>>
Formatted(reliable, pieces) ==
  LET all(of(_)) == FlattenSeq([i \in DOMAIN pieces |-> of(pieces[i])])
      excluded == {i \in DOMAIN pieces : pieces[i][1] = "x"}
      right(sent) == /\ ReadAll(Reader(sent.p.buf), all(Meant)) = Reader(<<>>)
                     /\ sent.reliable = reliable /\ sent.args = <<>>
                     /\ sent.exclude = IF excluded = {} THEN -1 ELSE pieces[Max(excluded)][2]
  IN right(SendF((IF reliable THEN <<"r">> ELSE <<>>) \o all(Letters), all(Passed)))

\* A newcomer that reads until nothing is left knows everyone else who has
\* joined, bots with their owner, and nobody twice.
GetStrings(r, n) ==
  FoldLeft(LAMBDA got, k : LET t == GetString(got.r, <<>>, 6) IN [n |-> Append(got.n, t.n), r |-> t.r], [n |-> <<>>, r |-> r], [k \in 1..n |-> k])
RECURSIVE RosterRead(_)
RosterRead(r) ==
  LET head == GetInts(r, 2)
      ai == GetInts(head.r, IF head.n[1] = N_INITAI THEN 4 ELSE 0)
      names == GetStrings(ai.r, 2)
      model == GetInts(names.r, IF head.n[1] = N_INITAI THEN 0 ELSE 1)
  IN IF r.buf = <<>> THEN <<>> ELSE <<<<head.n[2], ai.n \o model.n>> \o names.n>> \o RosterRead(model.r)
RosterTold(clients, exclude) ==
  LET others == SelectSeq(clients, LAMBDA c : c.connected /\ c.num # exclude)
  IN RosterRead(Reader(Finalize(WelcomeInitClient(Buffer(MaxTrans, MaxTrans), clients, exclude)).buf)) =
     [i \in DOMAIN others |-> LET c == others[i] IN <<c.num, IF c.ai # 0 THEN <<c.owner, c.ai, c.skill, c.model>> ELSE <<c.model>>, c.name, c.team>>]

\* What one client packed reaches the others as it is, and the messages after
\* it are read from behind it; the sender goes only when it promised more than
\* it sent.
UndoRelayed(unpacklen, packlen, payload, spectates) ==
  LET passes == ~spectates /\ packlen \in 1..MaxPacked /\ unpacklen > 0
      right(u) == /\ u.gone <=> passes /\ packlen > Len(payload)
                  /\ u.out # <<>> <=> passes /\ ~u.gone
                  /\ u.out # <<>> => LET told == GetInts(Reader(u.out), 4)
                                     IN told.n = <<51, 4, unpacklen, packlen>> /\ told.r.buf = SubSeq(payload, 1, packlen)
                  /\ ~u.gone => u.r.buf = SubSeq(payload, Max({0, packlen}) + 1, Len(payload))
  IN right(RelayUndo(Reader(FoldLeft(PutInt, Buffer(20, 20), <<unpacklen, packlen>>).buf \o payload), 51, 4, spectates))

\* Messages are read as they were put, at every width of integers and across
\* the growth of a buffer, and only a fixed buffer that is full loses any; a
\* mask printed for a list of bans is the mask again, and matches the addresses
\* it matched; filtered text is clean.
WireKeeps ==
  /\ unit = "message" => IF impl.overwrote THEN impl.growth = 0 /\ Len(impl.buf) = impl.maxlen
                         ELSE ReadAll(Reader(impl.buf), ref) = Reader(<<>>) /\ Len(impl.buf) <= impl.maxlen
  /\ unit = "masks" /\ steps > 0 => LET m == ParseMask(impl) IN ParseMask(PrintMask(m)) = m /\ CheckMask(m, m.ip)
  /\ unit = "parsing" /\ impl.gone = "" =>
       /\ \A t \in DOMAIN MsgSizes : ParsesExactly(impl, <<t>>) /\ ParsesBefore(t)
       /\ impl.overflow % 2 = 0 => \A t, u \in DOMAIN MsgSizes : ParsesExactly(impl, <<t, u, "TAUNT">>)
  /\ unit = "format" /\ steps > 0 => Formatted(impl[1], impl[2])
  /\ unit = "roster" /\ steps > 0 => RosterTold(impl[1], impl[2])
  /\ unit = "undo" /\ steps > 0 => UndoRelayed(impl[1], impl[2], impl[3], impl[4])
  /\ unit = "pings" /\ steps > 0 => Answered(impl[1], impl[2])
  /\ unit = "filter" /\ steps > 0 => Filters(impl[1], impl[2], impl[3], impl[4])

\* Challenges are answered by the key they are for and by no other: digits,
\* field and points compute what integers, residues and the group do
\* (bigint, gfield, ecjacobian, genchallenge, checkchallenge).
KeysOpen ==
  steps > 0 => /\ unit = "numbers" => Exact(impl[1], impl[2])
               /\ unit = "field" => FieldExact(impl[1], impl[2])
               /\ unit = "points" => PointsAdd(impl[1], impl[2], CurveOrder)
               /\ unit = "keys" => KeyOpens(impl[1], 77, impl[2], CurveOrder)
               /\ unit = "users" => UsersSound(impl, ref)

\* Requests and lines cross the link to the master server whole and in order.
LinesArrive == unit = "master" => LinkKeeps(impl)

\* Files come back as they were written: compressed, at the path named, where
\* they are looked for, and in UTF-8 (gzstream, path, findfile, utf8stream).
FilesKeep ==
  /\ unit = "streams" => StreamsSound(impl, ref)
  /\ unit = "demo" => DemosKeep(impl, ref.logs, MaxDemos)
  /\ unit = "gzip" => \A from, to \in 0..Len(ref) : GzKeeps(impl, ref, from, to)
  /\ steps > 0 => /\ unit = "paths" => PathKeeps(impl)
                  /\ unit = "packages" => PackagesSound(impl[1], impl[2], impl[3])
                  /\ unit = "utf8" => /\ \A n \in {4, 5, 9} : TextKeeps(impl, n)
                                      /\ \A n \in {4, 9}, mark \in BOOLEAN, from, to \in {0, 1, 3} : TextReads(impl, n, mark, from, to)
                  /\ unit = "find" => WrittenFound(impl[1], impl[2], impl[3], impl[4])

\* What is put away is found again: in containers, in files, in demos and in
\* the tables scripts have for clients and scores.
StoresKeep == ContainersKeep /\ FilesKeep /\ (unit = "extras" => ExtrasSound(impl, ref))

\* Whatever happens reaches the hooks of scripts, as what it is, and every
\* hook once (defaulthook, writelog, bootstrap.lua).
HooksReached ==
  /\ unit = "groups" => HooksSound(impl, ref)
  /\ steps > 0 => /\ unit = "names" => NamesSound(impl)
                  /\ unit = "hook" => HookSound(impl[1], impl[2], impl[3], impl[4], impl[5])
                  /\ unit = "log" => LogSound(impl)

\* What is sent arrives as it was sent: packets, messages, the lines to and
\* from the master server, and events at the hooks of scripts.
MessagesPass == PacketsPass /\ WireKeeps /\ LinesArrive /\ HooksReached

\* The rules hold: for players whatever they pick up and take, for the lists
\* of modes that administrators write, for the table of teams when it is full,
\* for the variables of the server, its clock, and how it starts and ends.
RotationOf(words) ==
  FoldLeftDomain(LAMBDA r, i : AddMapRotations(r, <<[mask |-> GenModeMask(<<words[i]>>), maps |-> SubSeq(<<"a", "b">>, 1, i - 1)]>>),
                 [list |-> <<>>, exclude |-> {}], words)
RulesKept ==
  CASE unit = "player" -> PlayerSound(impl, ref)
    [] unit = "teams" -> TeamsSound(impl, ref.played, ref.score)
    [] unit = "variables" -> VarsSound(impl)
    [] unit = "process" -> ProcessSound(impl)
    [] unit = "clock" -> ClockSound(impl, ref.scaled, ref.pauses)
    [] unit = "edits" -> EditsSound(impl, ref)
    [] unit = "bases" -> BasesSound(impl)
    [] unit = "shown" -> steps = 0 \/ NamesDiffer(impl)
    [] unit = "hear" -> steps = 0 \/ TeamHears(impl[1], impl[2])
    [] unit = "items" -> steps = 0 \/ ItemsReturn(impl)
    [] unit = "rules" -> /\ MaskSound(impl)
                         /\ KickSound(FoldLeft(LAMBDA k, w : AddTeamKillKick(k, GenModeMask(<<w>>), 5, 0), <<>>, impl))
                         /\ RotationSound(RotationOf(impl))
    [] OTHER -> TRUE
=============================================================================
