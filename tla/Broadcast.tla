----------------------------- MODULE Broadcast -----------------------------
(* World state broadcast: what clients say for themselves and for their     *)
(* bots is queued per speaker while packets are parsed, and relayed to the  *)
(* other clients every 33 milliseconds out of one shared buffer that the    *)
(* packets in ENet's queues point into (src/fpsgame/server.cpp).  The map   *)
(* is open for cooperative editing, so the relay of clipboards and of the   *)
(* map belongs to it.                                                       *)
EXTENDS Vectors, FiniteSets, SequencesExt, FiniteSetsExt

CONSTANTS Client, Bot, Nil, Tape,
          Early,        \* clients already there; the first owns the bots
          Editor,       \* bound: clients who copy and paste
          Mtu,          \* getservermtu() - 100, in units of one message
          MaxStates,    \* bound: buffers in use at once
          MaxWork,      \* bound: messages queued in a behaviour
          MaxMoves,     \* bound: sessions, bots and players changed by others
          Themes        \* bound: what the clients of a behaviour are up to

ASSUME BroadcastAssumption ==
  /\ IsFiniteSet(Client) /\ IsFiniteSet(Bot)
  /\ Nil \notin Client /\ Tape \notin Client /\ Early \subseteq Client /\ Early # {}
  /\ Mtu \in Nat \ {0} /\ MaxStates \in Nat

Author == Client \cup Bot
Listener == Client \cup {Tape}    \* a demo being recorded listens too

VARIABLES
  clients,          \* connected clients, in the order of the list
  owner,            \* a bot's owner; Nil while it waits for one
  spectator,        \* clients who only watch
  master,           \* clients with a privilege, who keep their bots while they watch
  down,             \* clients whose peer takes no more packets (ENet's), also once they left
  position,         \* a speaker's pending position, at most one
  messages,         \* a speaker's pending messages
  reliablemessages,
  worldstates,      \* the shared buffers: in use or not, and their uses
  queue,            \* ENet's: packets of a client that point into a buffer
  getmap,           \* map downloads: the packet kept, the packet in ENet
  clipboard,        \* version of the clipboard held for a client, 0 none
  behind,           \* <<e, c>>: needclipboard of e is not before lastclipboard of c
  reading,          \* the packet being parsed: sender, speaker (cq) and its fate since it was last looked at, promise
  copied,           \* client's: copies it made
  said, placed,     \* numbers given to messages and positions of a speaker
  heard, seen,      \* listener's: numbers reached of each speaker, -1 broken
  has,              \* listener's: version of each client's clipboard
  work, moves, theme

inputs == <<clients, owner, spectator, master, down, theme>>
clips  == <<clipboard, behind, copied, has>>
relay  == <<position, messages, reliablemessages, worldstates, queue, heard, seen>>
ghosts == <<said, placed>>
vars == <<inputs, clips, relay, ghosts, getmap, reading, work, moves>>

Idle == [from |-> Nil, cq |-> Nil, fate |-> "kept", rel |-> FALSE, promise |-> FALSE]
Connected == ToSet(clients)
Listening == (Connected \ down) \cup {Tape}
BotsOf(c) == {b \in Bot : owner[b] = c}
InGame == Connected \cup {b \in Bot : owner[b] # Nil}
Mine(c, a) == a = c \/ (a \in Bot /\ owner[a] = c)
-----------------------------------------------------------------------------
(* The buffer.  A section is filled until the next chunk would exceed the   *)
(* mtu, doubled, and cut for each client so that it starts behind the       *)
(* client's own chunk and ends in front of it.                              *)

Header == [n |-> 0, promise |-> FALSE, kind |-> "N_CLIENT", v |-> 0, to |-> {}]

\* bytes a speaker adds; messages come behind a header
Chunk(chan, a) ==
  LET what == IF chan = 0 THEN position[a]
              ELSE IF messages[a] = <<>> THEN <<>> ELSE <<Header>> \o messages[a]
  IN [i \in DOMAIN what |-> [by |-> a, item |-> what[i]]]

\* wsmax, summed over clients and bots alike
WsMax == FoldSet(LAMBDA a, sum : sum + Len(Chunk(0, a)) + Len(Chunk(1, a)), 0, Author)

\* ucharbuf::put() drops what does not fit
Put(buf, what) ==
  buf \o SubSeq(what, 1, Min({Len(what), 2 * WsMax - Len(buf)}))

Packet(st, c) ==
  LET section == SubSeq(st.buf, st.base + 1, Len(st.buf))
      own == st.ws[c].at >= st.base
      start == IF own THEN st.ws[c].at + st.ws[c].len - st.base ELSE 0
      size == Len(section) - (IF own THEN st.ws[c].len ELSE 0)
  IN SubSeq(section \o section, start + 1, start + size)

\* sendpositions() and sendmessages()
SendSection(st) ==
  LET section == SubSeq(st.buf, st.base + 1, Len(st.buf))
      doubled == Put(st.buf, section)
      for == [c \in Listener |-> IF c = Tape THEN section
                                 ELSE IF c \in Connected THEN Packet(st, c) ELSE <<>>]
  IN IF section = <<>> THEN st
     ELSE [st EXCEPT !.buf = doubled, !.base = Len(doubled),
                     !.out = [c \in Listener |-> IF for[c] = <<>> THEN @[c] ELSE Append(@[c], for[c])]]

\* Wrong on purpose, to be put in the place of the next definition: a client's window restarts at each bot.
WidenedAnew(s, ci, buf) ==
  [s EXCEPT !.buf = buf, !.ws[ci] = [at |-> Len(s.buf), len |-> Len(buf) - Len(s.buf)]]

\* the window of a client grows with what the buffer takes
Widened(s, ci, buf) ==
  LET len == Len(buf) - Len(s.buf)
  IN [s EXCEPT !.buf = buf,
               !.ws[ci] = IF @.at < s.base THEN [at |-> Len(s.buf), len |-> len]
                          ELSE [at |-> @.at, len |-> @.len + len]]

Written(s, ci, new) == Widened(s, ci, Put(s.buf, new))

\* addposition() and addmessages() for a speaker and the client it belongs to
AddChunk(chan, st, bi, ci) ==
  LET new == Chunk(chan, bi)
  IN IF new = <<>> THEN st
     ELSE Written(IF Len(st.buf) - st.base + Len(new) > Mtu THEN SendSection(st) ELSE st, ci, new)

AddClient(chan, st, ci) ==
  FoldLeft(LAMBDA s, bi : AddChunk(chan, s, bi, ci), st, <<ci>> \o SetToSeq(BotsOf(ci)))

Sections(chan, st) == SendSection(FoldLeft(LAMBDA s, ci : AddClient(chan, s, ci), st, clients))

Fresh == [buf |-> <<>>, base |-> 0, ws |-> [c \in Client |-> [at |-> -1, len |-> 0]],
          out |-> [c \in Listener |-> <<>>]]

\* both passes over one buffer; the packets of each channel
BuiltPackets ==
  LET after(positions) == <<positions.out, Sections(1, [positions EXCEPT !.out = Fresh.out]).out>>
  IN after(Sections(0, Fresh))
-----------------------------------------------------------------------------
(* What a listener makes of what it gets (the clients' side).               *)

\* the next message of a speaker must follow the last, and not be one's own
HearOne(h, e, rel) ==
  LET i == e.item
      ok == /\ i.n = h.heard[e.by] + 1 /\ ~Mine(h.me, e.by)
            /\ i.promise => rel
            /\ i.kind = "paste" /\ h.me \in i.to => h.has[e.by] = i.v
  IN IF i.n = 0 THEN h
     ELSE [h EXCEPT !.heard[e.by] = IF ok THEN i.n ELSE -1,
                    !.has = IF i.kind = "copy" THEN [@ EXCEPT ![e.by] = i.v] ELSE @]

\* a position must be newer than all seen before
SeeOne(s, e) == [s EXCEPT ![e.by] = IF @ >= 0 /\ e.item.n > @ THEN e.item.n ELSE -1]

Taken(c, packets) == IF c \in Listening THEN FlattenSeq(packets[c]) ELSE <<>>

\* a bot nobody owns keeps its messages, but not that they came reliably
Unsure(s) == [i \in DOMAIN s |-> [s[i] EXCEPT !.promise = FALSE]]

\* a whole update: sendpackets() past its checks, buildworldstate()
BuildFrom(out) ==
  LET hear == [c \in Listener |->
                 FoldLeft(LAMBDA h, e : HearOne(h, e, reliablemessages \/ c = Tape),
                          [me |-> c, heard |-> heard[c], has |-> has[c]], Taken(c, out[2]))]
      free == CHOOSE w \in 1..(Len(worldstates) + 1) :
                /\ w \in DOMAIN worldstates => ~worldstates[w].data
                /\ \A u \in 1..(w - 1) : worldstates[u].data
      count == [c \in Client |-> IF c \in Connected \ down THEN Len(out[1][c]) + Len(out[2][c]) ELSE 0]
      uses == SumFunction(count)
      served(a) == a \in Connected \/ (a \in Bot /\ owner[a] # Nil)
  IN IF WsMax = 0
     THEN [heard |-> heard, has |-> has, seen |-> seen, position |-> position,
           messages |-> messages, worldstates |-> worldstates, queue |-> queue]
     ELSE [heard |-> [c \in Listener |-> hear[c].heard],
           has |-> [c \in Listener |-> hear[c].has],
           seen |-> [c \in Listener |-> FoldLeft(SeeOne, seen[c], Taken(c, out[1]))],
           position |-> [a \in Author |-> IF served(a) THEN <<>> ELSE position[a]],
           messages |-> [a \in Author |-> IF served(a) THEN <<>> ELSE Unsure(messages[a])],
           worldstates |-> [w \in 1..Max({free, Len(worldstates)}) |->
                              IF w = free THEN [data |-> uses > 0, uses |-> uses] ELSE worldstates[w]],
           queue |-> [c \in Client |-> [queue[c] EXCEPT ![free] = @ + count[c]]]]

Build == BuildFrom(BuiltPackets)
-----------------------------------------------------------------------------
MayWork == work < MaxWork /\ moves' = moves
Moves == moves < MaxMoves /\ moves' = moves + 1
Room == \/ \E w \in 1..MaxStates : w \in DOMAIN worldstates => ~worldstates[w].data
Known(a) == said[a] - Len(messages[a])       \* what all have heard of a speaker
Shown(a) == placed[a] - Len(position[a])
NoPacket == reading = Idle

Init ==
  /\ clients = SetToSeq(Early) /\ owner = [b \in Bot |-> clients[1]]
  /\ position = [a \in Author |-> <<>>] /\ messages = [a \in Author |-> <<>>]
  /\ reliablemessages = FALSE
  /\ worldstates = <<>> /\ queue = [c \in Client |-> [w \in 1..MaxStates |-> 0]]
  /\ getmap = [c \in Client |-> [kept |-> FALSE, queued |-> FALSE]]
  /\ behind = {}
  /\ clipboard = [c \in Client |-> 0] /\ copied = [c \in Client |-> 0]
  /\ reading = Idle
  /\ said = [a \in Author |-> 0] /\ placed = [a \in Author |-> 0]
  /\ heard = [c \in Listener |-> [a \in Author |-> 0]]
  /\ seen = [c \in Listener |-> [a \in Author |-> 0]]
  /\ has = [c \in Listener |-> [a \in Author |-> 0]]
  /\ work = 0 /\ moves = 0 /\ theme \in Themes
  /\ master = IF theme = "watch" THEN {clients[1]} ELSE {}    \* somebody with a privilege watches, and keeps a bot
  /\ spectator = master /\ down = {}

\* needclipboard = totalmillis: not before any copy that was made
Behind(e) == behind' = behind \cup {<<e, c>> : c \in {d \in Client \ {e} : copied[d] > 0}}

\* connected(): a new session hears what is pending and everything after it
Connect(c) ==
  /\ NoPacket /\ c \notin Connected \cup down
  /\ clients' = Append(clients, c)
  /\ Behind(c)
  /\ heard' = [heard EXCEPT ![c] = [a \in Author |-> Known(a)]]
  /\ seen' = [seen EXCEPT ![c] = [a \in Author |-> Shown(a)]]
  /\ has' = [has EXCEPT ![c] = [a \in Author |-> 0]]
  /\ UNCHANGED <<theme, owner, spectator, master, down, clipboard, copied,
                 position, messages, reliablemessages, worldstates, queue,
                 ghosts, getmap, reading, work, moves>>

ValidAi(c) == c \in Connected \ (spectator \ master)
Fewest(S) == {c \in S : \A d \in S : Cardinality(BotsOf(c)) <= Cardinality(BotsOf(d))}

\* aiman::removeai(): the bots of c go to another client, or wait for one
ShiftBots(c, heir) ==
  LET rest == {d \in Connected \ {c} : ValidAi(d)}
  IN /\ IF rest = {} THEN heir = Nil ELSE heir \in Fewest(rest)
     /\ owner' = [b \in Bot |-> IF owner[b] = c THEN heir ELSE owner[b]]

\* the listener's numbers start afresh for the bots it no longer owns
Rejoin(c) ==
  /\ heard' = [heard EXCEPT ![c] = [a \in Author |-> IF a \in BotsOf(c) THEN Known(a) ELSE @[a]]]
  /\ seen' = [seen EXCEPT ![c] = [a \in Author |-> IF a \in BotsOf(c) THEN Shown(a) ELSE @[a]]]

\* removeai(), when it is called
GiveBots(c, called) ==
  IF called THEN (\E heir \in Client \cup {Nil} : ShiftBots(c, heir)) /\ Rejoin(c) ELSE UNCHANGED <<owner, heard, seen>>

\* Wrong on purpose, to be put in the place of the next definition: the buffer is freed with the first packet.
ReleaseFirst(w, n) == worldstates' = [worldstates EXCEPT ![w] = [uses |-> @.uses - n, data |-> FALSE]]

\* cleanworldstate() for n packets of buffer w
Release(w, n) ==
  worldstates' = [worldstates EXCEPT ![w] = [uses |-> @.uses - n,
                    data |-> @.data /\ (n = 0 \/ @.uses - n > 0)]]

\* clientdisconnect(), enet_peer_disconnect() dropping the queue, delclient()
Disconnect(c) ==
  /\ c \in Connected
  /\ NoPacket \/ (reading.from = c)
  /\ reading' = Idle
  /\ clients' = Removed(clients, c)
  /\ \E heir \in Client \cup {Nil} : ShiftBots(c, heir)
  /\ spectator' = spectator \ {c} /\ master' = master \ {c} /\ down' = down \cup {c}
  /\ worldstates' = [w \in DOMAIN worldstates |->
       LET n == queue[c][w] IN
       [uses |-> worldstates[w].uses - n,
        data |-> worldstates[w].data /\ (n = 0 \/ worldstates[w].uses - n > 0)]]
  /\ queue' = [queue EXCEPT ![c] = [w \in 1..MaxStates |-> 0]]
  /\ getmap' = [getmap EXCEPT ![c] = [kept |-> FALSE, queued |-> FALSE]]
  /\ position' = [position EXCEPT ![c] = <<>>] 
  /\ messages' = [a \in Author |-> IF a = c THEN <<>>
       ELSE [i \in DOMAIN messages[a] |-> [messages[a][i] EXCEPT !.to = @ \ {c}]]]
  /\ behind' = {p \in behind : c \notin {p[1], p[2]}}
  /\ clipboard' = [clipboard EXCEPT ![c] = 0] /\ copied' = [copied EXCEPT ![c] = 0]
  /\ said' = [said EXCEPT ![c] = 0] /\ placed' = [placed EXCEPT ![c] = 0]
  /\ heard' = [d \in Listener |-> [a \in Author |-> IF c \in {a, d} THEN 0 ELSE heard[d][a]]]
  /\ seen' = [d \in Listener |-> [a \in Author |-> IF c \in {a, d} THEN 0 ELSE seen[d][a]]]
  /\ has' = [d \in Listener |-> [a \in Author |-> IF c \in {a, d} THEN 0 ELSE has[d][a]]]
  /\ Moves
  /\ UNCHANGED <<theme, reliablemessages, work>>
-----------------------------------------------------------------------------
(* Parsing.  The messages of a packet are steps between Receive and Done.   *)
(* Clients send what they say and edit reliably, and their positions not.   *)

\* parsepacket() begins; a reliable packet makes the next update reliable
Receive(c, rel) ==
  /\ NoPacket /\ c \in Connected \ down /\ MayWork
  /\ reading' = [from |-> c, cq |-> c, fate |-> "kept", rel |-> rel, promise |-> rel]
  /\ reliablemessages' = (reliablemessages \/ rel)
  /\ UNCHANGED <<inputs, clips, ghosts, position, messages, worldstates, queue, heard, seen,
                 getmap, work>>

Done ==
  /\ ~NoPacket
  /\ reading' = Idle
  /\ UNCHANGED <<inputs, clips, relay, ghosts, getmap, work, moves>>

\* N_FROMAI: the rest of the packet speaks for another
FromAI(q) ==
  /\ theme \in {"talk", "watch"} /\ ~NoPacket /\ (reading.cq # q \/ reading.fate # "kept")
  /\ reading' = [reading EXCEPT !.cq = IF q \in InGame /\ Mine(reading.from, q) THEN q ELSE Nil, !.fate = "kept"]
  /\ UNCHANGED <<inputs, clips, ghosts, position, messages, reliablemessages, worldstates, queue, heard, seen,
                 getmap, work, moves>>

Item(a, kind) ==
  [n |-> said[a] + 1, promise |-> reading.promise, kind |-> kind,
   v |-> IF a \in Client THEN copied[a] ELSE 0, to |-> {}]

\* QUEUE_AI and QUEUE_MSG
Queue(a, item, pending) ==
  /\ messages' = [pending EXCEPT ![a] = Append(@, item)]
  /\ said' = [said EXCEPT ![a] = @ + 1]
  /\ work' = work + 1

\* N_TEXT and the messages like it: for the speaker of the packet, if any; nobody hears a bot deleted since
Say ==
  /\ theme # "move" /\ ~NoPacket /\ reading.rel /\ reading.cq # Nil /\ reading.fate # "deleted" /\ MayWork
  /\ Queue(reading.cq, Item(reading.cq, "say"), messages)
  /\ UNCHANGED <<inputs, clips, position, reliablemessages, worldstates, queue, heard, seen,
                 placed, getmap, reading>>

Editing(c) == c \in Editor /\ theme = "edit" /\ reading.from = c /\ reading.rel /\ c \notin spectator /\ reading.cq = c

\* N_COPY
Copy(c) ==
  /\ Editing(c) /\ MayWork
  /\ clipboard' = [clipboard EXCEPT ![c] = 0]
  /\ behind' = {p \in behind : p[2] # c}
  /\ copied' = [copied EXCEPT ![c] = @ + 1]
  /\ Queue(c, [Item(c, "copy") EXCEPT !.v = @ + 1], messages)
  /\ UNCHANGED <<inputs, has, position, reliablemessages, worldstates,
                 queue, heard, seen, placed, getmap, reading>>

\* N_CLIPBOARD: the contents of the client's last copy
Clipboard(c) ==
  /\ theme = "edit" /\ reading.from = c /\ copied[c] > 0 /\ clipboard[c] # copied[c]
  /\ clipboard' = [clipboard EXCEPT ![c] = IF c \in spectator THEN 0 ELSE copied[c]]
  /\ UNCHANGED <<inputs, behind, copied, has, ghosts, position, messages,
                 reliablemessages, worldstates, queue, heard, seen, getmap, reading, work, moves>>

\* sendclipboard(): who came, or fetched the map, since the copy
Needing(c) ==
  IF copied[c] = 0 \/ clipboard[c] = 0 THEN {} ELSE {e \in Connected \ {c} : <<e, c>> \in behind}

\* N_PASTE: pending messages go first, then the clipboard, then the paste is queued
Paste(c) ==
  LET flush == Needing(c) # {}
      b == Build
      item == [Item(c, "paste") EXCEPT !.promise = @ /\ ~flush,
                 !.to = IF clipboard[c] > 0 /\ clipboard[c] = copied[c] THEN Connected \ {c} ELSE {}]
  IN /\ Editing(c) /\ MayWork
     /\ IF flush
        THEN /\ Room
             /\ Queue(c, item, b.messages)
             /\ position' = b.position /\ worldstates' = b.worldstates /\ queue' = b.queue
             /\ heard' = b.heard /\ seen' = b.seen
             /\ has' = [e \in Listener |-> IF e \in Needing(c) \ down
                          THEN [b.has[e] EXCEPT ![c] = clipboard[c]] ELSE b.has[e]]
             /\ reliablemessages' = FALSE
             /\ reading' = [reading EXCEPT !.promise = FALSE]
        ELSE /\ Queue(c, item, messages)
             /\ UNCHANGED <<position, worldstates, queue, heard, seen, has,
                            reliablemessages, reading>>
     /\ UNCHANGED <<inputs, behind, clipboard, copied, placed, getmap>>

\* the check of cq behind N_SPECTATOR, N_MAPCRC and N_TRYSPAWN; of a bot deleted it may say anything
Rechecked(owners) ==
  LET dropped == [reading EXCEPT !.cq = Nil, !.fate = "kept"]
  IN IF reading.fate = "deleted" THEN {reading, dropped}
     ELSE IF reading.cq \in Bot /\ owners[reading.cq] # reading.from THEN {dropped} ELSE {reading}

\* Wrong on purpose, to be put in the place of the next definition: the packet goes on for a bot given away.
SpectateUnchecked(c) ==
  /\ c \in Connected \ spectator
  /\ NoPacket \/ reading.from = c
  /\ GiveBots(c, c \notin master)
  /\ spectator' = spectator \cup {c}
  /\ position' = [position EXCEPT ![c] = <<>>]
  /\ placed' = [placed EXCEPT ![c] = Shown(c)]
  /\ reading' = reading
  /\ Moves
  /\ UNCHANGED <<theme, clients, master, down, clips, messages, reliablemessages, worldstates,
                 queue, said, getmap, work>>

\* N_SPECTATOR and checkmaps(): the bots of who watches without a privilege are
\* given away, and the packet stops speaking for them
Spectate(c) ==
  /\ c \in Connected \ spectator
  /\ NoPacket \/ reading.from = c
  /\ GiveBots(c, c \notin master)
  /\ spectator' = spectator \cup {c}
  /\ position' = [position EXCEPT ![c] = <<>>]
  /\ placed' = [placed EXCEPT ![c] = Shown(c)]
  /\ reading' \in Rechecked(owner')
  /\ Moves
  /\ UNCHANGED <<theme, clients, master, down, clips, messages, reliablemessages, worldstates,
                 queue, said, getmap, work>>

\* a spectator returns
Unspectate(c) ==
  /\ NoPacket \/ reading.from = c
  /\ c \in spectator
  /\ spectator' = spectator \ {c}
  /\ reading' \in Rechecked(owner)
  /\ UNCHANGED <<theme, clients, owner, master, down, clips, relay, ghosts, getmap, work, moves>>

\* N_SETMASTER and revokemaster(): who watches gives its bots away, and the packet
\* goes on with the bot it spoke for
Resign(c) ==
  /\ c \in master /\ (NoPacket \/ reading.from = c)
  /\ master' = master \ {c}
  /\ GiveBots(c, c \in spectator)
  /\ reading' = [reading EXCEPT !.fate = IF c \in spectator /\ @ = "kept" /\ reading.cq \in BotsOf(c) THEN "moved" ELSE @]
  /\ Moves
  /\ UNCHANGED <<theme, clients, spectator, down, clips, position, messages, reliablemessages, worldstates,
                 queue, ghosts, getmap, work>>

Moving(a) == theme \in {"talk", "move"} /\ ~NoPacket /\ ~reading.rel /\ a \in InGame \ spectator /\ Mine(reading.from, a)

\* N_POS replaces the pending position
Pos(a) ==
  /\ Moving(a) /\ MayWork
  /\ position' = [position EXCEPT ![a] = <<[n |-> Shown(a) + 1]>>]
  /\ placed' = [placed EXCEPT ![a] = Shown(a) + 1]
  /\ work' = work + 1
  /\ UNCHANGED <<inputs, clips, messages, reliablemessages, worldstates, queue, heard, seen,
                 said, getmap, reading>>

\* flushclientposition() and the sendf behind it: to all but the owner
Owner(a) == IF a \in Bot THEN owner[a] ELSE a
SeePosition(c, a, s) ==
  IF c = Owner(a) \/ c \notin Listening THEN s
  ELSE LET all == position[a] \o <<[n |-> placed[a] + 1]>>
       IN FoldLeft(LAMBDA t, i : SeeOne(t, [by |-> a, item |-> i]), s, all)

\* a jump that leaves the position queued
SeeJump(c, a, s) ==
  IF c = Owner(a) \/ c \notin Listening THEN s ELSE SeeOne(s, [by |-> a, item |-> [n |-> placed[a] + 1]])

\* N_TELEPORT and N_JUMPPAD: the pending position goes out ahead of the jump
Jump(a) ==
  /\ theme = "move" /\ Moving(a) /\ MayWork
  /\ seen' = [c \in Listener |-> SeePosition(c, a, seen[c])]
  /\ position' = [position EXCEPT ![a] = <<>>]
  /\ placed' = [placed EXCEPT ![a] = @ + 1]
  /\ work' = work + 1
  /\ UNCHANGED <<inputs, clips, messages, reliablemessages, worldstates, queue, heard, said, getmap,
                 reading>>

\* died() and suicide() drop the pending position; the dead do not move, so
\* the time until the next spawn shows nothing
Die(a) ==
  /\ NoPacket /\ position[a] # <<>>
  /\ position' = [position EXCEPT ![a] = <<>>]
  /\ placed' = [placed EXCEPT ![a] = Shown(a)]
  /\ Moves
  /\ UNCHANGED <<inputs, clips, messages, reliablemessages, worldstates, queue, heard, seen, said,
                 getmap, reading, work>>
-----------------------------------------------------------------------------
(* Bots and maps.                                                           *)

\* addai(): a new bot, or one that waited for removal
AddBot(b) ==
  LET able == {d \in Connected : ValidAi(d)}
  IN /\ NoPacket /\ owner[b] = Nil /\ able # {}
     /\ \E o \in Fewest(able) : owner' = [owner EXCEPT ![b] = o]
     /\ heard' = [c \in Listener |-> [heard[c] EXCEPT ![b] = Known(b)]]
     /\ seen' = [c \in Listener |-> [seen[c] EXCEPT ![b] = Shown(b)]]
     /\ UNCHANGED <<theme, clients, spectator, master, down, clips, position, messages,
                    reliablemessages, worldstates, queue, ghosts, getmap, reading, work, moves>>

\* deleteai(): a bot is removed with what it had to say; also by a message of the packet
\* being parsed (N_DELBOT, or one that changes the map), which looks at no cq
DeleteBot(b) ==
  /\ owner[b] # Nil \/ messages[b] # <<>> \/ said[b] > 0
  /\ owner' = [owner EXCEPT ![b] = Nil]
  /\ position' = [position EXCEPT ![b] = <<>>] /\ messages' = [messages EXCEPT ![b] = <<>>]
  /\ said' = [said EXCEPT ![b] = 0] /\ placed' = [placed EXCEPT ![b] = 0]
  /\ heard' = [c \in Listener |-> [heard[c] EXCEPT ![b] = 0]]
  /\ seen' = [c \in Listener |-> [seen[c] EXCEPT ![b] = 0]]
  /\ reading' = [reading EXCEPT !.fate = IF reading.cq = b THEN "deleted" ELSE @]
  /\ Moves
  /\ UNCHANGED <<theme, clients, spectator, master, down, clips, reliablemessages, worldstates,
                 queue, getmap, work>>

\* sendfile() returns the packet only if ENet split it
SendFile(big) == [kept |-> big, queued |-> big]

\* N_GETMAP
GetMap(c, big) ==
  /\ theme = "edit" /\ reading.from = c /\ ~getmap[c].kept /\ Moves
  /\ getmap' = [getmap EXCEPT ![c] = SendFile(big)]
  /\ Behind(c)
  /\ UNCHANGED <<inputs, clipboard, copied, has, relay, ghosts, reading, work>>
-----------------------------------------------------------------------------
(* Time and ENet.                                                           *)

\* sendpackets() at the end of serverslice(), 33 milliseconds after the last
Update ==
  /\ NoPacket /\ clients # <<>> /\ Room
  /\ \E b \in {Build} :
       /\ heard' = b.heard /\ has' = b.has /\ seen' = b.seen
       /\ position' = b.position /\ messages' = b.messages
       /\ worldstates' = b.worldstates /\ queue' = b.queue
  /\ reliablemessages' = FALSE
  /\ UNCHANGED <<inputs, behind, clipboard, copied, ghosts, getmap, reading, work, moves>>

\* ENet frees a packet that was sent or acknowledged: cleanworldstate()
Free(c, w) ==
  /\ NoPacket /\ w \in DOMAIN worldstates /\ queue[c][w] > 0
  /\ queue' = [queue EXCEPT ![c][w] = @ - 1]
  /\ Release(w, 1)
  /\ UNCHANGED <<inputs, clips, position, messages, reliablemessages, heard, seen, ghosts,
                 getmap, reading, work, moves>>

\* freegetmap()
FreeMap(c) ==
  /\ NoPacket /\ getmap[c].queued
  /\ getmap' = [getmap EXCEPT ![c] = [kept |-> FALSE, queued |-> FALSE]]
  /\ UNCHANGED <<inputs, clips, relay, ghosts, reading, work, moves>>

\* ENet gives a peer up before the server is told
Lose(c) ==
  /\ NoPacket /\ c \in Connected \ down
  /\ down' = down \cup {c}
  /\ Moves
  /\ UNCHANGED <<theme, clients, owner, spectator, master, clips, relay, ghosts, getmap, reading, work>>

Next ==
  \/ \E c \in Client :
       \/ Connect(c) \/ Disconnect(c) \/ Spectate(c) \/ Unspectate(c) \/ Resign(c)
       \/ \E rel \in BOOLEAN : Receive(c, rel)
       \/ Copy(c) \/ Clipboard(c) \/ Paste(c)
       \/ \E big \in BOOLEAN : GetMap(c, big)
       \/ \E w \in 1..MaxStates : Free(c, w)
       \/ FreeMap(c) \/ Lose(c)
  \/ Done \/ Say
  \/ \E a \in Author : FromAI(a) \/ Pos(a) \/ Jump(a) \/ Die(a)
  \/ \E b \in Bot : AddBot(b) \/ DeleteBot(b)
  \/ Update

Spec == Init /\ [][Next]_vars
-----------------------------------------------------------------------------
\* Every listener has heard of every speaker it does not own exactly what
\* the updates took: nothing twice, nothing missing, nothing out of order,
\* never its own; a paste only with the clipboard it was made from, and
\* what came reliably goes out reliably.  (buildworldstate() cutting one
\* doubled buffer per client, sendclipboard() flushing ahead of itself.)
Heard == \A c \in Listening : \A a \in InGame :
             IF Mine(c, a) THEN heard[c][a] >= 0 ELSE heard[c][a] = Known(a)

\* Listeners see the positions and jumps of a player in the order it made
\* them, and each that was not replaced by a newer one or dropped by a death:
\* a position queued ahead of a teleport is not shown after it
\* (flushclientposition() ahead of N_TELEPORT).
Followed == \A c \in Listening : \A a \in InGame :
              ~Mine(c, a) => seen[c][a] = Shown(a)

\* What everybody says and does reaches everybody else, once and in order.
Relayed == Heard /\ Followed

\* A buffer is kept exactly as long as ENet holds packets that point into
\* it, and a map counts as being sent exactly while its packet is queued:
\* cleanworldstate() and freegetmap() neither free early nor leak.
BuffersHeld ==
  /\ \A w \in DOMAIN worldstates :
       LET refs == SumFunction([c \in Client |-> queue[c][w]])
       IN /\ worldstates[w].data <=> refs > 0
          /\ worldstates[w].data => worldstates[w].uses = refs
  /\ \A c \in Client : /\ \A w \in (1..MaxStates) \ DOMAIN worldstates : queue[c][w] = 0
                       /\ getmap[c].kept => getmap[c].queued

\* The messages of a packet are taken for its sender or for a bot the sender
\* owns at that moment, also when a message of the same packet had the bots
\* given away (the checks of cq behind N_MAPCRC, N_TRYSPAWN and N_SPECTATOR);
\* but for a bot that a message without such a check (N_SETMASTER, N_DELBOT,
\* N_MAPVOTE) gave away or deleted since N_FROMAI, until the next check.
SpeaksForOwn == reading.cq # Nil /\ reading.fate = "kept" => Mine(reading.from, reading.cq)
=============================================================================
