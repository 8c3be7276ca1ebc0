------------------------------ MODULE Messages ------------------------------
(* Which messages a client may send, and how a packet of them is taken      *)
(* apart: the tables of game.h, checktype() and parsepacket().  A message   *)
(* is its type and Arg for every integer behind it.  Only messages of one   *)
(* length are here; the handlers of the others read what is in them.        *)
EXTENDS Integers, Sequences, SequencesExt, FiniteSetsExt, Functions

CONSTANT MaxOverflow  \* 200

Arg == "int"
\* class 1 of msgfilter
ServerOnly ==
  {"CONNECT", "SERVINFO", "INITCLIENT", "WELCOME", "MAPCHANGE", "SERVMSG", "DAMAGE", "HITPUSH", "SHOTFX", "EXPLODEFX", "DIED",
   "SPAWNSTATE", "FORCEDEATH", "TEAMINFO", "ITEMACC", "ITEMSPAWN", "TIMEUP", "CDIS", "CURRENTMASTER", "PONG", "RESUME", "BASESCORE",
   "BASEINFO", "BASEREGEN", "ANNOUNCE", "SENDDEMOLIST", "SENDDEMO", "DEMOPLAYBACK", "SENDMAP", "DROPFLAG", "SCOREFLAG", "RETURNFLAG",
   "RESETFLAG", "INVISFLAG", "CLIENT", "AUTHCHAL", "INITAI", "EXPIRETOKENS", "DROPTOKENS", "STEALTOKENS", "DEMOPACKET"}
\* the constructor of msgfilter goes from left to right: later classes win
MsgFilter(type) ==
  CASE type \in {"EDITENT", "EDITF", "EDITT", "EDITM", "FLIP", "COPY", "PASTE", "ROTATE", "REPLACE", "DELCUBE", "EDITVAR", "EDITVSLOT",
                 "UNDO", "REDO"} -> 3
    [] type \in {"REMIP", "NEWMAP", "GETMAP", "SENDMAP", "CLIPBOARD"} -> 2
    [] type = "POS" -> 4
    [] type \in ServerOnly \ {"SENDMAP"} -> 1
    [] OTHER -> 0
ConnectFilter(type) == CASE type = "CONNECT" -> 1 [] type = "AUTHANS" -> 2 [] type = "PING" -> 3 [] OTHER -> 0

\* msgsizes[], the token included, 0 for lengths that vary
MsgSizes ==
  [SOUND |-> 2, CDIS |-> 2, SUICIDE |-> 1, DIED |-> 5, DAMAGE |-> 6, HITPUSH |-> 7, SHOTFX |-> 10, EXPLODEFX |-> 4, TRYSPAWN |-> 1,
   SPAWNSTATE |-> 14, SPAWN |-> 3, FORCEDEATH |-> 2, GUNSELECT |-> 2, TAUNT |-> 1, ITEMSPAWN |-> 2, ITEMPICKUP |-> 2, ITEMACC |-> 3,
   PING |-> 2, PONG |-> 2, CLIENTPING |-> 2, TIMEUP |-> 2, FORCEINTERMISSION |-> 1, EDITMODE |-> 2, EDITENT |-> 11, EDITF |-> 16,
   EDITM |-> 16, FLIP |-> 14, COPY |-> 14, PASTE |-> 14, ROTATE |-> 15, DELCUBE |-> 14, REMIP |-> 1, NEWMAP |-> 2, GETMAP |-> 1,
   MASTERMODE |-> 2, CLEARBANS |-> 1, SPECTATOR |-> 3, REPAMMO |-> 1, BASEREGEN |-> 6, ANNOUNCE |-> 2, LISTDEMOS |-> 1, GETDEMO |-> 3,
   DEMOPLAYBACK |-> 3, RECORDDEMO |-> 2, STOPDEMO |-> 1, CLEARDEMOS |-> 2, TAKEFLAG |-> 3, RETURNFLAG |-> 4, RESETFLAG |-> 6,
   INVISFLAG |-> 3, TRYDROPFLAG |-> 1, DROPFLAG |-> 7, SCOREFLAG |-> 10, ADDBOT |-> 2, DELBOT |-> 1, FROMAI |-> 2, BOTLIMIT |-> 2,
   BOTBALANCE |-> 2, CHECKMAPS |-> 1, SWITCHMODEL |-> 2, TAKETOKEN |-> 2, DEPOSITTOKENS |-> 2]
MsgSizeLookup(type) == IF type \in DOMAIN MsgSizes THEN MsgSizes[type] ELSE 0
\* what the handlers of parsepacket() read: of edits, of bots, and the others
Selection == 13
EditReads == [EDITF |-> Selection + 2, EDITM |-> Selection + 2, FLIP |-> Selection, COPY |-> Selection, PASTE |-> Selection,
              ROTATE |-> Selection + 1, DELCUBE |-> Selection]
BotReads == [ADDBOT |-> 1, DELBOT |-> 0, BOTLIMIT |-> 1, BOTBALANCE |-> 1]
Reads ==
  [SOUND |-> 1, SUICIDE |-> 0, TRYSPAWN |-> 0, SPAWN |-> 2, GUNSELECT |-> 1, TAUNT |-> 0, ITEMPICKUP |-> 1, PING |-> 1, CLIENTPING |-> 1,
   FORCEINTERMISSION |-> 0, EDITMODE |-> 1, EDITENT |-> 10, REMIP |-> 0, NEWMAP |-> 1, GETMAP |-> 0, MASTERMODE |-> 1, CLEARBANS |-> 0,
   SPECTATOR |-> 2, REPAMMO |-> 0, LISTDEMOS |-> 0, GETDEMO |-> 2, RECORDDEMO |-> 1, STOPDEMO |-> 0, CLEARDEMOS |-> 1, TAKEFLAG |-> 2,
   TRYDROPFLAG |-> 0, FROMAI |-> 1, CHECKMAPS |-> 0, SWITCHMODEL |-> 1, TAKETOKEN |-> 1, DEPOSITTOKENS |-> 1] @@ EditReads @@ BotReads

\* checktype() of a client that has joined: [type, c]; Bad is -1, Flood -2
Bad == "bad"
Flood == "flood"
CheckType(c, type) ==
  LET f == MsgFilter(type)
      counted == [c EXCEPT !.overflow = @ + 1]
  IN CASE ~c.connected ->
            LET ok == ConnectFilter(type) \in {3, IF c.connectauth THEN 2 ELSE 1}
            IN [type |-> IF ok THEN type ELSE Bad, c |-> c]
       [] c.connected /\ (f = 1 \/ (f \in {2, 3} /\ ~c.edit)) -> [type |-> Bad, c |-> c]
       [] c.connected /\ f \in {3, 4} /\ (f = 3 => c.edit) -> [type |-> type, c |-> c]
       [] OTHER -> [type |-> IF counted.overflow >= MaxOverflow THEN Flood ELSE type, c |-> counted]

\* parsepacket() to the end or to a message that disconnects the client:
\* handled are the types whose handlers ran, strange those of the default case
RECURSIVE ParsePacket(_, _)
ParsePacket(c, p) ==
  LET checked == CheckType(c, Head(p))
      type == checked.type
      n == IF type \in DOMAIN Reads THEN Reads[type] ELSE MsgSizeLookup(type) - 1
      done == [checked.c EXCEPT !.handled = Append(@, type), !.strange = @ \/ type \notin DOMAIN Reads]
  IN IF p = <<>> THEN c
     ELSE IF type = Flood THEN [checked.c EXCEPT !.gone = "overflow"]
     ELSE IF type = Bad \/ (type \notin DOMAIN Reads /\ MsgSizeLookup(type) <= 0) THEN [checked.c EXCEPT !.gone = "message error"]
     ELSE ParsePacket(done, SubSeq(p, 2 + n, Len(p)))

Client(edit) == [connected |-> TRUE, connectauth |-> FALSE, edit |-> edit, overflow |-> 0, handled |-> <<>>, strange |-> FALSE, gone |-> ""]
\* buildworldstate()
NextUpdate(c) == [c EXCEPT !.overflow = 0]
-----------------------------------------------------------------------------
Packet(types) == FoldLeft(LAMBDA p, t : p \o [i \in 1..MsgSizeLookup(t) |-> IF i = 1 THEN t ELSE Arg], <<>>, types)

\* A packet is parsed as it was put together ("has to parse exactly each byte
\* of the packet"): the handlers run for its messages up to the first that
\* the client may not send, the client goes for that one and for no other,
\* and the default case has nothing to read ("spaghettimod should never
\* execute this").
ParsesExactly(c, types) ==
  LET r == ParsePacket([c EXCEPT !.handled = <<>>], Packet(types))
      barred(t) == t \in ServerOnly \/ (MsgFilter(t) \in {2, 3} /\ ~c.edit)
      counts(t) == MsgFilter(t) = 0 \/ MsgFilter(t) = 2
      before(i) == Cardinality({j \in 1..i : counts(types[j])})
      stops == {i \in DOMAIN types : barred(types[i]) \/ (counts(types[i]) /\ c.overflow + before(i) >= MaxOverflow)}
  IN /\ r.handled = (IF stops = {} THEN types ELSE SubSeq(types, 1, Min(stops) - 1))
     /\ r.gone = "" <=> stops = {}
     /\ ~r.strange
     /\ stops # {} => (r.gone = "overflow" <=> ~barred(types[Min(stops)]))

\* Before it has joined a client gets nothing but its own connecting handled,
\* and no message twice over authentication.
ParsesBefore(type) ==
  \A auth \in BOOLEAN :
    LET t == CheckType([Client(TRUE) EXCEPT !.connected = FALSE, !.connectauth = auth], type).type
    IN t # Bad => type \in {"PING", IF auth THEN "AUTHANS" ELSE "CONNECT"}
=============================================================================
