----------------------------- MODULE ServerInfo -----------------------------
(* Replies to the pings of server browsers: checkserversockets() of         *)
(* engine/server.cpp, serverinforeply() and extinfo.h.  A datagram is its   *)
(* values, the request's first; a reply is built behind it in one buffer,   *)
(* so that copies of the buffer (q) share what was put before.              *)
EXTENDS Integers, Sequences, SequencesExt, FiniteSetsExt

CONSTANT MaxPingData  \* MAXPINGDATA, 32

Ack == <<-1, 105>>    \* EXT_ACK, EXT_VERSION
NoError == 0
Error == 1
RespIds == -10
RespStats == -11
Uptime == 0
PlayerStats == 1
TeamScore == 2

\* s: clients of [cn, team (0 for none), spec, bot, stats, ip], the match and
\* the settings
NumClients(s) == Len(SelectSeq(s.clients, LAMBDA c : ~c.bot))
Left(s) == Max({(s.gamelimit - s.gamemillis) \div 1000, 0})

ExtInfoPlayer(p, c, showip) == p \o <<RespStats, c.cn>> \o c.stats \o <<IF showip THEN c.ip ELSE 0>>
\* -1: no bases follow, in every mode but capture
ExtInfoTeamScore(p, s, team, score) ==
  p \o <<team, score>> \o IF team \in DOMAIN s.bases THEN <<Len(s.bases[team])>> \o s.bases[team] ELSE <<-1>>
\* extinfoteams(): the mode's own scores first, then teams with players
TeamScores(s) ==
  FoldLeft(LAMBDA scores, c : IF c.spec \/ c.team = 0 \/ \E i \in DOMAIN scores : scores[i].team = c.team THEN scores
                              ELSE Append(scores, [team |-> c.team, score |-> IF ~s.hidefrags /\ c.team \in DOMAIN s.frags
                                                                              THEN s.frags[c.team] ELSE 0]),
           IF s.hidefrags THEN s.scores ELSE <<>>, s.clients)
ExtInfoTeams(p, s) ==
  LET q == p \o <<IF s.teammode THEN 0 ELSE 1, s.gamemode, Left(s)>>
  IN IF ~s.teammode THEN q ELSE FoldLeft(LAMBDA r, t : ExtInfoTeamScore(r, s, t.team, t.score), q, TeamScores(s))

\* the value the request has at i; getint() past the end is zero
Asked(req, i) == IF i \in DOMAIN req THEN req[i] ELSE 0
\* extserverinforeply(): the datagrams sent, p is the request answered so far
ExtServerInfoReply(req, p, s) ==
  LET ack == p \o Ack
      cn == Asked(req, 3)
      asked == SelectSeq(s.clients, LAMBDA c : cn < 0 \/ c.cn = cn)
      players == Append(ack, NoError)
  IN CASE Asked(req, 2) = Uptime -> <<ack \o <<s.totalsecs>> \o IF Asked(req, 3) > 0 THEN <<-4>> ELSE <<>>>>
       [] Asked(req, 2) = PlayerStats ->
            IF cn >= 0 /\ asked = <<>> THEN <<Append(ack, Error)>>
            ELSE <<Append(players, RespIds) \o [i \in DOMAIN asked |-> asked[i].cn]>>
                 \o [i \in DOMAIN asked |-> ExtInfoPlayer(players, asked[i], s.showip)]
       [] Asked(req, 2) = TeamScore -> <<ExtInfoTeams(ack, s)>>
       [] OTHER -> <<Append(ack, Error)>>

\* serverinforeply()
ServerInfoReply(req, s) ==
  LET changed == s.paused \/ s.gamespeed # 100
      attrs == <<s.protocol, s.gamemode, IF s.timed THEN Left(s) ELSE 0, s.maxclients, s.mastermode>>
               \o IF changed THEN <<IF s.paused THEN 1 ELSE 0, s.gamespeed>> ELSE <<>>
  IN IF req # <<>> /\ req[1] = 0 THEN ExtServerInfoReply(req, req, s)
     ELSE <<req \o <<NumClients(s), IF changed THEN 7 ELSE 5>> \o attrs \o <<s.map, s.desc>>>>

\* checkserversockets(): a ping that is too long is not answered
Answer(req, s) == IF Len(req) > MaxPingData THEN <<>> ELSE ServerInfoReply(req, s)
-----------------------------------------------------------------------------
\* A browser can read every answer with its request alone: each datagram
\* repeats the request; the attributes are as many as announced; of players
\* there is one list of numbers and one datagram for each number of it, in
\* order; an error means the number is nobody's; no team with a player is
\* left out or named twice ("1 packet for each player").
Answered(req, s) ==
  LET sent == Answer(req, s)
      past(d) == SubSeq(d, Len(req) + 1, Len(d))
      body == past(sent[1])
      ext == req # <<>> /\ req[1] = 0
  IN IF Len(req) > MaxPingData THEN sent = <<>>
     ELSE /\ sent # <<>> /\ \A i \in DOMAIN sent : IsPrefix(req, sent[i]) /\ (ext => IsPrefix(Ack, past(sent[i])))
          /\ ~ext => Len(body) = 2 + body[2] + 2
          /\ ext /\ Asked(req, 2) = PlayerStats =>
               IF body[3] = Error THEN Len(sent) = 1 /\ \A i \in DOMAIN s.clients : s.clients[i].cn # Asked(req, 3)
               ELSE LET ids == SubSeq(body, 5, Len(body))
                    IN /\ Len(sent) = Len(ids) + 1 /\ body[4] = RespIds /\ IsInjective(ids)
                       /\ \A i \in DOMAIN ids : SubSeq(past(sent[i + 1]), 4, 5) = <<RespStats, ids[i]>>
                       /\ IF Asked(req, 3) >= 0 THEN ids = <<Asked(req, 3)>> ELSE Len(ids) = Len(s.clients)
          /\ ext /\ Asked(req, 2) = TeamScore /\ s.teammode =>
               \A i \in DOMAIN s.clients :
                 LET c == s.clients[i] IN ~c.spec /\ c.team # 0 => Cardinality({k \in DOMAIN body : body[k] = c.team}) = 1
=============================================================================
