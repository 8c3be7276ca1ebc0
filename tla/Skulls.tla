------------------------------- MODULE Skulls -------------------------------
(* Skull collecting: collectservmode of fpsgame/collect.h, and the handlers  *)
(* of the same header that keep a client's copy of the skulls. Team t's base *)
(* is base t, at place t.                                                    *)
EXTENDS Players

CONSTANTS
  TokenLimit,          \* TOKENLIMIT: skulls a player carries, or leaves lying, of each kind
  UnownedTokenLimit,   \* UNOWNEDTOKENLIMIT: skulls of players who left, of each kind
  ScoreLimit,          \* SCORELIMIT
  ExpireTokenTime,     \* EXPIRETOKENTIME
  StealTokenTime,      \* STEALTOKENTIME
  MaxTokens            \* skulls numbered in one game (nexttoken), a bound of the model

\* A skull's kind: a team's own for the one of the dead, -team for those the dead carried.
Left == -100         \* the dropper of a skull whose dropper has left (INT_MIN)
OfBase(b) == -1 - b  \* the dropper of a skull stolen from base b
Token(id, team, o, dropper, now) == [id |-> id, team |-> team, o |-> o, dropper |-> dropper, droptime |-> now]

ASSUME SkullsAssumption ==
  TokenLimit \in Nat \ {0} /\ UnownedTokenLimit \in Nat /\ ({Left} \cup {OfBase(b) : b \in Teams}) \cap Clients = {}

TokenShown(t) == [id |-> t.id, team |-> t.team, o |-> t.o]
SkullView(s) == [tokens |-> {TokenShown(s.tokens[i]) : i \in DOMAIN s.tokens}, scores |-> s.scores]
SkullsEmpty(notgot) ==
  [tokens |-> <<>>, next |-> 0, laststeal |-> [t \in Teams |-> 0], scores |-> [t \in Teams |-> 0], notgot |-> notgot, now |-> 1, ended |-> FALSE,
   seen |-> [tokens |-> {}, scores |-> [t \in Teams |-> 0]]]

SeeGone(s, ids) == [s EXCEPT !.seen.tokens = {t \in @ : t.id \notin ids}]

\* vector::removeunordered: the last element takes the place of the removed one.
RemoveUnordered(q, i) == IF i = Len(q) THEN Front(q) ELSE [Front(q) EXCEPT ![i] = Last(q)]

-----------------------------------------------------------------------------
(* Loops over the skulls from the last to the first that expire some: what   *)
(* takes the place of an expired one has been looked at already.            *)

\* A loop's state: the skulls, how many of each kind it counted, and the ids it expired.
Counted(l, own) == [l EXCEPT !.own = @ + IF own THEN 1 ELSE 0, !.other = @ + IF own THEN 0 ELSE 1]
Expire(l, i) == [l EXCEPT !.tokens = RemoveUnordered(@, i), !.gone = @ \cup {l.tokens[i].id}]
Swept(l, i, own, limit) ==
  LET c == Counted(l, own) IN IF (IF own THEN c.own ELSE c.other) > limit THEN Expire(c, i) ELSE c
Sweep(s, Visit(_, _), own, other) ==
  FoldRight(LAMBDA i, l : Visit(l, i), [i \in DOMAIN s.tokens |-> i], [tokens |-> s.tokens, own |-> own, other |-> other, gone |-> {}])

-----------------------------------------------------------------------------
(* droptokens, and the hooks that use it.                                   *)

DropToken(s, o, team, dropper) ==
  LET t == Token(s.next + 1, team, o, dropper, s.now)
  IN [s EXCEPT !.next = @ + 1, !.tokens = Append(@, t), !.seen.tokens = @ \cup {TokenShown(t)}]
\* A penalty (no killer, or a team mate) leaves only the player's own skull.
Crowding(l, i, c) == IF l.tokens[i].dropper = c THEN Swept(l, i, l.tokens[i].team = ci[c].team, TokenLimit) ELSE l
DropTokens(s, c, penalty) ==
  LET team == ci[c].team
      carried == IF penalty THEN 0 ELSE ci[c].tokens
      swept == Sweep(s, LAMBDA l, i : Crowding(l, i, c), 1, carried)
      a == SeeGone([s EXCEPT !.tokens = swept.tokens], swept.gone)
  IN IF s.notgot THEN s
     ELSE FoldLeft(LAMBDA t, i : DropToken(t, ci[c].o, IF i = 1 THEN team ELSE -team, c), a, [i \in 1..(1 + carried) |-> i])
\* The skulls ci carries after droptokens, which returns early without bases.
TokensAfterDrop(s, c) == IF s.notgot THEN ci[c].tokens ELSE 0
SkullsDied(s, c, actor) == DropTokens(s, c, actor = Nobody \/ IsTeam(actor, c))

\* A player who leaves disowns its skulls; beyond the limit of each kind they expire.
Disowned(l, i, c) ==
  LET d == l.tokens[i].dropper
      a == IF d = c THEN [l EXCEPT !.tokens[i].dropper = Left] ELSE l
  IN IF d \notin {c, Left} THEN l ELSE Swept(a, i, l.tokens[i].team = ci[c].team, UnownedTokenLimit)
SkullsDisconnect(s, c) ==
  LET swept == Sweep(s, LAMBDA l, i : Disowned(l, i, c), 0, 0)
  IN SeeGone([s EXCEPT !.tokens = swept.tokens], swept.gone)

\* deposittokens: score the skulls carried into the enemy base, or steal one from it.
Deposit(s, c, b) ==
  LET team == ci[c].team
      stolen == Cardinality({i \in DOMAIN s.tokens : s.tokens[i].dropper = OfBase(b)})
      scored == SeeScore(AddScore([s EXCEPT !.laststeal[b] = s.now], team, ci[c].tokens), team)
  IN CASE s.notgot \/ ~Alive(c) \/ b = team -> s
       [] ~(s.notgot \/ ~Alive(c) \/ b = team) /\ ci[c].tokens > 0 ->
            IF scored.scores[team] >= ScoreLimit THEN Intermission(scored) ELSE scored
       [] OTHER -> IF s.now < s.laststeal[b] + StealTokenTime \/ s.scores[b] <= 0 \/ stolen >= TokenLimit THEN s
                   ELSE DropToken(SeeScore(AddScore([s EXCEPT !.laststeal[b] = s.now], b, -1), b), b, team, OfBase(b))
\* taketoken: clients remove the skull that N_TAKETOKEN names; the server keeps its own.
Find(s, id) == {i \in DOMAIN s.tokens : s.tokens[i].id = id}
TakeToken(s, c, id) == IF s.notgot \/ ~Alive(c) \/ Find(s, id) = {} THEN s ELSE SeeGone(s, {id})
Gains(s, c, id) ==
  /\ ~s.notgot /\ Alive(c) /\ ci[c].tokens < TokenLimit
  /\ \E i \in Find(s, id) : LET t == s.tokens[i].team IN t /= ci[c].team /\ (t > 0 \/ -t = ci[c].team)

Aged(l, i, now) == IF now - l.tokens[i].droptime >= ExpireTokenTime THEN Expire(l, i) ELSE l
SkullsUpdate(s) ==
  LET swept == Sweep(s, LAMBDA l, i : Aged(l, i, s.now), 0, 0)
  IN IF s.ended \/ s.notgot THEN s ELSE SeeGone([s EXCEPT !.tokens = swept.tokens], swept.gone)
=============================================================================
