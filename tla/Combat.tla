------------------------------- MODULE Combat -------------------------------
(***************************************************************************)
(* Lives, shots and items of fpsgame/server.cpp: the messages of a client  *)
(* are queued as events, stamped with the client's own clock; serverupdate *)
(* flushes the queues in the order of the clients list up to the present,  *)
(* and N_TRYSPAWN flushes the queue of a dead player up to its deadflush.  *)
(*                                                                         *)
(* The server is one thread.  A flush is taken apart into one step per     *)
(* event and one per hit; "job" and "landing" hold what is left of it, and *)
(* nothing else happens before it ends.                                    *)
(*                                                                         *)
(* The mode is timed, without flags, bases or skulls (smode is NULL), not  *)
(* edited and without bots; maps are not checked for modifications; Lua    *)
(* hooks are taken not to be installed.                                    *)
(* Armour, quad damage and distances are abstracted: a hit takes any of    *)
(* Damage.  "past" and the fields "life" and "aimed" are history: no step  *)
(* reads them, but for the bounds.                                         *)
(***************************************************************************)
EXTENDS Vectors, FiniteSets

CONSTANTS
    Players,        \* client numbers
    Sends,          \* what clients send, of Kinds
    Guns,           \* a subset of {"rifle", "rocket"}: guns that use up ammunition
    SpawnAmmo,      \* what spawnstate gives of each gun
    AttackDelay,    \* guns[gun].attackdelay
    Rays,           \* guns[gun].rays
    MaxHits,        \* bound: hits in a message
    Ids,            \* ids clients give to projectiles
    MaxProjs,       \* room in projectilestate (8)
    MaxHealth,      \* maxhealth
    Damage,         \* what a hit may take of it
    DeathMillis,    \* DEATHMILLIS
    LifeMod,        \* lifesequence is counted modulo this (128)
    QueueLimit,     \* a longer queue takes no event (100)
    GameLimit,      \* gamelimit
    ItemTimes,      \* spawntime() of the item, for any number of players
    HasItem,        \* whether the map has an item
    MaxTime,        \* bound: gamemillis
    MaxEvents,      \* bound: length of an event queue
    MaxLives,       \* bound: spawns granted in a session
    MaxSessions,    \* bound: sessions on a client number
    MaxMaps         \* bound: map changes

Kinds == {"shot", "explode", "suicide", "pickup", "spectate", "team", "pause"}

ASSUME SendAssumption == Sends \subseteq Kinds
ASSUME TimeAssumption ==
    /\ MaxTime \in Nat /\ GameLimit \in Nat /\ DeathMillis \in Nat \ {0}
    /\ AttackDelay \in Nat /\ ItemTimes \subseteq Nat \ {0}
ASSUME PlayerAssumption == IsFiniteSet(Players) /\ Players \cap {"none", "items"} = {}
ASSUME FightAssumption ==
    /\ Guns \subseteq {"rifle", "rocket"} /\ SpawnAmmo \in Nat
    /\ Rays \in Nat \ {0} /\ MaxHits \in Nat /\ MaxProjs \in Nat \ {0}
    /\ MaxHealth \in Nat \ {0} /\ Damage \subseteq Nat /\ LifeMod \in Nat \ {0} /\ HasItem \in BOOLEAN
ASSUME BoundsAssumption ==
    /\ QueueLimit \in Nat /\ MaxEvents \in Nat
    /\ MaxLives \in Nat /\ MaxSessions \in Nat /\ MaxMaps \in Nat

VARIABLES
    clients,        \* the clients list
    gs,             \* gamestate of each client
    events,         \* clientinfo: the queue of events
    synced,         \* clientinfo: those with timesync set
    lastevent,      \* clientinfo: time of the last timed event
    gamemillis, gamepaused,
    sent,           \* the item, as an element of sents
    notgotitems,
    taken,          \* history: pickups of the item since it last spawned
    job,            \* what is left of the flush being run
    landing,        \* hits of the shot or explosion being processed
    maps,           \* maps played so far
    past            \* history of each client

queues == <<events, synced, lastevent>>
items == <<sent, notgotitems, taken>>
flow == <<job, landing>>
clock == <<gamemillis, gamepaused, maps>>
vars == <<clients, gs, queues, clock, items, flow, past>>
-----------------------------------------------------------------------------
(* gamestate *)

NoAmmo == [g \in Guns |-> 0]

Blank == [state |-> "dead", health |-> MaxHealth, lastdeath |-> 0, deadflush |-> 0,
          lastspawn |-> -1, lifesequence |-> 0, ammo |-> NoAmmo, lastshot |-> 0,
          gunwait |-> 0, rockets |-> <<>>, deaths |-> 0]

\* Wrong on purpose, to be put in the place of the next definition: the health
\* of the last life stays.
RespawnWounded(g) ==
    [g EXCEPT !.deadflush = 0, !.lastspawn = -1, !.ammo = NoAmmo, !.lastshot = 0,
              !.gunwait = 0]

\* gamestate::respawn()
Respawn(g) ==
    [g EXCEPT !.health = MaxHealth, !.deadflush = 0, !.lastspawn = -1, !.ammo = NoAmmo,
              !.lastshot = 0, !.gunwait = 0]

\* Wrong on purpose, to be put in the place of the next definition: rockets in
\* the air survive the map.
ResetKeepingRockets(g) ==
    Respawn([g EXCEPT !.state = IF @ = "spectator" THEN @ ELSE "dead",
                      !.deaths = 0, !.lastdeath = 0])

\* gamestate::reset()
Reset(g) ==
    Respawn([g EXCEPT !.state = IF @ = "spectator" THEN @ ELSE "dead",
                      !.rockets = <<>>, !.deaths = 0, !.lastdeath = 0])

\* spawnstate() and the lastspawn that sendspawn and welcomepacket set.
SendSpawn(g, now) ==
    [g EXCEPT !.ammo = [x \in Guns |-> SpawnAmmo],
              !.lifesequence = (@ + 1) % LifeMod, !.lastspawn = now]

\* suicide(); deadflush stays 0, for the life is respawned at once.
Suicided(g) ==
    IF g.state # "alive" THEN g
    ELSE Respawn([g EXCEPT !.state = "dead", !.deaths = @ + 1, !.lastdeath = gamemillis])

\* dodamage(); without respawn(), which waits for deadflush.
Damaged(g, damage) ==
    LET left == g.health - damage
    IN  IF left > 0 THEN [g EXCEPT !.health = left]
        ELSE [g EXCEPT !.health = left, !.deaths = @ + 1, !.state = "dead",
                       !.lastdeath = gamemillis, !.deadflush = gamemillis + DeathMillis]

\* isalive(): a dead player acts on for DEATHMILLIS.
IsAlive(g) ==
    g.state = "alive" \/ (g.state = "dead" /\ gamemillis - g.lastdeath <= DeathMillis)

\* projectilestate::add: a full list forgets everything in flight.
AddProj(projs, id) == IF Len(projs) >= MaxProjs THEN <<id>> ELSE Append(projs, id)

\* projectilestate::remove: the first match gives its place to the last one.
RemoveProj(projs, id) ==
    LET found == {i \in DOMAIN projs : projs[i] = id}
        i == CHOOSE j \in found : \A k \in found : j <= k
    IN  SubSeq([projs EXCEPT ![i] = projs[Len(projs)]], 1, Len(projs) - 1)
-----------------------------------------------------------------------------
(* clientinfo *)

NoPast == [session |-> 0, life |-> 0, spawns |-> 0, began |-> 0, shots |-> 0,
           fired |-> 0, exploded |-> 0, lost |-> FALSE]
NewLife(h, now) ==
    [h EXCEPT !.life = @ + 1, !.began = now, !.shots = 0, !.lost = FALSE]

NoJob == [left |-> <<>>, until |-> 0, then |-> "none", dt |-> 0]
NoLanding == [from |-> "shot", hits |-> <<>>, rays |-> 0, seen |-> {}]
Idle == job = NoJob

Playing(p) == p \in {clients[i] : i \in DOMAIN clients}

Joined == {p \in Players : Playing(p)}

IsTimed(e) == e.type \in {"shot", "explode"}

\* cleartimedevents() drops all but explosions, the suicides and pickups too.
Cleared(q) == Within(q, {e \in Range(q) : e.type = "explode"})

\* Wrong on purpose, to be put in the place of the next definition: the client's
\* clock is believed from the start.
EventMillisUnsynced(p) == 0 .. MaxTime

\* geteventmillis(): the first event after a silence is taken to happen now; after
\* that the client's clock tells, so any time may come.
EventMillis(p) ==
    IF p \notin synced \/ (events[p] = <<>> /\ gamemillis - gs[p].lastshot >= gs[p].gunwait)
    THEN {gamemillis} ELSE 0 .. MaxTime

\* addevent(): not for spectators, nor when the queue is full.
AddEvent(p, e) ==
    events' = [events EXCEPT
                 ![p] = IF gs[p].state = "spectator" \/ Len(@) > QueueLimit THEN @
                        ELSE Append(@, e)]

Init ==
    /\ clients = <<>>
    /\ gs = [p \in Players |-> Blank]
    /\ events = [p \in Players |-> <<>>] /\ synced = {}
    /\ lastevent = [p \in Players |-> 0]
    /\ gamemillis = 0 /\ gamepaused = FALSE
    /\ notgotitems = TRUE /\ sent = [spawned |-> FALSE, spawntime |-> 0] /\ taken = 0
    /\ job = NoJob /\ landing = NoLanding
    /\ maps = 0
    /\ past = [p \in Players |-> NoPast]
-----------------------------------------------------------------------------
(* Coming and going *)

\* loaditems(): a map the server cannot read waits for a client's item list; a
\* slow item waits for its first spawn.
LoadItems ==
    /\ taken' = 0
    /\ \/ notgotitems' = TRUE /\ sent' = [spawned |-> FALSE, spawntime |-> 0]
       \/ /\ HasItem /\ notgotitems' = FALSE
          /\ sent' \in {[spawned |-> TRUE, spawntime |-> 0]} \cup
                       {[spawned |-> FALSE, spawntime |-> t] : t \in ItemTimes}

\* changemap(), for the clients S with the states g and the history h: mapchange()
\* empties every queue and sendspawn() grants a spawn to everyone who plays.
MapChange(S, g, h) ==
    LET plays == {p \in S : g[p].state # "spectator"}
        fresh == [p \in Players |-> [h[p] EXCEPT !.spawns = 0, !.began = 0, !.shots = 0,
                                                 !.fired = 0, !.exploded = 0,
                                                 !.lost = FALSE]]
    IN  /\ maps < MaxMaps /\ maps' = maps + 1
        /\ \A p \in plays : h[p].life < MaxLives
        /\ gamemillis' = 0 /\ gamepaused' = FALSE
        /\ gs' = [p \in Players |-> CASE p \in plays -> SendSpawn(Reset(g[p]), 0)
                                      [] p \in S \ plays -> Reset(g[p])
                                      [] OTHER -> g[p]]
        /\ events' = [p \in Players |-> <<>>] /\ synced' = {}
        /\ lastevent' = [p \in Players |-> 0]
        /\ past' = [p \in Players |-> IF p \in plays THEN NewLife(fresh[p], 0) ELSE fresh[p]]
        /\ LoadItems

\* A vote, or the end of the intermission.
ChangeMap == Idle /\ MapChange(Joined, gs, past) /\ UNCHANGED <<clients, flow>>

\* hasmap() of a client that comes to play: a game that is over is played on only
\* for others, or for spectators with a privilege, which are not told apart here.
MayRotate(p) ==
    {gamemillis >= GameLimit /\ \A q \in Joined \ {p} : gs[q].state = "spectator"} \cup
    (IF Joined \ {p} = {} THEN {} ELSE {FALSE})

\* connected() and welcomepacket(): a player is granted a spawn at once, on a new
\* map if the last game is over.
Join(p, watch) ==
    LET state == IF watch THEN [Blank EXCEPT !.state = "spectator"] ELSE Blank
        g == [gs EXCEPT ![p] = state]
        h == [past EXCEPT ![p] = [NoPast EXCEPT !.session = past[p].session + 1]]
    IN  /\ Idle /\ ~Playing(p)
        /\ past[p].session < MaxSessions
        /\ watch => "spectate" \in Sends
        /\ clients' = Append(clients, p)
        /\ \E rotate \in MayRotate(p) :
             IF rotate THEN MapChange(Joined \cup {p}, g, h)
             ELSE /\ gs' = IF watch THEN g ELSE [g EXCEPT ![p] = SendSpawn(@, gamemillis)]
                  /\ past' = IF watch THEN h ELSE [h EXCEPT ![p] = NewLife(@, gamemillis)]
                  /\ UNCHANGED <<queues, clock, items>>
        /\ UNCHANGED flow

\* vector::removeobj: the clients behind the one that leaves move up.
Without(s, i) == [j \in 1 .. Len(s) - 1 |-> IF j < i THEN s[j] ELSE s[j + 1]]

\* clientdisconnect(): the clientinfo is deleted.
Leave(p) ==
    /\ Idle /\ Playing(p)
    /\ \E i \in DOMAIN clients : clients[i] = p /\ clients' = Without(clients, i)
    /\ gs' = [gs EXCEPT ![p] = Blank]
    /\ events' = [events EXCEPT ![p] = <<>>] /\ synced' = synced \ {p}
    /\ lastevent' = [lastevent EXCEPT ![p] = 0]
    /\ past' = [past EXCEPT ![p] = [NoPast EXCEPT !.session = past[p].session]]
    /\ UNCHANGED <<clock, items, flow>>

ForceSpectator(p) ==
    /\ Idle /\ Playing(p) /\ "spectate" \in Sends /\ gs[p].state # "spectator"
    /\ gs' = [gs EXCEPT ![p] = [Suicided(@) EXCEPT !.state = "spectator"]]
    /\ UNCHANGED <<clients, queues, clock, items, flow, past>>

Unspectate(p) ==
    LET g == [gs EXCEPT ![p] = Respawn([@ EXCEPT !.state = "dead"])]
    IN  /\ Idle /\ Playing(p) /\ gs[p].state = "spectator"
        /\ \E rotate \in MayRotate(p) :
             IF rotate THEN MapChange(Joined, g, past)
             ELSE gs' = g /\ UNCHANGED <<queues, clock, items, past>>
        /\ UNCHANGED <<clients, flow>>

\* N_SWITCHTEAM and N_SETTEAM end the life of a player who lives.
SwitchTeam(p) ==
    /\ Idle /\ Playing(p) /\ "team" \in Sends
    /\ gs' = [gs EXCEPT ![p] = Suicided(@)]
    /\ UNCHANGED <<clients, queues, clock, items, flow, past>>

PauseGame ==
    /\ Idle /\ clients # <<>> /\ "pause" \in Sends
    /\ gamepaused' = ~gamepaused
    /\ UNCHANGED <<clients, gs, queues, gamemillis, maps, items, flow, past>>

-----------------------------------------------------------------------------
(* Messages *)

\* A hit names its target by client number and by the sequence number of its
\* life, as last announced.
HitOn(t, rays) ==
    [target |-> t, seq |-> gs[t].lifesequence, rays |-> rays,
     aimed |-> <<past[t].session, past[t].life>>]

Hits(S) == UNION {[1 .. n -> {HitOn(t, r) : t \in S, r \in 1 .. Rays}] : n \in 0 .. MaxHits}

Send(p, type) ==
    Idle /\ Playing(p) /\ type \in Sends /\ Len(events[p]) < MaxEvents

\* history: an event that the full queue of p has no room for.
NoteLost(p) == past' = [past EXCEPT ![p].lost = @ \/ Len(events[p]) > QueueLimit]

\* N_SHOOT and N_EXPLODE: an event that is thrown away has set the clock all the same.
Shoot(p, gun, id) ==
    /\ Send(p, "shot")
    /\ \E t \in EventMillis(p), h \in IF gun = "rifle" THEN Hits(Joined \ {p}) ELSE {<<>>} :
         AddEvent(p, [type |-> "shot", millis |-> t, gun |-> gun, id |-> id, hits |-> h,
                      life |-> past[p].life])
    /\ synced' = synced \cup {p} /\ NoteLost(p)
    /\ UNCHANGED <<clients, gs, lastevent, clock, items, flow>>

Explode(p, id) ==
    /\ Send(p, "explode")
    /\ \E t \in EventMillis(p), h \in Hits(Joined) :
         AddEvent(p, [type |-> "explode", millis |-> t, id |-> id, hits |-> h])
    /\ synced' = synced \cup {p} /\ NoteLost(p)
    /\ UNCHANGED <<clients, gs, lastevent, clock, items, flow>>

\* N_SUICIDE
SendSuicide(p) ==
    /\ Send(p, "suicide") /\ AddEvent(p, [type |-> "suicide"])
    /\ UNCHANGED <<clients, gs, synced, lastevent, clock, items, flow, past>>

\* N_ITEMPICKUP
SendPickup(p) ==
    /\ Send(p, "pickup") /\ AddEvent(p, [type |-> "pickup"])
    /\ UNCHANGED <<clients, gs, synced, lastevent, clock, items, flow, past>>

\* The tail of N_TRYSPAWN: what is left of the queue is cleared and a spawn granted.
Granted(p, g) ==
    /\ gs' = [gs EXCEPT ![p] = SendSpawn(g, gamemillis)]
    /\ events' = [events EXCEPT ![p] = Cleared(@)] /\ synced' = synced \ {p}
    /\ past' = [past EXCEPT ![p] = NewLife(@, gamemillis)]
    /\ UNCHANGED lastevent

\* N_TRYSPAWN: what a player did before it died is processed first.
TrySpawn(p) ==
    /\ Idle /\ Playing(p)
    /\ gs[p].state = "dead" /\ gs[p].lastspawn < 0
    /\ past[p].life < MaxLives
    /\ IF gs[p].deadflush # 0
       THEN /\ job' = [left |-> <<p>>, until |-> gs[p].deadflush, then |-> p, dt |-> 0]
            /\ UNCHANGED <<gs, queues, past>>
       ELSE Granted(p, gs[p]) /\ UNCHANGED job
    /\ UNCHANGED <<clients, clock, items, landing>>

\* Wrong on purpose, to be put in the place of the next definition: the grant can
\* be taken up again.
SpawnAgain(p) ==
    /\ Idle /\ Playing(p)
    /\ gs[p].state \in {"alive", "dead"} /\ gs[p].lastspawn >= 0
    /\ gs' = [gs EXCEPT ![p].state = "alive"]
    /\ past' = [past EXCEPT ![p].spawns = @ + 1]
    /\ UNCHANGED <<clients, queues, clock, items, flow>>

\* N_SPAWN, the client's answer to the grant.
Spawn(p) ==
    /\ Idle /\ Playing(p)
    /\ gs[p].state \in {"alive", "dead"} /\ gs[p].lastspawn >= 0
    /\ gs' = [gs EXCEPT ![p].state = "alive", ![p].lastspawn = -1]
    /\ past' = [past EXCEPT ![p].spawns = @ + 1]
    /\ UNCHANGED <<clients, queues, clock, items, flow>>

\* N_ITEMLIST: the first list of a client that has the map is believed.  A list may
\* name the item several times, as items of several types: each mention adds to what
\* the earlier ones set, so that an item may be there and have a timer as well.
ItemList ==
    /\ Idle /\ clients # <<>> /\ HasItem
    /\ notgotitems /\ notgotitems' = FALSE
    /\ \E there \in BOOLEAN, t \in ItemTimes \cup {0} :
         /\ there \/ t # 0
         /\ sent' = [spawned |-> there, spawntime |-> t]
    /\ UNCHANGED <<clients, gs, queues, clock, taken, flow, past>>
-----------------------------------------------------------------------------
(* serverupdate and the flush *)

\* The time passes and, within the limit, processevents() begins.
Update(dt) ==
    /\ Idle /\ clients # <<>> /\ ~gamepaused
    /\ gamemillis + dt <= MaxTime /\ gamemillis' = gamemillis + dt
    /\ IF gamemillis' < GameLimit
       THEN job' = [left |-> clients, until |-> gamemillis', then |-> "items", dt |-> dt]
       ELSE UNCHANGED job
    /\ UNCHANGED <<clients, gs, queues, gamepaused, maps, items, landing, past>>

\* No time passes on an empty server (shouldstep).
UpdateEmpty == Idle /\ clients = <<>> /\ UNCHANGED vars

Flushing(p) == job.left # <<>> /\ p = Head(job.left) /\ landing = NoLanding
Due(p) == events[p] # <<>> /\ (IsTimed(events[p][1]) => events[p][1].millis <= job.until)

\* The queue is empty, or its first event is for later.
FlushEnds(p) ==
    /\ Flushing(p) /\ ~Due(p)
    /\ job' = [job EXCEPT !.left = Tail(@)]
    /\ UNCHANGED <<clients, gs, queues, clock, items, landing, past>>

\* timedevent::flush() drops an event older than one it has processed.
DropStale(p) ==
    /\ Flushing(p) /\ Due(p)
    /\ IsTimed(events[p][1]) /\ events[p][1].millis < lastevent[p]
    /\ events' = [events EXCEPT ![p] = Tail(@)]
    /\ UNCHANGED <<clients, gs, synced, lastevent, clock, items, flow, past>>

\* Takes the first event out of the queue to process it.
Process(p, type) ==
    /\ Flushing(p) /\ Due(p) /\ events[p][1].type = type
    /\ events' = [events EXCEPT ![p] = Tail(@)]
    /\ IF IsTimed(events[p][1])
       THEN /\ events[p][1].millis >= lastevent[p]
            /\ lastevent' = [lastevent EXCEPT ![p] = events[p][1].millis]
       ELSE UNCHANGED lastevent
    /\ UNCHANGED <<clients, synced, clock, job>>

Land(from, hits) ==
    landing' = IF hits = <<>> THEN NoLanding
               ELSE [from |-> from, hits |-> hits, rays |-> 0, seen |-> {}]

\* The checks of shotevent::process
MayShoot(p, e) ==
    /\ IsAlive(gs[p]) /\ e.millis - gs[p].lastshot >= gs[p].gunwait
    /\ gs[p].ammo[e.gun] > 0

ShotEvent(p) ==
    /\ Process(p, "shot")
    /\ LET e == events[p][1]
       IN  IF MayShoot(p, e)
           THEN /\ gs' = [gs EXCEPT
                     ![p].ammo[e.gun] = @ - 1, ![p].lastshot = e.millis,
                     ![p].gunwait = AttackDelay,
                     ![p].rockets = IF e.gun = "rocket" THEN AddProj(@, e.id) ELSE @]
                /\ past' = [past EXCEPT
                     ![p].shots = @ + 1, ![p].fired = IF e.gun = "rocket" THEN @ + 1 ELSE @]
                /\ Land("shot", e.hits)
           ELSE UNCHANGED <<gs, past, landing>>
    /\ UNCHANGED items

\* explodeevent::process: dead, or a spectator, a client's rockets explode.
ExplodeEvent(p) ==
    /\ Process(p, "explode")
    /\ LET e == events[p][1]
       IN  IF \E i \in DOMAIN gs[p].rockets : gs[p].rockets[i] = e.id
           THEN /\ gs' = [gs EXCEPT ![p].rockets = RemoveProj(@, e.id)]
                /\ past' = [past EXCEPT ![p].exploded = @ + 1]
                /\ Land("explode", e.hits)
           ELSE UNCHANGED <<gs, past, landing>>
    /\ UNCHANGED items

SuicideEvent(p) ==
    /\ Process(p, "suicide")
    /\ gs' = [gs EXCEPT ![p] = Suicided(@)]
    /\ UNCHANGED <<items, landing, past>>

\* Wrong on purpose, to be put in the place of the next definition: the timer is
\* not set.
TakeForGood(t) == sent' = [spawned |-> FALSE, spawntime |-> 0]

\* pickup() takes the item off the map and sets its timer.
Take(t) == sent' = [spawned |-> FALSE, spawntime |-> t]

\* pickupevent::process and pickup(), of an item that adds to health (canpickup).
PickupEvent(p) ==
    /\ Process(p, "pickup")
    /\ IF /\ IsAlive(gs[p]) /\ gamemillis < GameLimit
          /\ sent.spawned /\ gs[p].health < MaxHealth
       THEN /\ \E t \in ItemTimes : Take(t)
            /\ taken' = taken + 1
            /\ gs' = [gs EXCEPT ![p].health = @ + 1]
       ELSE UNCHANGED <<sent, taken, gs>>
    /\ UNCHANGED <<notgotitems, landing, past>>

\* Wrong on purpose, to be put in the place of the next definition: the target
\* need only be there.
CanBeHitDead(h) == Playing(h.target) /\ h.seq = gs[h.target].lifesequence

\* Wrong on purpose, to be put in the place of the next definition: any life of
\* the target will do.
CanBeHitInAnyLife(h) == Playing(h.target) /\ gs[h.target].state = "alive"

\* A hit counts on a player that lives the life it was aimed at.
CanBeHit(h) ==
    /\ Playing(h.target) /\ gs[h.target].state = "alive"
    /\ h.seq = gs[h.target].lifesequence

\* The loops over hits: a shot spends the rays of its gun, an explosion strikes a
\* target once.
HitLands ==
    LET h == Head(landing.hits)
        rays == IF CanBeHit(h) THEN landing.rays + h.rays ELSE landing.rays
        counts == /\ CanBeHit(h)
                  /\ IF landing.from = "shot" THEN rays <= Rays ELSE h.target \notin landing.seen
    IN  /\ landing # NoLanding
        /\ \E damage \in Damage :
             gs' = IF counts THEN [gs EXCEPT ![h.target] = Damaged(@, damage)] ELSE gs
        /\ landing' = IF Len(landing.hits) = 1 THEN NoLanding
                      ELSE [landing EXCEPT !.hits = Tail(@), !.rays = rays,
                                           !.seen = @ \cup {h.target}]
        /\ UNCHANGED <<clients, queues, clock, items, job, past>>

Flushed(then) == job # NoJob /\ job.left = <<>> /\ job.then = then /\ landing = NoLanding

\* The rest of serverupdate: the timer of the item.
UpdateItems ==
    /\ Flushed("items") /\ job' = NoJob
    /\ IF sent.spawntime = 0 THEN UNCHANGED <<sent, taken>>
       ELSE IF sent.spawntime > job.dt
            THEN /\ sent' = [sent EXCEPT !.spawntime = @ - job.dt]
                 /\ UNCHANGED taken
            ELSE sent' = [spawned |-> TRUE, spawntime |-> 0] /\ taken' = 0
    /\ UNCHANGED <<clients, gs, queues, clock, notgotitems, landing, past>>

\* The rest of N_TRYSPAWN.
EndTrySpawn(p) ==
    /\ Flushed(p) /\ job' = NoJob
    /\ Granted(p, Respawn(gs[p]))
    /\ UNCHANGED <<clients, clock, items, landing>>
-----------------------------------------------------------------------------
Roster == \E p \in Players :
    \/ \E watch \in BOOLEAN : Join(p, watch)
    \/ Leave(p) \/ ForceSpectator(p) \/ Unspectate(p) \/ SwitchTeam(p)

Message == \E p \in Players :
    \/ \E id \in Ids : Explode(p, id) \/ \E gun \in Guns : Shoot(p, gun, id)
    \/ SendSuicide(p) \/ SendPickup(p) \/ TrySpawn(p) \/ Spawn(p)

Flush == \E p \in Players :
    \/ FlushEnds(p) \/ DropStale(p)
    \/ ShotEvent(p) \/ ExplodeEvent(p) \/ SuicideEvent(p) \/ PickupEvent(p)
    \/ EndTrySpawn(p)

Next ==
    \/ Roster \/ Message \/ Flush \/ HitLands \/ UpdateItems
    \/ PauseGame \/ ChangeMap \/ ItemList \/ UpdateEmpty
    \/ \E dt \in 0 .. 1 : Update(dt)

Spec == Init /\ [][Next]_vars
-----------------------------------------------------------------------------
\* The types of the state.
TypeOK ==
    /\ clients \in UNION {[1 .. n -> Players] : n \in 0 .. Cardinality(Players)}
    /\ \A p \in Players :
         /\ gs[p].state \in {"dead", "alive", "spectator"}
         /\ \E damage \in Damage : gs[p].health \in 1 - damage .. MaxHealth
         /\ gs[p].lastdeath \in 0 .. MaxTime /\ gs[p].lastspawn \in -1 .. MaxTime
         /\ gs[p].deadflush \in 0 .. MaxTime + DeathMillis
         /\ gs[p].lifesequence \in 0 .. LifeMod - 1
         /\ \A g \in Guns : gs[p].ammo[g] \in 0 .. SpawnAmmo
         /\ gs[p].lastshot \in 0 .. MaxTime /\ gs[p].gunwait \in {0, AttackDelay}
         /\ Len(gs[p].rockets) <= MaxProjs
         /\ Len(events[p]) <= QueueLimit + 1
         /\ lastevent[p] \in 0 .. MaxTime
    /\ synced \subseteq Joined
    /\ gamemillis \in 0 .. MaxTime /\ gamepaused \in BOOLEAN
    /\ sent \in [spawned : BOOLEAN, spawntime : ItemTimes \cup 0 .. MaxTime]
    /\ job.until \in 0 .. MaxTime + DeathMillis

\* A player that lives has health to lose, has used up its grant and has nothing
\* left to flush: N_SPAWN never brings back the wounds or the duties of a life
\* before (respawn() on every way to sendspawn).
LifeIsFresh == \A p \in Joined : gs[p].state = "alive" =>
    gs[p].health > 0 /\ gs[p].lastspawn = -1 /\ gs[p].deadflush = 0

\* Damage lands on the life the shot was aimed at, however long the shot waited
\* in the queue, unless the player left and another took its number, or its lives
\* have run through all sequence numbers (the lifesequence tests).
HitsAimedLife ==
    [][landing # NoLanding =>
         LET h == Head(landing.hits)
             behind == past[h.target].life - h.aimed[2]
         IN  gs'[h.target].health < gs[h.target].health /\ h.aimed[1] = past[h.target].session
             => behind = 0 \/ behind >= LifeMod]_vars

\* No shot waits for a life it was not fired in: once a spawn is granted, only
\* what was sent since then is queued, explosions apart (cleartimedevents,
\* mapchange).
ShotsOfThisLife == \A p \in Joined : gs[p].state = "alive" \/ gs[p].lastspawn >= 0 =>
    \A i \in DOMAIN events[p] : events[p][i].type = "shot" => events[p][i].life = past[p].life

\* The time up to which a shot of p may have been processed.
Horizon(p) == IF job.then = p THEN job.until ELSE gamemillis

\* The clock is the client's, yet no player fires faster than its gun: the shots of
\* a life fit into the time since it was granted (geteventmillis, lastshot). A queue
\* that overflows may lose the one event the server stamps itself, and with it the
\* life's tie to the server's clock.
FireRateHeld == \A p \in Joined :
    past[p].shots > 0 /\ ~past[p].lost =>
      (past[p].shots - 1) * AttackDelay <= Horizon(p) - past[p].began

\* Of all a client sends, what is fired is fired in the life it was sent in, and no
\* faster than the gun allows.
FireHeld == FireRateHeld /\ ShotsOfThisLife

\* What explodes was shot before, on this map, and explodes once
\* (projectilestate::remove, gamestate::reset).
ExplosionsWereShot == \A p \in Joined : past[p].exploded + Len(gs[p].rockets) <= past[p].fired

\* An item that is not there comes back, and only then is taken again.
ItemReturns ==
    /\ ~notgotitems => sent.spawned \/ sent.spawntime # 0
    /\ taken <= IF sent.spawned THEN 0 ELSE 1

\* What the players were promised, for each of them.
Phase == [p \in Players |->
    CASE ~Playing(p) -> "gone"
      [] Playing(p) /\ gs[p].state # "dead" -> gs[p].state
      [] Playing(p) /\ gs[p].state = "dead" /\ gs[p].lastspawn >= 0 -> "granted"
      [] Playing(p) /\ gs[p].state = "dead" /\ ~(gs[p].lastspawn >= 0) -> "dead"]

L == INSTANCE Lives WITH
    phase <- Phase,
    spawns <- [p \in Players |-> past[p].spawns],
    deaths <- [p \in Players |-> gs[p].deaths]

\* Each life ends in one death, whatever hits, suicides, team switches and
\* departures fall together.
LivesEndOnce == L!LivesEndOnce

\* The fights implement the lives the players are promised.
ImplementsLives == L!Spec
=============================================================================
