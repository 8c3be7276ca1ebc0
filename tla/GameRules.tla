----------------------------- MODULE GameRules -----------------------------
(* The rules of the game modes in fpsgame/game.h and server.cpp: what a     *)
(* mode is, which modes a list names, what a player spawns with, picks up   *)
(* and loses to damage, which items there are, and the table of teams.      *)
EXTENDS Integers, Sequences, SequencesExt, FiniteSetsExt, Functions

CONSTANTS MaxTeams,  \* MAXTEAMS, 128
          AmmoKinds  \* I_GRENADES - I_SHELLS + 1, 5

\* gamemodes[], the first of number STARTGAMEMODE
StartGameMode == -3
GameModes ==
  <<{"local", "classicsp"}, {"local", "dmsp"}, {"demo", "local"}, {"lobby"}, {"edit"}, {"team"},
    {"noitems", "insta"}, {"noitems", "insta", "team"}, {"noitems", "efficiency"}, {"noitems", "efficiency", "team"},
    {"noitems", "tactics"}, {"noitems", "tactics", "team"}, {"noammo", "tactics", "capture", "team"},
    {"noitems", "capture", "regen", "team"}, {"ctf", "team"}, {"noitems", "insta", "ctf", "team"},
    {"ctf", "protect", "team"}, {"noitems", "insta", "ctf", "protect", "team"},
    {"ctf", "hold", "team"}, {"noitems", "insta", "ctf", "hold", "team"}, {"noitems", "efficiency", "ctf", "team"},
    {"noitems", "efficiency", "ctf", "protect", "team"}, {"noitems", "efficiency", "ctf", "hold", "team"},
    {"collect", "team"}, {"noitems", "insta", "collect", "team"}, {"noitems", "efficiency", "collect", "team"}>>
ModeNumbers == StartGameMode..StartGameMode + Len(GameModes) - 1

\* m_check, m_checknot, m_checkall
Flags(mode) == GameModes[mode - StartGameMode + 1]
Check(mode, flags) == mode \in ModeNumbers /\ Flags(mode) \intersect flags # {}
CheckNot(mode, flags) == mode \in ModeNumbers /\ Flags(mode) \intersect flags = {}
CheckAll(mode, flags) == mode \in ModeNumbers /\ flags \subseteq Flags(mode)
MTimed(mode) == CheckNot(mode, {"demo", "edit", "local"})
-----------------------------------------------------------------------------
(* Lists of modes: a word names modes by pattern, or one by name or number, *)
(* and adds them or, after "!", takes them out; "*" adds the timed ones and *)
(* Every, which stands for the modes no other entry of the rotation has.    *)
Every == StartGameMode + Len(GameModes)
ModeWord(not, all, modes) == [not |-> not, all |-> all, modes |-> modes]

\* genmodemask()
GenModeMask(words) ==
  FoldLeft(LAMBDA mask, w :
             LET named == w.modes \intersect ModeNumbers
             IN IF w.all THEN mask \union {Every} \union {n \in ModeNumbers : MTimed(n)}
                ELSE IF w.not THEN mask \ named ELSE mask \union named, {}, words)

\* addmaprotation(): without a map only modes that make one are left
AddMapRotation(rots, mask, map) ==
  LET modes == IF map = "" THEN {n \in mask : n = Every \/ Check(n, {"edit"})} ELSE mask
  IN IF modes = {} THEN rots
     ELSE [list |-> Append(rots.list, [modes |-> modes, map |-> map]),
           exclude |-> IF Every \in modes THEN rots.exclude ELSE rots.exclude \union modes]
\* addmaprotations(): the pairs of modes and maps of one command, behind them
\* a separator
AddMapRotations(rots, pairs) ==
  LET add(r, p) == IF p.maps = <<>> THEN AddMapRotation(r, p.mask, "")
                   ELSE FoldLeft(LAMBDA q, map : AddMapRotation(q, p.mask, map), r, p.maps)
      added == FoldLeft(add, rots, pairs)
  IN IF added.list # <<>> /\ Last(added.list).modes # {}
     THEN [added EXCEPT !.list = Append(@, [modes |-> {}, map |-> ""])] ELSE added
\* calcmodemask()
CalcModeMask(rot, exclude) == (IF Every \in rot.modes THEN rot.modes \ exclude ELSE rot.modes) \ {Every}

\* addteamkillkick(), a ban in minutes, and the one checkteamkills() goes by: 0
\* for none
AddTeamKillKick(kicks, mask, limit, ban) ==
  Append(kicks, [modes |-> mask, limit |-> limit, ban |-> IF ban > 0 THEN ban ELSE IF ban < 0 THEN 0 ELSE 30])
NarrowerKick(kick, than) == kick.modes # than.modes /\ kick.modes \subseteq than.modes
TeamKillKick(kicks, mode) ==
  IF ~MTimed(mode) THEN 0
  ELSE FoldLeftDomain(LAMBDA k, i : IF mode \in kicks[i].modes /\ (k = 0 \/ NarrowerKick(kicks[i], kicks[k])) THEN i ELSE k, 0, kicks)
-----------------------------------------------------------------------------
(* Players: A_BLUE, A_GREEN and A_YELLOW are 0 to 2, guns count from        *)
(* GUN_FIST as 0, which needs no ammunition; guns 1 to 6 have items.        *)
Ammo == 1..6
Cg == 2
Rifle == 4
Gl == 5
Pistol == 6
Health == 7
Boost == 8
GreenArmour == 9
YellowArmour == 10
Quad == 11
ItemStats ==
  <<[add |-> 10, max |-> 30], [add |-> 20, max |-> 60], [add |-> 5, max |-> 15], [add |-> 5, max |-> 15],
    [add |-> 10, max |-> 30], [add |-> 30, max |-> 120], [add |-> 25, max |-> 100], [add |-> 100, max |-> 200],
    [add |-> 100, max |-> 100], [add |-> 200, max |-> 200], [add |-> 20000, max |-> 30000]>>
BoostInfo == 50

RespawnState == [health |-> 100, maxhealth |-> 100, armour |-> 0, armourtype |-> 0, quad |-> 0, ammo |-> [g \in Ammo |-> 0]]
BaseAmmo(p, gun, k) == [p EXCEPT !.ammo[gun] = ItemStats[gun].add * k]
AddAmmo(p, gun, k) == [p EXCEPT !.ammo[gun] = Min({@ + ItemStats[gun].add * k, ItemStats[gun].max})]

Armed(armour, type, pistol, gl) ==
  [RespawnState EXCEPT !.armour = armour, !.armourtype = type, !.ammo[Pistol] = pistol, !.ammo[Gl] = gl]
\* spawnstate(): a set for the tactics of two guns chosen at random
SpawnStates(mode, regenbluearmour) ==
  LET k == IF Check(mode, {"noitems"}) THEN 2 ELSE 1
      tactics(a, b) == BaseAmmo(BaseAmmo(Armed(100, 1, 40, 0), a, k), b, k)
  IN IF Check(mode, {"demo"}) THEN {RespawnState}
     ELSE IF Check(mode, {"insta"}) THEN {[RespawnState EXCEPT !.health = 1, !.ammo[Rifle] = 100]}
     ELSE IF CheckAll(mode, {"capture", "regen"}) THEN {Armed(IF regenbluearmour THEN 25 ELSE 0, 0, 40, 1)}
     ELSE IF Check(mode, {"tactics"})
     THEN {[tactics(g[1], g[2]) EXCEPT !.ammo[Gl] = @ + k - 1] : g \in {h \in (1..5) \X (1..5) : h[1] # h[2]}}
     ELSE IF Check(mode, {"efficiency"})
     THEN {[FoldLeft(LAMBDA p, g : BaseAmmo(p, g, 2), Armed(100, 1, 0, 0), <<1, 2, 3, 4, 5>>) EXCEPT !.ammo[Cg] = @ \div 2]}
     ELSE IF Check(mode, {"ctf", "collect"}) THEN {Armed(50, 0, 40, 1)}
     ELSE IF Check(mode, {"dmsp", "classicsp"}) THEN {Armed(IF Check(mode, {"dmsp"}) THEN 25 ELSE 0, 0, 80, 1)}
     ELSE {Armed(25, 0, 40, 1)}

DoDamage(p, damage) ==
  LET ad == Min({(damage * (p.armourtype + 1) * 25) \div 100, p.armour})
  IN [p EXCEPT !.armour = @ - ad, !.health = @ - (damage - ad)]

\* Wrong on purpose, to be put in the place of the next definition: green armour also over yellow
CanPickupLighter(p, type) ==
  LET max == ItemStats[type].max
  IN CASE type \notin 1..Quad -> FALSE
       [] type = Boost -> p.maxhealth < max \/ p.health < p.maxhealth
       [] type = Health -> p.health < p.maxhealth
       [] type \in {GreenArmour, YellowArmour} -> p.armourtype # 1 \/ p.armour < max
       [] type = Quad -> p.quad < max
       [] OTHER -> p.ammo[type] < max
CanPickup(p, type) ==
  LET max == ItemStats[type].max
  IN CASE type \notin 1..Quad -> FALSE
       [] type = Boost -> p.maxhealth < max \/ p.health < p.maxhealth
       [] type = Health -> p.health < p.maxhealth
       [] type = GreenArmour -> ~(p.armourtype = 2 /\ p.armour >= 100) /\ (p.armourtype = 0 \/ p.armour < max)
       [] type = YellowArmour -> p.armourtype = 0 \/ p.armour < max
       [] type = Quad -> p.quad < max
       [] OTHER -> p.ammo[type] < max

Pickup(p, type) ==
  LET is == ItemStats[type]
      b == IF type = Boost THEN [p EXCEPT !.maxhealth = Min({@ + BoostInfo, is.max})] ELSE p
  IN CASE type \in {Boost, Health} -> [b EXCEPT !.health = Min({@ + is.add, b.maxhealth})]
       [] type \in {GreenArmour, YellowArmour} ->
            [p EXCEPT !.armour = Min({@ + is.add, is.max}), !.armourtype = type - Boost]
       [] type = Quad -> [p EXCEPT !.quad = Min({@ + is.add, is.max})]
       [] OTHER -> AddAmmo(p, type, 1)

\* the items of a mode, and after how many seconds one is back
CanSpawnItem(mode, type) == type \in 1..Quad /\ ~Check(mode, {"noitems"}) /\ ~(Check(mode, {"noammo", "noitems"}) /\ type \in Ammo)
Never == 2147483
SpawnTime(mode, type, numclients) ==
  LET np == IF numclients < 3 THEN 4 ELSE IF numclients > 4 THEN 2 ELSE 3
  IN IF Check(mode, {"classicsp"}) THEN Never
     ELSE CASE type \in Ammo -> np * 4 [] type = Health -> np * 5 [] type = GreenArmour -> 20
            [] type = YellowArmour -> 30 [] type = Boost -> 60 [] type = Quad -> 70
DelaySpawn(mode, type) ==
  CASE type \in {GreenArmour, YellowArmour} -> ~Check(mode, {"classicsp"}) [] OTHER -> type \in {Boost, Quad}
\* N_EDITENT: an item put where none was comes with the next update.  Only the upper end
\* of the index is tested: an item below the list is written in front of it, and what
\* that makes of the list is left open (Astray).
NotUsed == [type |-> 0, spawntime |-> 0, spawned |-> FALSE]
MaxEnts == 10000
Astray == <<[NotUsed EXCEPT !.type = -1]>>
EditEnt(sents, mode, i, type) ==
  LET can == CanSpawnItem(mode, type)
      longer == sents \o [k \in 1..i - Len(sents) |-> NotUsed]
      stale == IF can THEN ~longer[i].spawned ELSE longer[i].spawned \/ longer[i].spawntime # 0
  IN IF i > MaxEnts \/ ~(i \in DOMAIN sents \/ can) THEN sents
     ELSE IF i < 1 THEN Astray
     ELSE [longer EXCEPT ![i] = IF stale THEN [type |-> type, spawntime |-> IF can THEN 1 ELSE 0, spawned |-> FALSE]
                                ELSE [@ EXCEPT !.type = type]]
\* serverupdate(), when no hook keeps an item back
SpawnItems(sents, curtime) ==
  [i \in DOMAIN sents |-> LET e == sents[i]
                          IN IF e.spawntime = 0 THEN e
                             ELSE IF e.spawntime > curtime THEN [e EXCEPT !.spawntime = @ - curtime]
                             ELSE [e EXCEPT !.spawntime = 0, !.spawned = TRUE]]
\* pickup(): the item and who takes it; over once the time is up
TakeItem(sents, p, mode, over, numclients, i) ==
  IF (MTimed(mode) /\ over) \/ i \notin DOMAIN sents \/ ~sents[i].spawned \/ ~CanPickup(p, sents[i].type)
  THEN [sents |-> sents, p |-> p]
  ELSE [sents |-> [sents EXCEPT ![i] = [@ EXCEPT !.spawned = FALSE, !.spawntime = SpawnTime(mode, sents[i].type, numclients)]],
        p |-> Pickup(p, sents[i].type)]
-----------------------------------------------------------------------------
(* Bases as a map lists them, and the names of players.                     *)
AmmoTypes == 1..AmmoKinds
MaxBases == 100
\* addbase(): bases of a group have one kind of ammunition, a new group one of
\* those that the fewest groups have; a set, for the choices at random
AddBase(bases, ammotype) ==
  LET group == Min({ammotype, 0})
      same == {i \in DOMAIN bases : bases[i].group = group}
      firsts == {i \in DOMAIN bases : bases[i].group # 0 /\ \A j \in 1..i - 1 : bases[j].group # bases[i].group}
      uses(t) == Cardinality({i \in firsts : bases[i].type = t})
      types == IF group # 0 THEN IF same # {} THEN {bases[Min(same)].type} ELSE {t \in AmmoTypes : \A u \in AmmoTypes : uses(t) <= uses(u)}
               ELSE IF ammotype > 0 THEN {ammotype} ELSE AmmoTypes
  IN IF Len(bases) >= MaxBases THEN {bases} ELSE {Append(bases, [group |-> group, type |-> t]) : t \in types}

\* duplicatename(), colorname(): a client is [name, bot], its place its number
DuplicateName(clients, i, name) == \E j \in DOMAIN clients \ {i} : clients[j].name = name
ColorName(clients, i) ==
  LET name == clients[i].name
      bot == clients[i].bot
  IN IF name # "" /\ ~DuplicateName(clients, i, name) /\ ~bot THEN <<name>> ELSE <<name, bot, i>>
\* N_SAYTEAM: who hears a line; clients are [team, spectates, bot], team "" for
\* none, and a local client is privileged
HearTeam(clients, i, teammode, privileged) ==
  LET may == ~(clients[i].spectates /\ ~privileged) /\ teammode /\ clients[i].team # ""
      hears(t) == ~t.spectates /\ ~t.bot /\ t.team = clients[i].team
  IN IF may THEN {j \in DOMAIN clients \ {i} : hears(clients[j])} ELSE {}
-----------------------------------------------------------------------------
(* The teams with a score, a set of [team, frags].                          *)
PruneTeamInfo(infos, played) == {t \in infos : t.frags # 0 \/ t.team \in played}
Names(infos) == {t.team : t \in infos}
\* addteaminfo(), for frags more
AddTeamInfo(infos, played, team, frags) ==
  LET pruned == PruneTeamInfo(infos, played)
      room == IF Cardinality(infos) < MaxTeams THEN infos ELSE pruned
  IN IF team \in Names(infos) THEN {IF t.team = team THEN [t EXCEPT !.frags = @ + frags] ELSE t : t \in infos}
     ELSE IF Cardinality(infos) >= MaxTeams /\ pruned = infos THEN infos
     ELSE room \union {[team |-> team, frags |-> frags]}
-----------------------------------------------------------------------------
\* thirds of the damage a player of this health and armour dies of, in small hits
Survives(p) == Min({(12 * p.health) \div (3 - p.armourtype), 3 * (p.health + p.armour)})

\* An item that spawns comes back, no later when more play.
ItemsReturn(mode) ==
  \A type \in {t \in 1..11 : CanSpawnItem(mode, t)}, n \in 0..7 :
    /\ SpawnTime(mode, type, n) \in (IF DelaySpawn(mode, type) THEN 20 ELSE 1)..Never
    /\ SpawnTime(mode, type, n + 1) <= SpawnTime(mode, type, n)

\* Whatever editors make of the entities of a list that named each once, an item
\* that may spawn is there or due, and one that may not is neither, as long as no
\* edit is below the list.
EditsSound(sents, mode) ==
  sents # Astray =>
  \A i \in DOMAIN sents : IF CanSpawnItem(mode, sents[i].type) THEN sents[i].spawned # (sents[i].spawntime > 0)
                          ELSE ~sents[i].spawned /\ sents[i].spawntime = 0

\* Bases of a group agree, and no kind of ammunition has two groups more than
\* another.
BasesSound(bases) ==
  LET groups == {b.group : b \in ToSet(bases)} \ {0}
      of(g) == {b.type : b \in {x \in ToSet(bases) : x.group = g}}
      uses(t) == Cardinality({g \in groups : t \in of(g)})
  IN /\ \A g \in groups : Cardinality(of(g)) = 1
     /\ \A t, u \in AmmoTypes : uses(t) <= uses(u) + 1

\* No two clients are shown by the same name.
NamesDiffer(clients) == \A i, j \in DOMAIN clients : ColorName(clients, i) = ColorName(clients, j) => i = j

\* Players of a team hear each other, and what they say stays with them; who
\* watches hears no team, and speaks to its own only with a privilege.
TeamHears(clients, teammode) ==
  LET plays(i) == ~clients[i].spectates /\ ~clients[i].bot
      heard(i) == HearTeam(clients, i, teammode, FALSE)
  IN \A i, j \in DOMAIN clients :
       /\ plays(i) /\ plays(j) => (j \in heard(i) <=> i \in heard(j))
       /\ j \in HearTeam(clients, i, teammode, TRUE) => plays(j) /\ clients[i].team = clients[j].team
       /\ heard(i) # {} => ~clients[i].spectates /\ heard(i) = HearTeam(clients, i, teammode, TRUE)

\* A full table keeps every team with frags or players, and counts all frags
\* of the teams it has; score is what those were.
TeamsSound(infos, played, score) ==
  /\ Cardinality(infos) <= MaxTeams /\ Cardinality(Names(infos)) = Cardinality(infos)
  /\ \A team \in DOMAIN score : IF team \in Names(infos) THEN [team |-> team, frags |-> score[team]] \in infos
                                ELSE score[team] = 0

\* Whatever a player picks up, nothing passes its limit, what may be picked
\* up changes something, and armour taken at full health never shortens life
\* ("100h/100g only absorbs 200 damage"); what armour takes of a hit, health
\* keeps.
PlayerSound(p, mode) ==
  /\ p.health <= p.maxhealth /\ p.maxhealth <= 200 /\ p.armour \in 0..(IF p.armourtype = 2 THEN 200 ELSE 100)
  /\ \A type \in {t \in 1..11 : CanSpawnItem(mode, t) /\ CanPickup(p, t)} :
       LET q == Pickup(p, type)
       IN /\ q # p /\ (type \in Ammo => q.ammo[type] <= ItemStats[type].max) /\ q.quad <= 30000
          /\ p.health >= 100 => Survives(q) >= Survives(p)
  /\ \A d \in {1, 50, 120} : LET q == DoDamage(p, d)
                             IN (p.health - q.health) + (p.armour - q.armour) = d /\ q.armour >= 0 /\ q.health <= p.health

\* A list of modes means what its last word on each mode says.
MaskSound(words) ==
  \A n \in ModeNumbers \union {Every} :
    LET says == {i \in DOMAIN words : IF words[i].all THEN n = Every \/ MTimed(n) ELSE n \in words[i].modes /\ n # Every}
    IN n \in GenModeMask(words) <=> says # {} /\ ~words[Max(says)].not

\* Team kills are judged by a rule for the mode than which none is narrower.
KickSound(kicks) ==
  \A n \in ModeNumbers :
    LET fit == {i \in DOMAIN kicks : MTimed(n) /\ n \in kicks[i].modes}
        k == TeamKillKick(kicks, n)
    IN IF fit = {} THEN k = 0 ELSE k \in fit /\ \A i \in fit : ~NarrowerKick(kicks[i], kicks[k])

\* An entry of "*" leaves the other entries the modes they name, and only
\* modes that make a map are played without one.
RotationSound(rots) ==
  \A i \in DOMAIN rots.list : LET mask == CalcModeMask(rots.list[i], rots.exclude)
                              IN /\ rots.list[i].map = "" => \A n \in mask : Check(n, {"edit"})
                                 /\ Every \in rots.list[i].modes =>
                                      \A j \in DOMAIN rots.list : Every \notin rots.list[j].modes => mask \intersect rots.list[j].modes = {}
=============================================================================
