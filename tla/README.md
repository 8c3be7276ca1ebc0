# A verification project for spaghettimod

spaghettimod is a Cube 2: Sauerbraten game server: the vanilla C++ server (`engine/`,
`fpsgame/`, `shared/`, a patched `enet/`) with Lua scripting bolted on (`spaghetti/`,
`script/`).  This directory holds TLA+ models of it, the TLC configurations that check them on
small instances, and proofs that TLAPS checks for every instance.

All paths below are relative to the repository's `src/`.

1. [The system](#the-system)
2. [Modules](#modules)
3. [Sessions](#sessions)
4. [Combat and Lives](#combat-and-lives)
5. [Match and Rotation](#match-and-rotation)
6. [Modes: flags, bases and skulls](#modes-flags-bases-and-skulls)
7. [Bots](#bots)
8. [Broadcast](#broadcast)
9. [ENet: peers and channels](#enet-peers-and-channels)
10. [Later and Timers](#later-and-timers)
11. [Algorithms](#algorithms)
12. [Runs](#runs)
13. [Where code and expectations part](#where-code-and-expectations-part)
14. [Proofs](#proofs)
15. [What is not modelled](#what-is-not-modelled)
16. [Plan](#plan)

## The system

The server is one thread.  `engine/server.cpp: serverslice` runs for ever: it reads the master
server socket and the UDP information socket, calls `server::serverupdate` (timers, the event
queues of the game, bots, intermission), services the ENet host (which yields CONNECT, RECEIVE
and DISCONNECT events) and sends the world state.  There are no locks and no threads: what is
hard is the *order* in which timers, messages, disconnections, answers of the master server and
Lua hooks come, and that almost every handler may disconnect a client while somebody up the
stack holds a pointer to it.

| component | state | operations | talks to | model |
|---|---|---|---|---|
| client sessions (`engine/server.cpp`, `fpsgame/server.cpp`) | slots `clients[]`, `peer->data`, `connects`, `clients`, each `clientinfo` | ENet CONNECT/DISCONNECT, `N_CONNECT`, the 15 s timer, `disconnect_client`, flood control | ENet, master link, all of the game | `Sessions` |
| administration | privileges, `mastermode`, `allowedips`, `bannedips`, `gbans`, `gamepaused` | claim and give master, master mode, spectator, kick, authenticated kick, bans, pause | sessions | `Sessions` |
| master server link | `mastersock`, its buffers, `nextauthreq`, `authreq` of each client | `reqauth`, `confauth`, `chalauth`, `succauth`, `failauth`, `addgban`, `cleargbans`, loss of the link | sessions | `Sessions`, `MasterLink` |
| combat (`fpsgame/server.cpp`) | `gamestate`, event queue, `timesync`, `gameoffset`, projectiles | `N_SHOOT`, `N_EXPLODE`, `N_SUICIDE`, `N_TRYSPAWN`, `N_SPAWN`, `processevents`, `flushevents`, `dodamage` | items, match, modes | `Combat` |
| items | `sents`, `notgotitems` | `loaditems`, `N_ITEMLIST`, `N_EDITENT`, `pickup`, timers | combat | `Combat`, `GameRules` |
| match control | `gamemode`, `gamelimit`, `interm`, votes, `maprotation`, scores, demos | vote, map change, intermission, overtime, pause, recording | everything | `Match` |
| bots (`fpsgame/aiman.h`) | bot slots, `ownernum`, `bots` of each owner | add, delete, reassign, balance | sessions, combat | `Bots` |
| game modes (`ctf.h`, `capture.h`, `collect.h`) | flags, bases, skulls | take, drop, return, score, timers | combat | `Modes` |
| world state broadcast | `worldstate`s shared by packets, clipboards, maps being sent | parsing, `buildworldstate`, `cleanworldstate`, `sendclipboard` | ENet | `Broadcast` |
| ENet (`enet/`) | peers, lists, cookies; channels, windows, queues | handshake with the cookies of this fork, disconnection; reliable delivery | network | `EnetPeers`, `EnetChannel` |
| delayed calls (`spaghetti/later.cpp`) | two ordered lists of tokens | `later`, `latergame`, `cancel`, `checkgame`, `cleargame` | Lua, match | `Later` |
| Lua hooks (`spaghetti/`, `script/bootstrap.lua`) | hook groups, fields, tables of clients and scores | add, remove, call, skip, fail; start and end of the process | everything | `Runtime` |
| demos, server information, containers, streams, crypto | | | | `Demos`, `ServerInfo`, `Containers`, `Streams`, `Curves` and others |
| administration scripts, game mods (`script/`) | ban sets, token buckets | event handlers | everything, by hooks | none |

What makes each correct:

- **sessions**: a client number, a peer and a `clientinfo` belong together in every state that
  code can observe; nothing kept by client number outlives the session it was kept for; every
  connection ends up joined or gone.
- **administration**: nobody is left unable to undo a lock or a pause.
- **master link**: a request has exactly one verdict or a refusal, and a verdict reaches only
  the client that asked; lines cross the link whole.
- **combat**: each life ends once and begins by a grant taken up once; a hit hurts only the
  life it was aimed at; the clock a client stamps its events with does not buy it shots.
- **items**: an item that is gone comes back, and two players do not both get it.
- **match**: what clients were told adds up to the match there is; votes, scores and demos are of
  one match; the next match comes.
- **bots**: `ownernum` and the owners' lists agree, and balancing ends.
- **modes**: whoever holds a flag lives and may; who joins sees what the others see; points are
  earned.
- **broadcast and ENet**: buffers live as long as packets refer to them; what is said arrives
  once and in order; the host's books are right.
- **later**: a call runs once, unless cancelled, and never before its time.
- **algorithms**: what is put away is found again, what is sent is read as it was sent.

`PROJECT.json` lists forty hazards, each at the line where it bites, and the properties that would
catch it, or why none does.

## Modules

| module | what it is |
|---|---|
| `Sessions` | slots, peers, lists, joining, authentication, privileges, kicks and bans, and the master server link |
| `MCSessions` | its instances `SessionsAuth.cfg`, `SessionsJoin.cfg` |
| `SessionsProofs` | theorems about `Sessions` |
| `Lives` | what players are promised about their lives (abstract) |
| `Combat` | event queues, clocks, shots, deaths, spawns, spectating, map changes, one item |
| `MCCombat` | its instances `CombatFights.cfg`, `CombatFire.cfg` |
| `CombatProofs` | theorems about `Combat`: lives and items, then shots and hits |
| `Rotation` | the map rotation, as a list and a place in it |
| `Match`, `MCMatch` | votes, teams, scores, intermission, overtime, pause, recording, and what clients are told; its instance `Match.cfg` |
| `Players` | what the game modes see of players |
| `Flags`, `Bases`, `Skulls` | the three modes, each the server's state and the copy clients keep |
| `Modes`, `MCModes` | players and the mode in play, composed; its instance `Modes.cfg` |
| `ModesProofs` | theorems about `Modes`: its flags, what clients are told in all five modes, then the counts of skulls and of players in bases |
| `Vectors` | the vectors of `shared/tools.h` as sequences, for modules that are proved about |
| `Bots`, `MCBots` | bot slots, owners, migration, team balancing, reassignment; its instance `BotsOwners.cfg` |
| `VectorProofs`, `BotsProofs` | lemmas on vectors; theorems about `Bots` |
| `Broadcast` | parsing packets, queues per speaker, updates, clipboards, maps; `Broadcast.cfg` |
| `BroadcastProofs` | theorems about `Broadcast` |
| `EnetPeers` | ENet's peer table, handshake, cookies, disconnection; `EnetPeers.cfg` |
| `PeersProofs` | theorems about `EnetPeers` |
| `EnetOrder` | what a channel promises (abstract) |
| `EnetChannel`, `MCEnetChannel` | one channel between two ends; its instance `EnetChannel.cfg` |
| `Timers` | what scripts are promised about delayed calls (abstract) |
| `Later` | the lists of delayed calls, their checks, cancellation and clearing; `LaterCalls.cfg` |
| `LaterProofs` | theorems about `Later` |
| `Containers` | vectors, sorting, heaps, hash tables, queues, union-find (`shared/tools.h`) |
| `RangeCoder` | ENet's packet compression (`enet/compress.c`) |
| `BigInts`, `Curves` | numbers, field and curve of the challenges (`shared/crypto.cpp`) |
| `Wire` | buffers, integers, strings, formats, relayed packets, masks (`shared/tools.*`, `sendf`) |
| `MasterLink` | the buffers and retries of the link to the master server |
| `Streams` | paths, packages, compressed files, UTF-8, who owns a stream (`shared/stream.cpp`) |
| `GameRules` | items, damage, mode masks, rotations from text, team scores, names, edits |
| `Demos` | the demo file and the list of demos |
| `ServerInfo` | replies to pings and extended queries (`extinfo.h`) |
| `Throttle` | ENet's throttling and sharing of bandwidth |
| `Messages` | the tables of message types and the parser's course through a packet |
| `Runtime` | hooks, hook groups, Lua tables of objects, variables, process, clock, packets' references |
| `Algorithms` | uses each of these, from `Containers` on, step by step; `Algorithms.cfg` |

`Combat` implements `Lives` under the refinement mapping `L` at its end, `Later` implements
`Timers` twice, under `A` and `G`, for the clocks of the server and of the game, and `EnetChannel`
implements `EnetOrder` (`Promise`).  `Modes` composes the three modes with their players.
`Sessions`, `Combat`, `Match`, `Bots` and `Modes` share map changes, spectating and departures: each
models what those do to its own state, and takes their coming from the others as
nondeterministic.

A definition whose comment begins "Wrong on purpose" is a plausible bug of the definition that
follows it.  No action uses it; putting it in that definition's place must break the property
`PROJECT.json` names, which shows that the property depends on the code.

History variables, which no code keeps, are named as such where they are declared.  An action's
guard reads one only to bound an instance.

## Sessions

| in the model | in the code |
|---|---|
| `peerstate`, `peerdata` | `ENetPeer::state`, `peer->data` |
| `slotinfo`, `slotpeer` | `client::info` (`NoInfo` for `ST_EMPTY`) and `client::peer`, by client number |
| `num`, `ip`, `priv`, `spec`, `connectauth`, `auth` | fields of a `clientinfo`, an element of `Infos` that is never reused |
| `connects`, `clients` | the vectors of these names, as sets |
| `mastersock`, `mreq` | the link to the master server and what it has been asked |
| `mastermode`, `allowedips`, `bannedips`, `gbans`, `gamepaused`, `mp` | the globals, `m_mp(gamemode)` |
| `overdue` | `connectmillis`: connections up to this one are older than 15 seconds |

Each event, handler and timer is an action: `ConnectEvent`, `DisconnectEvent`, `Connect`
(`N_CONNECT`), `Ages`, `JoinTimeouts`, `Misbehave` (every path to `disconnect_client` in the parser),
`AuthTry`, `AuthKick`, `AnswerLocal`, `AnswerMaster`, `AnswerStale` (`N_AUTHANS`), `Kick`,
`TeamkillKick`, `ClearBans`, `BanExpires`, `ClaimMaster`, `GiveMaster`, `MasterMode`, `Spectator`,
`PauseGame`, `ChangeMap`, and the master server's `MasterUp`, `MasterDown`, `MasterChallenge`,
`MasterVerdict`, `MasterGban`, `MasterClearGbans`, `Register`.

`Disconnect(N, ...)` is the whole of `disconnect_client` for a set of client numbers.
`kickclients` and `verifybans` call it in a loop, in which each call changes what the next one
sees; the model takes the loop as one step, which gives the same result, because privileges only
fall during the loop and `Settle` depends only on who is left at its end.

Abstractions.  Time: a timer other than the join timer may fire whenever what it waits for
exists.  Addresses are elements
of a set, without masks (those are in `Wire`).  Keys are the privileges they carry, and an answer
is right or wrong.  `auth[i].target` is a history variable.  The dedicated server has no local
client.  Lua hooks are taken not to be installed.  The request number that an unknown key name
uses up on `N_CONNECT` is not counted.

Properties.  `LinksMatch` (`ListsMatchSlots` and `PeersMatchSlots`): no list, slot or peer keeps a
pointer to something deleted.  `AuthKickNamesSession`: a pending authenticated kick names the
session it was asked for although its client number may have been given away since.
`AnswersPending`: a client that waits for the master server waits for something that can come,
and nobody else can get its verdict (`AuthRequestsLive`); a connection in connect-time
authentication has a challenge to answer (`ConnectAuthPending`).  `AuthorityKept`
(`LockedNeedsMaster`, `PausedNeedsAuthority`): nobody is locked out or paused for good.
`JoinResolved` (liveness): a connection joins or goes.  `JoinTimeouts` is the whole of one walk
over `connects`, which removes elements as it goes and so passes over the one behind each that it
drops (`Visited`): with several overdue at once some wait for the next slice, and a walk that
never reached the last element would leave it for ever (`VisitedShort`).

Fairness.  `FairSpec` asks that time pass (`Ages`) and that `serverupdate` walk over `connects`
again and again (`JoinTimeouts`), of no particular connection, client, peer or the master server.

## Combat and Lives

A client's shots, explosions, suicides and pickups are queued, stamped with the client's own
clock; `processevents` flushes each queue up to the present, and `N_TRYSPAWN` flushes the queue of
a dead player up to its `deadflush`.  One shot may hit several players, and every hit may kill.

| in the model | in the code |
|---|---|
| `clients` | the vector of joined clients, in order |
| `gs[p]` | `gamestate`: `state`, `health`, `lastdeath`, `deadflush`, `lastspawn`, `lifesequence`, `ammo`, `lastshot`, `gunwait`, `rockets` (`projectilestate`), `deaths` |
| `events[p]`, `synced`, `lastevent[p]` | `clientinfo::events`, `timesync`, `lastevent` |
| `sent`, `notgotitems` | one element of `sents`; whether the list is known |
| `job`, `landing` | what is left of a flush, of the hits of the shot being processed |
| `past[p]`, `taken`, the fields `life` and `aimed` | history |

A flush is one call in the code and several steps in the model: one per event, one per hit.
Nothing else is enabled meanwhile (`Idle` guards every handler), so that the steps cannot
interleave with anything; they only keep formulas short and let properties see each hit.
`N_TRYSPAWN` with a `deadflush` is `TrySpawn`, a flush, `EndTrySpawn`.

A client's clock.  `geteventmillis` trusts the client's clock except after a silence, when the
next event is taken to happen now.  `gameoffset` is not kept: once synchronised, any stamp in
`0 .. MaxTime` may come, which is what an arbitrary client can send.

Abstractions.  Armour, quad damage, distances: a hit takes any of `Damage`, chosen when it lands
(`GameRules` has the arithmetic).  Guns that use no ammunition (the fist) are left out, as are edit
mode, bots, flags, bases and skulls (`smode` is `NULL`), team scores and team kill counting,
`restorescore`'s restored deaths, and the checks for modified maps.  A privileged spectator keeps
`hasmap` from rotating a finished game; privileges are not in this module, so `MayRotate` offers
both.  The item is one that adds health.  No time passes on an empty server, `UpdateEmpty`.

`Lives` says what all that amounts to for a player: `gone`, `spectator`, `dead`, `granted` (a
spawn was sent, `lastspawn >= 0`), `alive`; spawns and deaths are counted, and each life ends once.
`ImplementsLives` is the refinement.

Properties.  `LivesEndOnce`: spawns minus deaths is 1 for the living and 0 for all others.
`HitsAimedLife`: damage lands on the life it was aimed at.  It is stated for hits of the same
session less than `LifeMod` lives old: `lifesequence` is a counter of seven bits that starts anew
in each session, so a hit delayed by exactly 128 lives, or over a departure, is beyond what the
code tells apart; `CombatFights.cfg` has a `LifeMod` of 2 and two sessions, so that both occur.
`FireHeld`: a queue never holds a shot of an earlier life once a spawn is granted
(`ShotsOfThisLife`), and the shots of a life fit into the time since its grant, whatever the
client's clock (`FireRateHeld`).  `LifeIsFresh`: a living player has health, no unused grant and
nothing to flush.  `ExplosionsWereShot`: explosions never outnumber rockets shot on this map.
`ItemReturns`: an item that is gone has a timer, and is taken once before it is back.  (One that is
there may have a timer as well, after an `N_ITEMLIST` that names it twice.)

`FireRateHeld` is stated for lives in which the queue lost nothing (`past[p].lost`).  `addevent`
throws away the 102nd event after `geteventmillis` has already marked the client as synchronised,
and explosions kept over a spawn can fill a queue: without the condition, `QueueLimit = 1` and
`MaxEvents = 3` show a player whose clock was never synchronised in this life.

## Match and Rotation

`Match` has the course of a match: its clock, overtime when teams or players are even, the
intermission and the map that follows it, votes (with the veto of master mode 1), forced maps,
teams drawn and kept, scores saved when a player leaves and restored when one comes back, team
killers, maps that differ from the server's, the pause, the speed, demos, and what each client
was told of all that.

| in the model | in the code |
|---|---|
| `cl[c]` | a `clientinfo`: connected, team, privilege, state, vote, score, whether its map was checked |
| `g` | the match: mode, map, `gamemillis`, `gamelimit`, `interm`, `gamepaused`, `curmaprotation`, `scores`, `teamkills`, the demo in progress, the number of demos kept |
| `told[x]` | what the messages sent to client `x`, or written to the demo, add up to; the client's side is external |
| `cl[c].newmap` | an `N_NEWMAP` of the client waits in `messages` for the next world state |
| `hist` | history: votes cast, departures, team kills of this match, a new map that went unsaid |
| `tick` | flips at each `serverupdate`; the fairness condition names it |

Server functions are operators from one state to the next, composed as the code calls them:
`serverupdate` is the one action `Update`, which expires the match, checks votes, counts down the
intermission and changes the map in the order of the code.

Properties.  `ToldAgree`: what the messages a client got add up to, from its welcome on, is the
match as the server has it, and so for a demo, which begins with a welcome of its own.  One thing
is later or never: an editor's `N_NEWMAP` changes the server's map at once, but is only queued with
the editor (`QUEUE_MSG`) for the others.  They hear of it with the next world state (`SendWorldState`; a
vote that changes the map sends one first), and if the editor leaves before that, not at all: they
stay on the old map until the next.  The invariant says exactly that, with `hist.lost`.
`OfThisMatch`: votes counted, demos and the verdict on a player's map are of the match in
progress.  `RecordsKept`: a player who comes back within a match has the score it left with, and
one that killed too many of its team is gone after the next update, by whatever connection it
came back, unless it is an admin by then (a lesser privilege only keeps later team kills from
being counted).  `MatchGoesOn` (liveness): an intermission ends in the next match,
unless the game is paused or nobody is left.

Fairness.  `WF_tick(Tick)`: the loop of the server calls `serverupdate` for ever.  Nothing is asked
of players, who may vote, leave and pause at any time.

Left out: demo playback (no remote client can ask for it), custom team names and `MAXTEAMS`,
scripts that override a step.  Seen: the check for a majority runs when a vote is cast and not
when a voter leaves; a `prechangemap` hook that refuses leaves `interm` at -1, so that the match
stays over without a next one; `autoteam` stops as soon as the team it draws for is ahead; shots
still queued when a player dies are fired by its `N_TRYSPAWN`, and kill in a pause and after the end
as well.  `MaxTurns` is too small for a player who sends its map's crc as a spectator and plays then.

## Modes: flags, bases and skulls

`Players` is what a mode sees of players: state, team, the place they are at, skulls carried.
`Flags`, `Bases` and `Skulls` are the hooks of `ctfservmode`, `captureservmode` and
`collectservmode` (`entergame`, `leavegame`, `spawned`, `died`, `moved`, `changeteam`, `update`,
`initclient`, `setup`, `parse...`), each an operator from the mode's state to the next, together
with the client's handlers in the same headers, which keep the copy `m.seen`.  `Modes` calls them
where `fpsgame/server.cpp` calls `smode`, for five modes: `ctf`, `protect`, `hold`, `capture`,
`collect`.  Times are in ticks; being at a place stands for being near enough to it.

Properties.  `ViewsAgree`: who joins now is told (`initclient`) what the others have put together
from the messages so far, but for the flags of protect that a client listed (`Mislaid`, see `ctf.h:519`
below).  `HoldersAlive`: a flag is carried by one living player, who carries no
other and whose side may carry it.  `PlacesCounted`: a base counts no owner and no enemy who is
not a living player in it (`NoGhosts`), and skulls are within the limits (`SkullsBounded`).  `FlagsEarned`: a point in hold
needs the flag in one team's hands for `HOLDSECS`, however often it was dropped (`HoldEarned`), and
who killed the carrier of its own team cannot take that flag while it lies
(`TeamKillerBarred`).

`NoGhosts` allows a base as many more as `stealbase` once counted out of bounds (`strays`, history): it counts
the players of a team in a base whether or not they are out of bounds (`gameclip`), who are in no base for
all other hooks.  `b.owners` may count fewer players than own a base; `takeflag` and the deposit of
skulls are not stopped at the end of the match.

## Bots

The server keeps bots but does not simulate them: each has an owner among the clients, who has it
in `clientinfo::bots` and is told so by `N_INITAI` (`aireinit` is 2 until then).  When an owner goes or
may own no more, `removeai` moves its bots one by one to whoever has the fewest.  Every change
sets `dorefresh`, and the next `checkai` balances teams, removes bots nobody owns, tells owners and
evens out the load.

| in the model | in the code |
|---|---|
| `clients`, `spectators`, `privileged`, `warned`, `team` | the vector `clients` without bots, and fields of its elements |
| `bots[b]`, `owned[h]` | `bots` with `ownernum`, `aireinit`, `team`; `clientinfo::bots` |
| `dorefresh`, `botbalance`, `botlimit` | the globals |
| `phase`, `teams`, `reassign` | where `checkai` is; the local vectors of `balanceteams` |

`checkai` is one call, taken apart so that each move of a bot is a step (`Balance`, `ReinitAi`,
`ReassignAi`); nothing else is enabled until it ends.  `GiveUp` is `removeai` as a whole, `Become` the
`dorefresh` that goes with every `shiftai`.  Who joins, spectates, is warned, claims or loses a
privilege or switches teams is any client at any time: `Sessions` and `Combat` say when.  A claim
that takes the privilege of others is a `Claim` and a `RevokeMaster`.  A new map may come with a
join or with the end of spectating (`rotatemap`); `autoteam` and `chooseworstteam` give any default
team.  Left out: `smode`, local clients, hooks, names and skills.

Properties.  `OwnersKept`: `ownernum` and the owners' lists say the same (`OwnersAgree`); whoever
owns a bot is there and may own it (`OwnersValid`); a bot without an owner, or one whose owner has
not been told, never waits without `dorefresh` (`PendingRefreshed`).  `OwnersBalanced`: with no
refresh pending, no player has two bots more than another; spectators are excepted, because
`setmaster` makes a spectator a possible owner without asking for a refresh.  `RefreshEnds`
(liveness): `checkai` ends.

Fairness.  `FairSpec` asks weak fairness of `Refresh` alone, the steps of one call of `checkai`.
`CheckAi` gets none: a paused or finished game does not call it.

## Broadcast

While packets are parsed, what a client says for itself or for a bot it owns (`N_FROMAI`) is queued
with its speaker; every 33 ms `buildworldstate` writes all queues into one buffer, twice over, and
sends each client the window of it that leaves out what is its own.  The packets only point into
that buffer, so that it must live until ENet has sent the last of them.

| in the model | in the code |
|---|---|
| `position`, `messages`, `reliablemessages` | the fields of `clientinfo`, by speaker |
| `worldstates`, `queue` | `worldstates` with `uses`; packets in ENet's queues, per buffer |
| `reading` | `parsepacket`: sender, `cq` and `cm`, what became of `cq` unchecked, whether the packet is reliable |
| `master` | clients with a privilege: at first one that watches, which may resign |
| `clipboard`, `behind`, `getmap` | `clipboard`, `lastclipboard` against `needclipboard`; `getmap` and the map's packet |
| `heard`, `seen` and the like | history: what listeners, and the demo, got |

Properties.  `Relayed`: each listener hears of each speaker it does not own everything once and in
order, reliably if it came so, and a paste only with its clipboard; and it sees positions and
jumps in the order they were made.  `BuffersHeld`: a buffer is kept exactly as long as packets
point into it, and a map counts as being sent exactly while it is.  `SpeaksForOwn`: a packet speaks
for its sender or a bot it owns at that moment, also when an earlier message of it had bots given away
and looked at `cq` again after that (`N_SPECTATOR`, `N_MAPCRC`, `N_TRYSPAWN`).

Not every message looks.  A privileged client that watches keeps its bots, and loses them when it resigns
(`N_SETMASTER`, `revokemaster`); bots are deleted by `N_DELBOT` and by a change of the map
(`N_MAPVOTE`, or `N_SPECTATOR` when nobody was left to play).  After these, `cq` of the packet is a bot of another
client, or one that was deleted, until the next `N_FROMAI` or check; `reading.fate` says so, and the property
excepts just that: it does not hold of the code without the exception.  What is said for a bot given away
goes out as the bot's; nothing is modelled of what is said for a deleted one, and a check made of it may
have either result.

The map is taken to be open for editing.  Exceptions that `Relayed` states: a paste that flushes the
queue clears `reliablemessages`, so that the paste and what follows it in the same packet go out
unreliably.  Seen: messages queued for a bot whose owner changes travel with the new owner, so
that the old one hears them and the new one does not; a bot left without an owner keeps its
messages and forgets that they were reliable; a map that is sent before its packet is kept leaves
`getmap` NULL and may be asked for again; the flood check disconnects and does nothing else.
When updates happen is left open (the 33 ms).  The update that a vote makes in the middle of a packet
is left out, as the change of the map that follows it is.  Uploading a map is not modelled.

## ENet: peers and channels

`EnetPeers` is the host: the peer table with its lists of idle and busy peers, the handshake with
and without the cookies of this fork (`script/load.d/100-connetcookies.lua` turns them on),
refusals, session numbers, the three ways to disconnect, timeouts and the events the application
gets.  The network keeps every datagram for ever, so that it can be lost, repeated, delayed and
overtaken.  `EnetChannel` is one channel: the sender's queue, transmission, acknowledgement,
timeouts, the windows of sequence numbers, fragments, unsequenced groups, and the receiver's
queues; it implements `EnetOrder`, what `enet.h` promises.

Properties.  `EventsPaired`: the application hears once of a connection and once of its end.
`Agreed`: two ends connected under one connect id address each other with the sessions the other
expects, whatever arrives late or twice.  `HostAccounts`: lists, `connectedPeers`,
`bandwidthLimitedPeers` and the cookies are counted right: `connectsWindow` is the number of places,
`connectsInWindow` no less than the live cookies.  A `goto retry` leaves `cookie` where the last draw
collided, so that a retry that comes to a peer without a table overwrites that other client's cookie
(`protocol.c:356-375`, `546`, `579`): both handshakes are lost, their acknowledgements find no cookie
of theirs, and the clients, connected on their side, time out.  The model does the same and marks such a cookie
(`stray`); the counts hold with them, but one is not where its time and session say, so that
`CookiesAccounted` asks that of the others alone.  `ShutdownEnds` (liveness): a peer on its
way out gets free again.  `SenderKeeps`: window counts follow the commands in flight, a reliable
packet stays with the sender until the receiver has it, and a sender that waits has something to
wait for.  `Contract`: order, at most once, no reliable packet overtaken.

Fairness of `EnetPeers`: each end goes on sending, dispatching and timing out, as
`enet_host_service` does each time it is called; nothing is asked of the network.

Left out: sockets, checksums, MTU negotiation, several channels at once, fragments' data.  Seen:
unreliable commands that
`enet_peer_remove_incoming_commands` drops are freed without taking them off `totalWaitingData`,
which counts them until the peer is reset; an unsequenced packet
that is throttled can make a following reliable command numbered 0 after a wrap be dropped;
`enet_host_broadcast` and `enet_host_bandwidth_throttle` visit the first peers of the idle list
instead of the busy ones (`Throttle` has whom they visit as a parameter); in
`enet_protocol_handle_acknowledge` `duplicatePeers > host->duplicatePeers` can never be true; the path for
a socket of its own is unused.

## Later and Timers

A script asks for a Lua function to be called after some milliseconds, once or repeatedly, of the
server's clock (`later`) or of the game's (`latergame`).  Each kind has a list in the order of
`when`; `check` runs what is due, and the function may do anything meanwhile: ask for calls,
cancel any of them or itself, change the map, fail.

| in the model | in the code |
|---|---|
| `lists["abs"]`, `lists["game"]` | the two `std::forward_list<latertoken*>` |
| `token[t]` | the `latertoken` at address `t`; `Free` once it is deleted |
| `longtotalmillis`, `gamemillis`, `currentlambda` | the globals |
| `slice`, `now` | where `serverslice` is; what `check` was given |
| `earlier` | history: which of two calls of a list was inserted first |

A check is one call in the code and several steps here, as what a call does (`NewLater`, `Cancel`,
`ChangeMap`, guarded by `LuaRuns`) comes between `Call` and `Return` or `Fail`.  The same actions
stand for handlers of events while `slice = "events"`.  Unsigned arithmetic is modulo `Word`,
2^64 in the code; the instance takes 256, which exceeds every time it reaches, so that a wrap
can only come from a negative difference, as in the code.

`Timers` says what that amounts to: a call runs neither before it is due nor out of turn, calls
due together run in the order they were asked for, a repeated one is due again after its period,
a cancelled or cleared one never runs again.  Time does not pass while a call is overdue.
`TimersKept` is the refinement, for both lists, whichever calls change the map.  A call of the
game's clock that does starts that clock again while `check` goes on with the time it was given
(`Restarted`): for the rest of that check, and no longer, the property lets calls of the game start
before their time (`Timers`' `Start` instead of `Run`), and still asks that they keep their order,
run once, and not when cancelled.

Properties.  `Owned`: each call in use is in one place of the list of its kind or is the one that
runs, so that nothing is freed twice or left on a list.  `NoOversleep`: the difference of unsigned
times in `maxhang` never wraps.  `CallsRun` (liveness): checks end although calls repeat, and no
call is lost, unless calls of the game's clock go on changing the map and asking for others, each of
which runs at once (`<>[]Restarted`).

Fairness.  `FairSpec` asks weak fairness of `Call`, `Return`, `Service` and `Slice`: the loop of
`check` goes on, Lua functions return (one that does not stops the whole server), and
`serverslice` is called for ever.  Nothing is asked of scripts.  `CHECK_DEADLOCK FALSE`, because
the clock stops at `MaxTime`.

Left out: calls with an infinite delay (on no list), what runs at exit, and the hooks a map change
calls between clearing the list and restarting the clock.


## Algorithms

Where the code computes rather than reacts, the model is a module of operators translated from
it, and `Algorithms` sets work for each: a `unit` is chosen at the start, its inputs are built up
step by step (`Feed`, `Grow`, `Use` and the like), and the four properties compare what comes out
with a definition that says what the code is for.

| module | code | what is compared |
|---|---|---|
| `Containers` | vectors, `quicksort`, heaps, hash tables, queues, union-find | with sets, sequences and maps: nothing lost, order where promised |
| `RangeCoder` | `enet_range_coder_compress`, `..._decompress` | every packet comes back, or does not compress |
| `Wire` | `putint`, `getuint`, `sendstring`, `sendf`, `filtertext`, `ipmask`, roster and undo packets | what is read is what was written, also when the buffer ends |
| `MasterLink` | the two buffers, `connectmaster`, retries | lines arrive whole and in order however the socket cuts them |
| `Streams` | `path`, `findfile`, packages, gzip, UTF-8 text | the byte at each place; which file wins; who closes what |
| `GameRules` | items, `dodamage`, mode masks, names, item lists, `extinfo` texts | rules as the comments and tables state them |
| `Demos` | reading, writing, the list of demos | every packet plays back at its time |
| `ServerInfo` | `serverinforeply`, `extserverinforeply` | a reply answers its request |
| `Throttle` | `enet_host_bandwidth_throttle`, packet throttle | shares add up to the limit |
| `Messages` | `checktype`, `msgsizelookup`, the parser's course | only the right messages at the right time, sizes as the table has them |
| `Runtime` | hooks, groups, extras, variables, process, clock, packet references | what was added is called once, what is released is released once |
| `BigInts`, `Curves` | `bigint`, `gfield`, `ecjacobian`, challenges | field and group laws; the holder of the key answers and the answer is right |

`StoresKeep` covers containers, files, demos and Lua's tables; `MessagesPass` packets, lines and
hooks; `KeysOpen` the challenges; `RulesKept` rules, variables, clock and process.  Constants of
the code (buffer sizes, digits, tables, the curve) are constants of the modules and small in
`Algorithms.cfg`: a curve over a field of a few thousand elements with a group of prime order
4099, digits of two bits, buffers of a dozen bytes, so that every boundary is met.

What reading this code and these runs showed, besides what the properties say:

- *Numbers.* `gfield::reduce` may leave a product that is congruent but not below `P`, with
  probability around 2^-64 (`crypto.cpp:491`); `neg(0)` is `P`.  `bigint::lshift` is wrong for
  several digits and unused.  A challenge that is a multiple of the order is excluded; the Tiger
  hash is not modelled.
- *Containers.* `queue::add` on a full ring does not move the head, `queue::reserve` on one
  overwrites; `replacewithlast` drops the last element also when the other is absent; `unite`
  raises the rank of the child.  Rings, heaps and union-find are unused by the server.
- *Wire.* `putuint` is exact for -2^28 <= n < 2^28.  `packetbuf`'s copy constructor loses the
  length (reached from Lua only).
- *Streams.* A compressed file that seeks backwards while its buffer holds the beginning also moves
  the file to the header (excluded in `GzKeeps`); `gzstream::size` moves to the size as if
  uncompressed.  `path` mishandles empty components.  `utf8stream`, unused by the server, loses a
  letter cut by the end of its buffer and decodes bytes twice when they fill it (the exceptions
  of `TextReads`); a file of three bytes or fewer without a mark reads as empty.
- *Master server.* A failed lookup leaves `lastupdatemaster` set, so that the next attempt comes
  after an hour and not five minutes; a client's request may meanwhile connect without registering.
- *Rules.* Green armour taken over a little yellow can shorten a life that has less than full
  health, so the property is stated from 100.  An item list that names an item twice can set both
  `spawned` and `spawntime`.  `N_EDITENT` tests only the upper end of the index it is sent
  (`server.cpp:3569`): an item below the list is written in front of it.  `EditEnt` leaves the list
  open after that (`Astray`), and `EditsSound` claims nothing of it.
- *Messages.* `N_SENDMAP` on channel 1 and `N_REQAUTH` have no handler and end in the message error;
  `N_TELEPORT`, `N_JUMPPAD` and `N_CLIPBOARD` have no size.  The default case, "spaghettimod should
  never execute this", is indeed never reached.
- *Process.* Every `clientinfo` must be deleted while Lua is open, which `fini` sees to;
  `later::fini` runs before the last clients are dropped, so that calls asked for in their hooks
  are never freed.  `extra::operator=` on itself loses the table.  A hook group that becomes empty
  is dropped, and a new one of that name is not visited by a traversal under way.

Seen while reading and not modelled: `N_DIED` and `N_SPECTATOR` are sent at once while `N_SPAWN` and
`N_EDITMODE` wait for the world state, so that they can overtake; `N_SETTEAM` tells all and calls
`aiman::changeteam` also when `canchangeteam` refused.

## Runs

All twelve pass.  Bounds are constants with values in the `.cfg` files.

| run | question | bounds | states |
|---|---|---|---|
| `sessions_auth` | do links, kicks, answers and authority survive any order of events | 2 peers, 3 sessions, 1 request, 1 address | 816 392 |
| `sessions_join` | does each connection join or go | 2 sessions, 2 addresses, a server for 1 | 279 272 |
| `combat_fights` | does each life end once, is each hit for the life it was aimed at | 2 players, 2 lives, 2 sessions, `LifeMod` 2, 1 event in each queue | 1 918 110 |
| `combat_fire` | do clocks buy shots; do fights implement lives | 1 player, rockets, pause, spectating, teams, 2 events, a map change | 199 294 |
| `later_calls` | do delayed calls run as promised | 3 calls, delays 1 and 2, clock up to 4 | 405 627 |
| `bots_owners` | do owners and bots agree, does balancing end | 2 humans, 3 bots, 2 teams | 687 212 |
| `enet_peers` | do connections begin and end once | 1 client, 2 peers, 2 connects, ratios 10 and 50 % | 266 209 |
| `enet_channel` | does a channel keep its contract | numbers modulo 18, windows of 2, four scenarios | 263 604 |
| `modes` | do views agree, are points earned | 3 clients in hold, 2 in the others, 2 places, one of them with players out of bounds, lists from files or clients, times up to 3 | 934 326 |
| `match` | do told and true match agree, does the next one come | 2 clients, rotation of four, 2 matches | 199 833 |
| `broadcast` | does each hear each once, in order | 3 clients, 1 bot, buffer sections of 5, 3 messages | 1 082 305 |
| `algorithms` | do the computations compute | see `Algorithms.cfg` | 374 983 |

Why the bounds are enough.  *Sessions*: two peers make client numbers change hands, the third
session is the newcomer that a kick must not meet, and one request is enough for it to be asked,
lost with the link and answered late.  *Combat*: a counter of two lives and two sessions make
`lifesequence` meet itself; `QueueLimit` 0 makes the queue overflow at the second event.
*Later*: three calls are one that runs, one due with it and one it cancels or makes.  *Bots*: three
bots over two owners are uneven, and moving one makes them uneven the other way.  *EnetPeers*: two
peers for one client, with a second connection, give every overtaking of an old handshake by a new
one.  *EnetChannel*: 18 numbers are three times the free windows, so that numbers wrap within a
run.  *Modes*: the third client is the one who joins and must be told; a holder, its killer and a
team mate need three.  Maps of hold, capture and collect have their lists from clients only (`FromFiles`), which is the
later of the two times they may come; the theorems have both.  *Match*: the rotation has a match of each kind, one of them a map to be
made.  *Broadcast*: a speaker, a listener, one who arrives; a bot that changes owners needs two.
Where a case needs more (three teams for the slip of `balanceteams`, 128 lives), it is said at
the component above or below.

Symmetry is used where clients or peers are interchangeable and no liveness is checked
(`sessions_auth`, `combat_fights`, `modes`).  `CHECK_DEADLOCK FALSE` stands where a bound on time or
work stops an instance.

## Where code and expectations part

No run expects a violation: where the code does something else than a reader would expect, the
model does what the code does, the property states the condition under which it holds, and the
place is listed here.

- `later.cpp:69`: `check` goes on with the `now` it was given.  If a call of the game's clock changes
  the map (as `zombieoutbreak.lua:155` does), game time starts again at 0, and calls that the rest of
  the loop, or the new map, ask for are measured against the old time and run at once: the exception
  in `TimersKept`.  A call that changes the map and asks for a call of its kind, with a
  delay below the time of the game it ended, keeps the server in `check` for ever: the exception in
  `CallsRun`.  TLC finds both if the exceptions are taken out.
- `aiman.h:35`: `balanceteams` keeps a reference to the last element of a vector whose elements it
  then swaps.  With two teams nothing is swapped after it; with three, bots 4, 1, 1 become 2, 3, 1:
  the bot joins another team than the one it was counted for.
- `server.cpp:243`: an event that a full queue throws away has already resynchronised the client's
  clock.  Hence `past[p].lost` in `FireRateHeld`.
- `ctf.h:519`: while `parseitems` lists flags, `addflag(i, o, m_protect ? lastmillis : 0)` passes
  the time where the team belongs (`game.h:878` has the parameters), and nothing as `invistime`.  In
  protect a listed flag therefore belongs to no team, nobody can take it, and the server has it visible while the
  clients, who set it up from their own map, have it invisible: `Mislaid` in `ViewsAgree`.
- `capture.h:761`: `stealbase` does not ask for `gameclip`, as every other hook of capture does: `strays` in
  `NoGhosts`.
- `collect.h`: clients remove a skull that is taken; the server's `taketoken` marks it and lets it
  expire.
- `game.h:69`: the comment gives armour 20, 40 and 60 % of the damage; `dodamage` takes 25, 50 and
  75 %.
- `engine/server.cpp:1096`: `setuplistenserver` uses `serverhost` before it checks that
  `enet_host_create` gave one.
- `enet/host.c`, `enet_host_bandwidth_throttle` and `enet_host_broadcast`: the loops run over as many
  idle peers as there are busy ones.
- `enet/peer.c:271`: `totalWaitingData` counts unreliable packets that were dropped.

## Proofs

The proofs are for every value of the constants under the named assumptions: of `Sessions`,
`PeersAssumption` (the peers are finitely many and `NoPeer` is none), `AddressAssumption`,
`BoundsAssumption`, `KeyAssumption`, `ModeAssumption`, `PauseAssumption` (what keys, modes and
the pause can be); of `Combat`, that delays, damage and bounds are numbers; of `Bots`,
`ClientAssumption`, `TeamAssumption`, `LimitAssumption`; of `Later`, that delays and
times are numbers and calls finitely many; of `EnetPeers`, a `PeersAssumption` of its own (the
number of peers is one, clients are no peers of the server, `connectsWindowRatio` is set to 1 to 100, as
`host.c:546` has it, the randoms drawn name a session, a time and a peer, and a table's slots double from `MinSlots` up to `Times`); of `Modes`, `PlayersAssumption`
(clients and places are finitely many, and the number that stands for nobody is no client) and
`FlagsAssumption` (the limits and times of the flags are numbers).

**Sessions.**

- `TypeCorrect`: `Spec => []TypeOK`.
- `AuthorityHeld`: `AuthorityKept` is inductive relative to the types.  One lemma per way to lose
  a privilege, all of which end in `Settle`.
- `LinksHold`: `LinksMatch` needs two more conjuncts to be inductive (`Linked`): `Fresh`, a
  clientinfo in use has been created, so that the next one is new; and `EmptySlotsAlike`, `info` and
  `peer` of a slot are empty together.  All disconnections go through the lemma `DepartsLinked`.
- `NumbersSuffice`: from `Linked` alone, a peer without a session always finds a free slot (a
  pigeonhole argument on the injection from used slots to their peers), so `ConnectEvent` never
  waits for a number.
- `KicksNameSessions`, `AnswersCome`: one invariant `Pending` on top of `Linked`: `Named` (a
  victim's number stands for its target; who is on no list waits for nothing; who is connecting has
  a local request without a victim) and `Requested` (what the master server carries was asked by a
  client that had joined, and all numbers in use are below `nextauthreq`).

**Combat.**

- `FightsImplementLives`: every step of `Combat` is a step of `Lives` or a stutter; one lemma per
  action (`Step...`) says what it makes of the one player it concerns, and `MapChange` what it
  makes of all.
- `LivesEnd`, `LivesAreFresh`, `ExplosionsShot`, `ItemsReturn`: `LivesEndOnce`, `LifeIsFresh`,
  `ExplosionsWereShot`, `ItemReturns`.

They share one inductive invariant, `IInv`, because none of them is inductive alone.  `N_SPAWN`
makes a player alive without looking at its health, so that `LifeIsFresh` needs `Healthy`: whoever
has been granted a spawn, dead or not, has no `deadflush`, and whoever has no `deadflush` has
health.  The grant at the end of `N_TRYSPAWN` comes steps after its guard, so that `FlowOK` keeps
who asked for the flush there, dead and without a grant while it runs.  `Counted` and `Armed` are
the two countings, per player; `PlayersFit` also says that the state of a player who left is
`Blank`, which is what `Lives` calls gone.  `RosterOK`, no player is twice in `clients`, makes
`Leave` remove the player altogether.  `ItemsOK` adds to `ItemReturns` that an item of an unknown
list is not there and has no timer.

- `FireHolds`: `FireHeld`, on top of `IInv`.  The invariant relates the queue, the clock and the
  gun: what is queued has a time within the game (`InTime`), a shot in the queue belongs to the life
  that counts it (`Queue`), the dead have until `deadflush` (`Deadline`), and the time of the next
  shot is paid for (`Paced`): the time since the grant covers the delays of the shots fired, with
  one shot to spare only as long as the client's clock has not been synchronised in this life
  (`SyncOK`).  What a flush has begun and not finished is in `JobOK`.
- `HitsAreAimed`: `HitsAimedLife`, on top of both.  `HInv` says that each hit queued or landing was
  aimed at a session not later than the target's and, if it is the same, at a life not later, whose
  number modulo `LifeMod` it carries (`Aimed`); that `lifesequence` is the number of the life modulo
  `LifeMod` (`Numbered`); and that between two hits of one shot nothing else happens (`LandingOK`).
  That two lives with one number are a multiple of `LifeMod` apart is the lemma `SameNumbers`.

**Later.**  The invariant `IInv` says that the lists are in the order of `when`, and among equals in
that of insertion (`InOrder`); that each call is free, on one list once, or the one running; and that
outside a check nothing is overdue.  `insert`'s place in the list, `erase` and `reverse` are lemmas.
`CallsOwned` and `AwakeInTime` follow; `ServerTimers` is the refinement for the server's clock,
`GameTimers` what `TimersKept` says of the game's, and `TimersImplemented` both, without a hypothesis
about who changes the map.  One lemma for each action serves both lists, `T(k)`: a step is one of the
timers of `k`, leaves them alone, or is `Early(k)`, which needs a `check` that is not `InStep` with
its clock.

**Bots.**  `BotsKept`: `OwnersKept`, from the invariant that adds to it what the loops of `checkai`
rely on.  The lemmas say that `findaiclient` finds one with the fewest bots, that `shiftai` and
`removeai` keep both sides of the relation, that no list holds anything twice, and that sorting
teams gives the teams in some order.  `TypeCorrect` includes the local vectors of `balanceteams`.
`LoadShared`: `OwnersBalanced`, which is inductive over that invariant: `reassignai` ends when whoever
has the most has at most one more than whoever has the fewest, and from then on whatever changes a
list or lets somebody play asks for the next `checkai`.

**ENet's peers.**  `EventsInPairs` (`EventsPaired`) and `HostsAgree` (`HostAgrees`, the half of
`HostAccounts` that is about lists and counts), for any number of peers and clients, from one
invariant, `IInv`; `Accounts` (`HostAccounts`, the cookies included) and `SearchFinds` from that and a
second one, `CInv`.  Its parts are predicates of the record a handler is given and returns
(`Proper`), so that each handler has one lemma wherever it is called: `Goes(s, t, e, st, k)` says that
it takes one peer to state `st` and tells its application of `k` more connections than ends, `Pays`
that `k` is what that change is worth, `Alike` that nothing changed that counts.  `EventsPaired`
alone is not inductive: a pass that sends the acknowledgement of a DISCONNECT makes its peer a
ZOMBIE, an end that is announced, so that who owes one must have been announced (`Parting`);
`on_connect` adds to the counts whatever `HandleVerifyConnect` finds, so that no peer of the server
may be in a client's state (`Serves`); and `enet_peer_reset` looks a peer up in the busy list, where
it must be once (`Listed`).  

That `connectsInWindow` counts every live cookie is not inductive either: each tick takes the count of
the oldest tick off it.  `CInv` says so of every suffix of the ring (`Covers`, with the sums `D` of
`Sums`): the cookies of the last `j` ticks are no more than what these ticks counted.  A step is then a
change of one peer's table (`TableSet`), a tick that only makes cookies older (`LaterCooked`), one that
turns the ring (`ShiftCooked`), or a clean slate (`ClearedCooked`).  The clean-up sweeps the tables of
idle peers and sets `connectsWindow` to 0, so that nobody else may have one (`Stocked`).  Cardinalities
are of sets of pairs, peer and place, so that they add up (`SpreadSwap`).  A table that is doubled
(`Extended`) sends every cookie to the slot of its time: of two that fall together the later stays, and
places hold no more cookies than before.  A retry that ends at a peer without a table stores in the
place before, which is taken, so that its table is there and gains no live cookie (`RetriesEnd`).  From the same invariant, `SearchEnds`: in every reachable state
`handle_connect` divides by `connectsWindow` only when it is not 0, and goes back to `retry` only while
some place is free, so that the search over the randoms comes to an end (`RoomToDraw`: were all places
taken by live cookies, the window would hold as many connects as there are places, which is 100 %, and
the ratio is no more).  This takes that the ratio is a percentage (`RInv`), and that the randoms name every session,
time and peer, which 32 bits do for `4 * 2^16` slots and up to `2^14` peers.

**Flags.**  `Carried` (`HoldersAlive`) and `Rules` (`FlagsEarned`), for any clients, places, limits and
times and for all five modes.  Each hook is described by what it may make of a flag: `Falls` (it
leaves `c`'s hands, and who made it fall is barred if guilty), `Taken`, `Home` (returned, scored or
reset), `Same`; `Loses`, `Takes` and `Ticks` say so of all flags, that nobody earned a point on the way
(`Kept`), and that the server's record stays sound (`FlagsOK`: nobody but clients hold flags, no time
lies in the future).  So `dropflag`, `leavegame`, `died`, `takeflag`, `scoreflag` and `update` have one
lemma each, wherever they are called.  Neither property is inductive: `HoldEarned` needs that the
hold flag's time runs while somebody has it, and from no earlier than its team got it (`HoldTimed`:
the time a dropped flag lay is paid twice by `ownflag` and taken off by `deadflag`, but never
beyond); `TeamKillerBarred` needs that what a killer is barred from still lies with that killer as its
dropper and its drops at the limit (`BarredLie`), which `dropflag` alone keeps and `leavegame` and
`died` forget.

**What clients are told.**  `Informed`: `ViewsAgree` for all five modes, any clients, places, limits and
draws.  The invariant `ViewsInv` is stronger than the property: it also has the copy while the server waits for
a client's list (`Waiting`), and the shape of what the messages change.  The hooks change the server's state first and tell clients of it
after, so that `Copy` says for which flags a copy is still behind in its version, its spawn point or
its place, and for which teams in the score; each `See...` takes one of these away, and a hook ends
with none (`Right`).  Loops over bases, skulls, spawns and players are folds; `Looped` says of each
that it keeps the agreement if its body does, by a least counterexample over the index.  `Bases` need
that a base's copy is made from `sendbaseinfo` alone, so that a change the code does not announce must
be one that does not show (`EnterTells`, `LeaveTells`); `Skulls`, that a sweep gives the numbers of all it
removes, so that no client keeps a skull the server has not (clients may have fewer: they remove a
skull that is taken).

In protect the flags are of two kinds, and one game has only one of them (`FlagsTold`).  Those of a map's file
belong to the teams (`Sided`), and the copy is right.  Those of a client's list, which `parseitems` makes
(`ctf.h:519`), belong to no team (`Orphaned`): no hook takes, drops, times or resets them, so that they stay as
`ViewsAgree` has them, visible to the server and hidden from the clients.

**What lies and stands on the map.**  `SkullsLimited`: `SkullsBounded`, for any clients, bases and limits;
`Headcount`: `PlacesCounted`, of which it is a part.

`droptokens` walks the skulls from the last to the first, counts those of one dropper by side, and takes
away whatever comes after the limit, which puts another skull into the gap.  `Tally` is the invariant of
that loop: behind the index, the skulls of the dropper are no more than what was counted, and within the
limit less those about to be dropped (`own` and `other` start with them); `SkippedTally` and `SweptTally`
are a turn that passes over a skull and one that counts it, and removes it if it is one too many: what
fills the gap comes from behind (`RemovedPlaces`).  A player who leaves has its skulls disowned by the same loop, so that two droppers change at
once, its own and `Left`.  `SkullsInv` adds that nobody carries more skulls than `TokenLimit`
(`Laden`), on which `droptokens` relies and to which `takeskull` and the expiry of skulls keep.  It takes
`SkullsAssumption`: the limits are numbers, the first not 0, and neither `Left` nor a base is a client
number, as -1 and below are not (`collect.h`).

For bases, `Pops` is who is where: for each base and team, the living players in it and in bounds.  `Fit` compares a base
with its row, `Peopled` all bases.  Each hook is a loop over bases in which one player leaves one place and
comes to another, so that `Partly` has bases up to the index right for the new rows and the others for the
old; `Shift` is what one such move makes of a row.  `steal`, `enter`, `leave` and the capture in `update`
each keep `Fit`, whatever owner or enemy the base had (`StealFit`, `EnterFit`, `LeaveFit`, `OccupiedFit`).  A player who dies, leaves, spectates or changes
team counts nowhere after; one who is not alive counted nowhere before.  `Ghostless` holds of a new map
too, whose bases count nobody, and of a list a client sends, whose players enter one by one.  After the
end of a match it says nothing, since `movebases` does nothing then.  Players out of bounds are in no row of
`Pops`; `stealbase`, which counts them, adds no more than `Strays`, and the base remembers how many (`StealFit`).
So the counts may be too high by the most `stealbase` ever took out of bounds at once, and not by more.

**Broadcast.**  `BuffersKept` (`BuffersHeld`) and `OwnVoice` (`SpeaksForOwn`), for any clients, bots,
mtu and bounds.  The invariant adds to `BuffersHeld` the types it needs and that no client has
packets of a buffer that does not exist.  What it takes are lemmas about folds: `SumFunction` over
the clients exists, is a natural number and changes by what one client's queue loses (`SumDrop`);
the nested folds of `buildworldstate` leave each listener a sequence of packets, whatever the chunks
and the mtu (`FoldKeeps`, `PacketsAreSequences`).  `LeastFree` says that the buffer taken is the first
that no packet points into, and that there is one within the bound.

**Vectors.**  `VectorProofs` has the facts about filtering, removing and appending that the
proofs of `Later`, `Bots`, `Broadcast` and the shots of `Combat` rest on; the induction they need is
by a least counterexample (`LeastNat`), as is that over the folds of `Broadcast`.

Model-checked only: liveness (`JoinResolved`, `CallsRun`, `RefreshEnds`, `ShutdownEnds`,
`MatchGoesOn`), which is out of the prover's reach; `Agreed` of `EnetPeers`, which needs an invariant of
every datagram ever sent; `EnetChannel` with `Contract`; `Relayed` of `Broadcast`, which is about what is in its buffers; `Match` and all modules under `Algorithms`,
most of which need `RECURSIVE` operators.

## What is not modelled

- The administration scripts (limbo, ban lists with expiry, token buckets) and game mods under
  `script/`; the bindings that give Lua the server's functions.  The models are of the server
  with no hook installed, except `Runtime` and `Later`, which are about hooks and calls.
- The console language: its interpreter in `command.cpp` is compiled out (`#if 0`).
- Client-side halves of `ctf.h`, `capture.h`, `collect.h` beyond the copy of the state a client
  keeps; `entities.cpp`, `ai.h`, `geom.h`, `worldio.cpp`; what is under `#ifndef STANDALONE` or for
  Windows.
- Branches for other curves, `ENET_CONTEXT_EXCLUSION`, checksums (not used), socket wrappers.
- The Tiger hash, character tables, vendored headers, assets and build files.

`PROJECT.json` has the same by component, with what is missing from those that are partly modelled.

## Plan

1. Proofs: `Agreed` of `EnetPeers`, from an invariant of the datagrams in flight and of those kept.
2. A model of bans with the width of their clock and of the scripts that keep them.
3. `Combat` with the guns that need no ammunition and with edit mode.
