----------------------------- MODULE CombatProofs -----------------------------
(***************************************************************************)
(* Theorems about Combat, for any players, guns, delays and bounds.        *)
(***************************************************************************)
EXTENDS Combat, SequenceTheorems, VectorProofs

Fields == {"state", "health", "lastdeath", "deadflush", "lastspawn", "lifesequence",
           "ammo", "lastshot", "gunwait", "rockets", "deaths"}

HistoryFields == {"session", "life", "spawns", "began", "shots", "fired", "exploded",
                  "lost"}

IsHistory(h) ==
  /\ DOMAIN h = HistoryFields
  /\ h.spawns \in Nat /\ h.fired \in Nat /\ h.exploded \in Nat

IsSequence(s) == \E S : s \in Seq(S)

\* A wounded player that is to spawn owes a flush first.
Healthy(g) ==
  /\ g.deadflush \in Nat
  /\ g.lastspawn = -1 \/ (g.lastspawn \in Nat /\ g.deadflush = 0)
  /\ g.deadflush = 0 => g.health \in Nat \ {0}
  /\ g.state = "alive" => g.lastspawn = -1 /\ g.deadflush = 0

\* Lives and deaths in the game state match those counted.
Counted(g, h) ==
  /\ g.deaths \in Nat
  /\ h.spawns = g.deaths + (IF g.state = "alive" THEN 1 ELSE 0)

\* So do rockets.
Armed(g, h) == IsSequence(g.rockets) /\ h.exploded + Len(g.rockets) <= h.fired

Fit(g, h) ==
  /\ DOMAIN g = Fields /\ IsHistory(h)
  /\ g.state \in {"dead", "alive", "spectator"}
  /\ Healthy(g) /\ Counted(g, h) /\ Armed(g, h)
-----------------------------------------------------------------------------
(* What the operations on a game state keep. *)

LEMMA LengthIsNat == ASSUME NEW s, IsSequence(s) PROVE Len(s) \in Nat
  BY DEF IsSequence

LEMMA EmptyIsSequence == IsSequence(<<>>) /\ Len(<<>>) = 0
<1>1. <<>> \in Seq({})
  OBVIOUS
<1>2. QED
  BY <1>1 DEF IsSequence

LEMMA BlankFields ==
  /\ DOMAIN Blank = Fields /\ Blank.state = "dead" /\ Blank.health = MaxHealth
  /\ Blank.deadflush = 0 /\ Blank.lastspawn = -1 /\ Blank.rockets = <<>> /\ Blank.deaths = 0
  BY DEF Blank, Fields

LEMMA RespawnFields ==
  ASSUME NEW g, DOMAIN g = Fields
  PROVE  /\ DOMAIN Respawn(g) = Fields
         /\ Respawn(g).state = g.state /\ Respawn(g).health = MaxHealth
         /\ Respawn(g).deadflush = 0 /\ Respawn(g).lastspawn = -1
         /\ Respawn(g).rockets = g.rockets /\ Respawn(g).deaths = g.deaths
  BY DEF Respawn, Fields

LEMMA SendSpawnFields ==
  ASSUME NEW g, DOMAIN g = Fields, NEW now
  PROVE  /\ DOMAIN SendSpawn(g, now) = Fields
         /\ SendSpawn(g, now).state = g.state /\ SendSpawn(g, now).health = g.health
         /\ SendSpawn(g, now).deadflush = g.deadflush /\ SendSpawn(g, now).lastspawn = now
         /\ SendSpawn(g, now).rockets = g.rockets /\ SendSpawn(g, now).deaths = g.deaths
  BY DEF SendSpawn, Fields

LEMMA ResetFields ==
  ASSUME NEW g, DOMAIN g = Fields
  PROVE  /\ DOMAIN Reset(g) = Fields
         /\ Reset(g).state = (IF g.state = "spectator" THEN "spectator" ELSE "dead")
         /\ Reset(g).health = MaxHealth
         /\ Reset(g).deadflush = 0 /\ Reset(g).lastspawn = -1
         /\ Reset(g).rockets = <<>> /\ Reset(g).deaths = 0
<1> DEFINE r == [g EXCEPT !.state = IF @ = "spectator" THEN @ ELSE "dead",
                          !.rockets = <<>>, !.deaths = 0, !.lastdeath = 0]
<1>1. /\ DOMAIN r = Fields /\ r.rockets = <<>> /\ r.deaths = 0
      /\ r.state = (IF g.state = "spectator" THEN "spectator" ELSE "dead")
  BY DEF Fields
<1> HIDE DEF r
<1>2. Reset(g) = Respawn(r)
  BY DEF Reset, r
<1>3. QED
  BY <1>1, <1>2, RespawnFields

LEMMA NewLifeFields ==
  ASSUME NEW h, DOMAIN h = HistoryFields, NEW now
  PROVE  /\ DOMAIN NewLife(h, now) = HistoryFields
         /\ NewLife(h, now).spawns = h.spawns /\ NewLife(h, now).fired = h.fired
         /\ NewLife(h, now).exploded = h.exploded
  BY DEF NewLife, HistoryFields

LEMMA BlankFit == ASSUME NEW h, IsHistory(h), h.spawns = 0, h.exploded = 0 PROVE Fit(Blank, h)
  BY BlankFields, EmptyIsSequence, FightAssumption DEF Fit, Healthy, Counted, Armed, IsHistory

LEMMA RespawnFit ==
  ASSUME NEW g, NEW h, Fit(g, h), g.state # "alive"
  PROVE  Fit(Respawn(g), h)
  BY RespawnFields, FightAssumption DEF Fit, Healthy, Counted, Armed

LEMMA SuicidedFit ==
  ASSUME NEW g, NEW h, Fit(g, h)
  PROVE  /\ Fit(Suicided(g), h)
         /\ IF g.state = "alive"
            THEN /\ Suicided(g).state = "dead" /\ Suicided(g).deaths = g.deaths + 1
                 /\ Suicided(g).lastspawn = -1
            ELSE Suicided(g) = g
<1>1. CASE g.state = "alive"
  <2> DEFINE d == [g EXCEPT !.state = "dead", !.deaths = @ + 1, !.lastdeath = gamemillis]
  <2>1. /\ DOMAIN d = Fields /\ d.state = "dead" /\ d.deaths = g.deaths + 1
        /\ d.rockets = g.rockets
    BY DEF Fit, Fields
  <2> HIDE DEF d
  <2>2. Suicided(g) = Respawn(d)
    BY <1>1 DEF Suicided, d
  <2>3. QED
    BY <1>1, <2>1, <2>2, RespawnFields, FightAssumption
       DEF Fit, Healthy, Counted, Armed
<1>2. CASE g.state # "alive"
  BY <1>2 DEF Suicided
<1>3. QED
  BY <1>1, <1>2

LEMMA DamagedFit ==
  ASSUME NEW g, NEW h, NEW damage \in Damage, gamemillis \in Nat, Fit(g, h), g.state = "alive"
  PROVE  /\ Fit(Damaged(g, damage), h)
         /\ Damaged(g, damage).lastspawn = g.lastspawn
         /\ \/ Damaged(g, damage).state = "alive" /\ Damaged(g, damage).deaths = g.deaths
            \/ Damaged(g, damage).state = "dead" /\ Damaged(g, damage).deaths = g.deaths + 1
<1>1. /\ damage \in Nat /\ g.health \in Nat /\ DOMAIN g = Fields
      /\ g.lastspawn = -1 /\ g.deadflush = 0
  BY FightAssumption DEF Fit, Healthy
<1>2. CASE g.health - damage > 0
  <2> DEFINE d == Damaged(g, damage)
  <2>1. /\ DOMAIN d = Fields /\ d.state = "alive" /\ d.deaths = g.deaths
        /\ d.health = g.health - damage /\ d.rockets = g.rockets
        /\ d.lastspawn = g.lastspawn /\ d.deadflush = g.deadflush
    BY <1>1, <1>2 DEF Damaged, Fields
  <2> HIDE DEF d
  <2>2. Fit(d, h)
    BY <1>1, <1>2, <2>1 DEF Fit, Healthy, Counted, Armed
  <2>3. QED
    BY <2>1, <2>2 DEF d
<1>3. CASE ~(g.health - damage > 0)
  <2> DEFINE d == Damaged(g, damage)
  <2>1. /\ DOMAIN d = Fields /\ d.state = "dead" /\ d.deaths = g.deaths + 1
        /\ d.rockets = g.rockets /\ d.lastspawn = g.lastspawn
        /\ d.deadflush = gamemillis + DeathMillis
    BY <1>1, <1>3 DEF Damaged, Fields
  <2> HIDE DEF d
  <2>2. d.deadflush \in Nat \ {0}
    BY <2>1, TimeAssumption
  <2>3. Healthy(d)
    BY <1>1, <2>1, <2>2 DEF Healthy
  <2>4. Counted(d, h)
    BY <2>1 DEF Fit, Counted
  <2>5. Armed(d, h)
    BY <2>1 DEF Fit, Armed
  <2>6. QED
    BY <2>1, <2>3, <2>4, <2>5 DEF Fit, d
<1>4. QED
  BY <1>2, <1>3

LEMMA GrantedFit ==
  ASSUME NEW g, NEW h, Fit(g, h), g.state = "dead", g.deadflush = 0, NEW now \in Nat
  PROVE  Fit(SendSpawn(g, now), NewLife(h, now))
<1> DEFINE s == SendSpawn(g, now)
           k == NewLife(h, now)
<1>1. IsHistory(h)
  BY DEF Fit
<1>2. IsHistory(k)
  BY <1>1, NewLifeFields DEF IsHistory
<1>3. k.spawns = h.spawns /\ k.exploded = h.exploded /\ k.fired = h.fired
  BY <1>1, NewLifeFields DEF IsHistory
<1>4. /\ DOMAIN s = Fields /\ s.state = "dead" /\ s.health = g.health /\ s.deadflush = 0
      /\ s.lastspawn = now /\ s.rockets = g.rockets /\ s.deaths = g.deaths
  BY SendSpawnFields DEF Fit
<1> HIDE DEF s, k
<1>5. Healthy(s)
  BY <1>4 DEF Fit, Healthy
<1>6. Counted(s, k)
  BY <1>3, <1>4 DEF Fit, Counted
<1>7. Armed(s, k)
  BY <1>3, <1>4 DEF Fit, Armed
<1>8. QED
  BY <1>2, <1>4, <1>5, <1>6, <1>7 DEF Fit, s, k

LEMMA ResetFit ==
  ASSUME NEW g, NEW h, Fit(g, h), NEW k, IsHistory(k), k.spawns = 0, k.exploded = 0
  PROVE  Fit(Reset(g), k)
<1>1. /\ DOMAIN Reset(g) = Fields
      /\ Reset(g).state = (IF g.state = "spectator" THEN "spectator" ELSE "dead")
      /\ Reset(g).health = MaxHealth /\ Reset(g).deadflush = 0 /\ Reset(g).lastspawn = -1
      /\ Reset(g).rockets = <<>> /\ Reset(g).deaths = 0
  BY ResetFields DEF Fit
<1>2. Healthy(Reset(g))
  BY <1>1, FightAssumption DEF Healthy
<1>3. Counted(Reset(g), k)
  BY <1>1 DEF Counted
<1>4. Armed(Reset(g), k)
  BY <1>1, EmptyIsSequence DEF Armed, IsHistory
<1>5. QED
  BY <1>1, <1>2, <1>3, <1>4 DEF Fit

-----------------------------------------------------------------------------
(* The projectiles in flight. *)

LEMMA AddProjLength ==
  ASSUME NEW projs, IsSequence(projs), NEW id
  PROVE  IsSequence(AddProj(projs, id)) /\ Len(AddProj(projs, id)) <= Len(projs) + 1
<1> PICK S : projs \in Seq(S)
  BY DEF IsSequence
<1>1. <<id>> \in Seq(S \cup {id}) /\ Len(<<id>>) = 1
  OBVIOUS
<1>2. projs \in Seq(S \cup {id}) /\ Len(projs) \in Nat
  BY SeqMonotonic
<1>3. Append(projs, id) \in Seq(S \cup {id}) /\ Len(Append(projs, id)) = Len(projs) + 1
  BY <1>2, AppendProperties
<1>4. QED
  BY <1>1, <1>2, <1>3 DEF AddProj, IsSequence

LEMMA RemoveProjLength ==
  ASSUME NEW projs, IsSequence(projs), NEW id, \E i \in DOMAIN projs : projs[i] = id
  PROVE  IsSequence(RemoveProj(projs, id)) /\ Len(RemoveProj(projs, id)) = Len(projs) - 1
<1> DEFINE found == {i \in DOMAIN projs : projs[i] = id}
           at == CHOOSE j \in found : \A k \in found : j <= k
           moved == [projs EXCEPT ![at] = projs[Len(projs)]]
           n == Len(projs)
<1> PICK S : projs \in Seq(S)
  BY DEF IsSequence
<1>1. n \in Nat /\ DOMAIN projs = 1 .. n /\ n >= 1
  BY LenProperties
<1>2. RemoveProj(projs, id) = SubSeq(moved, 1, n - 1)
  BY DEF RemoveProj
<1> HIDE DEF at, n
<1>3. \A j \in 1 .. n - 1 : moved[j] \in S
  BY <1>1, ElementOfSeq DEF n
<1> HIDE DEF moved
<1>4. SubSeq(moved, 1, n - 1) \in Seq(S) /\ Len(SubSeq(moved, 1, n - 1)) = n - 1
  BY <1>1, <1>3, SubSeqProperties
<1>5. QED
  BY <1>2, <1>4 DEF IsSequence, n
-----------------------------------------------------------------------------
(* The inductive invariant. *)

\* The clients list names each player once.
RosterOK ==
  /\ clients \in Seq(Players)
  /\ \A i, j \in DOMAIN clients : clients[i] = clients[j] => i = j

PlayersFit ==
  /\ DOMAIN gs = Players /\ DOMAIN past = Players
  /\ \A p \in Players : Fit(gs[p], past[p]) /\ (~Playing(p) => gs[p] = Blank)

\* Those whose queues are to be flushed are there; whoever asked for the flush is,
\* dead and without a grant.
FlowOK ==
  /\ DOMAIN job = {"left", "until", "then", "dt"}
  /\ job.left \in Seq(Players) /\ \A i \in DOMAIN job.left : Playing(job.left[i])
  /\ job.then \in Players \cup {"none", "items"} /\ job.dt \in 0 .. 1
  /\ \A p \in Players : job.then = p =>
       Playing(p) /\ gs[p].state = "dead" /\ gs[p].lastspawn = -1

\* Until it is known, the item is not there and nobody has taken it.
ItemsOK ==
  /\ sent \in [spawned : BOOLEAN, spawntime : Nat]
  /\ notgotitems \in BOOLEAN /\ taken \in Nat
  /\ notgotitems => taken = 0 /\ ~sent.spawned /\ sent.spawntime = 0
  /\ ItemReturns

IInv == gamemillis \in Nat /\ RosterOK /\ PlayersFit /\ FlowOK /\ ItemsOK
-----------------------------------------------------------------------------
(* What a step that concerns one player makes of it. *)

Calm(p) ==
  /\ gs'[p].state = gs[p].state /\ gs'[p].lastspawn = gs[p].lastspawn
  /\ gs'[p].deaths = gs[p].deaths /\ past'[p].spawns = past[p].spawns

Ends(p) ==
  /\ gs[p].state = "alive" /\ gs'[p].state \in {"dead", "spectator"}
  /\ gs'[p].lastspawn = -1
  /\ gs'[p].deaths = gs[p].deaths + 1 /\ past'[p].spawns = past[p].spawns

Grants(p) ==
  /\ gs[p].state = "dead" /\ gs[p].lastspawn = -1
  /\ gs'[p].state = "dead" /\ gs'[p].lastspawn \in Nat
  /\ gs'[p].deaths = gs[p].deaths /\ past'[p].spawns = past[p].spawns

Spawns(p) ==
  /\ gs[p].state = "dead" /\ gs[p].lastspawn \in Nat
  /\ gs'[p].state = "alive"
  /\ gs'[p].deaths = gs[p].deaths /\ past'[p].spawns = past[p].spawns + 1

Watches(p) ==
  /\ gs[p].state = "dead" /\ gs'[p].state = "spectator"
  /\ gs'[p].deaths = gs[p].deaths /\ past'[p].spawns = past[p].spawns

Plays(p) ==
  /\ gs[p].state = "spectator" /\ gs'[p].state = "dead" /\ gs'[p].lastspawn = -1
  /\ gs'[p].deaths = gs[p].deaths /\ past'[p].spawns = past[p].spawns

Only(p) ==
  /\ DOMAIN gs' = Players /\ DOMAIN past' = Players
  /\ \A q \in Players \ {p} : gs'[q] = gs[q] /\ past'[q] = past[q]

Turn(p) ==
  /\ Only(p) /\ clients' = clients /\ Playing(p)
  /\ Fit(gs'[p], past'[p])
  /\ \/ Calm(p) \/ Ends(p) \/ Grants(p) \/ Spawns(p) \/ Watches(p) \/ Plays(p)

LEMMA TurnKeeps ==
  ASSUME NEW p \in Players, RosterOK, PlayersFit, Turn(p)
  PROVE  RosterOK' /\ PlayersFit'
<1>1. RosterOK'
  BY DEF RosterOK, Turn
<1>2. \A q \in Players : Playing(q)' <=> Playing(q)
  BY DEF Turn, Playing
<1>3. PlayersFit'
  BY <1>2 DEF PlayersFit, Turn, Only
<1>4. QED
  BY <1>1, <1>3

LEMMA PhaseCases ==
  ASSUME NEW p \in Players
  PROVE  /\ ~Playing(p) => Phase[p] = "gone"
         /\ Playing(p) /\ gs[p].state # "dead" => Phase[p] = gs[p].state
         /\ Playing(p) /\ gs[p].state = "dead" /\ gs[p].lastspawn \in Nat
            => Phase[p] = "granted"
         /\ Playing(p) /\ gs[p].state = "dead" /\ gs[p].lastspawn = -1
            => Phase[p] = "dead"
  BY DEF Phase

LEMMA PhaseCasesNext ==
  ASSUME NEW p \in Players
  PROVE  /\ ~Playing(p)' => Phase'[p] = "gone"
         /\ Playing(p)' /\ gs'[p].state # "dead" => Phase'[p] = gs'[p].state
         /\ Playing(p)' /\ gs'[p].state = "dead" /\ gs'[p].lastspawn \in Nat
            => Phase'[p] = "granted"
         /\ Playing(p)' /\ gs'[p].state = "dead" /\ gs'[p].lastspawn = -1
            => Phase'[p] = "dead"
  BY DEF Phase

LEMMA PhaseKept ==
  ASSUME NEW p \in Players, PlayersFit, Playing(p)' <=> Playing(p),
         gs'[p].state = gs[p].state, gs'[p].lastspawn = gs[p].lastspawn
  PROVE  Phase'[p] = Phase[p]
<1>1. /\ gs[p].state \in {"dead", "alive", "spectator"}
      /\ gs[p].lastspawn = -1 \/ gs[p].lastspawn \in Nat
  BY DEF PlayersFit, Fit, Healthy
<1>2. QED
  BY <1>1, PhaseCases, PhaseCasesNext

\* What the abstract specification sees of p.
Seen(p, ph, s, d) == Phase'[p] = ph /\ past'[p].spawns = s /\ gs'[p].deaths = d
Unseen(p) == Seen(p, Phase[p], past[p].spawns, gs[p].deaths)

LEMMA PhaseIsFunction ==
  Phase = [p \in Players |-> Phase[p]] /\ Phase' = [p \in Players |-> Phase'[p]]
  BY DEF Phase

LEMMA UnseenStutters ==
  ASSUME \A p \in Players : Unseen(p)
  PROVE  UNCHANGED L!vars
<1>1. Phase' = Phase
  BY PhaseIsFunction DEF Unseen, Seen
<1>2. QED
  BY <1>1 DEF Unseen, Seen, L!vars

\* The abstract specification sees p change, and nothing else.
SeenOnly(p, ph, s, d) ==
  /\ Phase' = [Phase EXCEPT ![p] = ph]
  /\ [q \in Players |-> past[q].spawns]'
       = [[q \in Players |-> past[q].spawns] EXCEPT ![p] = s]
  /\ [q \in Players |-> gs[q].deaths]'
       = [[q \in Players |-> gs[q].deaths] EXCEPT ![p] = d]

LEMMA OnlySeen ==
  ASSUME NEW p \in Players, NEW ph, NEW s, NEW d, \A q \in Players \ {p} : Unseen(q),
         Phase'[p] = ph, past'[p].spawns = s, gs'[p].deaths = d
  PROVE  SeenOnly(p, ph, s, d)
  BY PhaseIsFunction DEF Unseen, Seen, SeenOnly

LEMMA TurnImplements ==
  ASSUME NEW p \in Players, PlayersFit, Turn(p)
  PROVE  [L!Next]_(L!vars)
<1>1. \A q \in Players : Playing(q)' <=> Playing(q)
  BY DEF Turn, Playing
<1>2. \A q \in Players \ {p} : Unseen(q)
  BY <1>1, PhaseKept DEF Turn, Only, Unseen, Seen
<1>3. CASE Calm(p)
  <2>1. Unseen(p)
    BY <1>1, <1>3, PhaseKept DEF Calm, Unseen, Seen
  <2>2. QED
    BY <1>2, <2>1, UnseenStutters
<1> DEFINE ph == Phase'[p]
           s == past'[p].spawns
           d == gs'[p].deaths
<1>4. SeenOnly(p, ph, s, d)
  BY <1>2, PhaseIsFunction DEF Unseen, Seen, SeenOnly
<1>5. Playing(p) /\ Playing(p)'
  BY <1>1 DEF Turn
<1>6. CASE Ends(p)
  <2>1. Phase[p] = "alive" /\ ph \in {"dead", "spectator"}
    BY <1>5, <1>6, PhaseCases, PhaseCasesNext DEF Ends
  <2>2. PICK k \in {"dead", "spectator"} : ph = k
    BY <2>1
  <2>3. L!End(p, k)
    BY <1>4, <1>6, <2>1, <2>2 DEF Ends, L!End, SeenOnly
  <2>4. k \in L!Phases
    BY DEF L!Phases
  <2>5. QED
    BY <2>3, <2>4 DEF L!Next
<1>7. CASE Grants(p)
  <2>1. Phase[p] = "dead" /\ ph = "granted"
    BY <1>5, <1>7, PhaseCases, PhaseCasesNext DEF Grants
  <2>2. L!Grant(p)
    BY <1>4, <1>7, <2>1 DEF Grants, L!Grant, SeenOnly
  <2>3. QED
    BY <2>2 DEF L!Next
<1>8. CASE Spawns(p)
  <2>1. Phase[p] = "granted" /\ ph = "alive"
    BY <1>5, <1>8, PhaseCases, PhaseCasesNext DEF Spawns
  <2>2. L!Spawn(p)
    BY <1>4, <1>8, <2>1 DEF Spawns, L!Spawn, SeenOnly
  <2>3. QED
    BY <2>2 DEF L!Next
<1>9. CASE Watches(p)
  <2>1. Phase[p] \in {"dead", "granted"} /\ ph = "spectator"
    BY <1>5, <1>9, PhaseCases, PhaseCasesNext DEF Watches, PlayersFit, Fit, Healthy
  <2>2. L!Watch(p)
    BY <1>4, <1>9, <2>1 DEF Watches, L!Watch, SeenOnly
  <2>3. QED
    BY <2>2 DEF L!Next
<1>10. CASE Plays(p)
  <2>1. Phase[p] = "spectator" /\ ph = "dead"
    BY <1>5, <1>10, PhaseCases, PhaseCasesNext DEF Plays
  <2>2. L!Play(p)
    BY <1>4, <1>10, <2>1 DEF Plays, L!Play, SeenOnly
  <2>3. QED
    BY <2>2 DEF L!Next
<1>11. QED
  BY <1>3, <1>6, <1>7, <1>8, <1>9, <1>10 DEF Turn
-----------------------------------------------------------------------------
(* Each step, as the players live it. *)

Held == RosterOK' /\ PlayersFit' /\ [L!Next]_(L!vars)

LEMMA TurnHeld ==
  ASSUME NEW p \in Players, RosterOK, PlayersFit, Turn(p)
  PROVE  Held
  BY TurnKeeps, TurnImplements DEF Held

LEMMA QuietHeld ==
  ASSUME RosterOK, PlayersFit, clients' = clients, gs' = gs, past' = past
  PROVE  Held
<1>1. RosterOK'
  BY DEF RosterOK
<1>2. PlayersFit'
  BY DEF PlayersFit, Playing
<1>3. UNCHANGED L!vars
  BY DEF L!vars, Phase, Playing
<1>4. QED
  BY <1>1, <1>2, <1>3 DEF Held

LEMMA LostHeld ==
  ASSUME NEW p \in Players, RosterOK, PlayersFit, Playing(p), NoteLost(p),
         clients' = clients, gs' = gs
  PROVE  Held
<1>1. Fit(gs[p], past[p])
  BY DEF PlayersFit
<1>2. Only(p)
  BY DEF PlayersFit, Only, NoteLost
<1>3. /\ DOMAIN past'[p] = HistoryFields /\ past'[p].spawns = past[p].spawns
      /\ past'[p].fired = past[p].fired /\ past'[p].exploded = past[p].exploded
  BY <1>1 DEF NoteLost, PlayersFit, Fit, IsHistory, HistoryFields
<1>4. Calm(p) /\ Fit(gs'[p], past'[p])
  BY <1>1, <1>3 DEF Calm, Fit, IsHistory, Counted, Armed
<1>5. QED
  BY <1>2, <1>4, TurnHeld DEF Turn

LEMMA SuicidedHeld ==
  ASSUME NEW p \in Players, RosterOK, PlayersFit, Playing(p),
         gs' = [gs EXCEPT ![p] = Suicided(@)], clients' = clients, past' = past
  PROVE  Held
<1>1. Fit(gs[p], past[p]) /\ Only(p) /\ gs'[p] = Suicided(gs[p])
  BY DEF PlayersFit, Only
<1>2. Fit(gs'[p], past'[p]) /\ (Calm(p) \/ Ends(p))
  BY <1>1, SuicidedFit DEF Calm, Ends
<1>3. QED
  BY <1>1, <1>2, TurnHeld DEF Turn

LEMMA ForceSpectatorHeld ==
  ASSUME NEW p \in Players, RosterOK, PlayersFit, ForceSpectator(p)
  PROVE  Held
<1> DEFINE d == Suicided(gs[p])
           g == [d EXCEPT !.state = "spectator"]
<1>1. Fit(gs[p], past[p]) /\ Only(p) /\ gs'[p] = g /\ past'[p] = past[p]
  BY DEF PlayersFit, Only, ForceSpectator
<1>2. /\ Fit(d, past[p]) /\ d.state = "dead"
      /\ IF gs[p].state = "alive"
         THEN d.deaths = gs[p].deaths + 1 /\ d.lastspawn = -1 ELSE d = gs[p]
  BY <1>1, SuicidedFit DEF ForceSpectator, Fit
<1> HIDE DEF d
<1>3. /\ DOMAIN g = Fields /\ g.state = "spectator" /\ g.deaths = d.deaths
      /\ g.lastspawn = d.lastspawn /\ g.rockets = d.rockets /\ g.health = d.health
      /\ g.deadflush = d.deadflush
  BY <1>2 DEF Fit, Fields
<1> HIDE DEF g
<1>4. Fit(g, past[p])
  BY <1>2, <1>3 DEF Fit, Healthy, Counted, Armed
<1>5. Ends(p) \/ Watches(p)
  BY <1>1, <1>2, <1>3 DEF Ends, Watches
<1>6. QED
  BY <1>1, <1>4, <1>5, TurnHeld DEF Turn, ForceSpectator

\* Both ways to be granted a spawn.
LEMMA GrantedHeld ==
  ASSUME NEW p \in Players, RosterOK, PlayersFit, gamemillis \in Nat, clients' = clients,
         Playing(p), gs[p].state = "dead", gs[p].lastspawn = -1,
         NEW g, g = Respawn(gs[p]) \/ (g = gs[p] /\ gs[p].deadflush = 0), Granted(p, g)
  PROVE  Held
<1>1. Fit(gs[p], past[p])
  BY DEF PlayersFit
<1>2. Fit(g, past[p]) /\ g.state = "dead" /\ g.deadflush = 0 /\ g.deaths = gs[p].deaths
  BY <1>1, RespawnFit, RespawnFields DEF Fit
<1>3. /\ Only(p) /\ gs'[p] = SendSpawn(g, gamemillis)
      /\ past'[p] = NewLife(past[p], gamemillis)
  BY DEF PlayersFit, Only, Granted
<1>4. Fit(gs'[p], past'[p])
  BY <1>2, <1>3, GrantedFit
<1>5. /\ gs'[p].state = "dead" /\ gs'[p].lastspawn = gamemillis
      /\ gs'[p].deaths = gs[p].deaths /\ past'[p].spawns = past[p].spawns
  BY <1>1, <1>2, <1>3, SendSpawnFields, NewLifeFields DEF Fit, IsHistory
<1>6. Grants(p)
  BY <1>5 DEF Grants
<1>7. QED
  BY <1>3, <1>4, <1>6, TurnHeld DEF Turn

LEMMA SpawnHeld ==
  ASSUME NEW p \in Players, RosterOK, PlayersFit, Spawn(p)
  PROVE  Held
<1>1. Fit(gs[p], past[p]) /\ gs[p].state \in {"alive", "dead"} /\ gs[p].lastspawn >= 0
  BY DEF PlayersFit, Spawn
<1>2. gs[p].state = "dead" /\ gs[p].lastspawn \in Nat /\ gs[p].deadflush = 0
  BY <1>1 DEF Fit, Healthy
<1>3. Only(p)
  BY DEF PlayersFit, Only, Spawn
<1>4. /\ DOMAIN gs'[p] = Fields /\ gs'[p].state = "alive" /\ gs'[p].lastspawn = -1
      /\ gs'[p].deaths = gs[p].deaths /\ gs'[p].health = gs[p].health
      /\ gs'[p].deadflush = gs[p].deadflush /\ gs'[p].rockets = gs[p].rockets
  BY <1>1 DEF PlayersFit, Spawn, Fit, Fields
<1>5. /\ IsHistory(past'[p]) /\ past'[p].spawns = past[p].spawns + 1
      /\ past'[p].fired = past[p].fired /\ past'[p].exploded = past[p].exploded
  BY <1>1 DEF PlayersFit, Spawn, Fit, IsHistory, HistoryFields
<1>6. Healthy(gs'[p])
  BY <1>1, <1>2, <1>4 DEF Fit, Healthy
<1>7. Counted(gs'[p], past'[p])
  BY <1>1, <1>2, <1>4, <1>5 DEF Fit, Counted
<1>8. Armed(gs'[p], past'[p])
  BY <1>1, <1>4, <1>5 DEF Fit, Armed
<1>9. Fit(gs'[p], past'[p])
  BY <1>4, <1>5, <1>6, <1>7, <1>8 DEF Fit
<1>10. Spawns(p)
  BY <1>2, <1>4, <1>5 DEF Spawns
<1>11. QED
  BY <1>3, <1>9, <1>10, TurnHeld DEF Turn, Spawn

\* A client that comes to play, on the same map.
LEMMA PlaysHeld ==
  ASSUME NEW p \in Players, RosterOK, PlayersFit, Playing(p), gs[p].state = "spectator",
         gs' = [gs EXCEPT ![p] = Respawn([@ EXCEPT !.state = "dead"])],
         clients' = clients, past' = past
  PROVE  Held
<1> DEFINE d == [gs[p] EXCEPT !.state = "dead"]
<1>1. Fit(gs[p], past[p]) /\ Only(p) /\ gs'[p] = Respawn(d) /\ past'[p] = past[p]
  BY DEF PlayersFit, Only
<1>2. /\ DOMAIN d = Fields /\ d.state = "dead" /\ d.deaths = gs[p].deaths
      /\ d.lastspawn = gs[p].lastspawn /\ d.rockets = gs[p].rockets
      /\ d.health = gs[p].health /\ d.deadflush = gs[p].deadflush
  BY <1>1 DEF Fit, Fields
<1> HIDE DEF d
<1>3. Fit(d, past[p])
  BY <1>1, <1>2 DEF Fit, Healthy, Counted, Armed
<1>4. Fit(gs'[p], past'[p])
  BY <1>1, <1>2, <1>3, RespawnFit
<1>5. Plays(p)
  BY <1>1, <1>2, RespawnFields DEF Plays
<1>6. QED
  BY <1>1, <1>4, <1>5, TurnHeld DEF Turn

LEMMA OneMore ==
  ASSUME NEW a \in Nat, NEW b \in Nat, NEW c \in Nat, NEW d \in Nat,
         a + b <= c, d <= b + 1
  PROVE  a + d <= c + 1
  OBVIOUS

LEMMA ShotHeld ==
  ASSUME NEW p \in Players, RosterOK, PlayersFit, Playing(p), ShotEvent(p)
  PROVE  Held
<1>1. CASE UNCHANGED <<gs, past, landing>>
  BY <1>1, QuietHeld DEF ShotEvent, Process
<1> DEFINE e == events[p][1]
<1>2. CASE /\ gs' = [gs EXCEPT
                ![p].ammo[e.gun] = @ - 1, ![p].lastshot = e.millis,
                ![p].gunwait = AttackDelay,
                ![p].rockets = IF e.gun = "rocket" THEN AddProj(@, e.id) ELSE @]
           /\ past' = [past EXCEPT
                ![p].shots = @ + 1, ![p].fired = IF e.gun = "rocket" THEN @ + 1 ELSE @]
  <2> HIDE DEF e
  <2>1. Fit(gs[p], past[p])
    BY DEF PlayersFit
  <2>2. Only(p)
    BY <1>2 DEF PlayersFit, Only
  <2>3. /\ DOMAIN gs'[p] = Fields /\ Calm(p) /\ gs'[p].health = gs[p].health
        /\ gs'[p].deadflush = gs[p].deadflush
        /\ gs'[p].rockets = IF e.gun = "rocket" THEN AddProj(gs[p].rockets, e.id)
                            ELSE gs[p].rockets
    <3>1. /\ DOMAIN gs'[p] = Fields /\ gs'[p].health = gs[p].health
          /\ gs'[p].state = gs[p].state /\ gs'[p].lastspawn = gs[p].lastspawn
          /\ gs'[p].deadflush = gs[p].deadflush /\ gs'[p].deaths = gs[p].deaths
          /\ gs'[p].rockets = IF e.gun = "rocket" THEN AddProj(gs[p].rockets, e.id)
                              ELSE gs[p].rockets
      BY <1>2, <2>1 DEF PlayersFit, Fit, Fields
    <3>2. past'[p].spawns = past[p].spawns
      BY <1>2, <2>1 DEF PlayersFit, Fit, IsHistory, HistoryFields
    <3>3. QED
      BY <3>1, <3>2 DEF Calm
  <2>4. /\ IsHistory(past'[p]) /\ past'[p].exploded = past[p].exploded
        /\ past'[p].fired = IF e.gun = "rocket" THEN past[p].fired + 1 ELSE past[p].fired
    BY <1>2, <2>1 DEF PlayersFit, Fit, IsHistory, HistoryFields
  <2>5. Armed(gs'[p], past'[p])
    <3>1. IsSequence(gs[p].rockets) /\ Len(gs[p].rockets) \in Nat
      BY <2>1, LengthIsNat DEF Fit, Armed
    <3>2. CASE e.gun = "rocket"
      <4>1. IsSequence(gs'[p].rockets) /\ Len(gs'[p].rockets) <= Len(gs[p].rockets) + 1
        BY <2>3, <3>1, <3>2, AddProjLength
      <4>2. Len(gs'[p].rockets) \in Nat
        BY <4>1, LengthIsNat
      <4>3. past'[p].fired = past[p].fired + 1 /\ past'[p].exploded = past[p].exploded
        BY <2>4, <3>2
      <4>4. /\ past[p].fired \in Nat /\ past[p].exploded \in Nat
            /\ past[p].exploded + Len(gs[p].rockets) <= past[p].fired
        BY <2>1 DEF Fit, Armed, IsHistory
      <4>5. past[p].exploded + Len(gs'[p].rockets) <= past[p].fired + 1
        BY <3>1, <4>1, <4>2, <4>4, OneMore
      <4>6. QED
        BY <4>1, <4>3, <4>5 DEF Armed
    <3>3. CASE e.gun # "rocket"
      BY <2>1, <2>3, <2>4, <3>3 DEF Fit, Armed
    <3>4. QED
      BY <3>2, <3>3
  <2>6. Healthy(gs'[p]) /\ Counted(gs'[p], past'[p])
    BY <2>1, <2>3, <2>4 DEF Fit, Healthy, Counted, Calm
  <2>7. Fit(gs'[p], past'[p])
    BY <2>1, <2>3, <2>4, <2>5, <2>6 DEF Fit, Calm
  <2>8. QED
    BY <2>2, <2>3, <2>7, TurnHeld DEF Turn, ShotEvent, Process
<1>3. QED
  BY <1>1, <1>2 DEF ShotEvent

LEMMA ExplodeHeld ==
  ASSUME NEW p \in Players, RosterOK, PlayersFit, Playing(p), ExplodeEvent(p)
  PROVE  Held
<1> DEFINE e == events[p][1]
<1>1. CASE UNCHANGED <<gs, past, landing>>
  BY <1>1, QuietHeld DEF ExplodeEvent, Process
<1>2. CASE /\ \E i \in DOMAIN gs[p].rockets : gs[p].rockets[i] = e.id
           /\ gs' = [gs EXCEPT ![p].rockets = RemoveProj(@, e.id)]
           /\ past' = [past EXCEPT ![p].exploded = @ + 1]
  <2> HIDE DEF e
  <2>1. Fit(gs[p], past[p])
    BY DEF PlayersFit
  <2>2. Only(p)
    BY <1>2 DEF PlayersFit, Only
  <2>3. /\ DOMAIN gs'[p] = Fields /\ gs'[p].health = gs[p].health
        /\ gs'[p].state = gs[p].state /\ gs'[p].lastspawn = gs[p].lastspawn
        /\ gs'[p].deadflush = gs[p].deadflush /\ gs'[p].deaths = gs[p].deaths
        /\ gs'[p].rockets = RemoveProj(gs[p].rockets, e.id)
    BY <1>2, <2>1 DEF PlayersFit, Fit, Fields
  <2>4. /\ IsHistory(past'[p]) /\ past'[p].exploded = past[p].exploded + 1
        /\ past'[p].fired = past[p].fired /\ past'[p].spawns = past[p].spawns
    BY <1>2, <2>1 DEF PlayersFit, Fit, IsHistory, HistoryFields
  <2>5. Armed(gs'[p], past'[p])
    <3>1. IsSequence(gs[p].rockets) /\ Len(gs[p].rockets) \in Nat
      BY <2>1, LengthIsNat DEF Fit, Armed
    <3>2. IsSequence(gs'[p].rockets) /\ Len(gs'[p].rockets) = Len(gs[p].rockets) - 1
      BY <1>2, <2>3, <3>1, RemoveProjLength
    <3>3. QED
      BY <2>1, <2>4, <3>1, <3>2, SMTT(60) DEF Fit, Armed, IsHistory
  <2>6. Healthy(gs'[p]) /\ Counted(gs'[p], past'[p])
    BY <2>1, <2>3, <2>4 DEF Fit, Healthy, Counted
  <2>7. Fit(gs'[p], past'[p]) /\ Calm(p)
    BY <2>1, <2>3, <2>4, <2>5, <2>6 DEF Fit, Calm
  <2>8. QED
    BY <2>2, <2>7, TurnHeld DEF Turn, ExplodeEvent, Process
<1>3. QED
  BY <1>1, <1>2 DEF ExplodeEvent

LEMMA PickupHeld ==
  ASSUME NEW p \in Players, RosterOK, PlayersFit, Playing(p), PickupEvent(p)
  PROVE  Held
<1>1. clients' = clients /\ past' = past
  BY DEF PickupEvent, Process
<1>2. CASE gs' = gs
  BY <1>1, <1>2, QuietHeld
<1>3. CASE gs' = [gs EXCEPT ![p].health = @ + 1]
  <2>1. Fit(gs[p], past[p]) /\ Only(p)
    BY <1>1, <1>3 DEF PlayersFit, Only
  <2>2. /\ DOMAIN gs'[p] = Fields /\ gs'[p].health = gs[p].health + 1
        /\ gs'[p].state = gs[p].state /\ gs'[p].lastspawn = gs[p].lastspawn
        /\ gs'[p].deadflush = gs[p].deadflush /\ gs'[p].deaths = gs[p].deaths
        /\ gs'[p].rockets = gs[p].rockets
    BY <1>3, <2>1 DEF PlayersFit, Fit, Fields
  <2>3. Healthy(gs'[p])
    BY <2>1, <2>2 DEF Fit, Healthy
  <2>4. Fit(gs'[p], past'[p]) /\ Calm(p)
    BY <1>1, <2>1, <2>2, <2>3 DEF Fit, Counted, Armed, Calm
  <2>5. QED
    BY <1>1, <2>1, <2>4, TurnHeld DEF Turn
<1>4. QED
  BY <1>2, <1>3 DEF PickupEvent

LEMMA HitHeld ==
  ASSUME RosterOK, PlayersFit, gamemillis \in Nat, HitLands
  PROVE  Held
<1> DEFINE t == Head(landing.hits).target
<1>1. clients' = clients /\ past' = past
  BY DEF HitLands
<1>2. PICK damage \in Damage :
        \/ gs' = gs
        \/ CanBeHit(Head(landing.hits)) /\ gs' = [gs EXCEPT ![t] = Damaged(@, damage)]
  BY DEF HitLands
<1>3. CASE gs' = gs
  BY <1>1, <1>3, QuietHeld
<1>4. CASE /\ CanBeHit(Head(landing.hits))
           /\ gs' = [gs EXCEPT ![t] = Damaged(@, damage)]
  <2>1. Playing(t) /\ gs[t].state = "alive"
    BY <1>4 DEF CanBeHit
  <2> HIDE DEF t
  <2>2. t \in Players
    BY <2>1 DEF Playing, RosterOK
  <2>3. Fit(gs[t], past[t]) /\ Only(t) /\ gs'[t] = Damaged(gs[t], damage)
    BY <1>1, <1>4, <2>2 DEF PlayersFit, Only
  <2>4. gs[t].lastspawn = -1
    BY <2>1, <2>3 DEF Fit, Healthy
  <2>5. Fit(gs'[t], past'[t]) /\ (Calm(t) \/ Ends(t))
    BY <1>1, <2>1, <2>3, <2>4, DamagedFit DEF Calm, Ends
  <2>6. QED
    BY <1>1, <2>1, <2>2, <2>3, <2>5, TurnHeld DEF Turn
<1>5. QED
  BY <1>2, <1>3, <1>4
-----------------------------------------------------------------------------
(* Changes of map. *)

Fresh(h) ==
  [h EXCEPT !.spawns = 0, !.began = 0, !.shots = 0, !.fired = 0, !.exploded = 0, !.lost = FALSE]

LEMMA FreshFields ==
  ASSUME NEW h, IsHistory(h)
  PROVE  IsHistory(Fresh(h)) /\ Fresh(h).spawns = 0 /\ Fresh(h).exploded = 0
  BY DEF Fresh, IsHistory, HistoryFields

\* What MapChange makes of a client of S, and of a number nobody has.
LEMMA MapChangePlayer ==
  ASSUME NEW S, NEW g, NEW h, MapChange(S, g, h), NEW p \in Players,
         IsHistory(h[p]), IF p \in S THEN Fit(g[p], h[p]) ELSE g[p] = Blank
  PROVE  /\ Fit(gs'[p], past'[p]) /\ gs'[p].deaths = 0 /\ past'[p].spawns = 0
         /\ IF p \notin S THEN gs'[p] = Blank
            ELSE IF g[p].state = "spectator" THEN gs'[p].state = "spectator"
            ELSE gs'[p].state = "dead" /\ gs'[p].lastspawn = 0
<1> DEFINE k == Fresh(h[p])
<1>1. IsHistory(k) /\ k.spawns = 0 /\ k.exploded = 0
  BY FreshFields
<1>2. CASE p \notin S
  <2>1. gs'[p] = Blank /\ past'[p] = k
    BY <1>2 DEF MapChange, Fresh
  <2>2. QED
    BY <1>1, <1>2, <2>1, BlankFit, BlankFields
<1>3. CASE p \in S /\ g[p].state = "spectator"
  <2>1. gs'[p] = Reset(g[p]) /\ past'[p] = k
    BY <1>3 DEF MapChange, Fresh
  <2>2. Reset(g[p]).state = "spectator" /\ Reset(g[p]).deaths = 0
    BY <1>3, ResetFields DEF Fit
  <2>3. Fit(Reset(g[p]), k)
    BY <1>1, <1>3, ResetFit
  <2>4. QED
    BY <1>1, <1>3, <2>1, <2>2, <2>3
<1>4. CASE p \in S /\ g[p].state # "spectator"
  <2>1. gs'[p] = SendSpawn(Reset(g[p]), 0) /\ past'[p] = NewLife(k, 0)
    BY <1>4 DEF MapChange, Fresh
  <2>2. /\ Reset(g[p]).state = "dead" /\ Reset(g[p]).deadflush = 0
        /\ Reset(g[p]).deaths = 0 /\ DOMAIN Reset(g[p]) = Fields
    BY <1>4, ResetFields DEF Fit
  <2>3. Fit(Reset(g[p]), k)
    BY <1>1, <1>4, ResetFit
  <2>4. Fit(gs'[p], past'[p])
    BY <2>1, <2>2, <2>3, GrantedFit
  <2>5. gs'[p].state = "dead" /\ gs'[p].lastspawn = 0 /\ gs'[p].deaths = 0
    BY <2>1, <2>2, SendSpawnFields
  <2>6. past'[p].spawns = 0
    BY <1>1, <2>1, NewLifeFields DEF IsHistory
  <2>7. QED
    BY <1>4, <2>4, <2>5, <2>6
<1>5. QED
  BY <1>2, <1>3, <1>4

\* The clients as MapChange finds them.
Ready(S, g, h) == \A p \in Players :
  /\ IsHistory(h[p])
  /\ IF p \in S THEN Fit(g[p], h[p]) ELSE g[p] = Blank

LEMMA MapChangeFit ==
  ASSUME NEW S, NEW g, NEW h, Ready(S, g, h), MapChange(S, g, h),
         \A p \in Players : Playing(p)' <=> p \in S
  PROVE  PlayersFit'
<1>1. DOMAIN gs' = Players /\ DOMAIN past' = Players
  BY DEF MapChange
<1>2. \A p \in Players : Fit(gs'[p], past'[p]) /\ (~Playing(p)' => gs'[p] = Blank)
  BY MapChangePlayer DEF Ready
<1>3. QED
  BY <1>1, <1>2 DEF PlayersFit

\* p is the client the change is about; the others are as they were.
LEMMA MapChangeImplements ==
  ASSUME NEW p \in Players, NEW ph, NEW S, NEW g, NEW h,
         Ready(S, g, h), MapChange(S, g, h),
         \A q \in Players : Playing(q)' <=> q \in S,
         \/ ph = Phase[p]
         \/ Phase[p] = "gone" /\ ph \in {"granted", "spectator"}
         \/ Phase[p] = "spectator" /\ ph = "granted",
         ph \in L!Phases,
         \A q \in Players :
           LET now == IF q = p THEN ph ELSE Phase[q]
           IN  IF q \notin S THEN now = "gone"
               ELSE IF g[q].state = "spectator" THEN now = "spectator"
               ELSE now \notin {"gone", "spectator"}
  PROVE  [L!Next]_(L!vars)
<1> DEFINE now == [Phase EXCEPT ![p] = ph]
<1>1. \A q \in Players : now[q] = IF q = p THEN ph ELSE Phase[q]
  BY PhaseIsFunction
<1> HIDE DEF now
<1>2. \A q \in Players :
        Phase'[q] = IF now[q] \in {"gone", "spectator"} THEN now[q] ELSE "granted"
  <2> SUFFICES ASSUME NEW q \in Players
               PROVE  Phase'[q] = IF now[q] \in {"gone", "spectator"} THEN now[q] ELSE "granted"
    OBVIOUS
  <2>1. IF q \notin S THEN now[q] = "gone"
        ELSE IF g[q].state = "spectator" THEN now[q] = "spectator"
        ELSE now[q] \notin {"gone", "spectator"}
    BY <1>1
  <2>2. CASE q \notin S
    BY <2>1, <2>2, PhaseCasesNext
  <2>3. CASE q \in S /\ g[q].state = "spectator"
    <3>1. gs'[q].state = "spectator"
      BY <2>3, MapChangePlayer DEF Ready
    <3>2. QED
      BY <2>1, <2>3, <3>1, PhaseCasesNext
  <2>4. CASE q \in S /\ g[q].state # "spectator"
    <3>1. gs'[q].state = "dead" /\ gs'[q].lastspawn = 0
      BY <2>4, MapChangePlayer DEF Ready
    <3>2. QED
      BY <2>1, <2>4, <3>1, PhaseCasesNext
  <2>5. QED
    BY <2>2, <2>3, <2>4
<1>3. \A q \in Players : past'[q].spawns = 0 /\ gs'[q].deaths = 0
  BY MapChangePlayer DEF Ready
<1>4. Phase' = [q \in Players |->
                  IF now[q] \in {"gone", "spectator"} THEN now[q] ELSE "granted"]
  BY <1>2, PhaseIsFunction
<1>5. L!NewMap(p, ph)
  BY <1>3, <1>4 DEF L!NewMap, now
<1>6. QED
  BY <1>5 DEF L!Next

LEMMA PhaseKinds ==
  ASSUME PlayersFit, NEW p \in Players
  PROVE  IF ~Playing(p) THEN Phase[p] = "gone"
         ELSE IF gs[p].state = "spectator" THEN Phase[p] = "spectator"
         ELSE Phase[p] \in {"dead", "granted", "alive"}
<1>1. /\ gs[p].state \in {"dead", "alive", "spectator"}
      /\ gs[p].lastspawn = -1 \/ gs[p].lastspawn \in Nat
  BY DEF PlayersFit, Fit, Healthy
<1>2. QED
  BY <1>1, PhaseCases

LEMMA ChangeMapHeld ==
  ASSUME RosterOK, PlayersFit, ChangeMap
  PROVE  Held
<1>1. clients' = clients /\ MapChange(Joined, gs, past)
  BY DEF ChangeMap
<1>2. RosterOK' /\ \A p \in Players : Playing(p)' <=> p \in Joined
  BY <1>1 DEF RosterOK, Playing, Joined
<1>3. Ready(Joined, gs, past)
  BY DEF Ready, PlayersFit, Fit, Joined
<1>4. PlayersFit'
  BY <1>1, <1>2, <1>3, MapChangeFit
<1>5. CASE Players = {}
  <2>1. UNCHANGED L!vars
    BY <1>5, UnseenStutters
  <2>2. QED
    BY <1>2, <1>4, <2>1 DEF Held
<1>6. ASSUME NEW p \in Players
      PROVE  [L!Next]_(L!vars)
  <2> DEFINE ph == Phase[p]
  <2>1. \A q \in Players :
          LET now == IF q = p THEN ph ELSE Phase[q]
          IN  IF q \notin Joined THEN now = "gone"
              ELSE IF gs[q].state = "spectator" THEN now = "spectator"
              ELSE now \notin {"gone", "spectator"}
    BY PhaseKinds DEF Joined
  <2>2. ph \in L!Phases
    BY PhaseKinds DEF L!Phases
  <2> HIDE DEF ph
  <2>3. ph = Phase[p]
    BY DEF ph
  <2>4. QED
    BY <1>1, <1>2, <1>3, <2>1, <2>2, <2>3, MapChangeImplements
<1>7. QED
  BY <1>2, <1>4, <1>5, <1>6 DEF Held

LEMMA UnspectateHeld ==
  ASSUME NEW p \in Players, RosterOK, PlayersFit, Unspectate(p)
  PROVE  Held
<1> DEFINE d == [gs[p] EXCEPT !.state = "dead"]
           g == [gs EXCEPT ![p] = Respawn(d)]
<1>1. Playing(p) /\ gs[p].state = "spectator" /\ clients' = clients
  BY DEF Unspectate
<1>2. \/ MapChange(Joined, g, past)
      \/ gs' = [gs EXCEPT ![p] = Respawn([@ EXCEPT !.state = "dead"])] /\ past' = past
  BY DEF Unspectate
<1>3. CASE gs' = [gs EXCEPT ![p] = Respawn([@ EXCEPT !.state = "dead"])] /\ past' = past
  BY <1>1, <1>3, PlaysHeld
<1>4. CASE MapChange(Joined, g, past)
  <2>1. RosterOK' /\ \A q \in Players : Playing(q)' <=> q \in Joined
    BY <1>1 DEF RosterOK, Playing, Joined
  <2>2. \A q \in Players : Fit(gs[q], past[q]) /\ (q \notin Joined => gs[q] = Blank)
    BY DEF PlayersFit, Joined
  <2>3. /\ DOMAIN d = Fields /\ d.state = "dead" /\ d.deaths = gs[p].deaths
        /\ d.lastspawn = gs[p].lastspawn /\ d.rockets = gs[p].rockets
        /\ d.health = gs[p].health /\ d.deadflush = gs[p].deadflush
    BY <2>2 DEF Fit, Fields
  <2> HIDE DEF d
  <2>4. Fit(d, past[p])
    BY <1>1, <2>2, <2>3 DEF Fit, Healthy, Counted, Armed
  <2>5. Fit(Respawn(d), past[p]) /\ Respawn(d).state = "dead"
    BY <2>3, <2>4, RespawnFit, RespawnFields
  <2>6. g[p] = Respawn(d) /\ \A q \in Players \ {p} : g[q] = gs[q]
    BY DEF PlayersFit
  <2> HIDE DEF g
  <2>7. Ready(Joined, g, past)
    BY <1>1, <2>2, <2>5, <2>6 DEF Ready, Joined, Fit
  <2>8. PlayersFit'
    BY <1>4, <2>1, <2>7, MapChangeFit
  <2>9. Phase[p] = "spectator"
    BY <1>1, PhaseKinds
  <2>10. \A q \in Players :
           LET now == IF q = p THEN "granted" ELSE Phase[q]
           IN  IF q \notin Joined THEN now = "gone"
               ELSE IF g[q].state = "spectator" THEN now = "spectator"
               ELSE now \notin {"gone", "spectator"}
    BY <1>1, <2>5, <2>6, PhaseKinds DEF Joined
  <2>11. "granted" \in L!Phases
    BY DEF L!Phases
  <2>12. [L!Next]_(L!vars)
    BY <1>4, <2>1, <2>7, <2>9, <2>10, <2>11, MapChangeImplements
  <2>13. QED
    BY <2>1, <2>8, <2>12 DEF Held
<1>5. QED
  BY <1>2, <1>3, <1>4
-----------------------------------------------------------------------------
(* Coming and going. *)

LEMMA WithoutRoster ==
  ASSUME RosterOK, NEW i \in DOMAIN clients, clients' = Without(clients, i)
  PROVE  /\ RosterOK'
         /\ \A p \in Players : Playing(p)' <=> Playing(p) /\ p # clients[i]
<1> DEFINE n == Len(clients)
<1>1. n \in Nat /\ DOMAIN clients = 1 .. n /\ i \in 1 .. n
  BY DEF RosterOK
<1>2. clients' = [j \in 1 .. n - 1 |-> IF j < i THEN clients[j] ELSE clients[j + 1]]
  BY DEF Without
<1>3. \A j \in 1 .. n : clients[j] \in Players
  BY <1>1 DEF RosterOK
<1> HIDE DEF n
<1>4. DOMAIN clients' = 1 .. n - 1
  BY <1>2
<1>5. \A j \in 1 .. n - 1 : clients'[j] \in Players
  BY <1>1, <1>2, <1>3
<1>6. clients' \in Seq(Players)
  <2>1. n - 1 \in Nat
    BY <1>1
  <2>2. clients' \in [1 .. n - 1 -> Players]
    BY <1>2, <1>5
  <2>3. QED
    BY <2>1, <2>2, SeqDef
<1>7. ASSUME NEW j \in 1 .. n - 1, NEW k \in 1 .. n - 1, clients'[j] = clients'[k]
      PROVE  j = k
  <2> DEFINE old(m) == IF m < i THEN m ELSE m + 1
  <2>1. clients'[j] = clients[old(j)] /\ clients'[k] = clients[old(k)]
    BY <1>2
  <2>2. old(j) \in 1 .. n /\ old(k) \in 1 .. n
    BY <1>1
  <2>3. old(j) = old(k)
    BY <1>1, <1>7, <2>1, <2>2 DEF RosterOK
  <2>4. QED
    BY <1>1, <2>3
<1>8. \A p \in Players : Playing(p)' => Playing(p) /\ p # clients[i]
  BY <1>1, <1>2, <1>4 DEF RosterOK, Playing
<1>9. ASSUME NEW p \in Players, Playing(p), p # clients[i]
      PROVE  Playing(p)'
  <2>1. PICK j \in 1 .. n : clients[j] = p /\ j # i
    BY <1>1, <1>9 DEF Playing
  <2>2. CASE j < i
    BY <1>1, <1>2, <1>4, <2>1, <2>2 DEF Playing
  <2>3. CASE j > i
    <3>1. j - 1 \in 1 .. n - 1 /\ clients'[j - 1] = p
      BY <1>1, <1>2, <2>1, <2>3
    <3>2. QED
      BY <1>4, <3>1 DEF Playing
  <2>4. QED
    BY <1>1, <2>1, <2>2, <2>3
<1>10. QED
  BY <1>4, <1>6, <1>7, <1>8, <1>9 DEF RosterOK

LEMMA LeaveHeld ==
  ASSUME NEW p \in Players, RosterOK, PlayersFit, Leave(p)
  PROVE  Held
<1>1. PICK i \in DOMAIN clients : clients[i] = p /\ clients' = Without(clients, i)
  BY DEF Leave
<1>2. RosterOK' /\ \A q \in Players : Playing(q)' <=> Playing(q) /\ q # p
  BY <1>1, WithoutRoster
<1>3. /\ Only(p) /\ gs'[p] = Blank
      /\ past'[p] = [NoPast EXCEPT !.session = past[p].session]
  BY DEF Leave, PlayersFit, Only
<1>4. IsHistory(past'[p]) /\ past'[p].spawns = 0 /\ past'[p].exploded = 0
  BY <1>3 DEF NoPast, IsHistory, HistoryFields
<1>5. Fit(gs'[p], past'[p]) /\ gs'[p].deaths = 0
  BY <1>3, <1>4, BlankFit, BlankFields
<1>6. PlayersFit'
  BY <1>2, <1>3, <1>5 DEF PlayersFit, Only
<1>7. \A q \in Players \ {p} : Unseen(q)
  BY <1>2, <1>3, PhaseKept DEF Only, Unseen, Seen
<1>8. Phase'[p] = "gone" /\ Phase[p] # "gone"
  <2>1. Playing(p) /\ ~Playing(p)'
    BY <1>2 DEF Leave
  <2>2. QED
    BY <2>1, PhaseCasesNext, PhaseKinds
<1>9. SeenOnly(p, "gone", 0, 0)
  BY <1>4, <1>5, <1>7, <1>8, OnlySeen
<1>10. L!Leave(p)
  BY <1>8, <1>9 DEF L!Leave, SeenOnly
<1>11. QED
  BY <1>2, <1>6, <1>10 DEF Held, L!Next

LEMMA AppendRoster ==
  ASSUME RosterOK, NEW p \in Players, ~Playing(p), clients' = Append(clients, p)
  PROVE  /\ RosterOK'
         /\ \A q \in Players : Playing(q)' <=> Playing(q) \/ q = p
<1> DEFINE n == Len(clients)
<1>1. n \in Nat /\ DOMAIN clients = 1 .. n /\ \A i \in 1 .. n : clients[i] # p
  BY DEF RosterOK, Playing
<1>2. /\ clients' \in Seq(Players) /\ Len(clients') = n + 1
      /\ \A i \in 1 .. n : clients'[i] = clients[i]
      /\ clients'[n + 1] = p
  BY AppendProperties DEF RosterOK
<1> HIDE DEF n
<1>3. DOMAIN clients' = 1 .. n + 1
  BY <1>2
<1>4. \A i, j \in 1 .. n + 1 : clients'[i] = clients'[j] => i = j
  BY <1>1, <1>2 DEF RosterOK
<1>5. \A q \in Players : Playing(q)' <=> Playing(q) \/ q = p
  BY <1>1, <1>2, <1>3 DEF Playing
<1>6. QED
  BY <1>2, <1>3, <1>4, <1>5 DEF RosterOK

\* Whoever comes in, to play or to watch.
LEMMA NewcomerFit ==
  ASSUME NEW n, NEW watch \in BOOLEAN
  PROVE  LET k == [NoPast EXCEPT !.session = n]
             g == IF watch THEN [Blank EXCEPT !.state = "spectator"] ELSE Blank
         IN  /\ IsHistory(k) /\ k.spawns = 0 /\ Fit(g, k) /\ g.deaths = 0 /\ g.deadflush = 0
             /\ g.state = IF watch THEN "spectator" ELSE "dead"
<1> DEFINE k == [NoPast EXCEPT !.session = n]
           w == [Blank EXCEPT !.state = "spectator"]
<1>1. IsHistory(k) /\ k.spawns = 0 /\ k.exploded = 0
  BY DEF NoPast, IsHistory, HistoryFields
<1>2. Fit(Blank, k)
  BY <1>1, BlankFit
<1>3. /\ DOMAIN w = Fields /\ w.state = "spectator" /\ w.deaths = 0 /\ w.deadflush = 0
      /\ w.lastspawn = -1 /\ w.health = MaxHealth /\ w.rockets = <<>>
  BY BlankFields DEF Fields
<1> HIDE DEF k, w
<1>4. Fit(w, k)
  BY <1>1, <1>3, EmptyIsSequence, FightAssumption
     DEF Fit, Healthy, Counted, Armed, IsHistory
<1>5. QED
  BY <1>1, <1>2, <1>3, <1>4, BlankFields DEF k, w

LEMMA JoinHeld ==
  ASSUME NEW p \in Players, NEW watch \in BOOLEAN, RosterOK, PlayersFit,
         gamemillis \in Nat, Join(p, watch)
  PROVE  Held
<1> DEFINE state == IF watch THEN [Blank EXCEPT !.state = "spectator"] ELSE Blank
           k == [NoPast EXCEPT !.session = past[p].session + 1]
           g == [gs EXCEPT ![p] = state]
           h == [past EXCEPT ![p] = k]
           S == Joined \cup {p}
<1>1. /\ IsHistory(k) /\ k.spawns = 0 /\ Fit(state, k) /\ state.deaths = 0
      /\ state.deadflush = 0 /\ state.state = IF watch THEN "spectator" ELSE "dead"
  BY NewcomerFit
<1>2. ~Playing(p) /\ clients' = Append(clients, p)
  BY DEF Join
<1>3. RosterOK' /\ \A q \in Players : Playing(q)' <=> Playing(q) \/ q = p
  BY <1>2, AppendRoster
<1>4. \/ MapChange(S, g, h)
      \/ /\ gs' = IF watch THEN g ELSE [g EXCEPT ![p] = SendSpawn(@, gamemillis)]
         /\ past' = IF watch THEN h ELSE [h EXCEPT ![p] = NewLife(@, gamemillis)]
  BY DEF Join
<1>5. Phase[p] = "gone"
  BY <1>2, PhaseKinds
<1>6. /\ g[p] = state /\ h[p] = k /\ DOMAIN g = Players /\ DOMAIN h = Players
      /\ \A q \in Players \ {p} : g[q] = gs[q] /\ h[q] = past[q]
  BY DEF PlayersFit
<1> HIDE DEF state, k, S
<1>7. CASE MapChange(S, g, h)
  <2> DEFINE ph == IF watch THEN "spectator" ELSE "granted"
  <2>1. \A q \in Players : Playing(q)' <=> q \in S
    BY <1>3 DEF Joined, S
  <2>2. Ready(S, g, h)
    BY <1>1, <1>6 DEF Ready, PlayersFit, Fit, Joined, S
  <2> HIDE DEF g, h
  <2>3. PlayersFit'
    BY <1>7, <2>1, <2>2, MapChangeFit
  <2>4. \A q \in Players :
          LET now == IF q = p THEN ph ELSE Phase[q]
          IN  IF q \notin S THEN now = "gone"
              ELSE IF g[q].state = "spectator" THEN now = "spectator"
              ELSE now \notin {"gone", "spectator"}
    BY <1>1, <1>6, PhaseKinds DEF Joined, S
  <2>5. ph \in L!Phases /\ ph \in {"granted", "spectator"}
    BY DEF L!Phases
  <2> HIDE DEF ph
  <2>6. [L!Next]_(L!vars)
    BY <1>5, <1>7, <2>1, <2>2, <2>4, <2>5, MapChangeImplements
  <2>7. QED
    BY <1>3, <2>3, <2>6 DEF Held
<1>8. CASE /\ gs' = IF watch THEN g ELSE [g EXCEPT ![p] = SendSpawn(@, gamemillis)]
           /\ past' = IF watch THEN h ELSE [h EXCEPT ![p] = NewLife(@, gamemillis)]
  <2>1. Only(p)
    BY <1>6, <1>8 DEF Only
  <2>2. /\ gs'[p] = IF watch THEN state ELSE SendSpawn(state, gamemillis)
        /\ past'[p] = IF watch THEN k ELSE NewLife(k, gamemillis)
    BY <1>6, <1>8
  <2>3. Playing(p)'
    BY <1>3
  <2>4. \A q \in Players \ {p} : Unseen(q)
    BY <1>3, <2>1, PhaseKept DEF Only, Unseen, Seen
  <2>5. CASE watch
    <3>1. Fit(gs'[p], past'[p]) /\ gs'[p].deaths = 0 /\ past'[p].spawns = 0
      BY <1>1, <2>2, <2>5
    <3>2. Phase'[p] = "spectator"
      BY <1>1, <2>2, <2>3, <2>5, PhaseCasesNext
    <3>3. L!Enter(p, "spectator")
      BY <1>5, <2>4, <3>1, <3>2, OnlySeen, ZenonT(60) DEF L!Enter, SeenOnly
    <3>4. "spectator" \in L!Phases
      BY DEF L!Phases
    <3>5. PlayersFit'
      BY <1>3, <2>1, <3>1 DEF PlayersFit, Only
    <3>6. QED
      BY <1>3, <3>3, <3>4, <3>5 DEF Held, L!Next
  <2>6. CASE ~watch
    <3>1. Fit(gs'[p], past'[p])
      BY <1>1, <2>2, <2>6, GrantedFit
    <3>2. gs'[p].deaths = 0 /\ gs'[p].state = "dead" /\ gs'[p].lastspawn = gamemillis
      BY <1>1, <2>2, <2>6, SendSpawnFields DEF Fit
    <3>3. past'[p].spawns = 0
      BY <1>1, <2>2, <2>6, NewLifeFields DEF IsHistory
    <3>4. Phase'[p] = "granted"
      BY <2>3, <3>2, PhaseCasesNext
    <3>5. L!Enter(p, "granted")
      BY <1>5, <2>4, <3>2, <3>3, <3>4, OnlySeen DEF L!Enter, SeenOnly
    <3>6. "granted" \in L!Phases
      BY DEF L!Phases
    <3>7. PlayersFit'
      BY <1>3, <2>1, <3>1 DEF PlayersFit, Only
    <3>8. QED
      BY <1>3, <3>5, <3>6, <3>7 DEF Held, L!Next
  <2>7. QED
    BY <2>5, <2>6
<1>9. QED
  BY <1>4, <1>7, <1>8
-----------------------------------------------------------------------------
(* Every step. *)

LEMMA HeadPlays ==
  ASSUME FlowOK, NEW p \in Players, Flushing(p)
  PROVE  Playing(p)
<1>1. 1 \in DOMAIN job.left /\ Head(job.left) = job.left[1]
  BY DEF FlowOK, Flushing
<1>2. QED
  BY <1>1 DEF FlowOK, Flushing

LEMMA StepHeld == IInv /\ Next => Held
<1> SUFFICES ASSUME IInv, Next PROVE Held
  OBVIOUS
<1>1. RosterOK /\ PlayersFit /\ gamemillis \in Nat
  BY DEF IInv
<1>2. ASSUME NEW p \in Players, NEW watch \in BOOLEAN, Join(p, watch)
      PROVE  Held
  BY <1>1, <1>2, JoinHeld
<1>3. ASSUME NEW p \in Players,
             Leave(p) \/ ForceSpectator(p) \/ Unspectate(p) \/ SwitchTeam(p)
      PROVE  Held
  <2>1. CASE Leave(p)
    BY <1>1, <2>1, LeaveHeld
  <2>2. CASE ForceSpectator(p)
    BY <1>1, <2>2, ForceSpectatorHeld
  <2>3. CASE Unspectate(p)
    BY <1>1, <2>3, UnspectateHeld
  <2>4. CASE SwitchTeam(p)
    BY <1>1, <2>4, SuicidedHeld DEF SwitchTeam
  <2>5. QED
    BY <1>3, <2>1, <2>2, <2>3, <2>4
<1>4. ASSUME NEW p \in Players, NEW id,
             Explode(p, id) \/ (\E gun \in Guns : Shoot(p, gun, id))
      PROVE  Held
  BY <1>1, <1>4, LostHeld DEF Explode, Shoot, Send
<1>5. ASSUME NEW p \in Players, SendSuicide(p) \/ SendPickup(p)
      PROVE  Held
  BY <1>1, <1>5, QuietHeld DEF SendSuicide, SendPickup
<1>6. ASSUME NEW p \in Players, TrySpawn(p)
      PROVE  Held
  <2>1. CASE gs[p].deadflush # 0
    BY <1>1, <1>6, <2>1, QuietHeld DEF TrySpawn
  <2>2. CASE gs[p].deadflush = 0
    <3>1. Granted(p, gs[p]) /\ clients' = clients /\ Playing(p) /\ gs[p].state = "dead"
      BY <1>6, <2>2 DEF TrySpawn
    <3>2. gs[p].lastspawn = -1
      BY <1>1, <1>6 DEF TrySpawn, PlayersFit, Fit, Healthy
    <3>3. QED
      BY <1>1, <2>2, <3>1, <3>2, GrantedHeld
  <2>3. QED
    BY <2>1, <2>2
<1>7. ASSUME NEW p \in Players, Spawn(p)
      PROVE  Held
  BY <1>1, <1>7, SpawnHeld
<1>8. ASSUME NEW p \in Players, FlushEnds(p) \/ DropStale(p)
      PROVE  Held
  BY <1>1, <1>8, QuietHeld DEF FlushEnds, DropStale
<1>9. ASSUME NEW p \in Players,
             ShotEvent(p) \/ ExplodeEvent(p) \/ SuicideEvent(p) \/ PickupEvent(p)
      PROVE  Held
  <2>1. Flushing(p)
    BY <1>9 DEF ShotEvent, ExplodeEvent, SuicideEvent, PickupEvent, Process
  <2>2. Playing(p)
    BY <2>1, HeadPlays DEF IInv
  <2>3. QED
    BY <1>1, <1>9, <2>2, ShotHeld, ExplodeHeld, PickupHeld, SuicidedHeld
       DEF SuicideEvent, Process
<1>10. ASSUME NEW p \in Players, EndTrySpawn(p)
       PROVE  Held
  <2>1. job.then = p /\ clients' = clients /\ Granted(p, Respawn(gs[p]))
    BY <1>10 DEF EndTrySpawn, Flushed
  <2>2. Playing(p) /\ gs[p].state = "dead" /\ gs[p].lastspawn = -1
    BY <2>1 DEF IInv, FlowOK
  <2>3. QED
    BY <1>1, <2>1, <2>2, GrantedHeld
<1>11. ASSUME HitLands
       PROVE  Held
  BY <1>1, <1>11, HitHeld
<1>12. ASSUME ChangeMap
       PROVE  Held
  BY <1>1, <1>12, ChangeMapHeld
<1>13. ASSUME UpdateItems \/ PauseGame \/ ItemList \/ UpdateEmpty
              \/ \E dt \in 0 .. 1 : Update(dt)
       PROVE  Held
  BY <1>1, <1>13, QuietHeld DEF UpdateItems, PauseGame, ItemList, UpdateEmpty, Update, vars
<1>14. QED
  BY <1>2, <1>3, <1>4, <1>5, <1>6, <1>7, <1>8, <1>9, <1>10, <1>11, <1>12, <1>13
     DEF Next, Roster, Message, Flush

\* The players that are to be flushed, or wait for it, are the same to the job.
LEMMA FlowKept ==
  ASSUME FlowOK, job' = job, clients' = clients,
         \A p \in Players : job.then = p =>
           gs'[p].state = gs[p].state /\ gs'[p].lastspawn = gs[p].lastspawn
  PROVE  FlowOK'
  BY DEF FlowOK, Playing

\* Nobody waits for the next flush.
LEMMA IdleFlow ==
  ASSUME job' = NoJob
  PROVE  FlowOK'
<1>1. /\ DOMAIN NoJob = {"left", "until", "then", "dt"} /\ NoJob.left = <<>>
      /\ NoJob.then = "none" /\ NoJob.dt = 0
  BY DEF NoJob
<1>2. "none" \notin Players
  BY PlayerAssumption
<1>3. <<>> \in Seq(Players) /\ DOMAIN <<>> = {}
  OBVIOUS
<1>4. QED
  BY <1>1, <1>2, <1>3 DEF FlowOK

LEMMA StepFlow == IInv /\ Next => FlowOK'
<1> SUFFICES ASSUME IInv, Next PROVE FlowOK'
  OBVIOUS
<1>1. FlowOK /\ RosterOK /\ PlayersFit
  BY DEF IInv
<1>2. CASE Idle /\ job' = job
  BY <1>2, IdleFlow DEF Idle
<1>3. ASSUME NEW p \in Players, TrySpawn(p)
      PROVE  FlowOK'
  <2>1. CASE gs[p].deadflush # 0
    <3>1. /\ job' = [left |-> <<p>>, until |-> gs[p].deadflush, then |-> p, dt |-> 0]
          /\ clients' = clients /\ gs' = gs
      BY <1>3, <2>1 DEF TrySpawn
    <3>2. Playing(p) /\ gs[p].state = "dead" /\ gs[p].lastspawn = -1
      BY <1>1, <1>3 DEF TrySpawn, PlayersFit, Fit, Healthy
    <3>3. /\ job'.left = <<p>> /\ job'.then = p /\ job'.dt = 0
          /\ DOMAIN job' = {"left", "until", "then", "dt"}
      BY <3>1
    <3>4. <<p>> \in Seq(Players) /\ DOMAIN <<p>> = {1} /\ <<p>>[1] = p
      OBVIOUS
    <3>5. QED
      BY <3>1, <3>2, <3>3, <3>4 DEF FlowOK, Playing
  <2>2. CASE gs[p].deadflush = 0
    BY <1>3, <2>2, IdleFlow DEF TrySpawn, Idle
  <2>3. QED
    BY <2>1, <2>2
<1>4. ASSUME NEW dt \in 0 .. 1, Update(dt)
      PROVE  FlowOK'
  <2>1. clients' = clients /\ gs' = gs
    BY <1>4 DEF Update
  <2>2. CASE gamemillis' < GameLimit
    <3>1. /\ job'.left = clients /\ job'.then = "items" /\ job'.dt = dt
          /\ DOMAIN job' = {"left", "until", "then", "dt"}
      BY <1>4, <2>2 DEF Update
    <3>2. "items" \notin Players
      BY PlayerAssumption
    <3>3. \A i \in DOMAIN clients : Playing(clients[i])'
      BY <2>1 DEF Playing
    <3>4. QED
      BY <1>1, <2>1, <3>1, <3>2, <3>3 DEF FlowOK, RosterOK
  <2>3. CASE ~(gamemillis' < GameLimit)
    BY <1>4, <2>3, IdleFlow DEF Update, Idle
  <2>4. QED
    BY <2>2, <2>3
<1>5. ASSUME NEW p \in Players, FlushEnds(p)
      PROVE  FlowOK'
  <2>1. /\ job' = [job EXCEPT !.left = Tail(@)] /\ job.left # <<>>
        /\ clients' = clients /\ gs' = gs
    BY <1>5 DEF FlushEnds, Flushing
  <2>2. /\ DOMAIN job' = {"left", "until", "then", "dt"} /\ job'.left = Tail(job.left)
        /\ job'.then = job.then /\ job'.dt = job.dt
    BY <1>1, <2>1 DEF FlowOK
  <2>3. /\ Tail(job.left) \in Seq(Players)
        /\ \A i \in DOMAIN Tail(job.left) : Playing(Tail(job.left)[i])
    BY <1>1, <2>1, HeadTailProperties DEF FlowOK
  <2>4. QED
    BY <1>1, <2>1, <2>2, <2>3 DEF FlowOK, Playing
<1>6. ASSUME NEW p \in Players, DropStale(p)
      PROVE  FlowOK'
  BY <1>1, <1>6, FlowKept DEF DropStale, flow
<1>7. ASSUME NEW p \in Players, ShotEvent(p)
      PROVE  FlowOK'
  <2>1. \A q \in Players : gs'[q].state = gs[q].state /\ gs'[q].lastspawn = gs[q].lastspawn
    BY <1>1, <1>7, SMTT(60) DEF ShotEvent, PlayersFit, Fit, Fields
  <2>2. QED
    BY <1>1, <1>7, <2>1, FlowKept DEF ShotEvent, Process
<1>8. ASSUME NEW p \in Players, ExplodeEvent(p)
      PROVE  FlowOK'
  <2>1. \A q \in Players : gs'[q].state = gs[q].state /\ gs'[q].lastspawn = gs[q].lastspawn
    BY <1>1, <1>8 DEF ExplodeEvent, PlayersFit, Fit, Fields
  <2>2. QED
    BY <1>1, <1>8, <2>1, FlowKept DEF ExplodeEvent, Process
<1>9. ASSUME NEW p \in Players, PickupEvent(p)
      PROVE  FlowOK'
  <2>1. \A q \in Players : gs'[q].state = gs[q].state /\ gs'[q].lastspawn = gs[q].lastspawn
    BY <1>1, <1>9 DEF PickupEvent, PlayersFit, Fit, Fields
  <2>2. QED
    BY <1>1, <1>9, <2>1, FlowKept DEF PickupEvent, Process
<1>10. ASSUME NEW p \in Players, SuicideEvent(p)
       PROVE  FlowOK'
  <2>1. gs' = [gs EXCEPT ![p] = Suicided(@)] /\ job' = job /\ clients' = clients
    BY <1>10 DEF SuicideEvent, Process
  <2>2. \A q \in Players : gs[q].state = "dead" => gs'[q] = gs[q]
    BY <1>1, <2>1 DEF PlayersFit, Suicided
  <2>3. QED
    BY <1>1, <2>1, <2>2, FlowKept DEF FlowOK
<1>11. ASSUME HitLands
       PROVE  FlowOK'
  <2> DEFINE t == Head(landing.hits).target
  <2>1. job' = job /\ clients' = clients
    BY <1>11 DEF HitLands
  <2>2. PICK damage \in Damage :
          \/ gs' = gs
          \/ CanBeHit(Head(landing.hits)) /\ gs' = [gs EXCEPT ![t] = Damaged(@, damage)]
    BY <1>11 DEF HitLands
  <2>3. \A q \in Players : gs[q].state = "dead" => gs'[q] = gs[q]
    BY <1>1, <2>2 DEF PlayersFit, CanBeHit
  <2>4. QED
    BY <1>1, <2>1, <2>3, FlowKept DEF FlowOK
<1>12. ASSUME UpdateItems \/ \E p \in Players : EndTrySpawn(p)
       PROVE  FlowOK'
  BY <1>12, IdleFlow DEF UpdateItems, EndTrySpawn
<1>13. Roster => Idle /\ job' = job
  BY DEF Roster, Join, Leave, ForceSpectator, Unspectate, SwitchTeam, flow
<1>14. ASSUME NEW p \in Players,
              \/ \E id \in Ids : Explode(p, id) \/ \E gun \in Guns : Shoot(p, gun, id)
              \/ SendSuicide(p) \/ SendPickup(p) \/ Spawn(p)
       PROVE  Idle /\ job' = job
  BY <1>14 DEF Explode, Shoot, SendSuicide, SendPickup, Spawn, Send, flow
<1>15. PauseGame \/ ChangeMap \/ ItemList \/ UpdateEmpty => Idle /\ job' = job
  BY DEF PauseGame, ChangeMap, ItemList, UpdateEmpty, flow, vars
<1>16. QED
  BY <1>2, <1>3, <1>4, <1>5, <1>6, <1>7, <1>8, <1>9, <1>10, <1>11, <1>12, <1>13, <1>14,
     <1>15 DEF Next, Message, Flush

\* An item that has just been put on the map, or waits for its first spawn.
LEMMA NewItem ==
  ASSUME notgotitems' \in BOOLEAN, taken' = 0,
         \/ sent' = [spawned |-> FALSE, spawntime |-> 0] /\ notgotitems' = TRUE
         \/ sent' = [spawned |-> TRUE, spawntime |-> 0] /\ notgotitems' = FALSE
         \/ /\ notgotitems' = FALSE
            /\ \E t \in ItemTimes : sent' = [spawned |-> FALSE, spawntime |-> t]
  PROVE  ItemsOK'
<1>1. CASE sent' = [spawned |-> FALSE, spawntime |-> 0] /\ notgotitems' = TRUE
  BY <1>1 DEF ItemsOK, ItemReturns
<1>2. CASE sent' = [spawned |-> TRUE, spawntime |-> 0] /\ notgotitems' = FALSE
  BY <1>2 DEF ItemsOK, ItemReturns
<1>3. ASSUME NEW t \in ItemTimes, sent' = [spawned |-> FALSE, spawntime |-> t],
             notgotitems' = FALSE
      PROVE  ItemsOK'
  <2>1. t \in Nat \ {0}
    BY TimeAssumption
  <2>2. QED
    BY <1>3, <2>1 DEF ItemsOK, ItemReturns
<1>4. QED
  BY <1>1, <1>2, <1>3

LEMMA StepItems == IInv /\ Next => ItemsOK'
<1> SUFFICES ASSUME IInv, Next PROVE ItemsOK'
  OBVIOUS
<1>1. ItemsOK /\ job.dt \in 0 .. 1
  BY DEF IInv, FlowOK
<1>2. CASE UNCHANGED items
  BY <1>1, <1>2 DEF items, ItemsOK, ItemReturns
<1>3. ASSUME LoadItems
      PROVE  ItemsOK'
  BY <1>3, NewItem DEF LoadItems
<1>4. ASSUME NEW S, NEW g, NEW h, MapChange(S, g, h)
      PROVE  ItemsOK'
  BY <1>3, <1>4 DEF MapChange
<1>5. ASSUME NEW p \in Players, NEW watch \in BOOLEAN, Join(p, watch)
      PROVE  ItemsOK'
  <2> DEFINE state == IF watch THEN [Blank EXCEPT !.state = "spectator"] ELSE Blank
             g == [gs EXCEPT ![p] = state]
             h == [past EXCEPT ![p] = [NoPast EXCEPT !.session = past[p].session + 1]]
  <2>1. MapChange(Joined \cup {p}, g, h) \/ UNCHANGED items
    BY <1>5 DEF Join
  <2> HIDE DEF g, h
  <2>2. QED
    BY <1>2, <1>4, <2>1
<1>6. ASSUME NEW p \in Players, Unspectate(p)
      PROVE  ItemsOK'
  <2> DEFINE g == [gs EXCEPT ![p] = Respawn([@ EXCEPT !.state = "dead"])]
  <2>1. MapChange(Joined, g, past) \/ UNCHANGED items
    BY <1>6 DEF Unspectate
  <2> HIDE DEF g
  <2>2. QED
    BY <1>2, <1>4, <2>1
<1>7. ASSUME ChangeMap
      PROVE  ItemsOK'
  BY <1>4, <1>7 DEF ChangeMap
<1>8. ASSUME ItemList
      PROVE  ItemsOK'
  <2>1. taken' = 0 /\ notgotitems' = FALSE
    BY <1>1, <1>8 DEF ItemList, ItemsOK
  <2>2. PICK there \in BOOLEAN, t \in ItemTimes \cup {0} :
          /\ there \/ t # 0
          /\ sent' = [spawned |-> there, spawntime |-> t]
    BY <1>8 DEF ItemList
  <2>3. t \in Nat
    BY TimeAssumption
  <2>4. /\ sent' \in [spawned : BOOLEAN, spawntime : Nat]
        /\ sent'.spawned = there /\ sent'.spawntime = t
    BY <2>2, <2>3
  <2>5. ItemReturns'
    BY <2>1, <2>2, <2>4 DEF ItemReturns
  <2>6. QED
    BY <2>1, <2>4, <2>5 DEF ItemsOK
<1>9. ASSUME NEW p \in Players, PickupEvent(p)
      PROVE  ItemsOK'
  <2>1. CASE UNCHANGED <<sent, taken>>
    BY <1>2, <1>9, <2>1 DEF PickupEvent, items
  <2>2. ASSUME NEW t \in ItemTimes, sent.spawned, Take(t), taken' = taken + 1
        PROVE  ItemsOK'
    <3>1. t \in Nat \ {0}
      BY TimeAssumption
    <3>2. notgotitems' = FALSE /\ taken = 0
      BY <1>1, <1>9, <2>2 DEF PickupEvent, ItemsOK, ItemReturns
    <3>3. sent' = [spawned |-> FALSE, spawntime |-> t]
      BY <2>2 DEF Take
    <3>4. sent' \in [spawned : BOOLEAN, spawntime : Nat]
      BY <3>1, <3>3
    <3>5. sent'.spawned = FALSE /\ sent'.spawntime # 0
      BY <3>1, <3>3
    <3>6. taken' = 1
      BY <2>2, <3>2
    <3>7. ItemReturns'
      BY <3>2, <3>5, <3>6 DEF ItemReturns
    <3>8. QED
      BY <3>2, <3>4, <3>6, <3>7 DEF ItemsOK
  <2>3. QED
    BY <1>9, <2>1, <2>2 DEF PickupEvent
<1>10. ASSUME UpdateItems
       PROVE  ItemsOK'
  <2>1. notgotitems' = notgotitems
    BY <1>10 DEF UpdateItems
  <2>2. CASE UNCHANGED <<sent, taken>>
    BY <1>2, <2>1, <2>2 DEF items
  <2>3. CASE sent.spawntime # 0
    <3>1. notgotitems = FALSE
      BY <1>1, <2>3 DEF ItemsOK
    <3>2. CASE sent.spawntime > job.dt
      <4>1. sent' = [sent EXCEPT !.spawntime = @ - job.dt] /\ taken' = taken
        BY <1>10, <2>3, <3>2 DEF UpdateItems
      <4>2. /\ sent.spawntime \in Nat /\ sent.spawntime - job.dt \in Nat \ {0}
            /\ sent.spawned \in BOOLEAN
        BY <1>1, <2>3, <3>2 DEF ItemsOK
      <4>3. sent' = [spawned |-> sent.spawned, spawntime |-> sent.spawntime - job.dt]
        BY <1>1, <4>1, <4>2 DEF ItemsOK
      <4>4. /\ sent' \in [spawned : BOOLEAN, spawntime : Nat]
            /\ sent'.spawned = sent.spawned /\ sent'.spawntime # 0
        BY <4>2, <4>3
      <4>5. taken' \in Nat /\ taken' <= IF sent.spawned THEN 0 ELSE 1
        BY <1>1, <4>1 DEF ItemsOK, ItemReturns
      <4>6. notgotitems' = FALSE
        BY <2>1, <3>1
      <4>7. ItemReturns'
        BY <4>4, <4>5, <4>6 DEF ItemReturns
      <4>8. QED
        BY <4>4, <4>5, <4>6, <4>7 DEF ItemsOK
    <3>3. CASE ~(sent.spawntime > job.dt)
      <4>1. sent' = [spawned |-> TRUE, spawntime |-> 0] /\ taken' = 0
        BY <1>10, <2>3, <3>3 DEF UpdateItems
      <4>2. QED
        BY <2>1, <3>1, <4>1, NewItem
    <3>4. QED
      BY <3>2, <3>3
  <2>4. QED
    BY <1>10, <2>2, <2>3 DEF UpdateItems
<1>11. ASSUME NEW p \in Players,
              \/ Leave(p) \/ ForceSpectator(p) \/ SwitchTeam(p)
              \/ FlushEnds(p) \/ DropStale(p)
              \/ ShotEvent(p) \/ ExplodeEvent(p) \/ SuicideEvent(p) \/ EndTrySpawn(p)
       PROVE  UNCHANGED items
  BY <1>11 DEF Leave, ForceSpectator, SwitchTeam, FlushEnds, DropStale, ShotEvent,
     ExplodeEvent, SuicideEvent, EndTrySpawn
<1>12. Message => UNCHANGED items
  BY DEF Message, Explode, Shoot, SendSuicide, SendPickup, TrySpawn, Spawn
<1>13. HitLands \/ PauseGame \/ UpdateEmpty \/ (\E dt \in 0 .. 1 : Update(dt))
       => UNCHANGED items
  BY DEF HitLands, PauseGame, UpdateEmpty, Update, vars
<1>14. QED
  BY <1>2, <1>5, <1>6, <1>7, <1>8, <1>9, <1>10, <1>11, <1>12, <1>13 DEF Next, Roster, Flush

LEMMA NewClock ==
  ASSUME NEW S, NEW g, NEW h, MapChange(S, g, h)
  PROVE  gamemillis' \in Nat
BY DEF MapChange

LEMMA StepClock == IInv /\ Next => gamemillis' \in Nat
<1> SUFFICES ASSUME IInv, Next PROVE gamemillis' \in Nat
  OBVIOUS
<1>1. gamemillis \in Nat
  BY DEF IInv
<1>2. ASSUME NEW p \in Players, NEW watch \in BOOLEAN, Join(p, watch)
      PROVE  gamemillis' \in Nat
  <2> DEFINE state == IF watch THEN [Blank EXCEPT !.state = "spectator"] ELSE Blank
             g == [gs EXCEPT ![p] = state]
             h == [past EXCEPT ![p] = [NoPast EXCEPT !.session = past[p].session + 1]]
  <2>1. MapChange(Joined \cup {p}, g, h) \/ UNCHANGED clock
    BY <1>2 DEF Join
  <2> HIDE DEF g, h
  <2>2. QED
    BY <1>1, <2>1, NewClock DEF clock
<1>3. ASSUME NEW p \in Players, Unspectate(p)
      PROVE  gamemillis' \in Nat
  <2> DEFINE g == [gs EXCEPT ![p] = Respawn([@ EXCEPT !.state = "dead"])]
  <2>1. MapChange(Joined, g, past) \/ UNCHANGED clock
    BY <1>3 DEF Unspectate
  <2> HIDE DEF g
  <2>2. QED
    BY <1>1, <2>1, NewClock DEF clock
<1>4. ASSUME NEW p \in Players, Leave(p) \/ ForceSpectator(p) \/ SwitchTeam(p)
      PROVE  gamemillis' = gamemillis
  BY <1>4 DEF Leave, ForceSpectator, SwitchTeam, clock
<1>5. Message => gamemillis' = gamemillis
  BY DEF Message, Explode, Shoot, SendSuicide, SendPickup, TrySpawn, Spawn, clock
<1>6. Flush => gamemillis' = gamemillis
  BY DEF Flush, FlushEnds, DropStale, ShotEvent, ExplodeEvent, SuicideEvent, PickupEvent,
     EndTrySpawn, Process, clock
<1>7. HitLands \/ UpdateItems \/ PauseGame \/ ItemList \/ UpdateEmpty
      => gamemillis' = gamemillis
  BY DEF HitLands, UpdateItems, PauseGame, ItemList, UpdateEmpty, clock, vars
<1>8. ChangeMap \/ (\E dt \in 0 .. 1 : Update(dt)) => gamemillis' \in Nat
  <2>1. ChangeMap => gamemillis' \in Nat
    BY NewClock DEF ChangeMap
  <2>2. ASSUME NEW dt \in 0 .. 1, Update(dt)
        PROVE  gamemillis' \in Nat
    BY <1>1, <2>2 DEF Update
  <2>3. QED
    BY <2>1, <2>2
<1>9. QED
  BY <1>1, <1>2, <1>3, <1>4, <1>5, <1>6, <1>7, <1>8 DEF Next, Roster
-----------------------------------------------------------------------------
(* The theorems. *)

LEMMA InvInit == Init => IInv
<1> SUFFICES ASSUME Init PROVE IInv
  OBVIOUS
<1>1. RosterOK /\ \A p \in Players : ~Playing(p)
  BY DEF Init, RosterOK, Playing
<1>2. NoPast.spawns = 0 /\ NoPast.exploded = 0 /\ IsHistory(NoPast)
  BY DEF NoPast, IsHistory, HistoryFields
<1>3. PlayersFit
  BY <1>2, BlankFit DEF Init, PlayersFit
<1>4. FlowOK
  <2>1. /\ DOMAIN NoJob = {"left", "until", "then", "dt"} /\ NoJob.left = <<>>
        /\ NoJob.then = "none" /\ NoJob.dt = 0
    BY DEF NoJob
  <2>2. "none" \notin Players
    BY PlayerAssumption
  <2>3. <<>> \in Seq(Players) /\ DOMAIN <<>> = {}
    OBVIOUS
  <2>4. QED
    BY <2>1, <2>2, <2>3 DEF Init, FlowOK
<1>5. ItemsOK
  BY DEF Init, ItemsOK, ItemReturns
<1>6. QED
  BY <1>1, <1>3, <1>4, <1>5 DEF Init, IInv

LEMMA InvStep == IInv /\ [Next]_vars => IInv' /\ [L!Next]_(L!vars)
<1> SUFFICES ASSUME IInv, [Next]_vars PROVE IInv' /\ [L!Next]_(L!vars)
  OBVIOUS
<1>1. CASE Next
  BY <1>1, StepHeld, StepFlow, StepItems, StepClock DEF Held, IInv
<1>2. CASE UNCHANGED vars
  <2>1. /\ clients' = clients /\ gs' = gs /\ past' = past /\ job' = job
        /\ gamemillis' = gamemillis /\ UNCHANGED items
    BY <1>2 DEF vars, flow, clock
  <2>2. Held
    BY <2>1, QuietHeld DEF IInv
  <2>3. FlowOK'
    BY <2>1, FlowKept DEF IInv
  <2>4. ItemsOK'
    BY <2>1 DEF IInv, items, ItemsOK, ItemReturns
  <2>5. QED
    BY <2>1, <2>2, <2>3, <2>4 DEF Held, IInv
<1>3. QED
  BY <1>1, <1>2

LEMMA InvAlways == Spec => []IInv
<1>1. IInv /\ [Next]_vars => IInv'
  BY InvStep
<1>2. QED
  BY InvInit, <1>1, PTL DEF Spec

\* A player that lives has health, no unused grant and nothing to flush: N_SPAWN
\* never brings back the wounds or the duties of a life before.
THEOREM LivesAreFresh == Spec => []LifeIsFresh
<1>1. IInv => LifeIsFresh
  BY DEF IInv, PlayersFit, Fit, Healthy, LifeIsFresh, Joined
<1>2. QED
  BY InvAlways, <1>1, PTL

\* Each life ends in one death, whatever hits, suicides, team switches and
\* departures fall together (dodamage, suicide, N_SPAWN).
THEOREM LivesEnd == Spec => []LivesEndOnce
<1>1. IInv => LivesEndOnce
  <2> SUFFICES ASSUME IInv, NEW p \in Players
               PROVE  past[p].spawns - gs[p].deaths = IF Phase[p] = "alive" THEN 1 ELSE 0
    BY DEF LivesEndOnce, L!LivesEndOnce
  <2>1. /\ Fit(gs[p], past[p]) /\ gs[p].deaths \in Nat /\ PlayersFit
        /\ past[p].spawns = gs[p].deaths + (IF gs[p].state = "alive" THEN 1 ELSE 0)
    BY DEF IInv, PlayersFit, Fit, Counted
  <2>2. Phase[p] = "alive" <=> gs[p].state = "alive"
    <3>1. CASE Playing(p)
      <4>1. gs[p].lastspawn = -1 \/ gs[p].lastspawn \in Nat
        BY <2>1 DEF Fit, Healthy
      <4>2. QED
        BY <3>1, <4>1, PhaseCases
    <3>2. CASE ~Playing(p)
      BY <2>1, <3>2, PhaseCases, BlankFields DEF PlayersFit
    <3>3. QED
      BY <3>1, <3>2
  <2>3. QED
    BY <2>1, <2>2
<1>2. QED
  BY InvAlways, <1>1, PTL

\* The fights implement the lives of module Lives: no player comes to life but by
\* taking up a grant, and none is revived.
THEOREM FightsImplementLives == Spec => ImplementsLives
<1>1. Init => L!Init
  <2> SUFFICES ASSUME Init PROVE L!Init
    OBVIOUS
  <2>1. \A p \in Players : ~Playing(p)
    BY DEF Init, Playing
  <2>2. Phase = [p \in Players |-> "gone"]
    BY <2>1, PhaseIsFunction, PhaseCases
  <2>3. \A p \in Players : past[p].spawns = 0 /\ gs[p].deaths = 0
    BY BlankFields DEF Init, NoPast
  <2>4. QED
    BY <2>2, <2>3 DEF L!Init
<1>2. IInv /\ [Next]_vars => [L!Next]_(L!vars)
  BY InvStep
<1>3. QED
  BY InvAlways, <1>1, <1>2, PTL DEF Spec, ImplementsLives, L!Spec

\* What explodes was shot before, on this map, and explodes once
\* (projectilestate::remove, gamestate::reset).
THEOREM ExplosionsShot == Spec => []ExplosionsWereShot
<1>1. IInv => ExplosionsWereShot
  BY DEF IInv, PlayersFit, Fit, Armed, ExplosionsWereShot, Joined
<1>2. QED
  BY InvAlways, <1>1, PTL

\* An item that is not there comes back, and only then is taken again (pickup,
\* serverupdate).
THEOREM ItemsReturn == Spec => []ItemReturns
<1>1. IInv => ItemReturns
  BY DEF IInv, ItemsOK
<1>2. QED
  BY InvAlways, <1>1, PTL
-----------------------------------------------------------------------------
(* What players send: the shots of a life keep the fire rate, and a hit      *)
(* takes health only from the life it was aimed at.                          *)

\* The least time n shots take.
Spent(n) == (n - 1) * AttackDelay

Charged(g) == \E x \in Guns : g.ammo[x] > 0
CanFire(g) == g.state # "spectator" /\ Charged(g)

\* Something that was sent since then has been processed, or is among the first n.
Backed(q, late, began, n) ==
  late >= began \/ \E j \in 1 .. n : IsTimed(q[j]) /\ q[j].millis >= began

Stamps(g, h, late, now) ==
  /\ g.lastshot \in Nat /\ g.gunwait \in Nat /\ g.lastdeath \in Nat /\ late \in Nat
  /\ g.ammo \in [Guns -> Nat]
  /\ h.began \in Nat /\ h.shots \in Nat /\ h.lost \in BOOLEAN
  /\ h.began <= now

\* What is queued has a time, and a shot belongs to the life.
Queue(h, q) ==
  /\ IsSequence(q)
  /\ \A i \in 1 .. Len(q) :
       /\ IsTimed(q[i]) => q[i].millis \in Nat
       /\ q[i].type = "shot" => q[i].gun \in Guns /\ q[i].life = h.life

\* The dead have until deadflush.
Deadline(g, h) ==
  g.deadflush # 0 =>
    /\ h.began <= g.deadflush
    /\ g.state = "dead" => g.deadflush = g.lastdeath + DeathMillis
    /\ ~h.lost /\ h.shots > 0 => Spent(h.shots) <= g.deadflush - h.began

\* Who has ammunition has got it with this life.
Paced(g, h, q, late) ==
  CanFire(g) /\ ~h.lost =>
    /\ h.shots > 0 => g.lastshot >= h.began + Spent(h.shots) /\ g.gunwait = AttackDelay
    /\ \A i \in 1 .. Len(q) : q[i].type = "shot" => Backed(q, late, h.began, i)

Loaded(g, h, q, late, now) ==
  Stamps(g, h, late, now) /\ Queue(h, q) /\ Deadline(g, h) /\ Paced(g, h, q, late)

\* Whoever is taken to be synchronised has sent something in this life.
SyncOK(p) ==
  p \in synced /\ CanFire(gs[p]) /\ ~past[p].lost =>
    Backed(events[p], lastevent[p], past[p].began, Len(events[p]))

Ready2(p) ==
  /\ Loaded(gs[p], past[p], events[p], lastevent[p], gamemillis)
  /\ SyncOK(p)
  /\ ~Playing(p) => events[p] = <<>> /\ p \notin synced

InTime(p) ==
  ~past[p].lost /\ past[p].shots > 0 /\ job.then # p
    => Spent(past[p].shots) <= gamemillis - past[p].began

JobOK ==
  /\ job.then = "none" => job.left = <<>>
  /\ job.then = "items" => job.until = gamemillis
  /\ \A p \in Players : job.then = p =>
       /\ job.left \in {<<>>, <<p>>}
       /\ job.until = gs[p].deadflush /\ gs[p].deadflush # 0

FInv ==
  /\ DOMAIN events = Players /\ DOMAIN lastevent = Players /\ synced \subseteq Players
  /\ JobOK
  /\ \A p \in Players : Ready2(p) /\ InTime(p)
-----------------------------------------------------------------------------
LEMMA SpentMore ==
  ASSUME NEW n \in Nat
  PROVE  /\ n > 0 => Spent(n) \in Nat /\ Spent(n + 1) = Spent(n) + AttackDelay
         /\ Spent(1) = 0
<1>1. AttackDelay \in Nat
  BY TimeAssumption
<1>2. ASSUME n > 0 PROVE Spent(n) \in Nat /\ Spent(n + 1) = Spent(n) + AttackDelay
  <2> DEFINE a == AttackDelay
             m == n - 1
  <2>1. m \in Nat /\ n = m + 1 /\ a \in Nat
    BY <1>1, <1>2
  <2>2. m * a \in Nat /\ (m + 1) * a = m * a + a
    <3> HIDE DEF m, a
    <3> QED BY <2>1
  <2>3. Spent(n) = m * a /\ Spent(n + 1) = n * a
    BY DEF Spent
  <2> QED BY <2>1, <2>2, <2>3
<1>3. Spent(1) = 0
  BY <1>1 DEF Spent
<1>4. QED
  BY <1>2, <1>3

LEMMA AppendQueue ==
  ASSUME NEW q, IsSequence(q), NEW e
  PROVE  /\ IsSequence(Append(q, e)) /\ Len(q) \in Nat /\ Len(Append(q, e)) = Len(q) + 1
         /\ \A i \in 1 .. Len(q) : Append(q, e)[i] = q[i]
         /\ Append(q, e)[Len(q) + 1] = e
<1> PICK S : q \in Seq(S)
  BY DEF IsSequence
<1> DEFINE T == S \cup {e}
<1>1. q \in Seq(T) /\ e \in T
  BY SeqMonotonic
<1> HIDE DEF T
<1>2. Append(q, e) \in Seq(T) /\ Len(q) \in Nat
  BY <1>1
<1>3. /\ Len(Append(q, e)) = Len(q) + 1
      /\ \A i \in 1 .. Len(q) : Append(q, e)[i] = q[i]
      /\ Append(q, e)[Len(q) + 1] = e
  BY <1>1, AppendProperties
<1>4. QED
  BY <1>2, <1>3 DEF IsSequence

LEMMA TailQueue ==
  ASSUME NEW q, IsSequence(q), q # <<>>
  PROVE  /\ IsSequence(Tail(q)) /\ Len(q) \in Nat /\ Len(q) >= 1
         /\ Len(Tail(q)) = Len(q) - 1
         /\ \A i \in 1 .. Len(q) - 1 : Tail(q)[i] = q[i + 1]
<1> PICK S : q \in Seq(S)
  BY DEF IsSequence
<1>1. /\ Tail(q) \in Seq(S) /\ Len(q) \in Nat /\ Len(q) >= 1
      /\ Len(Tail(q)) = Len(q) - 1
      /\ \A i \in 1 .. Len(q) - 1 : Tail(q)[i] = q[i + 1]
  OBVIOUS
<1>2. QED
  BY <1>1 DEF IsSequence

LEMMA ClearedQueue ==
  ASSUME NEW q, IsSequence(q)
  PROVE  /\ IsSequence(Cleared(q))
         /\ \A i \in 1 .. Len(Cleared(q)) :
              Cleared(q)[i].type = "explode" /\ \E j \in 1 .. Len(q) : Cleared(q)[i] = q[j]
<1> PICK S : q \in Seq(S)
  BY DEF IsSequence
<1> DEFINE X == {e \in Range(q) : e.type = "explode"}
           c == Cleared(q)
<1>1. c \in Seq(S) /\ Range(c) = Range(q) \cap X
  BY WithinIs DEF Cleared
<1>2. DOMAIN q = 1 .. Len(q) /\ DOMAIN c = 1 .. Len(c)
  BY <1>1
<1> HIDE DEF c
<1>3. ASSUME NEW i \in 1 .. Len(c)
      PROVE  c[i].type = "explode" /\ \E j \in 1 .. Len(q) : c[i] = q[j]
  <2>1. c[i] \in Range(c)
    BY <1>2 DEF Range
  <2>2. c[i] \in Range(q) /\ c[i].type = "explode"
    BY <1>1, <2>1
  <2> QED BY <1>2, <2>2 DEF Range
<1>4. QED
  BY <1>1, <1>3 DEF IsSequence, c

-----------------------------------------------------------------------------
(* What the operations on a game state do to it. *)

LEMMA NoAmmoSpent == NoAmmo \in [Guns -> Nat] /\ \A x \in Guns : NoAmmo[x] = 0
  BY DEF NoAmmo

LEMMA BlankStamps ==
  /\ Blank.lastshot = 0 /\ Blank.gunwait = 0 /\ Blank.lastdeath = 0 /\ Blank.ammo = NoAmmo
  /\ ~CanFire(Blank)
<1>1. /\ Blank.lastshot = 0 /\ Blank.gunwait = 0 /\ Blank.lastdeath = 0 /\ Blank.ammo = NoAmmo
  BY DEF Blank
<1>2. QED
  BY <1>1, NoAmmoSpent DEF CanFire, Charged

LEMMA RespawnStamps ==
  ASSUME NEW g, DOMAIN g = Fields
  PROVE  /\ Respawn(g).lastshot = 0 /\ Respawn(g).gunwait = 0
         /\ Respawn(g).lastdeath = g.lastdeath /\ Respawn(g).ammo = NoAmmo
         /\ ~CanFire(Respawn(g))
<1>1. /\ Respawn(g).lastshot = 0 /\ Respawn(g).gunwait = 0
      /\ Respawn(g).lastdeath = g.lastdeath /\ Respawn(g).ammo = NoAmmo
  BY DEF Respawn, Fields
<1>2. QED
  BY <1>1, NoAmmoSpent DEF CanFire, Charged

LEMMA ResetStamps ==
  ASSUME NEW g, DOMAIN g = Fields
  PROVE  /\ Reset(g).lastshot = 0 /\ Reset(g).gunwait = 0
         /\ Reset(g).lastdeath = 0 /\ Reset(g).ammo = NoAmmo
         /\ ~CanFire(Reset(g))
<1> DEFINE r == [g EXCEPT !.state = IF @ = "spectator" THEN @ ELSE "dead",
                          !.rockets = <<>>, !.deaths = 0, !.lastdeath = 0]
<1>1. DOMAIN r = Fields /\ r.lastdeath = 0
  BY DEF Fields
<1> HIDE DEF r
<1>2. Reset(g) = Respawn(r)
  BY DEF Reset, r
<1>3. QED
  BY <1>1, <1>2, RespawnStamps

LEMMA SendSpawnStamps ==
  ASSUME NEW g, DOMAIN g = Fields, NEW now
  PROVE  /\ SendSpawn(g, now).lastshot = g.lastshot /\ SendSpawn(g, now).gunwait = g.gunwait
         /\ SendSpawn(g, now).lastdeath = g.lastdeath
         /\ SendSpawn(g, now).ammo \in [Guns -> Nat]
<1>1. /\ SendSpawn(g, now).lastshot = g.lastshot /\ SendSpawn(g, now).gunwait = g.gunwait
      /\ SendSpawn(g, now).lastdeath = g.lastdeath
      /\ SendSpawn(g, now).ammo = [x \in Guns |-> SpawnAmmo]
  BY DEF SendSpawn, Fields
<1>2. QED
  BY <1>1, FightAssumption

LEMMA NewLifeStamps ==
  ASSUME NEW h, DOMAIN h = HistoryFields, NEW now
  PROVE  /\ NewLife(h, now).life = h.life + 1 /\ NewLife(h, now).began = now
         /\ NewLife(h, now).shots = 0 /\ NewLife(h, now).lost \in BOOLEAN /\ ~NewLife(h, now).lost
  BY DEF NewLife, HistoryFields

LEMMA FreshStamps ==
  ASSUME NEW h, DOMAIN h = HistoryFields
  PROVE  /\ Fresh(h).life = h.life /\ Fresh(h).began = 0
         /\ Fresh(h).shots = 0 /\ Fresh(h).lost \in BOOLEAN /\ ~Fresh(h).lost
  BY DEF Fresh, HistoryFields

LEMMA NoEvents == IsSequence(<<>>) /\ \A h : Queue(h, <<>>)
  BY EmptyIsSequence DEF Queue

\* A life that begins: no shot is queued, none was fired.
LEMMA BeginsLoaded ==
  ASSUME NEW g, NEW h, NEW q, NEW late \in Nat, NEW now \in Nat,
         g.lastshot \in Nat, g.gunwait \in Nat, g.lastdeath \in Nat, g.ammo \in [Guns -> Nat],
         g.deadflush = 0, h.began \in Nat, h.began <= now, h.shots = 0, h.lost \in BOOLEAN, ~h.lost,
         Queue(h, q), \A i \in 1 .. Len(q) : q[i].type # "shot"
  PROVE  Loaded(g, h, q, late, now)
<1>1. Stamps(g, h, late, now)
  BY DEF Stamps
<1>2. Deadline(g, h)
  BY DEF Deadline
<1>3. Paced(g, h, q, late)
  BY DEF Paced
<1>4. QED
  BY <1>1, <1>2, <1>3 DEF Loaded

LEMMA BeginsEmpty ==
  ASSUME NEW g, NEW h, NEW late \in Nat, NEW now \in Nat,
         g.lastshot \in Nat, g.gunwait \in Nat, g.lastdeath \in Nat, g.ammo \in [Guns -> Nat],
         g.deadflush = 0, h.began \in Nat, h.began <= now, h.shots = 0,
         h.lost \in BOOLEAN, ~h.lost
  PROVE  Loaded(g, h, <<>>, late, now)
<1> DEFINE q == <<>>
<1>1. Queue(h, q)
  BY NoEvents
<1>2. \A i \in 1 .. Len(q) : q[i].type # "shot"
  BY EmptyIsSequence
<1> HIDE DEF q
<1>3. Loaded(g, h, q, late, now)
  BY <1>1, <1>2, BeginsLoaded
<1>4. QED
  BY <1>3 DEF q

\* A life that is over, or a spectator's.
LEMMA RespawnLoaded ==
  ASSUME NEW g, DOMAIN g = Fields, NEW h, NEW q, NEW late, NEW now, g.lastdeath \in Nat,
         h.began \in Nat, h.shots \in Nat, h.lost \in BOOLEAN, h.began <= now,
         Queue(h, q), late \in Nat
  PROVE  Loaded(Respawn(g), h, q, late, now)
<1>1. Respawn(g).deadflush = 0
  BY RespawnFields
<1>2. QED
  BY <1>1, RespawnStamps, NoAmmoSpent DEF Loaded, Stamps, Deadline, Paced

LEMMA SuicidedLoaded ==
  ASSUME NEW g, DOMAIN g = Fields, NEW h, NEW q, NEW late, NEW now, gamemillis \in Nat,
         Loaded(g, h, q, late, now)
  PROVE  /\ Loaded(Suicided(g), h, q, late, now)
         /\ CanFire(Suicided(g)) => CanFire(g)
<1>1. CASE g.state = "alive"
  <2> DEFINE d == [g EXCEPT !.state = "dead", !.deaths = @ + 1, !.lastdeath = gamemillis]
  <2>1. DOMAIN d = Fields /\ d.lastdeath \in Nat
    BY DEF Fields
  <2> HIDE DEF d
  <2>2. Suicided(g) = Respawn(d)
    BY <1>1 DEF Suicided, d
  <2>3. QED
    BY <2>1, <2>2, RespawnLoaded, RespawnStamps DEF Loaded, Stamps
<1>2. CASE g.state # "alive"
  BY <1>2 DEF Suicided
<1>3. QED
  BY <1>1, <1>2

\* Whoever dies has fired in time, and has until deadflush.
LEMMA DamagedLoaded ==
  ASSUME NEW g, NEW h, Fit(g, h), g.state = "alive", NEW damage \in Damage, gamemillis \in Nat,
         NEW q, NEW late, Loaded(g, h, q, late, gamemillis),
         ~h.lost /\ h.shots > 0 => Spent(h.shots) <= gamemillis - h.began
  PROVE  /\ Loaded(Damaged(g, damage), h, q, late, gamemillis)
         /\ CanFire(Damaged(g, damage)) => CanFire(g)
<1>1. /\ damage \in Nat /\ g.health \in Nat /\ DOMAIN g = Fields /\ g.deadflush = 0
  BY FightAssumption DEF Fit, Healthy
<1> DEFINE d == Damaged(g, damage)
<1>2. /\ d.ammo = g.ammo /\ d.lastshot = g.lastshot /\ d.gunwait = g.gunwait
  BY <1>1 DEF Damaged, Fields
<1>3. \/ d.deadflush = 0 /\ d.lastdeath = g.lastdeath /\ d.state = "alive"
      \/ /\ d.lastdeath = gamemillis /\ d.deadflush = gamemillis + DeathMillis
         /\ d.state = "dead"
  BY <1>1 DEF Damaged, Fields
<1> HIDE DEF d
<1>4. DeathMillis \in Nat
  BY TimeAssumption
<1>5. Stamps(d, h, late, gamemillis)
  BY <1>2, <1>3 DEF Loaded, Stamps
<1>6. Deadline(d, h)
  <2>1. CASE d.deadflush = 0
    BY <2>1 DEF Deadline
  <2>2. CASE d.deadflush # 0
    <3>1. h.shots \in Nat /\ h.began \in Nat /\ h.began <= gamemillis
      BY DEF Loaded, Stamps
    <3>2. h.shots > 0 => Spent(h.shots) \in Nat
      BY <3>1, SpentMore
    <3>3. QED
      BY <1>3, <1>4, <2>2, <3>1, <3>2 DEF Deadline
  <2>3. QED
    BY <2>1, <2>2
<1>7. CanFire(d) <=> Charged(g)
  BY <1>2, <1>3 DEF CanFire, Charged
<1>8. CanFire(d) <=> CanFire(g)
  BY <1>7 DEF CanFire
<1>9. Paced(d, h, q, late)
  BY <1>2, <1>8 DEF Loaded, Paced
<1>10. QED
  BY <1>5, <1>6, <1>8, <1>9 DEF Loaded, d

-----------------------------------------------------------------------------
(* What the steps do to a queue. *)

LEMMA BackedMore ==
  ASSUME NEW q, NEW late \in Nat, NEW began \in Nat, NEW i \in Nat, NEW k \in Nat, i <= k,
         Backed(q, late, began, i)
  PROVE  Backed(q, late, began, k)
<1>1. CASE late >= began
  BY <1>1 DEF Backed
<1>2. CASE \E j \in 1 .. i : IsTimed(q[j]) /\ q[j].millis >= began
  <2> PICK j \in 1 .. i : IsTimed(q[j]) /\ q[j].millis >= began
    BY <1>2
  <2>1. j \in 1 .. k
    OBVIOUS
  <2> QED BY <2>1 DEF Backed
<1>3. QED
  BY <1>1, <1>2 DEF Backed

LEMMA BackedAppend ==
  ASSUME NEW q, IsSequence(q), NEW e, NEW late \in Nat, NEW began \in Nat,
         NEW i \in 0 .. Len(q), Backed(q, late, began, i)
  PROVE  Backed(Append(q, e), late, began, i)
<1>1. CASE late >= began
  BY <1>1 DEF Backed
<1>2. CASE \E j \in 1 .. i : IsTimed(q[j]) /\ q[j].millis >= began
  <2> PICK j \in 1 .. i : IsTimed(q[j]) /\ q[j].millis >= began
    BY <1>2
  <2>1. Len(q) \in Nat
    BY LengthIsNat
  <2>2. j \in 1 .. Len(q)
    BY <2>1
  <2>3. Append(q, e)[j] = q[j]
    BY <2>2, AppendQueue
  <2> QED BY <2>3 DEF Backed
<1>3. QED
  BY <1>1, <1>2 DEF Backed

LEMMA BackedTail ==
  ASSUME NEW q, IsSequence(q), q # <<>>, NEW late \in Nat, NEW then \in Nat, NEW began \in Nat,
         NEW i \in 0 .. Len(q) - 1, Backed(q, late, began, i + 1), then >= late,
         IsTimed(q[1]) => q[1].millis \in Nat /\ then >= q[1].millis
  PROVE  Backed(Tail(q), then, began, i)
<1> DEFINE n == Len(q)
           t == Tail(q)
<1>1. n \in Nat /\ n >= 1 /\ \A j \in 1 .. n - 1 : t[j] = q[j + 1]
  BY TailQueue
<1>2. i \in Nat /\ i <= n - 1
  BY <1>1
<1>3. CASE late >= began
  BY <1>3 DEF Backed
<1>4. CASE \E j \in 1 .. i + 1 : IsTimed(q[j]) /\ q[j].millis >= began
  <2> PICK j \in 1 .. i + 1 : IsTimed(q[j]) /\ q[j].millis >= began
    BY <1>4
  <2>1. CASE j = 1
    <3>1. q[1].millis \in Nat /\ then >= q[1].millis /\ q[1].millis >= began
      BY <2>1
    <3> QED BY <3>1 DEF Backed
  <2>2. CASE j # 1
    <3> DEFINE k == j - 1
    <3>1. k \in 1 .. i /\ k \in 1 .. n - 1 /\ k + 1 = j
      <4> HIDE DEF n
      <4> QED BY <1>2, <2>2, <1>1
    <3>2. t[k] = q[j]
      BY <1>1, <3>1
    <3> HIDE DEF k, t
    <3>3. Backed(t, then, began, i)
      BY <3>1, <3>2 DEF Backed
    <3> QED BY <3>3 DEF t
  <2> QED BY <2>1, <2>2
<1>5. QED
  BY <1>3, <1>4 DEF Backed

\* The first event leaves the queue.
LEMMA TailLoaded ==
  ASSUME NEW g, NEW h, NEW q, NEW late, NEW then \in Nat, NEW now, Loaded(g, h, q, late, now),
         q # <<>>, then >= late, IsTimed(q[1]) => then >= q[1].millis
  PROVE  /\ Loaded(g, h, Tail(q), then, now)
         /\ Backed(q, late, h.began, Len(q)) => Backed(Tail(q), then, h.began, Len(Tail(q)))
<1> DEFINE n == Len(q)
           t == Tail(q)
           b == h.began
<1>1. IsSequence(q) /\ late \in Nat /\ b \in Nat
  BY DEF Loaded, Queue, Stamps
<1>2. /\ IsSequence(t) /\ n \in Nat /\ n >= 1 /\ Len(t) = n - 1
      /\ \A i \in 1 .. n - 1 : t[i] = q[i + 1]
  BY <1>1, TailQueue
<1>3. \A i \in 1 .. n - 1 : i + 1 \in 1 .. n
  <2> HIDE DEF n
  <2> QED BY <1>2
<1>4. IsTimed(q[1]) => q[1].millis \in Nat /\ then >= q[1].millis
  BY <1>2 DEF Loaded, Queue
<1>5. ASSUME NEW i \in 0 .. n - 1, Backed(q, late, b, i + 1)
      PROVE  Backed(t, then, b, i)
  BY <1>1, <1>4, <1>5, BackedTail
<1>6. Queue(h, t)
  <2>1. ASSUME NEW i \in 1 .. Len(t)
        PROVE  /\ IsTimed(t[i]) => t[i].millis \in Nat
               /\ t[i].type = "shot" => t[i].gun \in Guns /\ t[i].life = h.life
    <3>1. t[i] = q[i + 1] /\ i + 1 \in 1 .. n
      BY <1>2, <1>3
    <3>2. /\ IsTimed(q[i + 1]) => q[i + 1].millis \in Nat
          /\ q[i + 1].type = "shot" => q[i + 1].gun \in Guns /\ q[i + 1].life = h.life
      BY <3>1 DEF Loaded, Queue
    <3> QED BY <3>1, <3>2
  <2> QED BY <1>2, <2>1 DEF Queue
<1>7. Paced(g, h, t, then)
  <2> SUFFICES ASSUME CanFire(g) /\ ~h.lost
               PROVE  /\ h.shots > 0 => g.lastshot >= h.began + Spent(h.shots) /\ g.gunwait = AttackDelay
                      /\ \A i \in 1 .. Len(t) : t[i].type = "shot" => Backed(t, then, b, i)
    BY DEF Paced
  <2>1. /\ h.shots > 0 => g.lastshot >= h.began + Spent(h.shots) /\ g.gunwait = AttackDelay
        /\ \A i \in 1 .. n : q[i].type = "shot" => Backed(q, late, b, i)
    BY DEF Loaded, Paced
  <2>2. ASSUME NEW i \in 1 .. Len(t), t[i].type = "shot" PROVE Backed(t, then, b, i)
    <3>1. t[i] = q[i + 1] /\ i + 1 \in 1 .. n /\ i \in 0 .. n - 1
      <4> HIDE DEF n
      <4> QED BY <1>2, <1>3
    <3>2. Backed(q, late, b, i + 1)
      BY <2>1, <2>2, <3>1
    <3> QED BY <1>5, <3>1, <3>2
  <2> QED BY <2>1, <2>2
<1>8. Backed(q, late, b, n) => Backed(t, then, b, Len(t))
  <2>1. n - 1 \in 0 .. n - 1 /\ (n - 1) + 1 = n
    <3> HIDE DEF n
    <3> QED BY <1>2
  <2>2. Backed(q, late, b, n) => Backed(t, then, b, n - 1)
    <3> HIDE DEF n, b, t
    <3> QED BY <1>5, <2>1
  <2> QED BY <1>2, <2>2
<1>9. Stamps(g, h, then, now) /\ Deadline(g, h)
  BY DEF Loaded, Stamps
<1>10. QED
  BY <1>6, <1>7, <1>8, <1>9 DEF Loaded

\* An event joins the queue; a shot, once the life is backed.
LEMMA AppendLoaded ==
  ASSUME NEW g, NEW h, NEW q, NEW late, NEW now, Loaded(g, h, q, late, now), NEW e,
         IsTimed(e) => e.millis \in Nat,
         e.type = "shot" => e.gun \in Guns /\ e.life = h.life,
         e.type = "shot" /\ CanFire(g) /\ ~h.lost =>
           Backed(Append(q, e), late, h.began, Len(q) + 1)
  PROVE  /\ Loaded(g, h, Append(q, e), late, now)
         /\ Backed(q, late, h.began, Len(q)) =>
              Backed(Append(q, e), late, h.began, Len(q) + 1)
<1> DEFINE n == Len(q)
           a == Append(q, e)
           b == h.began
<1>1. IsSequence(q) /\ late \in Nat /\ b \in Nat
  BY DEF Loaded, Queue, Stamps
<1>2. /\ IsSequence(a) /\ n \in Nat /\ Len(a) = n + 1
      /\ \A i \in 1 .. n : a[i] = q[i]
      /\ a[n + 1] = e
  BY <1>1, AppendQueue
<1>3. \A i \in 1 .. n + 1 : i \in 1 .. n \/ i = n + 1
  <2> HIDE DEF n
  <2> QED BY <1>2
<1>4. Queue(h, a)
  <2>1. ASSUME NEW i \in 1 .. Len(a)
        PROVE  /\ IsTimed(a[i]) => a[i].millis \in Nat
               /\ a[i].type = "shot" => a[i].gun \in Guns /\ a[i].life = h.life
    <3>1. CASE i \in 1 .. n
      <4>1. /\ IsTimed(q[i]) => q[i].millis \in Nat
            /\ q[i].type = "shot" => q[i].gun \in Guns /\ q[i].life = h.life
        BY <3>1 DEF Loaded, Queue
      <4> QED BY <1>2, <3>1, <4>1
    <3>2. CASE i = n + 1
      BY <1>2, <3>2
    <3> QED BY <1>2, <1>3, <3>1, <3>2
  <2> QED BY <1>2, <2>1 DEF Queue
<1>5. ASSUME NEW i \in 1 .. n, Backed(q, late, b, i) PROVE Backed(a, late, b, i)
  <2>1. i \in 0 .. n
    BY <1>2
  <2> QED BY <1>1, <1>5, <2>1, BackedAppend
<1>6. Paced(g, h, a, late)
  <2> SUFFICES ASSUME CanFire(g) /\ ~h.lost
               PROVE  /\ h.shots > 0 => g.lastshot >= h.began + Spent(h.shots) /\ g.gunwait = AttackDelay
                      /\ \A i \in 1 .. Len(a) : a[i].type = "shot" => Backed(a, late, b, i)
    BY DEF Paced
  <2>1. /\ h.shots > 0 => g.lastshot >= h.began + Spent(h.shots) /\ g.gunwait = AttackDelay
        /\ \A i \in 1 .. n : q[i].type = "shot" => Backed(q, late, b, i)
    BY DEF Loaded, Paced
  <2>2. ASSUME NEW i \in 1 .. Len(a), a[i].type = "shot" PROVE Backed(a, late, b, i)
    <3>1. CASE i \in 1 .. n
      <4>1. a[i] = q[i]
        BY <1>2, <3>1
      <4>2. Backed(q, late, b, i)
        BY <2>1, <2>2, <3>1, <4>1
      <4> QED BY <1>5, <3>1, <4>2
    <3>2. CASE i = n + 1
      BY <1>2, <2>2, <3>2
    <3> QED BY <1>2, <1>3, <3>1, <3>2
  <2> QED BY <2>1, <2>2
<1>7. Backed(q, late, b, n) => Backed(a, late, b, n + 1)
  <2> SUFFICES ASSUME Backed(q, late, b, n) PROVE Backed(a, late, b, n + 1)
    OBVIOUS
  <2>1. n \in 0 .. n
    BY <1>2
  <2>2. Backed(a, late, b, n)
    BY <1>1, <2>1, BackedAppend
  <2>3. n <= n + 1 /\ n + 1 \in Nat
    BY <1>2
  <2> HIDE DEF a, n, b
  <2> QED BY <1>1, <1>2, <2>2, <2>3, BackedMore
<1>8. Stamps(g, h, late, now) /\ Deadline(g, h)
  BY DEF Loaded
<1>9. QED
  BY <1>4, <1>6, <1>7, <1>8 DEF Loaded

-----------------------------------------------------------------------------
(* A step about one player. *)

\* The step leaves the others and the clock alone.
Touch(p) ==
  /\ DOMAIN gs' = Players /\ DOMAIN past' = Players
  /\ DOMAIN events' = Players /\ DOMAIN lastevent' = Players /\ synced' \subseteq Players
  /\ gamemillis' = gamemillis
  /\ \A q \in Players \ {p} :
       /\ gs'[q] = gs[q] /\ past'[q] = past[q]
       /\ events'[q] = events[q] /\ lastevent'[q] = lastevent[q]
       /\ q \in synced' <=> q \in synced
       /\ Playing(q) => Playing(q)'
       /\ job'.then = q <=> job.then = q

LEMMA OthersReady ==
  ASSUME FInv, NEW p \in Players, Touch(p), JobOK', Ready2(p)', InTime(p)'
  PROVE  FInv'
<1>1. ASSUME NEW q \in Players \ {p} PROVE Ready2(q)' /\ InTime(q)'
  <2>1. Ready2(q) /\ InTime(q)
    BY DEF FInv
  <2>2. /\ gs'[q] = gs[q] /\ past'[q] = past[q] /\ events'[q] = events[q]
        /\ lastevent'[q] = lastevent[q] /\ gamemillis' = gamemillis
        /\ q \in synced' <=> q \in synced
        /\ Playing(q) => Playing(q)'
        /\ job'.then = q <=> job.then = q
    BY DEF Touch
  <2>3. InTime(q)'
    BY <2>1, <2>2 DEF InTime
  <2>4. SyncOK(q)'
    BY <2>1, <2>2 DEF Ready2, SyncOK
  <2>5. QED
    BY <2>1, <2>2, <2>3, <2>4 DEF Ready2
<1>2. \A q \in Players : Ready2(q)' /\ InTime(q)'
  BY <1>1
<1>3. DOMAIN events' = Players /\ DOMAIN lastevent' = Players /\ synced' \subseteq Players
  BY DEF Touch
<1>4. QED
  BY <1>2, <1>3 DEF FInv

\* Nothing that matters here changes.
LEMMA QuietReady ==
  ASSUME FInv, PlayersFit, UNCHANGED <<clients, gs, queues, gamemillis, past>>, JobOK',
         \A p \in Players : job'.then = p <=> job.then = p
  PROVE  FInv'
<1>1. /\ clients' = clients /\ gs' = gs /\ events' = events /\ synced' = synced
      /\ lastevent' = lastevent /\ gamemillis' = gamemillis /\ past' = past
  BY DEF queues
<1>2. \A p \in Players : Ready2(p)' /\ InTime(p)'
  BY <1>1 DEF FInv, Ready2, SyncOK, InTime, Playing
<1>3. QED
  BY <1>1, <1>2 DEF FInv

LEMMA IdleJob == Idle => job.then = "none" /\ job.left = <<>>
  BY DEF Idle, NoJob

LEMMA IdleJobKept == FInv /\ Idle /\ UNCHANGED job => JobOK'
<1> SUFFICES ASSUME FInv, Idle, UNCHANGED job PROVE JobOK'
  OBVIOUS
<1>1. job'.then = "none" /\ job'.left = <<>>
  BY IdleJob
<1>2. "none" \notin Players
  BY PlayerAssumption
<1>3. QED
  BY <1>1, <1>2 DEF JobOK

\* A step by which only the game state and the history of p change.
LEMMA StateReady ==
  ASSUME FInv, PlayersFit, NEW p \in Players, UNCHANGED <<clients, queues, gamemillis>>,
         DOMAIN gs' = Players, DOMAIN past' = Players,
         \A q \in Players \ {p} : gs'[q] = gs[q] /\ past'[q] = past[q],
         \A q \in Players : job'.then = q <=> job.then = q,
         JobOK', Loaded(gs'[p], past'[p], events[p], lastevent[p], gamemillis),
         CanFire(gs'[p]) => CanFire(gs[p]),
         past'[p].lost = past[p].lost, past'[p].shots = past[p].shots,
         past'[p].began = past[p].began
  PROVE  FInv'
<1>1. /\ clients' = clients /\ events' = events /\ synced' = synced
      /\ lastevent' = lastevent /\ gamemillis' = gamemillis
  BY DEF queues
<1>2. Touch(p)
  BY <1>1 DEF Touch, FInv, Playing
<1>3. SyncOK(p)'
  BY <1>1 DEF FInv, Ready2, SyncOK
<1>4. Playing(p)' <=> Playing(p)
  BY <1>1 DEF Playing
<1>5. Ready2(p)'
  BY <1>1, <1>3, <1>4 DEF FInv, Ready2
<1>6. InTime(p)'
  BY <1>1 DEF FInv, InTime
<1>7. QED
  BY <1>2, <1>5, <1>6, OthersReady

\* p has sent something: it is queued, or lost.
LEMMA SentReady ==
  ASSUME FInv, PlayersFit, NEW p \in Players, Playing(p), gamemillis \in Nat, NEW e,
         UNCHANGED <<clients, gs, lastevent, gamemillis, job>>, Idle, AddEvent(p, e),
         \/ /\ synced' = synced /\ past' = past /\ ~IsTimed(e)
         \/ /\ synced' = synced \cup {p} /\ NoteLost(p)
            /\ IsTimed(e) /\ e.millis \in EventMillis(p)
         ,
         e.type = "shot" => e.gun \in Guns /\ e.life = past[p].life
  PROVE  FInv'
<1> DEFINE q == events[p]
           n == Len(q)
           full == gs[p].state = "spectator" \/ n > QueueLimit
<1>1. /\ Ready2(p) /\ InTime(p) /\ Loaded(gs[p], past[p], q, lastevent[p], gamemillis)
      /\ SyncOK(p) /\ DOMAIN events = Players /\ DOMAIN lastevent = Players
      /\ synced \subseteq Players
  BY DEF FInv, Ready2
<1>2. IsSequence(q) /\ n \in Nat /\ lastevent[p] \in Nat /\ past[p].began \in Nat
      /\ past[p].began <= gamemillis
  BY <1>1, LengthIsNat DEF Loaded, Queue, Stamps
<1>3. /\ DOMAIN events' = Players
      /\ events'[p] = IF full THEN q ELSE Append(q, e)
      /\ \A r \in Players \ {p} : events'[r] = events[r]
  BY <1>1 DEF AddEvent
<1>4. DOMAIN past[p] = HistoryFields /\ DOMAIN past = Players /\ DOMAIN gs = Players
  BY DEF PlayersFit, Fit, IsHistory
<1>5. /\ DOMAIN past' = Players
      /\ \A r \in Players \ {p} : past'[r] = past[r] /\ (r \in synced' <=> r \in synced)
      /\ p \in synced => p \in synced'
      /\ DOMAIN past'[p] = HistoryFields
      /\ past'[p].life = past[p].life /\ past'[p].began = past[p].began
      /\ past'[p].shots = past[p].shots
  BY <1>4 DEF NoteLost, HistoryFields
<1>6. synced' \subseteq Players
  BY <1>1
<1>7. Touch(p)
  BY <1>1, <1>3, <1>4, <1>5, <1>6 DEF Touch, Playing
<1>8. JobOK'
  BY IdleJobKept
<1>9. past[p].lost \in BOOLEAN
  BY <1>1 DEF Loaded, Stamps
<1>10. /\ past'[p].lost \in BOOLEAN
       /\ ~past'[p].lost => ~past[p].lost /\ (IsTimed(e) => ~(n > QueueLimit))
  BY <1>4, <1>9, Zenon DEF NoteLost, HistoryFields
<1>11. Loaded(gs[p], past'[p], q, lastevent[p], gamemillis)
  <2>1. Stamps(gs[p], past'[p], lastevent[p], gamemillis)
    BY <1>1, <1>5, <1>10 DEF Loaded, Stamps
  <2>2. Queue(past'[p], q)
    BY <1>1, <1>5 DEF Loaded, Queue
  <2>3. Deadline(gs[p], past'[p])
    BY <1>1, <1>5, <1>10 DEF Loaded, Deadline
  <2>4. Paced(gs[p], past'[p], q, lastevent[p])
    BY <1>1, <1>5, <1>10 DEF Loaded, Paced
  <2>5. QED
    BY <2>1, <2>2, <2>3, <2>4 DEF Loaded
<1>12. InTime(p)'
  BY <1>1, <1>5, <1>10 DEF InTime
<1> HIDE DEF q, n
<1>13. CASE full
  <2>1. SyncOK(p)'
    <3>1. CASE gs[p].state = "spectator"
      BY <3>1 DEF SyncOK, CanFire
    <3>2. CASE n > QueueLimit /\ IsTimed(e)
      BY <1>10, <3>2 DEF SyncOK
    <3>3. CASE ~IsTimed(e)
      BY <1>1, <1>3, <1>13, <3>3 DEF SyncOK, q, n
    <3>4. QED
      BY <1>13, <3>1, <3>2, <3>3
  <2>2. Ready2(p)'
    BY <1>3, <1>11, <1>13, <2>1 DEF Ready2, Playing
  <2>3. QED
    BY <1>7, <1>8, <1>12, <2>2, OthersReady
<1>14. CASE ~full
  <2> DEFINE a == Append(q, e)
  <2>1. /\ Len(a) = n + 1 /\ a[n + 1] = e /\ n + 1 \in 1 .. n + 1
    BY <1>2, AppendQueue DEF n
  <2> HIDE DEF a
  <2>2. IsTimed(e) => e.millis \in Nat
    BY TimeAssumption DEF EventMillis
  <2>3. ASSUME CanFire(gs[p]), ~past[p].lost, IsTimed(e)
        PROVE  Backed(a, lastevent[p], past[p].began, n + 1)
    <3>1. CASE e.millis = gamemillis
      BY <1>2, <2>1, <2>3, <3>1 DEF Backed
    <3>2. CASE e.millis # gamemillis
      <4>1. p \in synced
        BY <2>3, <3>2 DEF EventMillis
      <4>2. Backed(q, lastevent[p], past[p].began, n)
        BY <1>1, <2>3, <4>1 DEF SyncOK, q, n
      <4>3. n \in 0 .. Len(q)
        BY <1>2 DEF n
      <4>4. Backed(a, lastevent[p], past[p].began, n)
        BY <1>2, <4>2, <4>3, BackedAppend DEF a
      <4>5. n <= n + 1 /\ n + 1 \in Nat
        BY <1>2
      <4>6. QED
        BY <1>2, <4>4, <4>5, BackedMore
    <3>3. QED
      BY <3>1, <3>2
  <2>4. e.type = "shot" => IsTimed(e)
    BY DEF IsTimed
  <2>5. /\ Loaded(gs[p], past'[p], a, lastevent[p], gamemillis)
        /\ Backed(q, lastevent[p], past'[p].began, n) =>
             Backed(a, lastevent[p], past'[p].began, n + 1)
    BY <1>5, <1>10, <1>11, <2>2, <2>3, <2>4, AppendLoaded DEF a, n
  <2>6. SyncOK(p)'
    <3> SUFFICES ASSUME p \in synced', CanFire(gs[p]), ~past'[p].lost
                 PROVE  Backed(a, lastevent[p], past[p].began, n + 1)
      BY <1>3, <1>5, <1>14, <2>1 DEF SyncOK, a
    <3>1. CASE IsTimed(e)
      BY <1>10, <2>3, <3>1
    <3>2. CASE ~IsTimed(e)
      BY <1>1, <1>5, <1>10, <2>5, <3>2 DEF SyncOK, q, n
    <3>3. QED
      BY <3>1, <3>2
  <2>7. Ready2(p)'
    BY <1>3, <1>14, <2>5, <2>6 DEF Ready2, Playing, a
  <2>8. QED
    BY <1>7, <1>8, <1>12, <2>7, OthersReady
<1>15. QED
  BY <1>13, <1>14

-----------------------------------------------------------------------------
(* The roster. *)

\* A player about whom the life that begins, or the number that is free, says nothing.
LEMMA BlankSlate ==
  ASSUME NEW p \in Players, Ready2(p), Fit(gs[p], past[p])
  PROVE  /\ gs[p].lastshot \in Nat /\ gs[p].gunwait \in Nat /\ gs[p].lastdeath \in Nat
         /\ gs[p].ammo \in [Guns -> Nat] /\ lastevent[p] \in Nat
         /\ IsSequence(events[p]) /\ Queue(past[p], events[p])
         /\ past[p].began \in Nat /\ past[p].shots \in Nat /\ past[p].lost \in BOOLEAN
         /\ past[p].began <= gamemillis
  BY DEF Ready2, Loaded, Stamps, Queue

LEMMA MapChangeReady ==
  ASSUME FInv, IInv, Idle, UNCHANGED job, NEW S, NEW g, NEW h, MapChange(S, g, h),
         \A p \in Players : DOMAIN g[p] = Fields /\ DOMAIN h[p] = HistoryFields
                            /\ (p \notin S => g[p] = Blank)
  PROVE  FInv'
<1>1. JobOK'
  BY IdleJobKept
<1>2. /\ DOMAIN events' = Players /\ DOMAIN lastevent' = Players /\ synced' = {}
      /\ gamemillis' = 0
      /\ \A p \in Players : events'[p] = <<>> /\ lastevent'[p] = 0
  BY DEF MapChange
<1>3. ASSUME NEW p \in Players PROVE Ready2(p)' /\ InTime(p)'
  <2>1. DOMAIN g[p] = Fields /\ DOMAIN h[p] = HistoryFields /\ (p \notin S => g[p] = Blank)
    OBVIOUS
  <2> DEFINE k == Fresh(h[p])
  <2>2. /\ DOMAIN k = HistoryFields /\ k.began = 0 /\ k.shots = 0 /\ k.lost \in BOOLEAN /\ ~k.lost
    BY <2>1, FreshStamps DEF Fresh, HistoryFields
  <2>3. \/ p \notin S /\ gs'[p] = g[p] /\ past'[p] = k
        \/ gs'[p] = Reset(g[p]) /\ past'[p] = k
        \/ gs'[p] = SendSpawn(Reset(g[p]), 0) /\ past'[p] = NewLife(k, 0)
    <3>1. gs'[p] = CASE p \in {r \in S : g[r].state # "spectator"} -> SendSpawn(Reset(g[p]), 0)
                     [] p \in S \ {r \in S : g[r].state # "spectator"} -> Reset(g[p])
                     [] OTHER -> g[p]
      BY DEF MapChange
    <3>2. past'[p] = IF p \in {r \in S : g[r].state # "spectator"} THEN NewLife(k, 0) ELSE k
      BY DEF MapChange, Fresh
    <3> HIDE DEF k
    <3>3. QED
      BY <3>1, <3>2
  <2> HIDE DEF k
  <2>4. past'[p].began = 0 /\ past'[p].shots = 0 /\ past'[p].lost \in BOOLEAN /\ ~past'[p].lost
    BY <2>2, <2>3, NewLifeStamps
  <2> DEFINE r == Reset(g[p])
  <2>5. /\ r.lastshot = 0 /\ r.gunwait = 0 /\ r.lastdeath = 0 /\ r.ammo = NoAmmo
        /\ r.deadflush = 0 /\ DOMAIN r = Fields
    BY <2>1, ResetStamps, ResetFields
  <2>6. NoAmmo \in [Guns -> Nat]
    BY NoAmmoSpent
  <2> HIDE DEF r
  <2>7. /\ gs'[p].lastshot \in Nat /\ gs'[p].gunwait \in Nat /\ gs'[p].lastdeath \in Nat
        /\ gs'[p].ammo \in [Guns -> Nat] /\ gs'[p].deadflush = 0
    <3>1. CASE gs'[p] = Blank
      BY <2>6, <3>1, BlankStamps, BlankFields
    <3>2. CASE gs'[p] = r
      BY <2>5, <2>6, <3>2
    <3>3. CASE gs'[p] = SendSpawn(r, 0)
      BY <2>5, <3>3, SendSpawnStamps, SendSpawnFields
    <3>4. QED
      BY <2>1, <2>3, <3>1, <3>2, <3>3 DEF r
  <2>8. Loaded(gs'[p], past'[p], <<>>, 0, 0)
    <3>1. past'[p].began \in Nat /\ past'[p].began <= 0 /\ 0 \in Nat
      BY <2>4
    <3>2. past'[p].lost \in BOOLEAN /\ ~past'[p].lost /\ past'[p].shots = 0
      BY <2>4
    <3>3. QED
      BY <2>7, <3>1, <3>2, BeginsEmpty
  <2>9. Ready2(p)'
    BY <1>2, <2>8 DEF Ready2, SyncOK
  <2>10. InTime(p)'
    BY <2>4 DEF InTime
  <2>11. QED
    BY <2>9, <2>10
<1>4. QED
  BY <1>1, <1>2, <1>3 DEF FInv

LEMMA FitDomains ==
  ASSUME IInv
  PROVE  /\ DOMAIN gs = Players /\ DOMAIN past = Players
         /\ \A p \in Players : /\ DOMAIN gs[p] = Fields /\ DOMAIN past[p] = HistoryFields
                               /\ Fit(gs[p], past[p])
                               /\ p \notin Joined => gs[p] = Blank
  BY DEF IInv, PlayersFit, Fit, IsHistory, Joined

LEMMA ChangeMapReady == FInv /\ IInv /\ ChangeMap => FInv'
<1> SUFFICES ASSUME FInv, IInv, ChangeMap PROVE FInv'
  OBVIOUS
<1>1. Idle /\ UNCHANGED job /\ MapChange(Joined, gs, past)
  BY DEF ChangeMap, flow
<1>2. QED
  BY <1>1, FitDomains, MapChangeReady

\* Someone takes a free number, to play or to watch.
LEMMA JoinReady ==
  ASSUME FInv, IInv, NEW p \in Players, NEW watch \in BOOLEAN, Join(p, watch)
  PROVE  FInv'
<1> DEFINE state == IF watch THEN [Blank EXCEPT !.state = "spectator"] ELSE Blank
           k == [NoPast EXCEPT !.session = past[p].session + 1]
           g == [gs EXCEPT ![p] = state]
           h == [past EXCEPT ![p] = k]
<1>1. Idle /\ UNCHANGED flow /\ ~Playing(p) /\ clients' = Append(clients, p)
      /\ UNCHANGED job
  BY DEF Join, flow
<1>2. /\ DOMAIN k = HistoryFields /\ k.began = 0 /\ k.shots = 0 /\ k.lost \in BOOLEAN /\ ~k.lost
  BY DEF NoPast, HistoryFields
<1>3. /\ DOMAIN state = Fields /\ state.lastshot = 0 /\ state.gunwait = 0
      /\ state.lastdeath = 0 /\ state.ammo = NoAmmo /\ state.deadflush = 0
  <2> DEFINE w == [Blank EXCEPT !.state = "spectator"]
  <2>1. /\ DOMAIN w = Fields /\ w.lastshot = Blank.lastshot /\ w.gunwait = Blank.gunwait
        /\ w.lastdeath = Blank.lastdeath /\ w.ammo = Blank.ammo
        /\ w.deadflush = Blank.deadflush
    BY BlankFields DEF Fields
  <2> HIDE DEF w
  <2>2. state = w \/ state = Blank
    BY DEF w
  <2> HIDE DEF state
  <2>3. QED
    BY <2>1, <2>2, BlankFields, BlankStamps
<1>4. /\ g[p] = state /\ h[p] = k /\ DOMAIN g = Players /\ DOMAIN h = Players
      /\ \A q \in Players \ {p} : g[q] = gs[q] /\ h[q] = past[q]
  BY FitDomains
<1>5. \/ MapChange(Joined \cup {p}, g, h)
      \/ /\ gs' = IF watch THEN g ELSE [g EXCEPT ![p] = SendSpawn(@, gamemillis)]
         /\ past' = IF watch THEN h ELSE [h EXCEPT ![p] = NewLife(@, gamemillis)]
         /\ UNCHANGED <<queues, clock, items>>
  BY DEF Join
<1> HIDE DEF state, k
<1>6. CASE MapChange(Joined \cup {p}, g, h)
  <2>1. \A q \in Players : DOMAIN g[q] = Fields /\ DOMAIN h[q] = HistoryFields
                           /\ (q \notin Joined \cup {p} => g[q] = Blank)
    BY <1>2, <1>3, <1>4, FitDomains
  <2> HIDE DEF g, h
  <2>2. QED
    BY <1>1, <1>6, <2>1, MapChangeReady
<1>7. CASE /\ gs' = IF watch THEN g ELSE [g EXCEPT ![p] = SendSpawn(@, gamemillis)]
           /\ past' = IF watch THEN h ELSE [h EXCEPT ![p] = NewLife(@, gamemillis)]
           /\ UNCHANGED <<queues, clock, items>>
  <2>1. /\ DOMAIN gs' = Players /\ DOMAIN past' = Players
        /\ \A q \in Players \ {p} : gs'[q] = gs[q] /\ past'[q] = past[q]
        /\ gs'[p] = IF watch THEN state ELSE SendSpawn(state, gamemillis)
        /\ past'[p] = IF watch THEN k ELSE NewLife(k, gamemillis)
    BY <1>4, <1>7
  <2>2. /\ events' = events /\ synced' = synced /\ lastevent' = lastevent
        /\ gamemillis' = gamemillis /\ gamemillis \in Nat
    BY <1>7 DEF queues, clock, IInv
  <2>3. \A q \in Players : Playing(q)' <=> Playing(q) \/ q = p
    BY <1>1, AppendRoster DEF IInv
  <2>4. Touch(p)
    BY <1>1, <2>1, <2>2, <2>3 DEF Touch, FInv
  <2>5. JobOK'
    BY <1>1, IdleJobKept
  <2>6. Ready2(p) /\ events[p] = <<>> /\ p \notin synced /\ lastevent[p] \in Nat
    BY <1>1, BlankSlate, FitDomains DEF FInv, Ready2
  <2>7. /\ past'[p].began \in {0, gamemillis} /\ past'[p].shots = 0 /\ past'[p].lost \in BOOLEAN /\ ~past'[p].lost
    BY <1>2, <2>1, NewLifeStamps
  <2>8. /\ gs'[p].lastshot = 0 /\ gs'[p].gunwait = 0 /\ gs'[p].lastdeath = 0
        /\ gs'[p].ammo \in [Guns -> Nat] /\ gs'[p].deadflush = 0
    BY <1>3, <2>1, NoAmmoSpent, SendSpawnStamps, SendSpawnFields
  <2>9. Loaded(gs'[p], past'[p], <<>>, lastevent[p], gamemillis)
    <3>1. past'[p].began \in Nat /\ past'[p].began <= gamemillis
      BY <2>2, <2>7
    <3>2. /\ gs'[p].lastshot \in Nat /\ gs'[p].gunwait \in Nat /\ gs'[p].lastdeath \in Nat
          /\ past'[p].lost \in BOOLEAN /\ ~past'[p].lost
      BY <2>7, <2>8
    <3>3. QED
      BY <2>2, <2>6, <2>7, <2>8, <3>1, <3>2, BeginsEmpty
  <2>10. Ready2(p)'
    BY <2>2, <2>6, <2>9 DEF Ready2, SyncOK
  <2>11. InTime(p)'
    BY <2>7 DEF InTime
  <2>12. QED
    BY <2>4, <2>5, <2>10, <2>11, OthersReady
<1>8. QED
  BY <1>5, <1>6, <1>7

LEMMA LeaveReady ==
  ASSUME FInv, IInv, NEW p \in Players, Leave(p)
  PROVE  FInv'
<1>1. PICK i \in DOMAIN clients : clients[i] = p /\ clients' = Without(clients, i)
  BY DEF Leave
<1>2. \A q \in Players : Playing(q)' <=> Playing(q) /\ q # p
  BY <1>1, WithoutRoster DEF IInv
<1>3. /\ gs' = [gs EXCEPT ![p] = Blank] /\ Idle /\ UNCHANGED job
      /\ events' = [events EXCEPT ![p] = <<>>] /\ synced' = synced \ {p}
      /\ lastevent' = [lastevent EXCEPT ![p] = 0] /\ gamemillis' = gamemillis
      /\ past' = [past EXCEPT ![p] = [NoPast EXCEPT !.session = past[p].session]]
  BY DEF Leave, clock, flow
<1>4. /\ DOMAIN events = Players /\ DOMAIN lastevent = Players /\ synced \subseteq Players
      /\ DOMAIN gs = Players /\ DOMAIN past = Players /\ gamemillis \in Nat
  BY FitDomains DEF FInv, IInv
<1>5. /\ gs'[p] = Blank /\ events'[p] = <<>> /\ p \notin synced' /\ lastevent'[p] = 0
      /\ past'[p].began = 0 /\ past'[p].shots = 0 /\ past'[p].lost \in BOOLEAN /\ ~past'[p].lost
  BY <1>3, <1>4 DEF NoPast
<1>6. Touch(p)
  BY <1>2, <1>3, <1>4 DEF Touch
<1>7. JobOK'
  BY <1>3, IdleJobKept
<1>8. Loaded(gs'[p], past'[p], <<>>, 0, gamemillis)
  <2>1. /\ gs'[p].lastshot \in Nat /\ gs'[p].gunwait \in Nat /\ gs'[p].lastdeath \in Nat
        /\ gs'[p].ammo \in [Guns -> Nat] /\ gs'[p].deadflush = 0
    BY <1>5, BlankStamps, BlankFields, NoAmmoSpent
  <2>2. QED
    <3>1. past'[p].began \in Nat /\ past'[p].began <= gamemillis /\ 0 \in Nat
      BY <1>4, <1>5
    <3>2. past'[p].lost \in BOOLEAN /\ ~past'[p].lost /\ past'[p].shots = 0
      BY <1>5
    <3>3. QED
      BY <1>4, <2>1, <3>1, <3>2, BeginsEmpty
<1>9. Ready2(p)'
  BY <1>3, <1>5, <1>8 DEF Ready2, SyncOK
<1>10. InTime(p)'
  BY <1>5 DEF InTime
<1>11. QED
  BY <1>6, <1>7, <1>9, <1>10, OthersReady

LEMMA ForceSpectatorReady ==
  ASSUME FInv, IInv, NEW p \in Players, ForceSpectator(p)
  PROVE  FInv'
<1> DEFINE d == Suicided(gs[p])
           g == [d EXCEPT !.state = "spectator"]
<1>1. /\ gs' = [gs EXCEPT ![p] = g] /\ UNCHANGED <<clients, queues, gamemillis>> /\ past' = past
      /\ Idle /\ UNCHANGED job
  BY DEF ForceSpectator, clock, flow
<1>2. /\ Loaded(gs[p], past[p], events[p], lastevent[p], gamemillis) /\ Fit(gs[p], past[p])
      /\ gamemillis \in Nat
  BY FitDomains DEF FInv, Ready2, IInv
<1>3. Loaded(d, past[p], events[p], lastevent[p], gamemillis) /\ DOMAIN d = Fields
  BY <1>2, SuicidedLoaded, SuicidedFit DEF Fit
<1> HIDE DEF d
<1>4. /\ g.state = "spectator" /\ g.lastshot = d.lastshot /\ g.gunwait = d.gunwait
      /\ g.lastdeath = d.lastdeath /\ g.ammo = d.ammo /\ g.deadflush = d.deadflush
  BY <1>3 DEF Fields
<1> HIDE DEF g
<1>5. ~CanFire(g)
  BY <1>4 DEF CanFire
<1>6. Loaded(g, past[p], events[p], lastevent[p], gamemillis)
  <2>1. Stamps(g, past[p], lastevent[p], gamemillis)
    BY <1>3, <1>4 DEF Loaded, Stamps
  <2>2. Deadline(g, past[p])
    BY <1>3, <1>4 DEF Loaded, Deadline
  <2>3. Paced(g, past[p], events[p], lastevent[p])
    BY <1>5 DEF Paced
  <2>4. QED
    BY <1>3, <2>1, <2>2, <2>3 DEF Loaded
<1>7. JobOK' /\ PlayersFit
  BY <1>1, IdleJobKept DEF IInv
<1>8. QED
  BY <1>1, <1>5, <1>6, <1>7, FitDomains, StateReady

\* p plays on the same map.
LEMMA PlaysReady ==
  ASSUME FInv, IInv, NEW p \in Players, Idle, UNCHANGED job, gs[p].state = "spectator",
         gs' = [gs EXCEPT ![p] = Respawn([@ EXCEPT !.state = "dead"])],
         UNCHANGED <<clients, queues, gamemillis>>, past' = past
  PROVE  FInv'
<1> DEFINE d == [gs[p] EXCEPT !.state = "dead"]
<1>1. gs'[p] = Respawn(d) /\ DOMAIN gs' = Players
      /\ \A q \in Players \ {p} : gs'[q] = gs[q]
  BY FitDomains
<1>2. DOMAIN d = Fields /\ d.lastdeath = gs[p].lastdeath
  BY FitDomains DEF Fields
<1> HIDE DEF d
<1>3. Ready2(p) /\ Fit(gs[p], past[p])
  BY FitDomains DEF FInv
<1>4. Loaded(gs'[p], past[p], events[p], lastevent[p], gamemillis) /\ ~CanFire(gs'[p])
  BY <1>1, <1>2, <1>3, BlankSlate, RespawnLoaded, RespawnStamps
<1>5. JobOK' /\ PlayersFit
  BY IdleJobKept DEF IInv
<1>6. QED
  BY <1>1, <1>4, <1>5, FitDomains, StateReady

LEMMA UnspectateReady ==
  ASSUME FInv, IInv, NEW p \in Players, Unspectate(p)
  PROVE  FInv'
<1> DEFINE d == [gs[p] EXCEPT !.state = "dead"]
           g == [gs EXCEPT ![p] = Respawn([@ EXCEPT !.state = "dead"])]
<1>1. /\ Idle /\ UNCHANGED job /\ UNCHANGED clients /\ Playing(p) /\ gs[p].state = "spectator"
      /\ \/ MapChange(Joined, g, past)
         \/ gs' = g /\ UNCHANGED <<queues, clock, items, past>>
  BY DEF Unspectate, flow
<1>2. CASE MapChange(Joined, g, past)
  <2>1. g[p] = Respawn(d) /\ \A q \in Players \ {p} : g[q] = gs[q]
    BY FitDomains
  <2>2. DOMAIN d = Fields
    BY FitDomains DEF Fields
  <2> HIDE DEF d, g
  <2>3. DOMAIN g[p] = Fields /\ p \in Joined
    BY <1>1, <2>1, <2>2, RespawnFields DEF Joined
  <2>4. \A q \in Players : DOMAIN g[q] = Fields /\ DOMAIN past[q] = HistoryFields
                           /\ (q \notin Joined => g[q] = Blank)
    BY <2>1, <2>3, FitDomains
  <2>5. QED
    BY <1>1, <1>2, <2>4, MapChangeReady
<1>3. CASE gs' = g /\ UNCHANGED <<queues, clock, items, past>>
  <2>1. UNCHANGED <<clients, queues, gamemillis>> /\ past' = past
    BY <1>1, <1>3 DEF clock
  <2>2. QED
    BY <1>1, <1>3, <2>1, PlaysReady
<1>4. QED
  BY <1>1, <1>2, <1>3

LEMMA SwitchTeamReady ==
  ASSUME FInv, IInv, NEW p \in Players, SwitchTeam(p)
  PROVE  FInv'
<1>1. /\ gs' = [gs EXCEPT ![p] = Suicided(@)] /\ UNCHANGED <<clients, queues, gamemillis>>
      /\ past' = past /\ Idle /\ UNCHANGED job
  BY DEF SwitchTeam, clock, flow
<1>2. /\ Loaded(gs[p], past[p], events[p], lastevent[p], gamemillis) /\ Fit(gs[p], past[p])
      /\ gamemillis \in Nat
  BY FitDomains DEF FInv, Ready2, IInv
<1>3. /\ Loaded(Suicided(gs[p]), past[p], events[p], lastevent[p], gamemillis)
      /\ CanFire(Suicided(gs[p])) => CanFire(gs[p])
  BY <1>2, SuicidedLoaded DEF Fit
<1>4. JobOK' /\ PlayersFit
  BY <1>1, IdleJobKept DEF IInv
<1>5. QED
  BY <1>1, <1>3, <1>4, FitDomains, StateReady

-----------------------------------------------------------------------------
(* What the clients send. *)

LEMMA SpawnReady ==
  ASSUME FInv, IInv, NEW p \in Players, Spawn(p)
  PROVE  FInv'
<1>1. /\ gs' = [gs EXCEPT ![p].state = "alive", ![p].lastspawn = -1]
      /\ past' = [past EXCEPT ![p].spawns = @ + 1] /\ UNCHANGED <<clients, queues, gamemillis>>
      /\ Idle /\ UNCHANGED job /\ gs[p].lastspawn >= 0 /\ gs[p].state \in {"alive", "dead"}
  BY DEF Spawn, clock, flow
<1>2. /\ Loaded(gs[p], past[p], events[p], lastevent[p], gamemillis) /\ Fit(gs[p], past[p])
  BY FitDomains DEF FInv, Ready2
<1>3. /\ DOMAIN gs[p] = Fields /\ DOMAIN past[p] = HistoryFields
      /\ DOMAIN gs = Players /\ DOMAIN past = Players
  BY FitDomains
<1>4. /\ gs'[p].state = "alive" /\ gs'[p].lastshot = gs[p].lastshot
      /\ gs'[p].gunwait = gs[p].gunwait /\ gs'[p].lastdeath = gs[p].lastdeath
      /\ gs'[p].ammo = gs[p].ammo /\ gs'[p].deadflush = gs[p].deadflush
  BY <1>1, <1>3 DEF Fields
<1>5. /\ past'[p].lost = past[p].lost /\ past'[p].shots = past[p].shots
      /\ past'[p].began = past[p].began /\ past'[p].life = past[p].life
  BY <1>1, <1>3 DEF HistoryFields
<1>6. gs[p].deadflush = 0
  BY <1>1, <1>2 DEF Fit, Healthy
<1>7. CanFire(gs'[p]) <=> CanFire(gs[p])
  <2>1. Charged(gs'[p]) <=> Charged(gs[p])
    BY <1>4 DEF Charged
  <2>2. QED
    BY <1>1, <1>4, <2>1 DEF CanFire
<1>8. Loaded(gs'[p], past'[p], events[p], lastevent[p], gamemillis)
  <2>1. Stamps(gs'[p], past'[p], lastevent[p], gamemillis)
    BY <1>2, <1>4, <1>5 DEF Loaded, Stamps
  <2>2. Queue(past'[p], events[p])
    BY <1>2, <1>5 DEF Loaded, Queue
  <2>3. Deadline(gs'[p], past'[p])
    BY <1>4, <1>6 DEF Deadline
  <2>4. Paced(gs'[p], past'[p], events[p], lastevent[p])
    BY <1>2, <1>4, <1>5, <1>7 DEF Loaded, Paced
  <2>5. QED
    BY <2>1, <2>2, <2>3, <2>4 DEF Loaded
<1>9. JobOK' /\ PlayersFit
  BY <1>1, IdleJobKept DEF IInv
<1>10. /\ DOMAIN gs' = Players /\ DOMAIN past' = Players
       /\ \A q \in Players \ {p} : gs'[q] = gs[q] /\ past'[q] = past[q]
  BY <1>1, <1>3
<1>11. QED
  BY <1>1, <1>5, <1>7, <1>8, <1>9, <1>10, StateReady

LEMMA ShootReady ==
  ASSUME FInv, IInv, NEW p \in Players, NEW gun \in Guns, NEW id, Shoot(p, gun, id)
  PROVE  FInv'
<1>1. PICK t \in EventMillis(p), h \in IF gun = "rifle" THEN Hits(Joined \ {p}) ELSE {<<>>} :
        AddEvent(p, [type |-> "shot", millis |-> t, gun |-> gun, id |-> id, hits |-> h,
                     life |-> past[p].life])
  BY DEF Shoot
<1> DEFINE e == [type |-> "shot", millis |-> t, gun |-> gun, id |-> id, hits |-> h,
                 life |-> past[p].life]
<1>2. e.type = "shot" /\ IsTimed(e) /\ e.millis = t /\ e.gun = gun /\ e.life = past[p].life
  BY DEF IsTimed
<1> HIDE DEF e
<1>3. /\ Idle /\ Playing(p) /\ UNCHANGED <<clients, gs, lastevent, gamemillis, job>>
      /\ synced' = synced \cup {p} /\ NoteLost(p)
  BY DEF Shoot, Send, clock, flow
<1>4. PlayersFit /\ gamemillis \in Nat
  BY DEF IInv
<1>5. AddEvent(p, e)
  BY <1>1 DEF e
<1>6. QED
  BY <1>2, <1>3, <1>4, <1>5, SentReady

LEMMA ExplodeReady ==
  ASSUME FInv, IInv, NEW p \in Players, NEW id, Explode(p, id)
  PROVE  FInv'
<1>1. PICK t \in EventMillis(p), h \in Hits(Joined) :
        AddEvent(p, [type |-> "explode", millis |-> t, id |-> id, hits |-> h])
  BY DEF Explode
<1> DEFINE e == [type |-> "explode", millis |-> t, id |-> id, hits |-> h]
<1>2. e.type = "explode" /\ IsTimed(e) /\ e.millis = t
  BY DEF IsTimed
<1> HIDE DEF e
<1>3. /\ Idle /\ Playing(p) /\ UNCHANGED <<clients, gs, lastevent, gamemillis, job>>
      /\ synced' = synced \cup {p} /\ NoteLost(p)
  BY DEF Explode, Send, clock, flow
<1>4. PlayersFit /\ gamemillis \in Nat
  BY DEF IInv
<1>5. AddEvent(p, e)
  BY <1>1 DEF e
<1>6. QED
  BY <1>2, <1>3, <1>4, <1>5, SentReady

LEMMA UntimedReady ==
  ASSUME FInv, IInv, NEW p \in Players, SendSuicide(p) \/ SendPickup(p)
  PROVE  FInv'
<1>1. PICK e : AddEvent(p, e) /\ ~IsTimed(e)
  <2>1. CASE SendSuicide(p)
    <3> DEFINE e == [type |-> "suicide"]
    <3>1. AddEvent(p, e) /\ ~IsTimed(e)
      BY <2>1 DEF SendSuicide, IsTimed
    <3> QED BY <3>1
  <2>2. CASE SendPickup(p)
    <3> DEFINE e == [type |-> "pickup"]
    <3>1. AddEvent(p, e) /\ ~IsTimed(e)
      BY <2>2 DEF SendPickup, IsTimed
    <3> QED BY <3>1
  <2>3. QED
    BY <2>1, <2>2
<1>2. /\ Idle /\ Playing(p) /\ UNCHANGED <<clients, gs, lastevent, gamemillis, job>>
      /\ synced' = synced /\ past' = past
  BY DEF SendSuicide, SendPickup, Send, clock, flow
<1>3. PlayersFit /\ gamemillis \in Nat /\ e.type # "shot"
  BY <1>1 DEF IInv, IsTimed
<1>4. QED
  BY <1>1, <1>2, <1>3, SentReady

\* A spawn is granted, and what is left of the queue cleared.
LEMMA GrantedReady ==
  ASSUME FInv, IInv, NEW p \in Players, Playing(p), UNCHANGED <<clients, gamemillis>>, JobOK',
         \A q \in Players \ {p} : job'.then = q <=> job.then = q,
         NEW g, g = Respawn(gs[p]) \/ (g = gs[p] /\ gs[p].deadflush = 0), Granted(p, g)
  PROVE  FInv'
<1>1. /\ gs' = [gs EXCEPT ![p] = SendSpawn(g, gamemillis)]
      /\ events' = [events EXCEPT ![p] = Cleared(@)] /\ synced' = synced \ {p}
      /\ past' = [past EXCEPT ![p] = NewLife(@, gamemillis)] /\ lastevent' = lastevent
  BY DEF Granted
<1>2. /\ DOMAIN gs = Players /\ DOMAIN past = Players /\ DOMAIN events = Players
      /\ DOMAIN lastevent = Players /\ synced \subseteq Players /\ Ready2(p)
      /\ Fit(gs[p], past[p]) /\ DOMAIN gs[p] = Fields /\ DOMAIN past[p] = HistoryFields
      /\ gamemillis \in Nat
  BY FitDomains DEF FInv, IInv
<1>3. Touch(p)
  BY <1>1, <1>2 DEF Touch, Playing
<1>4. /\ DOMAIN g = Fields /\ g.lastshot \in Nat /\ g.gunwait \in Nat /\ g.lastdeath \in Nat
      /\ g.deadflush = 0
  BY <1>2, BlankSlate, RespawnStamps, RespawnFields
<1>5. /\ gs'[p] = SendSpawn(g, gamemillis) /\ past'[p] = NewLife(past[p], gamemillis)
      /\ events'[p] = Cleared(events[p]) /\ p \notin synced' /\ lastevent'[p] = lastevent[p]
  BY <1>1, <1>2
<1>6. /\ gs'[p].lastshot \in Nat /\ gs'[p].gunwait \in Nat /\ gs'[p].lastdeath \in Nat
      /\ gs'[p].ammo \in [Guns -> Nat] /\ gs'[p].deadflush = 0
  BY <1>4, <1>5, SendSpawnStamps, SendSpawnFields
<1>7. /\ past'[p].began = gamemillis /\ past'[p].shots = 0
      /\ past'[p].lost \in BOOLEAN /\ ~past'[p].lost
  BY <1>2, <1>5, NewLifeStamps
<1>8. /\ IsSequence(events'[p])
      /\ \A i \in 1 .. Len(events'[p]) :
           /\ events'[p][i].type = "explode"
           /\ \E j \in 1 .. Len(events[p]) : events'[p][i] = events[p][j]
  BY <1>2, <1>5, BlankSlate, ClearedQueue
<1>9. \A i \in 1 .. Len(events'[p]) :
        events'[p][i].type # "shot"
        /\ (IsTimed(events'[p][i]) => events'[p][i].millis \in Nat)
  BY <1>2, <1>8, BlankSlate DEF Queue
<1>10. Queue(past'[p], events'[p])
  BY <1>8, <1>9 DEF Queue
<1>11. Loaded(gs'[p], past'[p], events'[p], lastevent[p], gamemillis)
  <2>1. past'[p].began \in Nat /\ past'[p].began <= gamemillis /\ lastevent[p] \in Nat
    BY <1>2, <1>7, BlankSlate
  <2>2. QED
    BY <1>2, <1>6, <1>7, <1>9, <1>10, <2>1, BeginsLoaded
<1>12. Playing(p)'
  BY DEF Playing
<1>13. Ready2(p)'
  BY <1>5, <1>11, <1>12 DEF Ready2, SyncOK
<1>14. InTime(p)'
  BY <1>7 DEF InTime
<1>15. QED
  BY <1>3, <1>13, <1>14, OthersReady

LEMMA TrySpawnReady ==
  ASSUME FInv, IInv, NEW p \in Players, TrySpawn(p)
  PROVE  FInv'
<1>1. /\ Idle /\ Playing(p) /\ UNCHANGED <<clients, gamemillis>>
      /\ gs[p].state = "dead" /\ gs[p].lastspawn < 0
  BY DEF TrySpawn, clock
<1>2. CASE gs[p].deadflush # 0
  <2>1. /\ job' = [left |-> <<p>>, until |-> gs[p].deadflush, then |-> p, dt |-> 0]
        /\ UNCHANGED <<gs, queues, past>>
    BY <1>2 DEF TrySpawn
  <2>2. p # "none" /\ p # "items"
    BY PlayerAssumption
  <2>3. JobOK'
    BY <1>2, <2>1, <2>2 DEF JobOK
  <2>4. \A q \in Players \ {p} : job'.then = q <=> job.then = q
    BY <1>1, <2>1, IdleJob, PlayerAssumption
  <2>5. /\ events' = events /\ synced' = synced /\ lastevent' = lastevent
        /\ gs' = gs /\ past' = past
    BY <2>1 DEF queues
  <2>6. Touch(p)
    BY <1>1, <2>4, <2>5, FitDomains DEF Touch, FInv, Playing
  <2>7. Ready2(p)'
    BY <1>1, <2>5 DEF FInv, Ready2, SyncOK, Playing
  <2>8. InTime(p)'
    BY <2>1 DEF InTime
  <2>9. QED
    BY <2>3, <2>6, <2>7, <2>8, OthersReady
<1>3. CASE gs[p].deadflush = 0
  <2>1. Granted(p, gs[p]) /\ UNCHANGED job
    BY <1>3 DEF TrySpawn
  <2>2. JobOK'
    BY <1>1, <2>1, IdleJobKept
  <2>3. QED
    BY <1>1, <1>3, <2>1, <2>2, GrantedReady
<1>4. QED
  BY <1>2, <1>3

-----------------------------------------------------------------------------
(* The flush. *)

\* Whose queue is flushed, and up to when.
LEMMA FlushedWhen ==
  ASSUME FInv, IInv, NEW p \in Players, Flushing(p)
  PROVE  \/ job.then = "items" /\ job.until = gamemillis
         \/ job.then = p /\ job.until = gs[p].deadflush /\ gs[p].deadflush # 0
<1>1. job.left # <<>> /\ p = Head(job.left) /\ job.left \in Seq(Players)
  BY DEF Flushing, IInv, FlowOK
<1>2. job.then # "none"
  BY <1>1 DEF FInv, JobOK
<1>3. CASE job.then = "items"
  BY <1>3 DEF FInv, JobOK
<1>4. CASE job.then \in Players
  <2> DEFINE q == job.then
  <2>1. job.left \in {<<>>, <<q>>} /\ job.until = gs[q].deadflush /\ gs[q].deadflush # 0
    BY <1>4 DEF FInv, JobOK
  <2>2. job.left = <<q>>
    BY <1>1, <2>1
  <2>3. p = q
    BY <1>1, <2>2
  <2>4. QED
    BY <2>1, <2>3
<1>5. QED
  BY <1>2, <1>3, <1>4 DEF IInv, FlowOK

\* The job goes on.
LEMMA JobKept ==
  ASSUME FInv, UNCHANGED <<job, gamemillis>>,
         \A q \in Players : job.then = q => gs'[q].deadflush = gs[q].deadflush
  PROVE  JobOK'
  BY DEF FInv, JobOK

\* The first event of p has left the queue.
Taken(p) ==
  /\ events[p] # <<>> /\ events' = [events EXCEPT ![p] = Tail(@)]
  /\ DOMAIN lastevent' = Players /\ lastevent'[p] \in Nat /\ lastevent'[p] >= lastevent[p]
  /\ IsTimed(events[p][1]) => lastevent'[p] >= events[p][1].millis
  /\ \A q \in Players \ {p} : lastevent'[q] = lastevent[q]
  /\ UNCHANGED <<clients, synced, gamemillis, job>>

LEMMA TakenLoaded ==
  ASSUME FInv, NEW p \in Players, Taken(p)
  PROVE  /\ Loaded(gs[p], past[p], Tail(events[p]), lastevent'[p], gamemillis)
         /\ Backed(events[p], lastevent[p], past[p].began, Len(events[p])) =>
              Backed(Tail(events[p]), lastevent'[p], past[p].began, Len(Tail(events[p])))
<1>1. Loaded(gs[p], past[p], events[p], lastevent[p], gamemillis)
  BY DEF FInv, Ready2
<1>2. QED
  BY <1>1, TailLoaded DEF Taken

LEMMA TakenReady ==
  ASSUME FInv, IInv, NEW p \in Players, Taken(p), Playing(p),
         DOMAIN gs' = Players, DOMAIN past' = Players,
         \A q \in Players \ {p} : gs'[q] = gs[q] /\ past'[q] = past[q],
         Loaded(gs'[p], past'[p], Tail(events[p]), lastevent'[p], gamemillis),
         CanFire(gs'[p]) => CanFire(gs[p]),
         past'[p].lost = past[p].lost, past'[p].began = past[p].began,
         job.then = p => gs'[p].deadflush = gs[p].deadflush,
         InTime(p)'
  PROVE  FInv'
<1>1. /\ DOMAIN events = Players /\ DOMAIN lastevent = Players /\ synced \subseteq Players
      /\ Ready2(p)
  BY DEF FInv
<1>2. Touch(p)
  BY <1>1 DEF Touch, Taken, Playing
<1>3. events'[p] = Tail(events[p]) /\ synced' = synced /\ gamemillis' = gamemillis
  BY <1>1 DEF Taken
<1>4. \A q \in Players : job.then = q => gs'[q].deadflush = gs[q].deadflush
  OBVIOUS
<1>5. JobOK'
  BY <1>4, JobKept DEF Taken
<1>6. SyncOK(p)'
  <2> SUFFICES ASSUME p \in synced, CanFire(gs'[p]), ~past'[p].lost
               PROVE  Backed(Tail(events[p]), lastevent'[p], past'[p].began, Len(Tail(events[p])))
    BY <1>3 DEF SyncOK
  <2>1. Backed(events[p], lastevent[p], past[p].began, Len(events[p]))
    BY <1>1 DEF Ready2, SyncOK
  <2>2. QED
    BY <2>1, TakenLoaded
<1>7. Playing(p)'
  BY DEF Playing, Taken
<1>8. Ready2(p)'
  BY <1>3, <1>6, <1>7 DEF Ready2
<1>9. QED
  BY <1>2, <1>5, <1>8, OthersReady

LEMMA ProcessTakes ==
  ASSUME FInv, NEW p \in Players, NEW type, Process(p, type)
  PROVE  Taken(p)
<1>1. DOMAIN lastevent = Players /\ Loaded(gs[p], past[p], events[p], lastevent[p], gamemillis)
  BY DEF FInv, Ready2
<1>2. events[p] # <<>> /\ events' = [events EXCEPT ![p] = Tail(@)]
      /\ UNCHANGED <<clients, synced, gamemillis, job>>
  BY DEF Process, Due, clock
<1>3. lastevent[p] \in Nat /\ (IsTimed(events[p][1]) => events[p][1].millis \in Nat)
  <2>1. Len(events[p]) \in Nat /\ Len(events[p]) >= 1
    BY <1>1, <1>2, TailQueue DEF Loaded, Queue
  <2>2. QED
    BY <1>1, <2>1 DEF Loaded, Queue, Stamps
<1>4. CASE IsTimed(events[p][1])
  <2>1. /\ events[p][1].millis >= lastevent[p]
        /\ lastevent' = [lastevent EXCEPT ![p] = events[p][1].millis]
    BY <1>4 DEF Process
  <2>2. QED
    BY <1>1, <1>2, <1>3, <1>4, <2>1 DEF Taken
<1>5. CASE ~IsTimed(events[p][1])
  <2>1. lastevent' = lastevent
    BY <1>5 DEF Process
  <2>2. QED
    BY <1>1, <1>2, <1>3, <1>5, <2>1 DEF Taken
<1>6. QED
  BY <1>4, <1>5

LEMMA StillInTime ==
  ASSUME FInv, NEW p \in Players, UNCHANGED <<job, gamemillis>>,
         past'[p].lost = past[p].lost, past'[p].shots = past[p].shots,
         past'[p].began = past[p].began
  PROVE  InTime(p)'
  BY DEF FInv, InTime

\* An event that changes nothing that matters here.
LEMMA HarmlessReady ==
  ASSUME FInv, IInv, NEW p \in Players, Taken(p), Playing(p),
         DOMAIN gs' = Players, DOMAIN past' = Players,
         \A q \in Players \ {p} : gs'[q] = gs[q] /\ past'[q] = past[q],
         gs'[p].lastshot = gs[p].lastshot, gs'[p].gunwait = gs[p].gunwait,
         gs'[p].lastdeath = gs[p].lastdeath, gs'[p].ammo = gs[p].ammo,
         gs'[p].deadflush = gs[p].deadflush, gs'[p].state = gs[p].state,
         past'[p].lost = past[p].lost, past'[p].shots = past[p].shots,
         past'[p].began = past[p].began, past'[p].life = past[p].life
  PROVE  FInv'
<1> DEFINE q == Tail(events[p])
<1>1. Loaded(gs[p], past[p], q, lastevent'[p], gamemillis)
  BY TakenLoaded
<1>2. CanFire(gs'[p]) <=> CanFire(gs[p])
  BY DEF CanFire, Charged
<1> HIDE DEF q
<1>3. Loaded(gs'[p], past'[p], q, lastevent'[p], gamemillis)
  <2>1. Stamps(gs'[p], past'[p], lastevent'[p], gamemillis)
    BY <1>1 DEF Loaded, Stamps
  <2>2. Queue(past'[p], q)
    BY <1>1 DEF Loaded, Queue
  <2>3. Deadline(gs'[p], past'[p])
    BY <1>1 DEF Loaded, Deadline
  <2>4. Paced(gs'[p], past'[p], q, lastevent'[p])
    BY <1>1, <1>2 DEF Loaded, Paced
  <2>5. QED
    BY <2>1, <2>2, <2>3, <2>4 DEF Loaded
<1>4. InTime(p)'
  BY StillInTime DEF Taken
<1>5. QED
  BY <1>2, <1>3, <1>4, TakenReady DEF q

LEMMA NothingReady ==
  ASSUME FInv, IInv, NEW p \in Players, Taken(p), Playing(p), gs' = gs, past' = past
  PROVE  FInv'
  BY HarmlessReady, FitDomains

LEMMA DropStaleReady ==
  ASSUME FInv, IInv, NEW p \in Players, DropStale(p)
  PROVE  FInv'
<1>1. /\ events[p] # <<>> /\ events' = [events EXCEPT ![p] = Tail(@)]
      /\ IsTimed(events[p][1]) /\ events[p][1].millis < lastevent[p]
      /\ UNCHANGED <<clients, gs, synced, lastevent, gamemillis, job, past>>
  BY DEF DropStale, Due, clock, flow
<1>2. DOMAIN lastevent = Players /\ Loaded(gs[p], past[p], events[p], lastevent[p], gamemillis)
  BY DEF FInv, Ready2
<1>3. lastevent[p] \in Nat /\ events[p][1].millis \in Nat
  <2>1. Len(events[p]) \in Nat /\ Len(events[p]) >= 1
    BY <1>1, <1>2, TailQueue DEF Loaded, Queue
  <2>2. QED
    BY <1>1, <1>2, <2>1 DEF Loaded, Queue, Stamps
<1>4. Taken(p)
  BY <1>1, <1>2, <1>3 DEF Taken
<1>5. Playing(p)
  BY HeadPlays DEF IInv, DropStale
<1>6. QED
  BY <1>1, <1>4, <1>5, NothingReady

LEMMA ExplodeEventReady ==
  ASSUME FInv, IInv, NEW p \in Players, ExplodeEvent(p)
  PROVE  FInv'
<1>1. Taken(p) /\ Playing(p)
  BY ProcessTakes, HeadPlays DEF IInv, ExplodeEvent, Process
<1>2. CASE gs' = gs /\ past' = past
  BY <1>1, <1>2, NothingReady
<1>3. CASE /\ gs' = [gs EXCEPT ![p].rockets = RemoveProj(@, events[p][1].id)]
           /\ past' = [past EXCEPT ![p].exploded = @ + 1]
  <2>1. /\ DOMAIN gs = Players /\ DOMAIN past = Players
        /\ DOMAIN gs[p] = Fields /\ DOMAIN past[p] = HistoryFields
    BY FitDomains
  <2>2. /\ DOMAIN gs' = Players /\ DOMAIN past' = Players
        /\ \A q \in Players \ {p} : gs'[q] = gs[q] /\ past'[q] = past[q]
    BY <1>3, <2>1
  <2>3. /\ gs'[p].lastshot = gs[p].lastshot /\ gs'[p].gunwait = gs[p].gunwait
        /\ gs'[p].lastdeath = gs[p].lastdeath /\ gs'[p].ammo = gs[p].ammo
        /\ gs'[p].deadflush = gs[p].deadflush /\ gs'[p].state = gs[p].state
    BY <1>3, <2>1 DEF Fields
  <2>4. /\ past'[p].lost = past[p].lost /\ past'[p].shots = past[p].shots
        /\ past'[p].began = past[p].began /\ past'[p].life = past[p].life
    BY <1>3, <2>1 DEF HistoryFields
  <2>5. QED
    BY <1>1, <2>2, <2>3, <2>4, HarmlessReady
<1>4. QED
  BY <1>2, <1>3 DEF ExplodeEvent

LEMMA PickupEventReady ==
  ASSUME FInv, IInv, NEW p \in Players, PickupEvent(p)
  PROVE  FInv'
<1>1. Taken(p) /\ Playing(p) /\ past' = past
  BY ProcessTakes, HeadPlays DEF IInv, PickupEvent, Process
<1>2. CASE gs' = gs
  BY <1>1, <1>2, NothingReady
<1>3. CASE gs' = [gs EXCEPT ![p].health = @ + 1]
  <2>1. DOMAIN gs = Players /\ DOMAIN gs[p] = Fields /\ DOMAIN past = Players
    BY FitDomains
  <2>2. DOMAIN gs' = Players /\ \A q \in Players \ {p} : gs'[q] = gs[q]
    BY <1>3, <2>1
  <2>3. /\ gs'[p].lastshot = gs[p].lastshot /\ gs'[p].gunwait = gs[p].gunwait
        /\ gs'[p].lastdeath = gs[p].lastdeath /\ gs'[p].ammo = gs[p].ammo
        /\ gs'[p].deadflush = gs[p].deadflush /\ gs'[p].state = gs[p].state
    BY <1>3, <2>1 DEF Fields
  <2>4. QED
    BY <1>1, <2>1, <2>2, <2>3, HarmlessReady
<1>4. QED
  BY <1>2, <1>3 DEF PickupEvent

LEMMA SuicideEventReady ==
  ASSUME FInv, IInv, NEW p \in Players, SuicideEvent(p)
  PROVE  FInv'
<1>1. Taken(p) /\ Playing(p) /\ past' = past /\ gs' = [gs EXCEPT ![p] = Suicided(@)]
  BY ProcessTakes, HeadPlays DEF IInv, SuicideEvent, Process
<1>2. Loaded(gs[p], past[p], Tail(events[p]), lastevent'[p], gamemillis)
  BY <1>1, TakenLoaded
<1>3. /\ DOMAIN gs = Players /\ DOMAIN gs[p] = Fields /\ DOMAIN past = Players
      /\ gamemillis \in Nat
  BY FitDomains DEF IInv
<1>4. /\ Loaded(Suicided(gs[p]), past[p], Tail(events[p]), lastevent'[p], gamemillis)
      /\ CanFire(Suicided(gs[p])) => CanFire(gs[p])
  BY <1>2, <1>3, SuicidedLoaded
<1>5. /\ DOMAIN gs' = Players /\ gs'[p] = Suicided(gs[p])
      /\ \A q \in Players \ {p} : gs'[q] = gs[q]
  BY <1>1, <1>3
<1>6. job.then = p => gs'[p].deadflush = gs[p].deadflush
  <2>1. job.then = p => gs[p].state = "dead"
    BY DEF IInv, FlowOK
  <2>2. QED
    BY <1>5, <2>1 DEF Suicided
<1>7. InTime(p)'
  BY <1>1, StillInTime DEF Taken
<1>8. QED
  BY <1>1, <1>3, <1>4, <1>5, <1>6, <1>7, TakenReady

\* A shot that is accepted comes no sooner than the life allows.
LEMMA ShotInTime ==
  ASSUME NEW g, NEW h, NEW q, NEW late, NEW now, Loaded(g, h, q, late, now),
         q # <<>>, q[1].type = "shot", q[1].millis \in Nat, q[1].millis >= late,
         CanFire(g), ~h.lost, q[1].millis - g.lastshot >= g.gunwait
  PROVE  Spent(h.shots + 1) \in Nat /\ q[1].millis >= h.began + Spent(h.shots + 1)
<1> DEFINE t == q[1].millis
           n == h.shots
           b == h.began
<1>1. /\ n \in Nat /\ b \in Nat /\ late \in Nat /\ t \in Nat /\ t >= late
      /\ g.lastshot \in Nat /\ g.gunwait \in Nat /\ IsSequence(q)
  BY DEF Loaded, Stamps, Queue
<1>2. 1 \in 1 .. Len(q)
  BY <1>1, TailQueue
<1>3. /\ n > 0 => g.lastshot >= b + Spent(n) /\ g.gunwait = AttackDelay
      /\ Backed(q, late, b, 1)
  BY <1>2 DEF Loaded, Paced
<1>4. late >= b \/ t >= b
  <2>1. late >= b \/ \E j \in 1 .. 1 : q[j].millis >= b
    BY <1>3 DEF Backed
  <2>2. QED
    BY <2>1
<1>5. t >= b
  BY <1>1, <1>4
<1>6. Spent(n + 1) \in Nat
  <2> DEFINE m == n + 1
  <2>1. m \in Nat /\ m > 0
    BY <1>1
  <2> HIDE DEF m
  <2>2. Spent(m) \in Nat
    BY <2>1, SpentMore
  <2>3. QED
    BY <2>2 DEF m
<1>7. CASE n = 0
  <2>1. Spent(n + 1) = 0
    BY <1>7, SpentMore
  <2>2. QED
    BY <1>1, <1>5, <1>6, <2>1
<1>8. CASE n > 0
  <2>1. Spent(n) \in Nat /\ Spent(n + 1) = Spent(n) + AttackDelay /\ AttackDelay \in Nat
    BY <1>1, <1>8, SpentMore, TimeAssumption
  <2>2. t - g.lastshot >= AttackDelay
    BY <1>3, <1>8
  <2>3. QED
    BY <1>1, <1>3, <1>6, <1>8, <2>1, <2>2, SMTT(60)
<1>9. QED
  BY <1>1, <1>7, <1>8

\* What is flushed is no later than the life may act.
LEMMA ActsInTime ==
  ASSUME FInv, IInv, NEW p \in Players, Flushing(p), IsAlive(gs[p])
  PROVE  /\ job.until \in Nat
         /\ job.then # p => job.until = gamemillis
         /\ gs[p].deadflush # 0 => job.until <= gs[p].deadflush
<1>1. /\ Fit(gs[p], past[p]) /\ gamemillis \in Nat
      /\ Loaded(gs[p], past[p], events[p], lastevent[p], gamemillis)
  BY FitDomains DEF FInv, Ready2, IInv
<1>2. \/ job.then = "items" /\ job.until = gamemillis
      \/ job.then = p /\ job.until = gs[p].deadflush /\ gs[p].deadflush # 0
  BY FlushedWhen
<1>3. gs[p].deadflush \in Nat /\ DeathMillis \in Nat /\ gs[p].lastdeath \in Nat
  BY <1>1, TimeAssumption DEF Fit, Healthy, Loaded, Stamps
<1>4. gs[p].deadflush # 0 => gamemillis <= gs[p].deadflush
  <2> SUFFICES ASSUME gs[p].deadflush # 0 PROVE gamemillis <= gs[p].deadflush
    OBVIOUS
  <2>1. gs[p].state = "dead"
    BY <1>1 DEF IsAlive, Fit, Healthy
  <2>2. gs[p].deadflush = gs[p].lastdeath + DeathMillis /\ gamemillis - gs[p].lastdeath <= DeathMillis
    BY <1>1, <2>1 DEF IsAlive, Loaded, Deadline
  <2>3. QED
    BY <1>1, <1>3, <2>2
<1>5. QED
  BY <1>1, <1>2, <1>3, <1>4

LEMMA ShotEventReady ==
  ASSUME FInv, IInv, NEW p \in Players, ShotEvent(p)
  PROVE  FInv'
<1> DEFINE e == events[p][1]
           q == events[p]
           r == Tail(events[p])
           late == lastevent'[p]
<1>1. Process(p, "shot") /\ Taken(p) /\ Playing(p) /\ Flushing(p) /\ Due(p)
  BY ProcessTakes, HeadPlays DEF IInv, ShotEvent, Process
<1>2. CASE gs' = gs /\ past' = past
  BY <1>1, <1>2, NothingReady
<1>3. CASE /\ MayShoot(p, e)
           /\ gs' = [gs EXCEPT
                     ![p].ammo[e.gun] = @ - 1, ![p].lastshot = e.millis,
                     ![p].gunwait = AttackDelay,
                     ![p].rockets = IF e.gun = "rocket" THEN AddProj(@, e.id) ELSE @]
           /\ past' = [past EXCEPT
                     ![p].shots = @ + 1, ![p].fired = IF e.gun = "rocket" THEN @ + 1 ELSE @]
  <2>1. /\ DOMAIN gs = Players /\ DOMAIN past = Players /\ Fit(gs[p], past[p])
        /\ DOMAIN gs[p] = Fields /\ DOMAIN past[p] = HistoryFields
        /\ gamemillis \in Nat /\ Loaded(gs[p], past[p], q, lastevent[p], gamemillis)
    BY FitDomains DEF FInv, Ready2, IInv
  <2>2. 1 \in 1 .. Len(q) /\ q # <<>>
    BY <1>1, <2>1, TailQueue DEF Loaded, Queue, Due
  <2>3. /\ e.type = "shot" /\ e.gun \in Guns /\ e.millis \in Nat /\ e.millis >= lastevent[p]
        /\ e.millis <= job.until
    BY <1>1, <2>1, <2>2 DEF Loaded, Queue, Process, IsTimed, Due
  <2>4. /\ IsAlive(gs[p]) /\ e.millis - gs[p].lastshot >= gs[p].gunwait
        /\ gs[p].ammo[e.gun] > 0
    BY <1>3 DEF MayShoot
  <2>5. CanFire(gs[p])
    BY <2>3, <2>4 DEF CanFire, Charged, IsAlive
  <2>6. /\ DOMAIN gs' = Players /\ DOMAIN past' = Players
        /\ \A x \in Players \ {p} : gs'[x] = gs[x] /\ past'[x] = past[x]
    BY <1>3, <2>1
  <2>7. /\ gs'[p].lastshot = e.millis /\ gs'[p].gunwait = AttackDelay
        /\ gs'[p].lastdeath = gs[p].lastdeath /\ gs'[p].state = gs[p].state
        /\ gs'[p].deadflush = gs[p].deadflush
        /\ gs'[p].ammo = [gs[p].ammo EXCEPT ![e.gun] = @ - 1]
    BY <1>3, <2>1 DEF Fields
  <2>8. /\ past'[p].lost = past[p].lost /\ past'[p].shots = past[p].shots + 1
        /\ past'[p].began = past[p].began /\ past'[p].life = past[p].life
    BY <1>3, <2>1 DEF HistoryFields
  <2>9. Loaded(gs[p], past[p], r, late, gamemillis)
    BY <1>1, TakenLoaded
  <2>10. /\ job.until \in Nat /\ (job.then # p => job.until = gamemillis)
         /\ gs[p].deadflush # 0 => job.until <= gs[p].deadflush
    BY <1>1, <2>4, ActsInTime
  <2>11. ~past[p].lost =>
           /\ Spent(past[p].shots + 1) \in Nat
           /\ e.millis >= past[p].began + Spent(past[p].shots + 1)
    BY <2>1, <2>2, <2>3, <2>4, <2>5, ShotInTime
  <2>12. past[p].shots \in Nat /\ past[p].began \in Nat /\ gs[p].deadflush \in Nat
    BY <2>1 DEF Loaded, Stamps, Fit, Healthy
  <2> HIDE DEF e, q, r, late
  <2>13. Stamps(gs'[p], past'[p], late, gamemillis)
    <3>1. gs'[p].ammo \in [Guns -> Nat]
      <4>1. gs[p].ammo \in [Guns -> Nat]
        BY <2>9 DEF Loaded, Stamps
      <4>2. gs[p].ammo[e.gun] - 1 \in Nat
        BY <2>3, <2>4, <4>1
      <4>3. QED
        BY <2>3, <2>7, <4>1, <4>2
    <3>2. AttackDelay \in Nat
      BY TimeAssumption
    <3>3. QED
      BY <2>3, <2>7, <2>8, <2>9, <2>12, <3>1, <3>2 DEF Loaded, Stamps
  <2>14. Queue(past'[p], r)
    BY <2>8, <2>9 DEF Loaded, Queue
  <2>15. Deadline(gs'[p], past'[p])
    <3>1. ~past[p].lost /\ gs[p].deadflush # 0 =>
            Spent(past[p].shots + 1) <= gs[p].deadflush - past[p].began
      BY <2>3, <2>10, <2>11, <2>12
    <3>2. QED
      BY <2>7, <2>8, <2>9, <3>1 DEF Loaded, Deadline
  <2>16. Paced(gs'[p], past'[p], r, late)
    BY <2>5, <2>7, <2>8, <2>9, <2>11 DEF Loaded, Paced
  <2>17. Loaded(gs'[p], past'[p], r, late, gamemillis)
    BY <2>13, <2>14, <2>15, <2>16 DEF Loaded
  <2>18. InTime(p)'
    <3> SUFFICES ASSUME ~past[p].lost, job.then # p
                 PROVE  Spent(past[p].shots + 1) <= gamemillis - past[p].began
      BY <1>1, <2>8 DEF InTime, Taken
    <3>1. QED
      BY <2>1, <2>3, <2>10, <2>11, <2>12
  <2>19. QED
    BY <1>1, <2>5, <2>6, <2>7, <2>8, <2>17, <2>18, TakenReady DEF r, late
<1>4. QED
  BY <1>2, <1>3 DEF ShotEvent

-----------------------------------------------------------------------------
(* The rest of the steps. *)

LEMMA FlushEndsReady ==
  ASSUME FInv, IInv, NEW p \in Players, FlushEnds(p)
  PROVE  FInv'
<1>1. /\ Flushing(p) /\ job' = [job EXCEPT !.left = Tail(@)]
      /\ UNCHANGED <<clients, gs, queues, gamemillis, past>>
  BY DEF FlushEnds, clock
<1>2. job.left # <<>> /\ DOMAIN job = {"left", "until", "then", "dt"}
  BY <1>1 DEF Flushing, IInv, FlowOK
<1>3. job'.left = Tail(job.left) /\ job'.then = job.then /\ job'.until = job.until
  BY <1>1, <1>2
<1>4. JobOK'
  <2>1. job.then # "none"
    BY <1>2 DEF FInv, JobOK
  <2>2. job.then = "items" => job.until = gamemillis'
    BY <1>1 DEF FInv, JobOK
  <2>3. ASSUME NEW q \in Players, job.then = q
        PROVE  /\ job'.left \in {<<>>, <<q>>}
               /\ job.until = gs'[q].deadflush /\ gs'[q].deadflush # 0
    <3>1. /\ job.left \in {<<>>, <<q>>} /\ job.until = gs[q].deadflush /\ gs[q].deadflush # 0
      BY <2>3 DEF FInv, JobOK
    <3>2. Tail(<<q>>) = <<>>
      OBVIOUS
    <3>3. QED
      BY <1>1, <1>2, <1>3, <3>1, <3>2
  <2>4. QED
    BY <1>3, <2>1, <2>2, <2>3 DEF JobOK
<1>5. QED
  BY <1>1, <1>3, <1>4, QuietReady DEF IInv

LEMMA HitLandsReady ==
  ASSUME FInv, IInv, HitLands
  PROVE  FInv'
<1> DEFINE t == Head(landing.hits).target
<1>1. UNCHANGED <<clients, queues, gamemillis, past, job>>
  BY DEF HitLands, clock
<1>2. PICK damage \in Damage :
        \/ gs' = gs
        \/ CanBeHit(Head(landing.hits)) /\ gs' = [gs EXCEPT ![t] = Damaged(@, damage)]
  BY DEF HitLands
<1>3. CASE gs' = gs
  <2>1. JobOK'
    BY <1>1, <1>3, JobKept
  <2>2. QED
    BY <1>1, <1>3, <2>1, QuietReady DEF IInv
<1>4. CASE /\ CanBeHit(Head(landing.hits))
           /\ gs' = [gs EXCEPT ![t] = Damaged(@, damage)]
  <2>1. Playing(t) /\ gs[t].state = "alive"
    BY <1>4 DEF CanBeHit
  <2> HIDE DEF t
  <2>2. t \in Players
    BY <2>1 DEF Playing, IInv, RosterOK
  <2>3. /\ Fit(gs[t], past[t]) /\ gs'[t] = Damaged(gs[t], damage)
        /\ DOMAIN gs' = Players /\ DOMAIN past' = Players
        /\ \A q \in Players \ {t} : gs'[q] = gs[q] /\ past'[q] = past[q]
    BY <1>1, <1>4, <2>2, FitDomains
  <2>4. job.then # t
    BY <2>1, <2>2 DEF IInv, FlowOK
  <2>5. /\ Loaded(gs[t], past[t], events[t], lastevent[t], gamemillis)
        /\ ~past[t].lost /\ past[t].shots > 0 =>
             Spent(past[t].shots) <= gamemillis - past[t].began
    BY <2>2, <2>4 DEF FInv, Ready2, InTime
  <2>6. /\ Loaded(gs'[t], past[t], events[t], lastevent[t], gamemillis)
        /\ CanFire(gs'[t]) => CanFire(gs[t])
    BY <2>1, <2>3, <2>5, DamagedLoaded DEF IInv
  <2>7. JobOK'
    BY <1>1, <2>2, <2>3, <2>4, JobKept
  <2>8. QED
    BY <1>1, <2>2, <2>3, <2>6, <2>7, StateReady DEF IInv
<1>5. QED
  BY <1>2, <1>3, <1>4

\* Time passes: what was in time still is.
LEMMA UpdateReady ==
  ASSUME FInv, IInv, NEW dt \in 0 .. 1, Update(dt)
  PROVE  FInv'
<1>1. /\ Idle /\ gamemillis' = gamemillis + dt
      /\ UNCHANGED <<clients, gs, queues, past>>
      /\ \/ job' = job
         \/ job' = [left |-> clients, until |-> gamemillis', then |-> "items", dt |-> dt]
  BY DEF Update
<1>2. /\ clients' = clients /\ gs' = gs /\ events' = events /\ synced' = synced
      /\ lastevent' = lastevent /\ past' = past
  BY <1>1 DEF queues
<1>3. gamemillis \in Nat /\ gamemillis' \in Nat /\ gamemillis <= gamemillis'
  BY <1>1 DEF IInv
<1>4. JobOK'
  <2>1. CASE job' = job
    BY <1>1, <2>1, IdleJobKept
  <2>2. CASE job' = [left |-> clients, until |-> gamemillis', then |-> "items", dt |-> dt]
    <3>1. "items" \notin Players
      BY PlayerAssumption
    <3>2. QED
      BY <2>2, <3>1 DEF JobOK
  <2>3. QED
    BY <1>1, <2>1, <2>2
<1>5. ASSUME NEW p \in Players PROVE Ready2(p)' /\ InTime(p)'
  <2>1. Ready2(p) /\ InTime(p) /\ job.then # p
    BY <1>1, IdleJob, PlayerAssumption DEF FInv
  <2>2. past[p].shots \in Nat /\ past[p].began \in Nat /\ past[p].began <= gamemillis
    BY <2>1 DEF Ready2, Loaded, Stamps
  <2>3. Loaded(gs[p], past[p], events[p], lastevent[p], gamemillis')
    BY <1>3, <2>1, <2>2 DEF Ready2, Loaded, Stamps
  <2>4. past[p].shots > 0 => Spent(past[p].shots) \in Nat
    BY <2>2, SpentMore
  <2>5. InTime(p)'
    BY <1>2, <1>3, <2>1, <2>2, <2>4 DEF InTime
  <2>6. QED
    BY <1>2, <2>1, <2>3, <2>5 DEF Ready2, SyncOK, Playing
<1>6. QED
  BY <1>2, <1>4, <1>5 DEF FInv

\* No flush is left.
LEMMA NoJobOK == job' = NoJob => JobOK' /\ job'.then = "none"
<1> SUFFICES ASSUME job' = NoJob PROVE JobOK' /\ job'.then = "none"
  OBVIOUS
<1>1. job'.then = "none" /\ job'.left = <<>> /\ "none" \notin Players
  BY PlayerAssumption DEF NoJob
<1>2. QED
  BY <1>1 DEF JobOK

LEMMA UpdateItemsReady ==
  ASSUME FInv, IInv, UpdateItems
  PROVE  FInv'
<1>1. /\ job' = NoJob /\ job.then = "items"
      /\ UNCHANGED <<clients, gs, queues, gamemillis, past>>
  BY DEF UpdateItems, Flushed, clock
<1>2. QED
  BY <1>1, NoJobOK, QuietReady, PlayerAssumption DEF IInv

LEMMA EndTrySpawnReady ==
  ASSUME FInv, IInv, NEW p \in Players, EndTrySpawn(p)
  PROVE  FInv'
<1>1. /\ job' = NoJob /\ job.then = p /\ Granted(p, Respawn(gs[p]))
      /\ UNCHANGED <<clients, gamemillis>>
  BY DEF EndTrySpawn, Flushed, clock
<1>2. Playing(p)
  BY <1>1 DEF IInv, FlowOK
<1>3. JobOK' /\ \A q \in Players \ {p} : job'.then = q <=> job.then = q
  BY <1>1, NoJobOK, PlayerAssumption
<1>4. QED
  BY <1>1, <1>2, <1>3, GrantedReady

\* What has nothing to do with shots.
LEMMA ElsewhereReady ==
  ASSUME FInv, IInv, PauseGame \/ ItemList \/ UpdateEmpty \/ UNCHANGED vars
  PROVE  FInv'
<1>1. UNCHANGED <<clients, gs, queues, gamemillis, past, job>>
  BY DEF PauseGame, ItemList, UpdateEmpty, vars, clock, flow
<1>2. JobOK'
  BY <1>1, JobKept
<1>3. QED
  BY <1>1, <1>2, QuietReady DEF IInv
-----------------------------------------------------------------------------
(* The invariant, and the theorem. *)

LEMMA FInvInit == Init => FInv
<1> SUFFICES ASSUME Init PROVE FInv
  OBVIOUS
<1>1. /\ gs = [p \in Players |-> Blank] /\ past = [p \in Players |-> NoPast]
      /\ events = [p \in Players |-> <<>>] /\ lastevent = [p \in Players |-> 0]
      /\ synced = {} /\ gamemillis = 0 /\ job = NoJob
  BY DEF Init
<1>2. JobOK
  <2>1. job.then = "none" /\ job.left = <<>> /\ "none" \notin Players
    BY <1>1, PlayerAssumption DEF NoJob
  <2>2. QED
    BY <2>1 DEF JobOK
<1>3. NoPast.began = 0 /\ NoPast.shots = 0 /\ NoPast.lost \in BOOLEAN /\ ~NoPast.lost
  BY DEF NoPast
<1>4. ASSUME NEW p \in Players PROVE Ready2(p) /\ InTime(p)
  <2>1. gs[p] = Blank /\ past[p] = NoPast /\ events[p] = <<>> /\ lastevent[p] = 0
    BY <1>1
  <2>2. Loaded(Blank, NoPast, <<>>, 0, 0)
    BY <1>3, BlankStamps, BlankSlate, NoAmmoSpent, BeginsEmpty DEF Blank
  <2>3. QED
    BY <1>1, <1>3, <2>1, <2>2 DEF Ready2, SyncOK, InTime
<1>5. QED
  BY <1>1, <1>2, <1>4 DEF FInv

LEMMA FInvStep == FInv /\ IInv /\ [Next]_vars => FInv'
<1> SUFFICES ASSUME FInv, IInv, [Next]_vars PROVE FInv'
  OBVIOUS
<1>1. ASSUME NEW p \in Players, NEW watch \in BOOLEAN, Join(p, watch)
      PROVE  FInv'
  BY <1>1, JoinReady
<1>2. ASSUME NEW p \in Players,
             Leave(p) \/ ForceSpectator(p) \/ Unspectate(p) \/ SwitchTeam(p)
      PROVE  FInv'
  BY <1>2, LeaveReady, ForceSpectatorReady, UnspectateReady, SwitchTeamReady
<1>3. ASSUME NEW p \in Players, NEW id, Explode(p, id)
      PROVE  FInv'
  BY <1>3, ExplodeReady
<1>4. ASSUME NEW p \in Players, NEW id, NEW gun \in Guns, Shoot(p, gun, id)
      PROVE  FInv'
  BY <1>4, ShootReady
<1>5. ASSUME NEW p \in Players, SendSuicide(p) \/ SendPickup(p)
      PROVE  FInv'
  BY <1>5, UntimedReady
<1>6. ASSUME NEW p \in Players, TrySpawn(p) \/ Spawn(p)
      PROVE  FInv'
  BY <1>6, TrySpawnReady, SpawnReady
<1>7. ASSUME NEW p \in Players, FlushEnds(p) \/ DropStale(p) \/ EndTrySpawn(p)
      PROVE  FInv'
  BY <1>7, FlushEndsReady, DropStaleReady, EndTrySpawnReady
<1>8. ASSUME NEW p \in Players,
             ShotEvent(p) \/ ExplodeEvent(p) \/ SuicideEvent(p) \/ PickupEvent(p)
      PROVE  FInv'
  BY <1>8, ShotEventReady, ExplodeEventReady, SuicideEventReady, PickupEventReady
<1>9. CASE HitLands \/ UpdateItems \/ ChangeMap
  BY <1>9, HitLandsReady, UpdateItemsReady, ChangeMapReady
<1>10. CASE PauseGame \/ ItemList \/ UpdateEmpty \/ UNCHANGED vars
  BY <1>10, ElsewhereReady
<1>11. ASSUME NEW dt \in 0 .. 1, Update(dt)
       PROVE  FInv'
  BY <1>11, UpdateReady
<1>12. QED
  BY <1>1, <1>2, <1>3, <1>4, <1>5, <1>6, <1>7, <1>8, <1>9, <1>10, <1>11
     DEF Next, Roster, Message, Flush

LEMMA FireWithin == IInv /\ FInv => FireHeld
<1> SUFFICES ASSUME IInv, FInv PROVE FireHeld
  OBVIOUS
<1>1. ASSUME NEW p \in Joined, past[p].shots > 0, ~past[p].lost
      PROVE  (past[p].shots - 1) * AttackDelay <= Horizon(p) - past[p].began
  <2>1. p \in Players /\ Loaded(gs[p], past[p], events[p], lastevent[p], gamemillis) /\ InTime(p)
    BY DEF Joined, FInv, Ready2
  <2>2. CASE job.then = p
    <3>1. job.until = gs[p].deadflush /\ gs[p].deadflush # 0
      BY <2>1, <2>2 DEF FInv, JobOK
    <3>2. QED
      BY <1>1, <2>1, <2>2, <3>1 DEF Loaded, Deadline, Horizon, Spent
  <2>3. CASE job.then # p
    BY <1>1, <2>1, <2>3 DEF InTime, Horizon, Spent
  <2>4. QED
    BY <2>2, <2>3
<1>2. FireRateHeld
  BY <1>1 DEF FireRateHeld
<1>3. ShotsOfThisLife
  <2> SUFFICES ASSUME NEW p \in Joined, NEW i \in DOMAIN events[p], events[p][i].type = "shot"
               PROVE  events[p][i].life = past[p].life
    BY DEF ShotsOfThisLife
  <2>1. Queue(past[p], events[p])
    BY DEF Joined, FInv, Ready2, Loaded
  <2>2. i \in 1 .. Len(events[p])
    <3>1. IsSequence(events[p])
      BY <2>1 DEF Queue
    <3>2. QED
      BY <3>1 DEF IsSequence
  <2>3. QED
    BY <2>1, <2>2 DEF Queue
<1>4. QED
  BY <1>2, <1>3 DEF FireHeld

\* Of all a client sends, what is fired is fired in the life it was sent in, and no
\* faster than the gun allows, whatever its clock says and whenever it died, left,
\* watched or met a new map: geteventmillis, timedevent::flush, cleartimedevents and
\* shotevent::process together.
THEOREM FireHolds == Spec => []FireHeld
<1>1. Spec => []IInv
  BY InvAlways
<1>2. IInv /\ FInv => FireHeld
  BY FireWithin
<1>3. QED
  BY <1>1, <1>2, FInvInit, FInvStep, PTL DEF Spec

-----------------------------------------------------------------------------
(* Hits. *)

\* The sequence number of a life is its number but for multiples of LifeMod.
SameNumber(seq, n) == n \in Nat /\ seq \in 0 .. LifeMod - 1 /\ \E k \in Nat : n = seq + k * LifeMod

Numbered(g, h) ==
  h.session \in Nat /\ g.health \in Int /\ SameNumber(g.lifesequence, h.life)

\* A hit on somebody on, of the session it was aimed at, was aimed at this life or
\* at one before, and carries its number. H is the history of each client.
Aimed(h, H, on) ==
  /\ h.target \in Players /\ h.aimed[1] \in Nat
  /\ h.aimed[1] <= H[h.target].session
  /\ h.target \in on /\ h.aimed[1] = H[h.target].session =>
       SameNumber(h.seq, h.aimed[2]) /\ h.aimed[2] <= H[h.target].life

AllAimed(hits, H, on) == IsSequence(hits) /\ \A k \in 1 .. Len(hits) : Aimed(hits[k], H, on)

EventAimed(e, H, on) == IsTimed(e) => AllAimed(e.hits, H, on)

LandingOK == landing # NoLanding =>
  /\ DOMAIN landing = {"from", "hits", "rays", "seen"}
  /\ landing.hits # <<>> /\ AllAimed(landing.hits, past, Joined) /\ ~Idle

QueuesAimed ==
  \A p \in Players : \A i \in 1 .. Len(events[p]) : EventAimed(events[p][i], past, Joined)

HInv ==
  /\ \A p \in Players : Numbered(gs[p], past[p])
  /\ QueuesAimed /\ LandingOK
-----------------------------------------------------------------------------
LEMMA NextNumber ==
  ASSUME NEW seq, NEW n, SameNumber(seq, n)
  PROVE  SameNumber((seq + 1) % LifeMod, n + 1)
<1> DEFINE m == LifeMod
<1>1. m \in Nat \ {0}
  BY FightAssumption
<1> HIDE DEF m
<1>2. PICK k \in Nat : n = seq + k * m
  BY DEF SameNumber, m
<1>3. seq \in 0 .. m - 1 /\ n \in Nat
  BY DEF SameNumber, m
<1>4. k * m \in Nat /\ (k + 1) * m = k * m + m
  BY <1>1, <1>2
<1>5. CASE seq + 1 < m
  <2>1. (seq + 1) % m = seq + 1
    BY <1>1, <1>3, <1>5
  <2>2. n + 1 = (seq + 1) + k * m
    BY <1>2, <1>3, <1>4
  <2>3. QED
    BY <1>1, <1>3, <1>5, <2>1, <2>2 DEF SameNumber, m
<1>6. CASE seq + 1 = m
  <2>1. (seq + 1) % m = 0
    BY <1>1, <1>3, <1>6
  <2>2. n + 1 = 0 + (k + 1) * m
    BY <1>2, <1>3, <1>4, <1>6
  <2>3. PICK j \in Nat : n + 1 = 0 + j * m
    BY <2>2
  <2>4. SameNumber(0, n + 1)
    BY <1>1, <1>3, <2>3 DEF SameNumber, m
  <2>5. QED
    BY <2>1, <2>4 DEF m
<1>7. seq + 1 < m \/ seq + 1 = m
  BY <1>1, <1>3
<1>8. QED
  BY <1>5, <1>6, <1>7

LEMMA FirstNumber == SameNumber(0, 0)
<1>1. LifeMod \in Nat \ {0} /\ 0 = 0 + 0 * LifeMod
  BY FightAssumption
<1>2. QED
  BY <1>1 DEF SameNumber

\* Two lives of one number are the same, or a whole count apart.
LEMMA SameNumbers ==
  ASSUME NEW seq, NEW n, NEW m, SameNumber(seq, n), SameNumber(seq, m), n <= m
  PROVE  m - n = 0 \/ m - n >= LifeMod
<1> DEFINE M == LifeMod
<1>1. M \in Nat \ {0}
  BY FightAssumption
<1> HIDE DEF M
<1>2. PICK k \in Nat : n = seq + k * M
  BY DEF SameNumber, M
<1>3. PICK j \in Nat : m = seq + j * M
  BY DEF SameNumber, M
<1>4. seq \in Nat /\ n \in Nat /\ m \in Nat
  BY <1>1 DEF SameNumber, M
<1>5. j * M \in Nat /\ k * M \in Nat
  BY <1>1
<1>6. CASE j < k
  <2>1. PICK d \in Nat : k = j + 1 + d
    <3>1. k - j - 1 \in Nat /\ k = j + 1 + (k - j - 1)
      BY <1>6
    <3>2. QED
      BY <3>1
  <2>2. d * M \in Nat /\ k * M = j * M + M + d * M
    BY <1>1, <2>1
  <2>3. n > m
    BY <1>1, <1>2, <1>3, <1>4, <1>5, <2>2
  <2>4. QED
    BY <1>4, <2>3
<1>7. CASE j = k
  BY <1>2, <1>3, <1>4, <1>5, <1>7
<1>8. CASE j > k
  <2>1. PICK d \in Nat : j = k + 1 + d
    <3>1. j - k - 1 \in Nat /\ j = k + 1 + (j - k - 1)
      BY <1>8
    <3>2. QED
      BY <3>1
  <2>2. d * M \in Nat /\ j * M = k * M + M + d * M
    BY <1>1, <2>1
  <2>3. QED
    BY <1>1, <1>2, <1>3, <1>4, <1>5, <2>2 DEF M
<1>9. QED
  BY <1>6, <1>7, <1>8

-----------------------------------------------------------------------------
(* What the operations do to the number of a life. *)

LEMMA SequenceKept ==
  ASSUME NEW g, DOMAIN g = Fields, NEW now, NEW damage
  PROVE  /\ Respawn(g).lifesequence = g.lifesequence
         /\ Reset(g).lifesequence = g.lifesequence
         /\ Suicided(g).lifesequence = g.lifesequence /\ DOMAIN Suicided(g) = Fields
         /\ Damaged(g, damage).lifesequence = g.lifesequence
         /\ SendSpawn(g, now).lifesequence = (g.lifesequence + 1) % LifeMod
         /\ SendSpawn(g, now).health = g.health
<1>1. Respawn(g).lifesequence = g.lifesequence
  BY DEF Respawn, Fields
<1>2. Reset(g).lifesequence = g.lifesequence
  <2> DEFINE r == [g EXCEPT !.state = IF @ = "spectator" THEN @ ELSE "dead",
                            !.rockets = <<>>, !.deaths = 0, !.lastdeath = 0]
  <2>1. DOMAIN r = Fields /\ r.lifesequence = g.lifesequence
    BY DEF Fields
  <2> HIDE DEF r
  <2>2. Respawn(r).lifesequence = r.lifesequence
    BY <2>1 DEF Respawn, Fields
  <2>3. Reset(g) = Respawn(r)
    BY DEF Reset, r
  <2>4. QED
    BY <2>1, <2>2, <2>3
<1>3. Suicided(g).lifesequence = g.lifesequence /\ DOMAIN Suicided(g) = Fields
  <2> DEFINE d == [g EXCEPT !.state = "dead", !.deaths = @ + 1, !.lastdeath = gamemillis]
  <2>1. DOMAIN d = Fields /\ d.lifesequence = g.lifesequence
    BY DEF Fields
  <2> HIDE DEF d
  <2>2. Respawn(d).lifesequence = d.lifesequence /\ DOMAIN Respawn(d) = Fields
    BY <2>1, RespawnFields DEF Respawn, Fields
  <2>3. Suicided(g) = g \/ Suicided(g) = Respawn(d)
    BY DEF Suicided, d
  <2>4. QED
    BY <2>1, <2>2, <2>3
<1>4. Damaged(g, damage).lifesequence = g.lifesequence
  <2>1. [g EXCEPT !.health = g.health - damage].lifesequence = g.lifesequence
    BY DEF Fields
  <2>2. [g EXCEPT !.health = g.health - damage, !.deaths = @ + 1, !.state = "dead",
                  !.lastdeath = gamemillis, !.deadflush = gamemillis + DeathMillis].lifesequence
          = g.lifesequence
    BY DEF Fields
  <2>3. QED
    BY <2>1, <2>2 DEF Damaged
<1>5. /\ SendSpawn(g, now).lifesequence = (g.lifesequence + 1) % LifeMod
      /\ SendSpawn(g, now).health = g.health
  BY DEF SendSpawn, Fields
<1>6. QED
  BY <1>1, <1>2, <1>3, <1>4, <1>5

LEMMA NewLifeCounts ==
  ASSUME NEW h, DOMAIN h = HistoryFields, NEW now
  PROVE  NewLife(h, now).session = h.session /\ NewLife(h, now).life = h.life + 1
  BY DEF NewLife, HistoryFields

LEMMA GrantNumbered ==
  ASSUME NEW g, NEW h, DOMAIN g = Fields, DOMAIN h = HistoryFields, Numbered(g, h), NEW now
  PROVE  /\ Numbered(SendSpawn(g, now), NewLife(h, now))
         /\ NewLife(h, now).session = h.session /\ NewLife(h, now).life >= h.life
<1>1. NewLife(h, now).session = h.session /\ NewLife(h, now).life = h.life + 1
  BY NewLifeCounts
<1>2. /\ SendSpawn(g, now).lifesequence = (g.lifesequence + 1) % LifeMod
      /\ SendSpawn(g, now).health = g.health
  BY SequenceKept
<1>3. /\ SameNumber(g.lifesequence, h.life) /\ h.session \in Nat /\ h.life \in Nat
      /\ g.health \in Int
  BY DEF Numbered, SameNumber
<1>4. SameNumber((g.lifesequence + 1) % LifeMod, h.life + 1)
  BY <1>3, NextNumber
<1>5. QED
  BY <1>1, <1>2, <1>3, <1>4 DEF Numbered

-----------------------------------------------------------------------------
(* How sessions and lives go on. *)

\* Sessions are never behind, nor lives within one.
Onward(p) ==
  /\ Numbered(gs'[p], past'[p])
  /\ past'[p].session >= past[p].session
  /\ Playing(p)' /\ past'[p].session = past[p].session =>
       Playing(p) /\ past'[p].life >= past[p].life

Going == \A p \in Players : Numbered(gs[p], past[p]) /\ Onward(p)

LEMMA AimedKept ==
  ASSUME Going, NEW h, Aimed(h, past, Joined)
  PROVE  Aimed(h, past', Joined')
<1>1. /\ h.target \in Players /\ Onward(h.target)
      /\ past[h.target].session \in Nat /\ past[h.target].life \in Nat
  BY DEF Aimed, Going, Numbered, SameNumber
<1>2. past[h.target].session \in Nat /\ past'[h.target].session \in Nat
  BY <1>1 DEF Onward, Numbered
<1>3. ASSUME h.target \in Joined', h.aimed[1] = past'[h.target].session
      PROVE  SameNumber(h.seq, h.aimed[2]) /\ h.aimed[2] <= past'[h.target].life
  <2>1. past'[h.target].session = past[h.target].session
    BY <1>1, <1>2, <1>3 DEF Aimed, Onward
  <2>2. h.target \in Joined /\ past'[h.target].life >= past[h.target].life
    BY <1>1, <1>3, <2>1 DEF Onward, Joined
  <2>3. SameNumber(h.seq, h.aimed[2]) /\ h.aimed[2] <= past[h.target].life
    BY <1>3, <2>1, <2>2 DEF Aimed
  <2>4. h.aimed[2] \in Nat /\ past'[h.target].life \in Nat
    BY <1>1, <2>3 DEF Onward, Numbered, SameNumber
  <2>5. past[h.target].life <= past'[h.target].life /\ h.aimed[2] <= past[h.target].life
    BY <2>2, <2>3
  <2>6. QED
    BY <1>1, <2>3, <2>4, <2>5
<1>4. QED
  BY <1>1, <1>2, <1>3 DEF Aimed, Onward

LEMMA AllAimedKept ==
  ASSUME Going, NEW s, AllAimed(s, past, Joined)
  PROVE  AllAimed(s, past', Joined')
BY AimedKept DEF AllAimed

LEMMA EventKept ==
  ASSUME Going, NEW e, EventAimed(e, past, Joined)
  PROVE  EventAimed(e, past', Joined')
BY AllAimedKept DEF EventAimed

\* What is queued after a step was queued before or is aimed anew.
LEMMA QueuesKept ==
  ASSUME Going, QueuesAimed,
         \A p \in Players : \A i \in 1 .. Len(events'[p]) :
           \/ \E j \in 1 .. Len(events[p]) : events'[p][i] = events[p][j]
           \/ EventAimed(events'[p][i], past, Joined)
  PROVE  QueuesAimed'
<1>1. ASSUME NEW p \in Players, NEW i \in 1 .. Len(events'[p])
      PROVE  EventAimed(events'[p][i], past', Joined')
  <2>1. EventAimed(events'[p][i], past, Joined)
    BY DEF QueuesAimed
  <2>2. QED
    BY <2>1, EventKept
<1>2. QED
  BY <1>1 DEF QueuesAimed

LEMMA LandingKept ==
  ASSUME Going, LandingOK, landing' = landing, job' = job \/ landing = NoLanding
  PROVE  LandingOK'
<1>1. CASE landing = NoLanding
  BY <1>1 DEF LandingOK
<1>2. CASE landing # NoLanding
  <2>1. AllAimed(landing.hits, past', Joined')
    BY <1>2, AllAimedKept DEF LandingOK
  <2>2. QED
    BY <1>2, <2>1 DEF LandingOK, Idle
<1>3. QED
  BY <1>1, <1>2

-----------------------------------------------------------------------------
(* Steps. *)

LEMMA StaysOnward ==
  ASSUME NEW p \in Players, Numbered(gs[p], past[p]),
         gs'[p].lifesequence = gs[p].lifesequence, gs'[p].health \in Int,
         past'[p].session = past[p].session, past'[p].life = past[p].life,
         Playing(p)' => Playing(p)
  PROVE  Onward(p)
BY DEF Onward, Numbered, SameNumber

\* A step that concerns p only.
LEMMA OnwardOnly ==
  ASSUME NEW p \in Players, \A q \in Players : Numbered(gs[q], past[q]), Onward(p),
         \A q \in Players \ {p} : gs'[q] = gs[q] /\ past'[q] = past[q] /\ (Playing(q)' => Playing(q))
  PROVE  Going
<1> SUFFICES ASSUME NEW q \in Players, q # p PROVE Onward(q)
  BY DEF Going
<1>1. /\ Numbered(gs[q], past[q]) /\ gs'[q] = gs[q] /\ past'[q] = past[q]
      /\ Playing(q)' => Playing(q)
  OBVIOUS
<1>2. gs'[q].health \in Int
  BY <1>1 DEF Numbered
<1>3. QED
  BY <1>1, <1>2, StaysOnward

LEMMA AllStay ==
  ASSUME \A p \in Players : Numbered(gs[p], past[p]), UNCHANGED <<clients, gs, past>>
  PROVE  Going
<1> SUFFICES ASSUME NEW p \in Players PROVE Onward(p)
  BY DEF Going
<1>1. Numbered(gs[p], past[p]) /\ (Playing(p)' <=> Playing(p))
  BY DEF Playing
<1>2. QED
  BY <1>1 DEF Onward, Numbered, SameNumber

LEMMA MapChangeOnward ==
  ASSUME NEW S, NEW g, NEW h, MapChange(S, g, h), NEW p \in Players,
         DOMAIN g[p] = Fields, DOMAIN h[p] = HistoryFields, Numbered(g[p], h[p])
  PROVE  /\ Numbered(gs'[p], past'[p])
         /\ past'[p].session = h[p].session /\ past'[p].life >= h[p].life
<1> DEFINE k == Fresh(h[p])
           r == Reset(g[p])
<1>1. /\ DOMAIN k = HistoryFields /\ k.session = h[p].session /\ k.life = h[p].life
  BY DEF Fresh, HistoryFields
<1>2. DOMAIN r = Fields /\ r.lifesequence = g[p].lifesequence /\ r.health = MaxHealth
  BY SequenceKept, ResetFields
<1>3. MaxHealth \in Int /\ h[p].session \in Nat /\ h[p].life \in Nat
  BY FightAssumption DEF Numbered, SameNumber
<1> HIDE DEF k, r
<1>4. Numbered(r, k)
  BY <1>1, <1>2, <1>3 DEF Numbered
<1>5. /\ Numbered(SendSpawn(r, 0), NewLife(k, 0))
      /\ NewLife(k, 0).session = k.session /\ NewLife(k, 0).life >= k.life
  BY <1>1, <1>2, <1>4, GrantNumbered
<1>6. \/ gs'[p] = g[p] /\ past'[p] = k
      \/ gs'[p] = r /\ past'[p] = k
      \/ gs'[p] = SendSpawn(r, 0) /\ past'[p] = NewLife(k, 0)
  <2>1. gs'[p] = CASE p \in {q \in S : g[q].state # "spectator"} -> SendSpawn(r, 0)
                   [] p \in S \ {q \in S : g[q].state # "spectator"} -> r
                   [] OTHER -> g[p]
    BY DEF MapChange, r
  <2>2. past'[p] = IF p \in {q \in S : g[q].state # "spectator"} THEN NewLife(k, 0) ELSE k
    BY DEF MapChange, Fresh, k
  <2>3. QED
    BY <2>1, <2>2
<1>7. Numbered(g[p], k)
  BY <1>1 DEF Numbered
<1>8. QED
  BY <1>1, <1>3, <1>4, <1>5, <1>6, <1>7

LEMMA ChangeMapOnward ==
  ASSUME IInv, HInv, ChangeMap
  PROVE  Going
<1>1. MapChange(Joined, gs, past) /\ clients' = clients
  BY DEF ChangeMap
<1>2. ASSUME NEW p \in Players PROVE Onward(p) /\ Numbered(gs[p], past[p])
  <2>1. /\ DOMAIN gs[p] = Fields /\ DOMAIN past[p] = HistoryFields /\ Numbered(gs[p], past[p])
    BY FitDomains DEF HInv
  <2>2. /\ Numbered(gs'[p], past'[p])
        /\ past'[p].session = past[p].session /\ past'[p].life >= past[p].life
    BY <1>1, <2>1, MapChangeOnward
  <2>3. past[p].session \in Nat /\ (Playing(p)' <=> Playing(p))
    BY <1>1, <2>1 DEF Numbered, Playing
  <2>4. QED
    BY <2>1, <2>2, <2>3 DEF Onward
<1>3. QED
  BY <1>2 DEF Going

LEMMA JoinOnward ==
  ASSUME IInv, HInv, NEW p \in Players, NEW watch \in BOOLEAN, Join(p, watch)
  PROVE  Going
<1> DEFINE state == IF watch THEN [Blank EXCEPT !.state = "spectator"] ELSE Blank
           k == [NoPast EXCEPT !.session = past[p].session + 1]
           g == [gs EXCEPT ![p] = state]
           h == [past EXCEPT ![p] = k]
<1>1. ~Playing(p) /\ clients' = Append(clients, p)
  BY DEF Join
<1>2. \A q \in Players : Playing(q)' <=> Playing(q) \/ q = p
  BY <1>1, AppendRoster DEF IInv
<1>3. past[p].session \in Nat /\ MaxHealth \in Int
  BY FightAssumption DEF HInv, Numbered
<1>4. DOMAIN k = HistoryFields /\ k.session = past[p].session + 1 /\ k.life = 0
  BY DEF NoPast, HistoryFields
<1>5. DOMAIN state = Fields /\ state.lifesequence = 0 /\ state.health = MaxHealth
  <2> DEFINE w == [Blank EXCEPT !.state = "spectator"]
  <2>1. /\ DOMAIN w = Fields /\ w.lifesequence = 0 /\ w.health = MaxHealth
    BY DEF Blank, Fields
  <2>2. Blank.lifesequence = 0
    BY DEF Blank
  <2> HIDE DEF w
  <2>3. state = w \/ state = Blank
    BY DEF w
  <2> HIDE DEF state
  <2>4. QED
    BY <2>1, <2>2, <2>3, BlankFields
<1>6. /\ g[p] = state /\ h[p] = k /\ DOMAIN g = Players /\ DOMAIN h = Players
      /\ \A q \in Players \ {p} : g[q] = gs[q] /\ h[q] = past[q]
  BY FitDomains
<1>7. \/ MapChange(Joined \cup {p}, g, h)
      \/ /\ gs' = IF watch THEN g ELSE [g EXCEPT ![p] = SendSpawn(@, gamemillis)]
         /\ past' = IF watch THEN h ELSE [h EXCEPT ![p] = NewLife(@, gamemillis)]
  BY DEF Join
<1> HIDE DEF state, k
<1>8. Numbered(state, k)
  BY <1>3, <1>4, <1>5, FirstNumber DEF Numbered
<1>9. CASE MapChange(Joined \cup {p}, g, h)
  <2> HIDE DEF g, h
  <2>1. ASSUME NEW q \in Players PROVE Onward(q) /\ Numbered(gs[q], past[q])
    <3>1. DOMAIN g[q] = Fields /\ DOMAIN h[q] = HistoryFields /\ Numbered(g[q], h[q])
      BY <1>4, <1>5, <1>6, <1>8, FitDomains DEF HInv
    <3>2. /\ Numbered(gs'[q], past'[q])
          /\ past'[q].session = h[q].session /\ past'[q].life >= h[q].life
      BY <1>9, <3>1, MapChangeOnward
    <3>3. Numbered(gs[q], past[q]) /\ past[q].session \in Nat
      BY DEF HInv, Numbered
    <3>4. CASE q = p
      BY <1>3, <1>4, <1>6, <3>2, <3>3, <3>4 DEF Onward
    <3>5. CASE q # p
      BY <1>2, <1>6, <3>2, <3>3, <3>5 DEF Onward
    <3>6. QED
      BY <3>4, <3>5
  <2>2. QED
    BY <2>1 DEF Going
<1>10. CASE /\ gs' = IF watch THEN g ELSE [g EXCEPT ![p] = SendSpawn(@, gamemillis)]
            /\ past' = IF watch THEN h ELSE [h EXCEPT ![p] = NewLife(@, gamemillis)]
  <2>1. /\ \A q \in Players \ {p} : gs'[q] = gs[q] /\ past'[q] = past[q]
        /\ gs'[p] = IF watch THEN state ELSE SendSpawn(state, gamemillis)
        /\ past'[p] = IF watch THEN k ELSE NewLife(k, gamemillis)
    BY <1>6, <1>10
  <2>2. Numbered(gs'[p], past'[p]) /\ past'[p].session = past[p].session + 1
    BY <1>4, <1>5, <1>8, <2>1, GrantNumbered
  <2>3. Onward(p)
    BY <1>3, <2>2 DEF Onward
  <2>4. \A q \in Players : Numbered(gs[q], past[q])
    BY DEF HInv
  <2> HIDE DEF g, h
  <2>5. QED
    BY <1>2, <2>1, <2>3, <2>4, OnwardOnly
<1>11. QED
  BY <1>7, <1>9, <1>10

LEMMA LeaveOnward ==
  ASSUME IInv, HInv, NEW p \in Players, Leave(p)
  PROVE  Going
<1>1. PICK i \in DOMAIN clients : clients[i] = p /\ clients' = Without(clients, i)
  BY DEF Leave
<1>2. \A q \in Players : Playing(q)' <=> Playing(q) /\ q # p
  BY <1>1, WithoutRoster DEF IInv
<1>3. /\ \A q \in Players \ {p} : gs'[q] = gs[q] /\ past'[q] = past[q]
      /\ gs'[p] = Blank /\ past'[p] = [NoPast EXCEPT !.session = past[p].session]
  BY FitDomains DEF Leave
<1>4. /\ gs'[p].lifesequence = 0 /\ gs'[p].health = MaxHealth
      /\ past'[p].session = past[p].session /\ past'[p].life = 0
  BY <1>3 DEF Blank, NoPast
<1>5. \A q \in Players : Numbered(gs[q], past[q])
  BY DEF HInv
<1>6. Numbered(gs'[p], past'[p])
  BY <1>4, <1>5, FirstNumber, FightAssumption DEF Numbered
<1>7. past[p].session \in Nat
  BY <1>5 DEF Numbered
<1>8. Onward(p)
  BY <1>2, <1>4, <1>6, <1>7 DEF Onward
<1>9. QED
  BY <1>2, <1>3, <1>5, <1>8, OnwardOnly

\* p is granted a spawn, or has its state changed without one.
LEMMA GrantedOnward ==
  ASSUME IInv, HInv, NEW p \in Players, NEW g, g = gs[p] \/ g = Respawn(gs[p]), Granted(p, g),
         UNCHANGED clients
  PROVE  Going
<1>1. /\ \A q \in Players \ {p} : gs'[q] = gs[q] /\ past'[q] = past[q]
      /\ gs'[p] = SendSpawn(g, gamemillis) /\ past'[p] = NewLife(past[p], gamemillis)
  BY FitDomains DEF Granted
<1>2. /\ DOMAIN gs[p] = Fields /\ DOMAIN past[p] = HistoryFields
      /\ \A q \in Players : Numbered(gs[q], past[q])
  BY FitDomains DEF HInv
<1>3. DOMAIN g = Fields /\ g.lifesequence = gs[p].lifesequence /\ g.health \in Int
  <2>1. gs[p].health \in Int /\ MaxHealth \in Int
    BY <1>2, FightAssumption DEF Numbered
  <2>2. Respawn(gs[p]).lifesequence = gs[p].lifesequence
    BY <1>2, SequenceKept
  <2>3. QED
    BY <1>2, <2>1, <2>2, RespawnFields
<1>4. Numbered(g, past[p])
  BY <1>2, <1>3 DEF Numbered
<1>5. /\ Numbered(gs'[p], past'[p])
      /\ past'[p].session = past[p].session /\ past'[p].life >= past[p].life
  BY <1>1, <1>2, <1>3, <1>4, GrantNumbered
<1>6. \A q \in Players : Playing(q)' <=> Playing(q)
  BY DEF Playing
<1>7. past[p].session \in Nat
  BY <1>2 DEF Numbered
<1>8. Onward(p)
  BY <1>5, <1>6, <1>7 DEF Onward
<1>9. QED
  BY <1>1, <1>2, <1>6, <1>8, OnwardOnly

LEMMA StateOnward ==
  ASSUME IInv, HInv, NEW p \in Players, NEW g, gs' = [gs EXCEPT ![p] = g],
         g.lifesequence = gs[p].lifesequence, g.health \in Int, UNCHANGED clients,
         \A q \in Players : past'[q].session = past[q].session /\ past'[q].life = past[q].life
  PROVE  Going
<1> SUFFICES ASSUME NEW q \in Players PROVE Onward(q)
  BY DEF Going, HInv
<1>1. Numbered(gs[q], past[q]) /\ (Playing(q)' <=> Playing(q))
  BY DEF HInv, Playing
<1>2. gs'[q].lifesequence = gs[q].lifesequence /\ gs'[q].health \in Int
  BY <1>1, FitDomains DEF Numbered
<1>3. QED
  BY <1>1, <1>2, StaysOnward

LEMMA SuicidedHealth ==
  ASSUME NEW g, DOMAIN g = Fields, g.health \in Int
  PROVE  Suicided(g).health \in Int
<1> DEFINE d == [g EXCEPT !.state = "dead", !.deaths = @ + 1, !.lastdeath = gamemillis]
<1>1. DOMAIN d = Fields
  BY DEF Fields
<1> HIDE DEF d
<1>2. Respawn(d).health = MaxHealth
  BY <1>1, RespawnFields
<1>3. Suicided(g) = g \/ Suicided(g) = Respawn(d)
  BY DEF Suicided, d
<1>4. QED
  BY <1>2, <1>3, FightAssumption

LEMMA DamagedHealth ==
  ASSUME NEW g, DOMAIN g = Fields, g.health \in Int, NEW damage \in Damage
  PROVE  Damaged(g, damage).health \in Int
<1>1. g.health - damage \in Int
  BY FightAssumption
<1>2. [g EXCEPT !.health = g.health - damage].health = g.health - damage
  BY DEF Fields
<1>3. [g EXCEPT !.health = g.health - damage, !.deaths = @ + 1, !.state = "dead",
                !.lastdeath = gamemillis, !.deadflush = gamemillis + DeathMillis].health
        = g.health - damage
  BY DEF Fields
<1>4. QED
  BY <1>1, <1>2, <1>3 DEF Damaged

LEMMA PlayerOnward ==
  ASSUME IInv, HInv, NEW p \in Players,
         ForceSpectator(p) \/ SwitchTeam(p) \/ SuicideEvent(p)
  PROVE  Going
<1> DEFINE s == Suicided(gs[p])
           w == [s EXCEPT !.state = "spectator"]
<1>1. DOMAIN gs[p] = Fields /\ Numbered(gs[p], past[p])
  BY FitDomains DEF HInv
<1>2. DOMAIN s = Fields /\ s.lifesequence = gs[p].lifesequence /\ s.health \in Int
  BY <1>1, SequenceKept, SuicidedHealth DEF Numbered
<1>3. w.lifesequence = s.lifesequence /\ w.health = s.health
  BY <1>2 DEF Fields
<1>4. /\ clients' = clients /\ past' = past
      /\ gs' = [gs EXCEPT ![p] = s] \/ gs' = [gs EXCEPT ![p] = w]
  BY DEF ForceSpectator, SwitchTeam, SuicideEvent, Process
<1> HIDE DEF s, w
<1>5. QED
  BY <1>2, <1>3, <1>4, StateOnward

LEMMA UnspectateOnward ==
  ASSUME IInv, HInv, NEW p \in Players, Unspectate(p)
  PROVE  Going
<1> DEFINE d == [gs[p] EXCEPT !.state = "dead"]
           r == Respawn(d)
           g == [gs EXCEPT ![p] = r]
<1>1. \A q \in Players : /\ DOMAIN gs[q] = Fields /\ DOMAIN past[q] = HistoryFields
                         /\ Numbered(gs[q], past[q]) /\ (Playing(q)' <=> Playing(q))
  BY FitDomains DEF HInv, Unspectate, Playing
<1>2. DOMAIN d = Fields /\ d.lifesequence = gs[p].lifesequence
  BY <1>1 DEF Fields
<1> HIDE DEF d
<1>3. DOMAIN r = Fields /\ r.lifesequence = gs[p].lifesequence /\ r.health \in Int
  BY <1>2, SequenceKept, RespawnFields, FightAssumption
<1>4. MapChange(Joined, g, past) \/ (gs' = g /\ past' = past /\ clients' = clients)
  BY DEF Unspectate, d
<1> HIDE DEF r
<1>5. CASE MapChange(Joined, g, past)
  <2>1. ASSUME NEW q \in Players
        PROVE  DOMAIN g[q] = Fields /\ Numbered(g[q], past[q])
    BY <1>1, <1>3, FitDomains DEF Numbered
  <2> HIDE DEF g
  <2>2. ASSUME NEW q \in Players PROVE Onward(q) /\ Numbered(gs[q], past[q])
    <3>1. /\ Numbered(gs'[q], past'[q])
          /\ past'[q].session = past[q].session /\ past'[q].life >= past[q].life
      BY <1>1, <1>5, <2>1, MapChangeOnward
    <3>2. past[q].session \in Nat
      BY <1>1 DEF Numbered
    <3>3. QED
      BY <1>1, <3>1, <3>2 DEF Onward
  <2>3. QED
    BY <2>2 DEF Going
<1>6. CASE gs' = g /\ past' = past /\ clients' = clients
  BY <1>3, <1>6, StateOnward
<1>7. QED
  BY <1>4, <1>5, <1>6

\* Every step.
LEMMA EverOnward == IInv /\ FInv /\ HInv /\ [Next]_vars => Going
<1> SUFFICES ASSUME IInv, FInv, HInv, [Next]_vars PROVE Going
  OBVIOUS
<1>1. \A p \in Players : DOMAIN gs[p] = Fields /\ DOMAIN past[p] = HistoryFields /\ Numbered(gs[p], past[p])
  BY FitDomains DEF HInv
<1>2. ASSUME NEW p \in Players, (\E watch \in BOOLEAN : Join(p, watch)) \/ Leave(p) \/ Unspectate(p)
      PROVE  Going
  BY <1>2, JoinOnward, LeaveOnward, UnspectateOnward
<1>3. ASSUME NEW p \in Players, ForceSpectator(p) \/ SwitchTeam(p) \/ SuicideEvent(p)
      PROVE  Going
  BY <1>3, PlayerOnward
<1>4. CASE ChangeMap
  BY <1>4, ChangeMapOnward
<1>5. ASSUME NEW p \in Players, (\E id : Explode(p, id)) \/ (\E id, gun : Shoot(p, gun, id))
      PROVE  Going
  <2>1. UNCHANGED <<clients, gs>> /\ NoteLost(p)
    BY <1>5 DEF Explode, Shoot
  <2>2. past'[p].session = past[p].session /\ past'[p].life = past[p].life
    BY <1>1, <2>1, FitDomains DEF NoteLost, HistoryFields
  <2>3. \A q \in Players : past'[q].session = past[q].session /\ past'[q].life = past[q].life
    BY <2>1, <2>2, FitDomains DEF NoteLost
  <2>4. \A q \in Players : gs'[q].health \in Int /\ (Playing(q)' <=> Playing(q))
    BY <1>1, <2>1 DEF Numbered, Playing
  <2>5. QED
    BY <1>1, <2>1, <2>3, <2>4, StaysOnward DEF Going
<1>6. ASSUME NEW p \in Players, SendSuicide(p) \/ SendPickup(p) \/ FlushEnds(p) \/ DropStale(p)
      PROVE  Going
  <2>1. UNCHANGED <<clients, gs, past>>
    BY <1>6 DEF SendSuicide, SendPickup, FlushEnds, DropStale
  <2>2. QED
    BY <1>1, <2>1, AllStay
<1>7. CASE UpdateItems \/ PauseGame \/ ItemList \/ UpdateEmpty \/ (\E dt \in 0 .. 1 : Update(dt)) \/ UNCHANGED vars
  <2>1. UNCHANGED <<clients, gs, past>>
    BY <1>7 DEF UpdateItems, PauseGame, ItemList, UpdateEmpty, Update, vars
  <2>2. QED
    BY <1>1, <2>1, AllStay
<1>8. ASSUME NEW p \in Players, TrySpawn(p)
      PROVE  Going
  <2>1. clients' = clients /\ (UNCHANGED <<gs, past>> \/ Granted(p, gs[p]))
    BY <1>8 DEF TrySpawn
  <2>2. QED
    BY <1>1, <2>1, AllStay, GrantedOnward
<1>9. ASSUME NEW p \in Players, EndTrySpawn(p)
      PROVE  Going
  <2>1. clients' = clients /\ Granted(p, Respawn(gs[p]))
    BY <1>9 DEF EndTrySpawn
  <2>2. QED
    BY <2>1, GrantedOnward
<1>10. ASSUME NEW p \in Players, Spawn(p)
       PROVE  Going
  <2> DEFINE g == [gs[p] EXCEPT !.state = "alive", !.lastspawn = -1]
  <2>1. g.lifesequence = gs[p].lifesequence /\ g.health = gs[p].health
    BY <1>1 DEF Fields
  <2>2. gs' = [gs EXCEPT ![p] = g]
    BY <1>10, FitDomains DEF Spawn
  <2>3. /\ \A q \in Players : past'[q].session = past[q].session /\ past'[q].life = past[q].life
        /\ clients' = clients
    <3>1. past' = [past EXCEPT ![p].spawns = @ + 1] /\ clients' = clients
      BY <1>10 DEF Spawn
    <3>2. past'[p].session = past[p].session /\ past'[p].life = past[p].life
      BY <1>1, <3>1, FitDomains DEF HistoryFields
    <3>3. QED
      BY <3>1, <3>2, FitDomains
  <2> HIDE DEF g
  <2>4. g.health \in Int
    BY <1>1, <2>1 DEF Numbered
  <2>5. QED
    BY <2>1, <2>2, <2>3, <2>4, StateOnward
<1>11. ASSUME NEW p \in Players, ShotEvent(p)
       PROVE  Going
  <2> DEFINE e == events[p][1]
             r == IF e.gun = "rocket" THEN AddProj(gs[p].rockets, e.id) ELSE gs[p].rockets
             g == [gs[p] EXCEPT !.ammo[e.gun] = @ - 1, !.lastshot = e.millis,
                                !.gunwait = AttackDelay, !.rockets = r]
  <2>1. clients' = clients
    BY <1>11 DEF ShotEvent, Process
  <2>2. \/ UNCHANGED <<gs, past>>
        \/ gs' = [gs EXCEPT ![p] = g] /\ past' = [past EXCEPT
                     ![p].shots = @ + 1, ![p].fired = IF e.gun = "rocket" THEN @ + 1 ELSE @]
    BY <1>11, <1>1, FitDomains DEF ShotEvent, Fields
  <2>3. g.lifesequence = gs[p].lifesequence /\ g.health = gs[p].health
    BY <1>1 DEF Fields
  <2> HIDE DEF g
  <2>4. CASE UNCHANGED <<gs, past>>
    BY <1>1, <2>1, <2>4, AllStay
  <2>5. CASE gs' = [gs EXCEPT ![p] = g] /\ past' = [past EXCEPT
                     ![p].shots = @ + 1, ![p].fired = IF e.gun = "rocket" THEN @ + 1 ELSE @]
    <3> HIDE DEF e
    <3>1. past'[p].session = past[p].session /\ past'[p].life = past[p].life
      BY <1>1, <2>5, FitDomains DEF HistoryFields
    <3>2. \A q \in Players : past'[q].session = past[q].session /\ past'[q].life = past[q].life
      BY <2>5, <3>1, FitDomains
    <3>3. g.health \in Int
      BY <1>1, <2>3 DEF Numbered
    <3>4. QED
      BY <2>1, <2>3, <2>5, <3>2, <3>3, StateOnward
  <2>6. QED
    BY <2>2, <2>4, <2>5
<1>12. ASSUME NEW p \in Players, ExplodeEvent(p)
       PROVE  Going
  <2> DEFINE e == events[p][1]
             g == [gs[p] EXCEPT !.rockets = RemoveProj(gs[p].rockets, e.id)]
  <2>1. clients' = clients
    BY <1>12 DEF ExplodeEvent, Process
  <2>2. \/ UNCHANGED <<gs, past>>
        \/ gs' = [gs EXCEPT ![p] = g] /\ past' = [past EXCEPT ![p].exploded = @ + 1]
    BY <1>12, FitDomains DEF ExplodeEvent
  <2>3. g.lifesequence = gs[p].lifesequence /\ g.health = gs[p].health
    BY <1>1 DEF Fields
  <2> HIDE DEF g
  <2>4. CASE UNCHANGED <<gs, past>>
    BY <1>1, <2>1, <2>4, AllStay
  <2>5. CASE gs' = [gs EXCEPT ![p] = g] /\ past' = [past EXCEPT ![p].exploded = @ + 1]
    <3>1. past'[p].session = past[p].session /\ past'[p].life = past[p].life
      BY <1>1, <2>5, FitDomains DEF HistoryFields
    <3>2. \A q \in Players : past'[q].session = past[q].session /\ past'[q].life = past[q].life
      BY <2>5, <3>1, FitDomains
    <3>3. g.health \in Int
      BY <1>1, <2>3 DEF Numbered
    <3>4. QED
      BY <2>1, <2>3, <2>5, <3>2, <3>3, StateOnward
  <2>6. QED
    BY <2>2, <2>4, <2>5
<1>13. ASSUME NEW p \in Players, PickupEvent(p)
       PROVE  Going
  <2> DEFINE g == [gs[p] EXCEPT !.health = @ + 1]
  <2>1. clients' = clients /\ past' = past /\ (gs' = gs \/ gs' = [gs EXCEPT ![p] = g])
    BY <1>13, FitDomains DEF PickupEvent, Process
  <2>2. g.lifesequence = gs[p].lifesequence /\ g.health = gs[p].health + 1
    BY <1>1 DEF Fields
  <2> HIDE DEF g
  <2>3. g.health \in Int
    BY <1>1, <2>2 DEF Numbered
  <2>4. QED
    BY <1>1, <2>1, <2>2, <2>3, AllStay, StateOnward
<1>14. CASE HitLands
  <2> DEFINE t == Head(landing.hits).target
  <2>1. PICK damage \in Damage :
          \/ gs' = gs
          \/ CanBeHit(Head(landing.hits)) /\ gs' = [gs EXCEPT ![t] = Damaged(@, damage)]
    BY <1>14 DEF HitLands
  <2>2. clients' = clients /\ past' = past
    BY <1>14 DEF HitLands
  <2>3. CASE gs' = gs
    BY <1>1, <2>2, <2>3, AllStay
  <2>4. CASE CanBeHit(Head(landing.hits)) /\ gs' = [gs EXCEPT ![t] = Damaged(@, damage)]
    <3>1. t \in Players
      BY <2>4 DEF CanBeHit, Playing, IInv, RosterOK
    <3> HIDE DEF t
    <3>2. gs' = [gs EXCEPT ![t] = Damaged(gs[t], damage)]
      BY <2>4, <3>1, FitDomains
    <3>3. Damaged(gs[t], damage).lifesequence = gs[t].lifesequence
      BY <1>1, <3>1, SequenceKept
    <3>4. Damaged(gs[t], damage).health \in Int
      BY <1>1, <3>1, DamagedHealth DEF Numbered
    <3>5. QED
      BY <2>2, <3>1, <3>2, <3>3, <3>4, StateOnward
  <2>5. QED
    BY <2>1, <2>3, <2>4
<1>15. QED
  BY <1>2, <1>3, <1>4, <1>5, <1>6, <1>7, <1>8, <1>9, <1>10, <1>11, <1>12, <1>13, <1>14
     DEF Next, Roster, Message, Flush

-----------------------------------------------------------------------------
(* What is queued and what lands. *)

LEMMA QueueIsSequence == FInv => DOMAIN events = Players /\ \A p \in Players : IsSequence(events[p])
  BY DEF FInv, Ready2, Loaded, Queue

\* Hits are aimed at those who are there, at the life they live.
LEMMA HitsAimed ==
  ASSUME IInv, HInv, NEW S \in SUBSET Joined, NEW hits, hits \in Hits(S) \/ hits = <<>>
  PROVE  AllAimed(hits, past, Joined)
<1> DEFINE T == {HitOn(t, r) : t \in S, r \in 1 .. Rays}
<1>1. ASSUME NEW x \in T PROVE Aimed(x, past, Joined)
  <2>1. PICK t \in S, r \in 1 .. Rays : x = HitOn(t, r)
    OBVIOUS
  <2>2. t \in Players /\ Numbered(gs[t], past[t])
    BY DEF Joined, HInv
  <2>3. /\ x.target = t /\ x.seq = gs[t].lifesequence
        /\ x.aimed[1] = past[t].session /\ x.aimed[2] = past[t].life
    BY <2>1 DEF HitOn
  <2>4. SameNumber(x.seq, x.aimed[2]) /\ past[t].session \in Nat /\ past[t].life \in Nat
    BY <2>2, <2>3 DEF Numbered, SameNumber
  <2>5. QED
    BY <2>2, <2>3, <2>4 DEF Aimed
<1>2. CASE hits = <<>>
  BY <1>2, EmptyIsSequence DEF AllAimed
<1>3. CASE hits \in Hits(S)
  <2>1. PICK n \in 0 .. MaxHits : hits \in [1 .. n -> T]
    BY <1>3 DEF Hits
  <2> HIDE DEF T
  <2>2. n \in Nat /\ hits \in Seq(T) /\ Len(hits) = n
    BY <2>1, FightAssumption
  <2>3. QED
    BY <1>1, <2>1, <2>2 DEF AllAimed, IsSequence
<1>4. QED
  BY <1>2, <1>3

\* A message of p puts e at the end of its queue.
LEMMA AddedAimed ==
  ASSUME FInv, HInv, Going, NEW p \in Players, NEW e, AddEvent(p, e), EventAimed(e, past, Joined)
  PROVE  QueuesAimed'
<1>1. DOMAIN events = Players /\ IsSequence(events[p])
  BY QueueIsSequence
<1>2. /\ \A q \in Players \ {p} : events'[q] = events[q]
      /\ events'[p] = events[p] \/ events'[p] = Append(events[p], e)
  BY <1>1 DEF AddEvent
<1>3. \A i \in 1 .. Len(events'[p]) :
        (\E j \in 1 .. Len(events[p]) : events'[p][i] = events[p][j]) \/ events'[p][i] = e
  <2>1. CASE events'[p] = events[p]
    BY <2>1
  <2>2. CASE events'[p] = Append(events[p], e)
    <3>1. /\ Len(events[p]) \in Nat /\ Len(events'[p]) = Len(events[p]) + 1
          /\ \A i \in 1 .. Len(events[p]) : events'[p][i] = events[p][i]
          /\ events'[p][Len(events[p]) + 1] = e
      BY <1>1, <2>2, AppendQueue
    <3>2. QED
      BY <3>1
  <2>3. QED
    BY <1>2, <2>1, <2>2
<1>4. ASSUME NEW q \in Players, NEW i \in 1 .. Len(events'[q])
      PROVE  \/ \E j \in 1 .. Len(events[q]) : events'[q][i] = events[q][j]
             \/ EventAimed(events'[q][i], past, Joined)
  <2>1. CASE q = p
    BY <1>3, <2>1
  <2>2. CASE q # p
    BY <1>2, <2>2
  <2>3. QED
    BY <2>1, <2>2
<1>5. QED
  BY <1>4, QueuesKept DEF HInv

\* What is left of a queue.
Fewer(q, r) == r = q \/ r = <<>> \/ r = Cleared(q) \/ (q # <<>> /\ r = Tail(q))

LEMMA FewerAimed ==
  ASSUME FInv, HInv, Going,
         \A p \in Players : Fewer(events[p], events'[p])
  PROVE  QueuesAimed'
<1>1. ASSUME NEW p \in Players, NEW i \in 1 .. Len(events'[p])
      PROVE  \E j \in 1 .. Len(events[p]) : events'[p][i] = events[p][j]
  <2>1. IsSequence(events[p])
    BY QueueIsSequence
  <2>2. CASE events'[p] = events[p]
    BY <2>2
  <2>3. CASE events'[p] = <<>>
    BY <2>3
  <2>4. CASE events'[p] = Cleared(events[p])
    BY <2>1, <2>4, ClearedQueue
  <2>5. CASE events[p] # <<>> /\ events'[p] = Tail(events[p])
    <3>1. /\ Len(events[p]) \in Nat /\ Len(events'[p]) = Len(events[p]) - 1
          /\ \A k \in 1 .. Len(events[p]) - 1 : events'[p][k] = events[p][k + 1]
      BY <2>1, <2>5, TailQueue
    <3>2. i + 1 \in 1 .. Len(events[p]) /\ events'[p][i] = events[p][i + 1]
      BY <3>1
    <3>3. QED
      BY <3>2
  <2>6. QED
    BY <2>2, <2>3, <2>4, <2>5 DEF Fewer
<1>2. QED
  BY <1>1, QueuesKept DEF HInv

LEMMA QueuesStay ==
  ASSUME FInv, HInv, Going, UNCHANGED <<events, landing>>, job' = job \/ landing = NoLanding
  PROVE  HInv'
<1>1. \A p \in Players : Fewer(events[p], events'[p])
  BY DEF Fewer
<1>2. QueuesAimed'
  BY <1>1, FewerAimed
<1>3. QED
  BY <1>2, LandingKept DEF HInv, Going, Onward

\* A flush begins to land what the first event has hit.
LEMMA ProcessAimed ==
  ASSUME FInv, HInv, Going, NEW p \in Players, NEW type, Process(p, type),
         landing' = landing \/ (type \in {"shot", "explode"} /\ Land(type, events[p][1].hits))
  PROVE  HInv'
<1>1. /\ events[p] # <<>> /\ events' = [events EXCEPT ![p] = Tail(@)] /\ job' = job
      /\ landing = NoLanding /\ job.left # <<>> /\ events[p][1].type = type
  BY DEF Process, Due, Flushing
<1>2. DOMAIN events = Players /\ IsSequence(events[p])
  BY QueueIsSequence
<1>3. QueuesAimed'
  <2>1. events'[p] = Tail(events[p]) /\ \A q \in Players \ {p} : events'[q] = events[q]
    BY <1>1, <1>2
  <2>2. \A q \in Players : Fewer(events[q], events'[q])
    BY <1>1, <2>1 DEF Fewer
  <2>3. QED
    BY <2>2, FewerAimed
<1>4. CASE landing' = landing
  BY <1>1, <1>3, <1>4, LandingKept DEF HInv, Going, Onward
<1>5. CASE type \in {"shot", "explode"} /\ Land(type, events[p][1].hits)
  <2> DEFINE hits == events[p][1].hits
  <2>1. 1 \in 1 .. Len(events[p])
    BY <1>1, <1>2, TailQueue
  <2>2. AllAimed(hits, past, Joined)
    BY <1>1, <1>5, <2>1 DEF HInv, QueuesAimed, EventAimed, IsTimed
  <2>3. AllAimed(hits, past', Joined')
    BY <2>2, AllAimedKept
  <2> HIDE DEF hits
  <2>4. CASE hits = <<>>
    BY <1>3, <1>5, <2>4 DEF hits, Land, LandingOK, HInv, Going, Onward
  <2>5. CASE hits # <<>>
    <3>1. landing' = [from |-> type, hits |-> hits, rays |-> 0, seen |-> {}]
      BY <1>5, <2>5 DEF hits, Land
    <3>2. ~Idle'
      BY <1>1 DEF Idle, NoJob
    <3>3. LandingOK'
      BY <2>3, <2>5, <3>1, <3>2 DEF LandingOK
    <3>4. QED
      BY <1>3, <3>3 DEF HInv, Going, Onward
  <2>6. QED
    BY <2>4, <2>5
<1>6. QED
  BY <1>4, <1>5

LEMMA NextLanding ==
  ASSUME NEW l, DOMAIN l = {"from", "hits", "rays", "seen"}, NEW rays, NEW seen
  PROVE  /\ [l EXCEPT !.hits = Tail(@), !.rays = rays, !.seen = seen].hits = Tail(l.hits)
         /\ DOMAIN [l EXCEPT !.hits = Tail(@), !.rays = rays, !.seen = seen]
              = {"from", "hits", "rays", "seen"}
OBVIOUS

LEMMA HitLandsAimed ==
  ASSUME FInv, HInv, Going, HitLands
  PROVE  HInv'
<1> DEFINE hits == landing.hits
<1>1. /\ landing # NoLanding /\ job' = job /\ events' = events
      /\ \/ landing' = NoLanding
         \/ /\ Len(hits) # 1
            /\ \E rays, seen : landing' = [landing EXCEPT !.hits = Tail(@), !.rays = rays, !.seen = seen]
  BY DEF HitLands, queues
<1>2. QueuesAimed'
  <2>1. \A p \in Players : Fewer(events[p], events'[p])
    BY <1>1 DEF Fewer
  <2>2. QED
    BY <2>1, FewerAimed
<1>3. CASE landing' = NoLanding
  BY <1>2, <1>3 DEF HInv, LandingOK, Going, Onward
<1>4. CASE /\ Len(hits) # 1
           /\ \E rays, seen : landing' = [landing EXCEPT !.hits = Tail(@), !.rays = rays, !.seen = seen]
  <2>1. /\ DOMAIN landing = {"from", "hits", "rays", "seen"}
        /\ hits # <<>> /\ AllAimed(hits, past, Joined) /\ ~Idle
    BY <1>1 DEF HInv, LandingOK
  <2>2. landing'.hits = Tail(hits) /\ DOMAIN landing' = {"from", "hits", "rays", "seen"}
    <3>1. PICK rays, seen : landing' = [landing EXCEPT !.hits = Tail(@), !.rays = rays, !.seen = seen]
      BY <1>4
    <3>2. QED
      BY <2>1, <3>1, NextLanding
  <2> HIDE DEF hits
  <2>3. AllAimed(hits, past', Joined')
    BY <2>1, AllAimedKept
  <2>4. /\ IsSequence(Tail(hits)) /\ Len(hits) \in Nat /\ Len(hits) >= 1
        /\ Len(Tail(hits)) = Len(hits) - 1
        /\ \A i \in 1 .. Len(hits) - 1 : Tail(hits)[i] = hits[i + 1]
    BY <2>1, TailQueue DEF AllAimed
  <2>5. Tail(hits) # <<>>
    <3>1. Len(hits) # 1
      BY <1>4, Zenon
    <3>2. Len(Tail(hits)) # 0
      BY <2>4, <3>1
    <3>3. Len(<<>>) = 0
      BY EmptyIsSequence
    <3>4. QED
      BY <3>2, <3>3, Zenon
  <2>6. AllAimed(Tail(hits), past', Joined')
    BY <2>3, <2>4 DEF AllAimed
  <2>7. LandingOK'
    BY <1>1, <2>1, <2>2, <2>5, <2>6 DEF LandingOK, Idle
  <2>8. QED
    BY <1>2, <2>7 DEF HInv, Going, Onward
<1>5. QED
  BY <1>1, <1>3, <1>4

\* What a client asks for, or time, leaves alone what is queued and what lands, or
\* empties queues.
LEMMA EmptiedAimed ==
  ASSUME FInv, HInv, Going, \A p \in Players : events'[p] = events[p] \/ events'[p] = <<>>,
         UNCHANGED <<landing, job>>
  PROVE  HInv'
<1>1. \A p \in Players : Fewer(events[p], events'[p])
  BY DEF Fewer
<1>2. QueuesAimed'
  BY <1>1, FewerAimed
<1>3. QED
  BY <1>2, LandingKept DEF HInv, Going, Onward

LEMMA GrantedAimed ==
  ASSUME FInv, HInv, Going, NEW p \in Players, NEW g, Granted(p, g), landing' = landing,
         job' = job \/ landing = NoLanding
  PROVE  HInv'
<1>1. events' = [events EXCEPT ![p] = Cleared(@)] /\ DOMAIN events = Players
  BY QueueIsSequence DEF Granted
<1>2. \A q \in Players : Fewer(events[q], events'[q])
  BY <1>1 DEF Fewer
<1>3. QueuesAimed'
  BY <1>2, FewerAimed
<1>4. QED
  BY <1>3, LandingKept DEF HInv, Going, Onward

LEMMA AddedKept ==
  ASSUME FInv, HInv, Going, NEW p \in Players, NEW e, AddEvent(p, e), EventAimed(e, past, Joined),
         UNCHANGED <<landing, job>>
  PROVE  HInv'
<1>1. QueuesAimed'
  BY AddedAimed
<1>2. QED
  BY <1>1, LandingKept DEF HInv, Going, Onward

\* Between the hits of a shot nothing but its hits happens.
LEMMA IdleLands == HInv /\ Idle => landing = NoLanding
  BY DEF HInv, LandingOK

LEMMA HInvStep == IInv /\ FInv /\ HInv /\ [Next]_vars => HInv'
<1> SUFFICES ASSUME IInv, FInv, HInv, [Next]_vars PROVE HInv'
  OBVIOUS
<1>1. Going /\ DOMAIN events = Players
  BY EverOnward, QueueIsSequence
<1>2. ASSUME NEW p \in Players,
             (\E watch \in BOOLEAN : Join(p, watch)) \/ Leave(p) \/ Unspectate(p)
             \/ ForceSpectator(p) \/ SwitchTeam(p)
      PROVE  HInv'
  <2>1. UNCHANGED <<landing, job>>
    BY <1>2 DEF Join, Leave, Unspectate, ForceSpectator, SwitchTeam, flow
  <2>2. \A q \in Players : events'[q] = events[q] \/ events'[q] = <<>>
    <3>1. CASE \E watch \in BOOLEAN : Join(p, watch)
      BY <3>1 DEF Join, MapChange, queues
    <3>2. CASE Leave(p)
      BY <1>1, <3>2 DEF Leave
    <3>3. CASE Unspectate(p)
      BY <3>3 DEF Unspectate, MapChange, queues
    <3>4. CASE ForceSpectator(p) \/ SwitchTeam(p)
      BY <3>4 DEF ForceSpectator, SwitchTeam, queues
    <3>5. QED
      BY <1>2, <3>1, <3>2, <3>3, <3>4
  <2>3. QED
    BY <1>1, <2>1, <2>2, EmptiedAimed
<1>3. CASE ChangeMap
  <2>1. UNCHANGED <<landing, job>> /\ \A q \in Players : events'[q] = <<>>
    BY <1>3 DEF ChangeMap, MapChange, flow
  <2>2. QED
    BY <1>1, <2>1, EmptiedAimed
<1>4. ASSUME NEW p \in Players, NEW id, Explode(p, id)
      PROVE  HInv'
  <2>1. PICK t \in EventMillis(p), h \in Hits(Joined) :
          AddEvent(p, [type |-> "explode", millis |-> t, id |-> id, hits |-> h])
    BY <1>4 DEF Explode
  <2>2. UNCHANGED <<landing, job>>
    BY <1>4 DEF Explode, flow
  <2>3. AllAimed(h, past, Joined)
    BY HitsAimed
  <2>4. EventAimed([type |-> "explode", millis |-> t, id |-> id, hits |-> h], past, Joined)
    BY <2>3 DEF EventAimed
  <2>5. QED
    BY <1>1, <2>1, <2>2, <2>4, AddedKept
<1>5. ASSUME NEW p \in Players, NEW id, NEW gun \in Guns, Shoot(p, gun, id)
      PROVE  HInv'
  <2>1. PICK t \in EventMillis(p), h \in IF gun = "rifle" THEN Hits(Joined \ {p}) ELSE {<<>>} :
          AddEvent(p, [type |-> "shot", millis |-> t, gun |-> gun, id |-> id, hits |-> h,
                       life |-> past[p].life])
    BY <1>5 DEF Shoot
  <2>2. UNCHANGED <<landing, job>>
    BY <1>5 DEF Shoot, flow
  <2>3. AllAimed(h, past, Joined)
    <3>1. (h \in Hits(Joined \ {p}) \/ h = <<>>) /\ Joined \ {p} \in SUBSET Joined
      BY <2>1
    <3>2. QED
      BY <3>1, HitsAimed
  <2>4. EventAimed([type |-> "shot", millis |-> t, gun |-> gun, id |-> id, hits |-> h,
                    life |-> past[p].life], past, Joined)
    BY <2>3 DEF EventAimed
  <2>5. QED
    BY <1>1, <2>1, <2>2, <2>4, AddedKept
<1>6. ASSUME NEW p \in Players, SendSuicide(p) \/ SendPickup(p)
      PROVE  HInv'
  <2>1. UNCHANGED <<landing, job>>
    BY <1>6 DEF SendSuicide, SendPickup, flow
  <2>2. /\ EventAimed([type |-> "suicide"], past, Joined)
        /\ EventAimed([type |-> "pickup"], past, Joined)
    BY DEF EventAimed, IsTimed
  <2>3. AddEvent(p, [type |-> "suicide"]) \/ AddEvent(p, [type |-> "pickup"])
    BY <1>6 DEF SendSuicide, SendPickup
  <2>4. QED
    BY <1>1, <2>1, <2>2, <2>3, AddedKept
<1>7. ASSUME NEW p \in Players, TrySpawn(p)
      PROVE  HInv'
  <2>1. landing' = landing /\ landing = NoLanding
    BY <1>7, IdleLands DEF TrySpawn
  <2>2. Granted(p, gs[p]) \/ events' = events
    BY <1>7 DEF TrySpawn, queues
  <2>3. QED
    BY <1>1, <2>1, <2>2, GrantedAimed, QueuesStay
<1>8. ASSUME NEW p \in Players, Spawn(p)
      PROVE  HInv'
  <2>1. UNCHANGED <<events, landing, job>>
    BY <1>8 DEF Spawn, queues, flow
  <2>2. QED
    BY <1>1, <2>1, QueuesStay
<1>9. ASSUME NEW p \in Players, FlushEnds(p) \/ DropStale(p)
      PROVE  HInv'
  <2>1. /\ landing' = landing /\ landing = NoLanding
        /\ events' = events \/ (events[p] # <<>> /\ events' = [events EXCEPT ![p] = Tail(@)])
    BY <1>9 DEF FlushEnds, DropStale, Flushing, Due, queues, flow
  <2>2. \A q \in Players : Fewer(events[q], events'[q])
    BY <1>1, <2>1 DEF Fewer
  <2>3. QueuesAimed'
    BY <1>1, <2>2, FewerAimed
  <2>4. QED
    BY <1>1, <2>1, <2>3, LandingKept DEF HInv, Going, Onward
<1>10. ASSUME NEW p \in Players,
              ShotEvent(p) \/ ExplodeEvent(p) \/ SuicideEvent(p) \/ PickupEvent(p)
       PROVE  HInv'
  <2>1. \E type : /\ Process(p, type)
                  /\ \/ landing' = landing
                     \/ type \in {"shot", "explode"} /\ Land(type, events[p][1].hits)
    BY <1>10 DEF ShotEvent, ExplodeEvent, SuicideEvent, PickupEvent
  <2>2. QED
    BY <1>1, <2>1, ProcessAimed
<1>11. ASSUME NEW p \in Players, EndTrySpawn(p)
       PROVE  HInv'
  <2>1. landing' = landing /\ landing = NoLanding /\ Granted(p, Respawn(gs[p]))
    BY <1>11 DEF EndTrySpawn, Flushed
  <2>2. QED
    BY <1>1, <2>1, GrantedAimed
<1>12. CASE HitLands
  BY <1>1, <1>12, HitLandsAimed
<1>13. CASE \/ UpdateItems \/ PauseGame \/ ItemList \/ UpdateEmpty
            \/ (\E dt \in 0 .. 1 : Update(dt)) \/ UNCHANGED vars
  <2>1. UNCHANGED <<events, landing>> /\ (job' = job \/ landing = NoLanding)
    BY <1>13, IdleLands
       DEF UpdateItems, Flushed, PauseGame, ItemList, UpdateEmpty, Update, vars, queues, flow
  <2>2. QED
    BY <1>1, <2>1, QueuesStay
<1>14. QED
  BY <1>2, <1>3, <1>4, <1>5, <1>6, <1>7, <1>8, <1>9, <1>10, <1>11, <1>12, <1>13
     DEF Next, Roster, Message, Flush

LEMMA HInvInit == Init => HInv
<1> SUFFICES ASSUME Init PROVE HInv
  OBVIOUS
<1>1. \A p \in Players : gs[p] = Blank /\ past[p] = NoPast /\ events[p] = <<>>
  BY DEF Init
<1>2. Numbered(Blank, NoPast)
  BY FirstNumber, FightAssumption DEF Numbered, Blank, NoPast
<1>3. QueuesAimed
  BY <1>1 DEF QueuesAimed
<1>4. QED
  BY <1>1, <1>2, <1>3 DEF Init, HInv, LandingOK

\* What takes health while hits land is the first of them, on the life it was aimed at.
LEMMA LandsOnLife ==
  ASSUME IInv, HInv, [Next]_vars, landing # NoLanding,
         gs'[Head(landing.hits).target].health < gs[Head(landing.hits).target].health,
         Head(landing.hits).aimed[1] = past[Head(landing.hits).target].session
  PROVE  LET h == Head(landing.hits)
             behind == past[h.target].life - h.aimed[2]
         IN  behind = 0 \/ behind >= LifeMod
<1> DEFINE h == Head(landing.hits)
<1>1. ~Idle /\ landing.hits # <<>> /\ AllAimed(landing.hits, past, Joined)
  BY DEF HInv, LandingOK
<1>2. Aimed(h, past, Joined)
  <2>1. 1 \in 1 .. Len(landing.hits) /\ h = landing.hits[1]
    BY <1>1, TailQueue DEF AllAimed, IsSequence
  <2> HIDE DEF h
  <2>2. QED
    BY <1>1, <2>1 DEF AllAimed
<1>3. HitLands \/ UNCHANGED vars
  BY <1>1 DEF Next, Roster, Message, Flush, Join, Leave, ForceSpectator, Unspectate, SwitchTeam,
     Explode, Shoot, Send, SendSuicide, SendPickup, TrySpawn, Spawn, FlushEnds, DropStale,
     ShotEvent, ExplodeEvent, SuicideEvent, PickupEvent, Process, Flushing, EndTrySpawn, Flushed,
     UpdateItems, PauseGame, ChangeMap, ItemList, UpdateEmpty, Update
<1>4. h.target \in Players /\ Numbered(gs[h.target], past[h.target])
  BY <1>2 DEF Aimed, HInv
<1>5. gs' # gs
  BY <1>4 DEF Numbered
<1>6. CanBeHit(h)
  BY <1>3, <1>5 DEF HitLands, vars
<1>7. h.target \in Joined /\ h.seq = gs[h.target].lifesequence
  BY <1>4, <1>6 DEF CanBeHit, Joined
<1> HIDE DEF h
<1>8. /\ SameNumber(h.seq, h.aimed[2]) /\ h.aimed[2] <= past[h.target].life
      /\ SameNumber(h.seq, past[h.target].life)
  BY <1>2, <1>4, <1>7 DEF Aimed, Numbered, h
<1>9. QED
  BY <1>8, SameNumbers DEF h

\* A hit takes health from the life it was aimed at, or from one a whole count of
\* lifesequence later, or from another session: however long its shot waited, whoever
\* died, spawned, left and joined meanwhile (shotevent::process, explodeevent::process).
THEOREM HitsAreAimed == Spec => HitsAimedLife
<1>1. Spec => [](IInv /\ FInv)
  <2>1. FInv /\ IInv /\ [Next]_vars => FInv'
    BY FInvStep
  <2>2. QED
    BY InvAlways, FInvInit, <2>1, PTL DEF Spec
<1>2. IInv /\ FInv /\ HInv /\ [Next]_vars => HInv'
  BY HInvStep
<1>3. IInv /\ HInv /\ [Next]_vars =>
        [landing # NoLanding =>
           LET h == Head(landing.hits)
               behind == past[h.target].life - h.aimed[2]
           IN  gs'[h.target].health < gs[h.target].health /\ h.aimed[1] = past[h.target].session
               => behind = 0 \/ behind >= LifeMod]_vars
  BY LandsOnLife
<1>4. QED
  BY <1>1, <1>2, <1>3, HInvInit, PTL DEF Spec, HitsAimedLife

=============================================================================
