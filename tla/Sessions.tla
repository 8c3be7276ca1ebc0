------------------------------ MODULE Sessions ------------------------------
(***************************************************************************)
(* Client sessions of the dedicated server: the slots of engine/server.cpp *)
(* and the ENet peers they point at, the connects and clients lists of     *)
(* fpsgame/server.cpp, authentication (local keys and the master server),  *)
(* privileges, master mode, the pause that needs an authority, kicks and   *)
(* bans.  One action per event, message handler or timer.                  *)
(*                                                                         *)
(* A clientinfo object is an element of Infos and is never reused, as a    *)
(* pointer to a heap object would be distinguished by its lifetime.  The   *)
(* dedicated build has no local client, so every test of "local" is false. *)
(* Time is abstract but for the join timer: other timers may fire whenever *)
(* the thing they wait for exists.  Lua hooks are taken not to be          *)
(* installed.                                                              *)
(***************************************************************************)
EXTENDS Integers, FiniteSets

CONSTANTS
    Peers, NoPeer,  \* peer objects of the ENet host
    Addresses, NoAddress,   \* IP addresses a peer may connect from
    MaxInfos,       \* bound: connections accepted in a behaviour
    MaxReq,         \* bound: authentication requests issued in a behaviour
    KeyPrivs,       \* privileges of the local keys in "users" (none, auth, admin)
    MasterModes,    \* modes N_MASTERMODE asks for
    MasterMask,     \* modes an ordinary master may select (mastermask)
    AutoApprove,    \* the MM_AUTOAPPROVE bit of mastermask
    MaxClients,     \* maxclients
    ServerPass,     \* a server password is set
    AdminPass,      \* an administrator password is set
    ServerAuth,     \* connect-time authentication is configured (serverauth)
    PausePriv       \* privilege N_PAUSEGAME asks for (restrictpausegame)

PRIV_NONE == 0
PRIV_MASTER == 1
PRIV_AUTH == 2
PRIV_ADMIN == 3
Privs == PRIV_NONE .. PRIV_ADMIN

MM_OPEN == 0
MM_LOCKED == 2
MM_PRIVATE == 3

ASSUME PeersAssumption == IsFiniteSet(Peers) /\ NoPeer \notin Peers
ASSUME AddressAssumption == NoAddress \notin Addresses
ASSUME BoundsAssumption == MaxInfos \in Nat /\ MaxReq \in Nat /\ MaxClients \in Nat
ASSUME KeyAssumption == KeyPrivs \subseteq {PRIV_NONE, PRIV_AUTH, PRIV_ADMIN}
ASSUME ModeAssumption == MasterModes \subseteq MM_OPEN .. MM_PRIVATE
ASSUME PauseAssumption == PausePriv \in {PRIV_MASTER, PRIV_ADMIN}

Infos == 1 .. MaxInfos
NoInfo == 0
Slots == 0 .. Cardinality(Peers) - 1      \* client numbers
NoSlot == -1

VARIABLES
    peerstate,      \* "free", "up" or "closing"
    peerdata,       \* peer->data, as the client number it points at
    slotinfo,       \* client.info by client number, NoInfo is ST_EMPTY
    slotpeer,       \* client.peer
    num, ip,        \* clientinfo: client number; address of its peer
    priv, spec,     \* clientinfo: privilege; CS_SPECTATOR
    connectauth,    \* clientinfo: joins only by answering its challenge
    auth,           \* clientinfo: authreq, authdesc, authkickvictim
    connects,       \* connected to ENet, not yet joined
    clients,        \* joined
    created,        \* number of clientinfo objects made so far
    nextauthreq,
    mastersock,     \* "none", "connecting" or "up"
    mreq,           \* what is outstanding at the master server, by request id
    mastermode, allowedips, bannedips, gbans,
    gamepaused,
    mp,             \* m_mp(gamemode)
    overdue         \* connections are older than 15 seconds up to this one (connectmillis)

links == <<peerstate, peerdata, slotinfo, slotpeer>>
idents == <<num, ip>>
ci == <<idents, priv, spec, connectauth, auth>>
roster == <<connects, clients>>
counters == <<created, nextauthreq>>
masterlink == <<mastersock, mreq>>
access == <<mastermode, allowedips>>
bans == <<bannedips, gbans>>
vars == <<links, ci, roster, counters, masterlink, access, bans, gamepaused, mp, overdue>>

\* A pending request.  "target" is the clientinfo the victim's number stood for
\* when an authenticated kick was asked for: a history variable, never read.
Request(r, dom, key, victim) ==
    [authreq |-> r, dom |-> dom, key |-> key, victim |-> victim,
     target |-> IF victim = NoSlot THEN NoInfo ELSE slotinfo[victim]]

\* cleanauth(): forgets the pending request and the kick it was for.
NoAuth == [authreq |-> 0, dom |-> "local", key |-> PRIV_NONE, victim |-> NoSlot,
           target |-> NoInfo]

NoRequest == [stage |-> "none", asker |-> NoInfo]

Init ==
    /\ peerstate = [p \in Peers |-> "free"] /\ peerdata = [p \in Peers |-> NoSlot]
    /\ slotinfo = [n \in Slots |-> NoInfo] /\ slotpeer = [n \in Slots |-> NoPeer]
    /\ num = [i \in Infos |-> NoSlot] /\ ip = [i \in Infos |-> NoAddress]
    /\ priv = [i \in Infos |-> PRIV_NONE] /\ spec = [i \in Infos |-> FALSE]
    /\ connectauth = [i \in Infos |-> FALSE] /\ auth = [i \in Infos |-> NoAuth]
    /\ connects = {} /\ clients = {}
    /\ created = 0 /\ nextauthreq = 1
    /\ mastersock = "none" /\ mreq = [r \in 1 .. MaxReq |-> NoRequest]
    /\ mastermode = MM_OPEN
    /\ allowedips = {} /\ bannedips = {} /\ gbans = {}
    /\ gamepaused = FALSE /\ mp = TRUE /\ overdue = 0
-----------------------------------------------------------------------------
(* Privileges *)

HasMaster(S, pr) == \E i \in S : pr[i] >= PRIV_MASTER
MayPause(S, pr) == \E i \in S : pr[i] >= PausePriv

\* Wrong on purpose, to be put in the place of the next definition: nobody looks
\* for an authority over the pause.
SettleKeepingPause(S, pr, changed, allowed, paused) ==
    /\ mastermode' = IF HasMaster(S, pr) THEN mastermode ELSE MM_OPEN
    /\ allowedips' = IF HasMaster(S, pr) \/ mastermode = MM_OPEN THEN allowed ELSE {}
    /\ gamepaused' = paused

\* The tail of setmaster: master mode falls open when the last master is gone,
\* and a changed privilege makes checkpausegame look for an authority.
Settle(S, pr, changed, allowed, paused) ==
    /\ mastermode' = IF HasMaster(S, pr) THEN mastermode ELSE MM_OPEN
    /\ allowedips' = IF HasMaster(S, pr) \/ mastermode = MM_OPEN THEN allowed ELSE {}
    /\ gamepaused' = (paused /\ (changed => MayPause(S, pr)))

\* setmaster only ever raises a privilege.
Larger(a, b) == IF a >= b THEN a ELSE b

\* setmaster(ci, true, ...): who may claim the plain master privilege.
CanClaim(i, want) ==
    want = PRIV_MASTER =>
        /\ ~spec[i]
        /\ \A j \in clients \ {i} : priv[j] = PRIV_NONE
        /\ AutoApprove \/ priv[i] > PRIV_NONE

\* setmaster(ci, val): raise i to "want", or take its privilege away (val FALSE).
SetMaster(i, val, want) ==
    /\ priv' = [priv EXCEPT ![i] = IF val THEN Larger(priv[i], want) ELSE PRIV_NONE]
    /\ Settle(clients, priv', priv'[i] # priv[i], allowedips, gamepaused)
-----------------------------------------------------------------------------
(* Leaving *)

\* delclient of the client numbers N; "how" is the state their peers are left in.
DelClient(N, how) ==
    /\ slotinfo' = [n \in Slots |-> IF n \in N THEN NoInfo ELSE slotinfo[n]]
    /\ slotpeer' = [n \in Slots |-> IF n \in N THEN NoPeer ELSE slotpeer[n]]
    /\ peerstate' = [p \in Peers |-> IF \E n \in N : slotpeer[n] = p THEN how ELSE peerstate[p]]
    /\ peerdata' = [p \in Peers |-> IF \E n \in N : slotpeer[n] = p THEN NoSlot ELSE peerdata[p]]

\* Wrong on purpose, to be put in the place of the next definition: the kicks that
\* name the client stay pending.
CancelNothing(N, gone) == auth' = [i \in Infos |-> IF i \in gone THEN NoAuth ELSE auth[i]]

\* clientdisconnect first cancels the authenticated kicks that name the client.
\* "gone" are the clientinfos of N.
CancelKicks(N, gone) ==
    auth' = [i \in Infos |-> IF i \in gone \/ (i \in clients /\ auth[i].victim \in N)
                             THEN NoAuth ELSE auth[i]]

\* disconnect_client or the DISCONNECT event for the client numbers N: the
\* server-side clientdisconnect of each, then delclient.  banned, allowed and
\* paused are what the caller has made of those variables by then.  Bans clear
\* when the last joined client goes (noclients).
Disconnect(N, how, banned, allowed, paused) ==
    LET gone == {slotinfo[n] : n \in N}
        left == clients \ gone
        joined == gone \cap clients
    IN  /\ clients' = left
        /\ connects' = connects \ gone
        /\ DelClient(N, how)
        /\ CancelKicks(N, gone)
        /\ num' = [i \in Infos |-> IF i \in gone THEN NoSlot ELSE num[i]]
        /\ ip' = [i \in Infos |-> IF i \in gone THEN NoAddress ELSE ip[i]]
        /\ priv' = [i \in Infos |-> IF i \in gone THEN PRIV_NONE ELSE priv[i]]
        /\ spec' = [i \in Infos |-> IF i \in gone THEN FALSE ELSE spec[i]]
        /\ connectauth' = [i \in Infos |-> IF i \in gone THEN FALSE ELSE connectauth[i]]
        /\ bannedips' = IF joined # {} /\ left = {} THEN {} ELSE banned
        /\ IF \E i \in joined : priv[i] > PRIV_NONE
           THEN Settle(left, priv, TRUE, allowed, paused)
           ELSE allowedips' = allowed /\ gamepaused' = paused /\ UNCHANGED mastermode

Drop(N, how) ==
    /\ Disconnect(N, how, bannedips, allowedips, gamepaused)
    /\ UNCHANGED <<counters, masterlink, gbans, mp, overdue>>
-----------------------------------------------------------------------------
(* Connecting *)

\* addclient takes the lowest free slot; clientconnect refuses the client when
\* the game mode is not a multiplayer one.
ConnectEvent(p, a) ==
    LET i == created + 1
    IN  /\ peerstate[p] = "free"
        /\ i \in Infos
        /\ created' = i
        /\ \E n \in Slots :
             /\ slotinfo[n] = NoInfo
             /\ \A m \in Slots : slotinfo[m] = NoInfo => n <= m
             /\ IF mp
                THEN /\ peerstate' = [peerstate EXCEPT ![p] = "up"]
                     /\ peerdata' = [peerdata EXCEPT ![p] = n]
                     /\ slotinfo' = [slotinfo EXCEPT ![n] = i]
                     /\ slotpeer' = [slotpeer EXCEPT ![n] = p]
                     /\ num' = [num EXCEPT ![i] = n]
                     /\ ip' = [ip EXCEPT ![i] = a]
                     /\ connects' = connects \cup {i}
                ELSE /\ peerstate' = [peerstate EXCEPT ![p] = "closing"]
                     /\ UNCHANGED <<peerdata, slotinfo, slotpeer, idents, connects>>
        /\ UNCHANGED <<priv, spec, connectauth, auth, clients, nextauthreq, masterlink,
                       access, bans, gamepaused, mp, overdue>>

\* allowconnect: why the client may not join, or "none".
AllowConnect(i, pwd) ==
    IF ~mp THEN "local"
    ELSE IF ServerPass THEN (IF pwd = "server" THEN "none" ELSE "password")
    ELSE IF AdminPass /\ pwd = "admin" THEN "none"
    ELSE IF Cardinality(clients) >= MaxClients THEN "full"
    ELSE IF ip[i] \in bannedips \cup gbans THEN "ipban"
    ELSE IF mastermode >= MM_PRIVATE /\ ip[i] \notin allowedips THEN "private"
    ELSE "none"

\* hasmap is false only when nobody who is playing, or is privileged, is there;
\* then the map rotation starts a game, unpaused.
MayRotate(i) == \A j \in clients \ {i} : spec[j] /\ priv[j] = PRIV_NONE

\* Wrong on purpose, to be put in the place of the next definition: the client
\* stays on the connects list.
JoinedKeepingConnect(i) ==
    /\ connects' = connects /\ clients' = clients \cup {i}
    /\ connectauth' = [connectauth EXCEPT ![i] = FALSE]
    /\ spec' = [spec EXCEPT ![i] = mastermode \in MM_LOCKED .. MM_PRIVATE]

\* connected(ci): in the locked modes a client joins as a spectator.
Joined(i) ==
    /\ connects' = connects \ {i} /\ clients' = clients \cup {i}
    /\ connectauth' = [connectauth EXCEPT ![i] = FALSE]
    /\ spec' = [spec EXCEPT ![i] = mastermode \in MM_LOCKED .. MM_PRIVATE]

\* N_CONNECT; key is the privilege of the local key named, or NoKey.  connectauth
\* is set when the key's challenge must be answered to join all the same.  (The
\* request number an unknown name uses up is not counted.)
NoKey == -1
Connect(i, pwd, key) ==
    LET disc == AllowConnect(i, pwd)
    IN  /\ i \in connects /\ ~connectauth[i]
        /\ \/ /\ disc = "none"
              /\ Joined(i)
              /\ \E rotate \in {FALSE, MayRotate(i)} : gamepaused' = (gamepaused /\ ~rotate)
              /\ UNCHANGED <<links, idents, priv, auth, counters, masterlink, access, bans, mp, overdue>>
           \/ /\ disc # "none" /\ disc # "local" /\ ServerAuth /\ key # NoKey
              /\ nextauthreq <= MaxReq
              /\ nextauthreq' = nextauthreq + 1
              /\ auth' = [auth EXCEPT ![i] = Request(nextauthreq, "local", key, NoSlot)]
              /\ connectauth' = [connectauth EXCEPT ![i] = TRUE]
              /\ UNCHANGED <<links, idents, priv, spec, roster, created, masterlink, access,
                             bans, gamepaused, mp, overdue>>
           \/ /\ disc # "none" /\ (disc = "local" \/ ~ServerAuth \/ key = NoKey)
              /\ Drop({num[i]}, "closing")

\* Connections are numbered, and appended to connects, as they are made: they get
\* overdue in the order in which they stand there.
Ages ==
    /\ \E i \in connects :
           /\ i > overdue /\ \A j \in connects : j > overdue => i <= j
           /\ overdue' = i
    /\ UNCHANGED <<links, ci, roster, counters, masterlink, access, bans, gamepaused, mp>>

\* Wrong on purpose, to be put in the place of the next definition: the loop stops
\* short of the last element.
VisitedShort ==
    LET due == {i \in connects : i <= overdue}
    IN  {i \in due : (\E j \in connects : j > i) /\ Cardinality({j \in due : j <= i}) % 2 = 1}

\* Whom one walk over connects drops: the overdue come first, and dropping one moves
\* the next into the place just visited, so that the walk passes over it.
Visited ==
    LET due == {i \in connects : i <= overdue}
    IN  {i \in due : Cardinality({j \in due : j <= i}) % 2 = 1}

\* serverupdate drops the clients that have not joined in 15 seconds.
JoinTimeouts == Visited # {} /\ Drop({num[i] : i \in Visited}, "closing")

\* A message error, an overread packet, an overflow or an exceeded position.
Misbehave(i) == i \in connects \cup clients /\ Drop({num[i]}, "closing")

\* The DISCONNECT event: data is NULL when the server closed the connection.
DisconnectEvent(p) ==
    /\ peerstate[p] # "free"
    /\ IF peerdata[p] = NoSlot
       THEN /\ peerstate' = [peerstate EXCEPT ![p] = "free"]
            /\ UNCHANGED <<peerdata, slotinfo, slotpeer, ci, roster, counters, masterlink,
                           access, bans, gamepaused, mp, overdue>>
       ELSE Drop({peerdata[p]}, "free")
-----------------------------------------------------------------------------
(* Kicks and bans *)

\* trykick's conditions for actor i, victim number n, effective privilege p.
CanKick(i, n, p) ==
    LET v == slotinfo[n]
    IN  /\ p > PRIV_NONE /\ n # num[i]
        /\ v \in clients
        /\ p >= priv[v] /\ priv[v] < PRIV_ADMIN

\* kickclients(ip, actor, priv): the client numbers it disconnects.
KickSet(a, actor, p) ==
    {num[j] : j \in {k \in clients : /\ priv[k] < PRIV_ADMIN
                                     /\ priv[k] <= p /\ k # actor
                                     /\ ip[k] = a}}

\* addban, then kickclients.
KickAddress(a, actor, p) ==
    Disconnect(KickSet(a, actor, p), "closing", bannedips \cup {a}, allowedips \ {a}, gamepaused)

TryKick(i, n, p) == CanKick(i, n, p) /\ KickAddress(ip[slotinfo[n]], i, p)

Kick(i, n) ==
    /\ i \in clients
    /\ TryKick(i, n, priv[i])
    /\ UNCHANGED <<counters, masterlink, gbans, mp, overdue>>

\* checkteamkills with a ban configured: the kick has no actor.
TeamkillKick(a) ==
    /\ created > 0
    /\ KickAddress(a, NoInfo, PRIV_ADMIN)
    /\ UNCHANGED <<counters, masterlink, gbans, mp, overdue>>

BanExpires(a) ==
    /\ a \in bannedips /\ bannedips' = bannedips \ {a}
    /\ UNCHANGED <<links, ci, roster, counters, masterlink, access, gbans, gamepaused, mp, overdue>>

ClearBans(i) ==
    /\ i \in clients /\ priv[i] > PRIV_NONE
    /\ bannedips' = {}
    /\ UNCHANGED <<links, ci, roster, counters, masterlink, access, gbans, gamepaused, mp, overdue>>
-----------------------------------------------------------------------------
(* Authentication *)

\* requestmaster: opens the link on demand; fails only when it cannot.
RequestMaster(ok) ==
    /\ ~ok => mastersock = "none"
    /\ mastersock' = IF ok /\ mastersock = "none" THEN "connecting" ELSE mastersock

\* tryauth of i, on its own account or (n a client number) for a kick.  A local key
\* the server knows gets a challenge at once; for a global name "reqauth" goes to
\* the master server.
AskLocal(i, key, n) ==
    /\ nextauthreq <= MaxReq
    /\ nextauthreq' = nextauthreq + 1
    /\ auth' = [auth EXCEPT ![i] = Request(nextauthreq, "local", key, n)]
    /\ UNCHANGED <<links, idents, priv, spec, connectauth, roster, created, masterlink,
                   access, bans, gamepaused, mp, overdue>>

AskMaster(i, n) ==
    /\ nextauthreq <= MaxReq
    /\ nextauthreq' = nextauthreq + 1
    /\ \E ok \in BOOLEAN :
         /\ RequestMaster(ok)
         /\ mreq' = IF ok THEN [mreq EXCEPT ![nextauthreq] = [stage |-> "req", asker |-> i]]
                          ELSE mreq
         /\ auth' = [auth EXCEPT ![i] =
                       IF ok THEN Request(nextauthreq, "global", PRIV_AUTH, n) ELSE NoAuth]
    /\ UNCHANGED <<links, idents, priv, spec, connectauth, roster, created, access, bans,
                   gamepaused, mp, overdue>>

\* N_AUTHTRY.  A name no local key has only loses the pending request.
AuthTry(i) ==
    /\ i \in clients
    /\ \/ \E key \in KeyPrivs : AskLocal(i, key, NoSlot)
       \/ AskMaster(i, NoSlot)
       \/ /\ nextauthreq <= MaxReq
          /\ nextauthreq' = nextauthreq + 1
          /\ auth' = [auth EXCEPT ![i] = NoAuth]
          /\ UNCHANGED <<links, idents, priv, spec, connectauth, roster, created, masterlink,
                         access, bans, gamepaused, mp, overdue>>

\* N_AUTHKICK: a trial of the kick first; the kick itself waits for the answer.
\* Whoever has the key's privilege already kicks at once, as in Kick.
AuthKick(i, n) ==
    /\ i \in clients
    /\ \/ \E key \in KeyPrivs : priv[i] < key /\ CanKick(i, n, key) /\ AskLocal(i, key, n)
       \/ priv[i] < PRIV_AUTH /\ CanKick(i, n, PRIV_AUTH) /\ AskMaster(i, n)

\* The end of a successful authentication of a joined client: the kick it was
\* for, checked again now, or the privilege.
Authenticated(i, want) ==
    LET n == auth[i].victim
        p == Larger(priv[i], want)
    IN  \/ n # NoSlot /\ TryKick(i, n, p)
        \/ /\ n # NoSlot /\ ~CanKick(i, n, p)
           /\ auth' = [auth EXCEPT ![i] = NoAuth]
           /\ UNCHANGED <<links, idents, priv, spec, connectauth, roster, access, bannedips,
                          gamepaused>>
        \/ /\ n = NoSlot
           /\ auth' = [auth EXCEPT ![i] = NoAuth]
           /\ SetMaster(i, TRUE, want)
           /\ UNCHANGED <<links, idents, spec, connectauth, roster, bannedips>>

\* A connecting client answered its challenge: it joins, with the key's privilege.
AuthJoined(i) ==
    /\ Joined(i)
    /\ auth' = [auth EXCEPT ![i] = NoAuth]
    /\ priv' = [priv EXCEPT ![i] = Larger(priv[i], auth[i].key)]
    /\ \E rotate \in {FALSE, MayRotate(i)} :
         Settle(clients', priv', priv'[i] # priv[i], allowedips, gamepaused /\ ~rotate)
    /\ UNCHANGED <<links, idents, bannedips>>

\* The request is given up; that refuses a connecting client.
AuthRefused(i) ==
    IF connectauth[i]
    THEN Disconnect({num[i]}, "closing", bannedips, allowedips, gamepaused)
    ELSE /\ auth' = [auth EXCEPT ![i] = NoAuth]
         /\ UNCHANGED <<links, idents, priv, spec, connectauth, roster, access, bannedips,
                        gamepaused>>

\* N_AUTHANS is accepted from a joined client, and during connect authentication.
MayAnswer(i) == i \in clients \/ (i \in connects /\ connectauth[i])

\* answerchallenge for the local request i is waiting on.
AnswerLocal(i, right) ==
    /\ MayAnswer(i) /\ auth[i].authreq # 0 /\ auth[i].dom = "local"
    /\ \/ ~right /\ AuthRefused(i)
       \/ right /\ connectauth[i] /\ AuthJoined(i)
       \/ right /\ ~connectauth[i] /\ Authenticated(i, auth[i].key)
    /\ UNCHANGED <<counters, masterlink, gbans, mp, overdue>>

\* answerchallenge for a global request: "confauth" goes to the master server, also for
\* the number 0 of a client that has no request, which the master server ignores.
AnswerMaster(i) ==
    /\ MayAnswer(i) /\ (auth[i].authreq = 0 \/ auth[i].dom = "global")
    /\ \E ok \in BOOLEAN :
         /\ RequestMaster(ok)
         /\ mreq' = [r \in DOMAIN mreq |->
                       IF ok /\ r = auth[i].authreq THEN [stage |-> "conf", asker |-> i] ELSE mreq[r]]
         /\ auth' = [auth EXCEPT ![i] = IF ok THEN auth[i] ELSE NoAuth]
    /\ UNCHANGED <<links, idents, priv, spec, connectauth, roster, counters, access, bans,
                   gamepaused, mp, overdue>>

\* N_AUTHANS for a request that is not the pending one, or of another domain.
AnswerStale(i) ==
    /\ MayAnswer(i)
    /\ AuthRefused(i)
    /\ UNCHANGED <<counters, masterlink, gbans, mp, overdue>>
-----------------------------------------------------------------------------
(* The master server: external, it answers what it was asked. *)

\* findauth
Holder(r) == {i \in clients \cup connects : auth[i].authreq = r}

MasterUp ==
    /\ mastersock = "connecting" /\ mastersock' = "up"
    /\ UNCHANGED <<links, ci, roster, counters, mreq, access, bans, gamepaused, mp, overdue>>

\* updatemasterserver: the hourly registration opens the link too.
Register ==
    /\ mastersock = "none" /\ RequestMaster(TRUE)
    /\ UNCHANGED <<links, ci, roster, counters, mreq, access, bans, gamepaused, mp, overdue>>

\* Wrong on purpose, to be put in the place of the next definition: requests are
\* thrown away and nobody is told.
MasterDownSilently ==
    /\ mastersock # "none" /\ mastersock' = "none"
    /\ mreq' = [r \in DOMAIN mreq |-> NoRequest]
    /\ UNCHANGED <<links, ci, roster, counters, access, bans, gamepaused, mp, overdue>>

\* disconnectmaster: everything queued is thrown away, and masterdisconnected
\* fails the pending request of every joined client, of either domain.
MasterDown ==
    /\ mastersock # "none" /\ mastersock' = "none"
    /\ mreq' = [r \in DOMAIN mreq |-> NoRequest]
    /\ auth' = [i \in Infos |-> IF i \in clients THEN NoAuth ELSE auth[i]]
    /\ UNCHANGED <<links, idents, priv, spec, connectauth, roster, counters, access, bans,
                   gamepaused, mp, overdue>>

\* "chalauth": the challenge is passed to whoever holds the request.
MasterChallenge(r) ==
    /\ mastersock = "up" /\ mreq[r].stage = "req"
    /\ mreq' = [mreq EXCEPT ![r] = [stage |-> "chal", asker |-> mreq[r].asker]]
    /\ UNCHANGED <<links, ci, roster, counters, mastersock, access, bans, gamepaused, mp, overdue>>

\* "failauth" and "succauth": findauth looks for the request; it may be gone.  A
\* connecting client only ever authenticates with a local key, so that the master
\* server never decides whether a client joins.
MasterVerdict(r, succ) ==
    /\ mastersock = "up"
    /\ IF succ THEN mreq[r].stage = "conf" ELSE mreq[r].stage # "none"
    /\ mreq' = [mreq EXCEPT ![r] = NoRequest]
    /\ \/ /\ Holder(r) = {}
          /\ UNCHANGED <<links, ci, roster, access, bannedips, gamepaused>>
       \/ \E i \in Holder(r) : IF succ THEN Authenticated(i, PRIV_AUTH) ELSE AuthRefused(i)
    /\ UNCHANGED <<counters, mastersock, gbans, mp, overdue>>

\* "addgban": verifybans drops every client at a banned address but the admins.
MasterGban(a) ==
    LET K == {i \in clients : /\ priv[i] < PRIV_ADMIN
                              /\ ip[i] \in bannedips \cup gbans \cup {a}}
    IN  /\ mastersock = "up" /\ a \notin gbans
        /\ gbans' = gbans \cup {a}
        /\ Disconnect({num[i] : i \in K}, "closing", bannedips, allowedips, gamepaused)
        /\ UNCHANGED <<counters, masterlink, mp, overdue>>

MasterClearGbans ==
    /\ mastersock = "up" /\ gbans # {} /\ gbans' = {}
    /\ UNCHANGED <<links, ci, roster, counters, masterlink, access, bannedips, gamepaused, mp, overdue>>
-----------------------------------------------------------------------------
(* What the privileged may do *)

\* N_SETMASTER for oneself: claim (with the admin password or not) or give up.
ClaimMaster(i, val, admin) ==
    LET want == IF AdminPass /\ admin THEN PRIV_ADMIN ELSE PRIV_MASTER
    IN  /\ i \in clients
        /\ IF val THEN CanClaim(i, want) ELSE priv[i] > PRIV_NONE
        /\ SetMaster(i, val, want)
        /\ UNCHANGED <<links, idents, spec, connectauth, auth, roster, counters, masterlink,
                       bans, mp, overdue>>

\* N_SETMASTER for another client.
GiveMaster(i, n, val) ==
    LET m == slotinfo[n]
    IN  /\ i \in clients /\ priv[i] > PRIV_NONE /\ n # num[i]
        /\ m \in clients
        /\ priv[m] < priv[i]
        /\ IF val THEN priv[m] = PRIV_NONE ELSE priv[m] > PRIV_NONE
        /\ SetMaster(m, val, PRIV_MASTER)
        /\ UNCHANGED <<links, idents, spec, connectauth, auth, roster, counters, masterlink,
                       bans, mp, overdue>>

MasterMode(i, mm) ==
    /\ i \in clients /\ priv[i] > PRIV_NONE
    /\ mastermode # mm
    /\ priv[i] >= PRIV_ADMIN \/ mm \in MasterMask
    /\ mastermode' = mm
    /\ allowedips' = IF mm >= MM_PRIVATE THEN {ip[j] : j \in clients} ELSE {}
    /\ UNCHANGED <<links, ci, roster, counters, masterlink, bans, gamepaused, mp, overdue>>

\* N_SPECTATOR, for oneself or another; a client that starts to play may find no
\* map and start the rotation.
Spectator(i, n, val) ==
    LET s == slotinfo[n]
    IN  /\ i \in clients
        /\ \/ priv[i] > PRIV_NONE
           \/ s = i /\ ~(spec[i] /\ mastermode >= MM_LOCKED)
        /\ s \in clients /\ spec[s] # val
        /\ spec' = [spec EXCEPT ![s] = val]
        /\ \E rotate \in {FALSE, ~val /\ MayRotate(s)} : gamepaused' = (gamepaused /\ ~rotate)
        /\ UNCHANGED <<links, idents, priv, connectauth, auth, roster, counters, masterlink,
                       access, bans, mp, overdue>>

PauseGame(i, val) ==
    /\ i \in clients /\ priv[i] >= PausePriv
    /\ gamepaused # val /\ gamepaused' = val
    /\ UNCHANGED <<links, ci, roster, counters, masterlink, access, bans, mp, overdue>>

\* changemap: the game is unpaused, and a local mode drops every remote client.
ChangeMap(m) ==
    /\ mp' = m
    /\ IF m THEN gamepaused' = FALSE /\ UNCHANGED <<links, ci, roster, access, bannedips>>
            ELSE Disconnect({n \in Slots : slotinfo[n] # NoInfo}, "closing", bannedips,
                            allowedips, FALSE)
    /\ UNCHANGED <<counters, masterlink, gbans, overdue>>
-----------------------------------------------------------------------------
Passwords == {"none", "server", "admin"}

PeerEvent == \E p \in Peers : DisconnectEvent(p) \/ \E a \in Addresses : ConnectEvent(p, a)

Joining == \E i \in connects, pwd \in Passwords, key \in KeyPrivs \cup {NoKey} : Connect(i, pwd, key)

Answering == \E i \in clients \cup connects :
    \/ Misbehave(i)
    \/ \E right \in BOOLEAN : AnswerLocal(i, right)
    \/ AnswerMaster(i) \/ AnswerStale(i)

Handling == \E i \in clients :
    \/ AuthTry(i) \/ ClearBans(i)
    \/ \E n \in Slots : AuthKick(i, n) \/ Kick(i, n)
    \/ \E val, admin \in BOOLEAN : ClaimMaster(i, val, admin)
    \/ \E n \in Slots, val \in BOOLEAN : GiveMaster(i, n, val) \/ Spectator(i, n, val)
    \/ \E mm \in MasterModes : MasterMode(i, mm)
    \/ \E val \in BOOLEAN : PauseGame(i, val)

MasterServer ==
    \/ \E r \in DOMAIN mreq : MasterChallenge(r) \/ \E succ \in BOOLEAN : MasterVerdict(r, succ)
    \/ \E a \in Addresses : MasterGban(a)
    \/ MasterUp \/ MasterDown \/ Register \/ MasterClearGbans

Housekeeping ==
    \/ Ages \/ JoinTimeouts
    \/ \E a \in Addresses : TeamkillKick(a) \/ BanExpires(a)
    \/ \E m \in BOOLEAN : ChangeMap(m)

Next == PeerEvent \/ Joining \/ Answering \/ Handling \/ MasterServer \/ Housekeeping

\* Time passes, and every serverupdate walks over connects.
Spec == Init /\ [][Next]_vars
FairSpec == Spec /\ WF_vars(Ages) /\ WF_vars(JoinTimeouts)
-----------------------------------------------------------------------------
AuthState == [authreq : 0 .. MaxReq, dom : {"local", "global"}, key : Privs,
              victim : Slots \cup {NoSlot}, target : Infos \cup {NoInfo}]
MasterRequest == [stage : {"none", "req", "chal", "conf"}, asker : Infos \cup {NoInfo}]

\* The types of the server's state.
TypeOK ==
    /\ peerstate \in [Peers -> {"free", "up", "closing"}]
    /\ peerdata \in [Peers -> Slots \cup {NoSlot}]
    /\ slotinfo \in [Slots -> Infos \cup {NoInfo}]
    /\ slotpeer \in [Slots -> Peers \cup {NoPeer}]
    /\ num \in [Infos -> Slots \cup {NoSlot}]
    /\ ip \in [Infos -> Addresses \cup {NoAddress}]
    /\ priv \in [Infos -> Privs]
    /\ spec \in [Infos -> BOOLEAN] /\ connectauth \in [Infos -> BOOLEAN]
    /\ auth \in [Infos -> AuthState]
    /\ connects \subseteq Infos /\ clients \subseteq Infos
    /\ created \in 0 .. MaxInfos /\ nextauthreq \in 1 .. MaxReq + 1
    /\ mastersock \in {"none", "connecting", "up"}
    /\ mreq \in [1 .. MaxReq -> MasterRequest]
    /\ mastermode \in MM_OPEN .. MM_PRIVATE
    /\ allowedips \subseteq Addresses \cup {NoAddress}
    /\ bannedips \subseteq Addresses \cup {NoAddress} /\ gbans \subseteq Addresses
    /\ gamepaused \in BOOLEAN /\ mp \in BOOLEAN /\ overdue \in 0 .. MaxInfos

\* The connects and clients lists hold, between them and without overlap, exactly
\* the clientinfos the engine's slots own, each under its own client number: no
\* list keeps a pointer to a deleted clientinfo (disconnect_client, delclient).
ListsMatchSlots ==
    /\ connects \cap clients = {}
    /\ \A n \in Slots : slotinfo[n] # NoInfo =>
         slotinfo[n] \in connects \cup clients /\ num[slotinfo[n]] = n
    /\ \A i \in connects \cup clients : num[i] \in Slots /\ slotinfo[num[i]] = i

\* peer->data and client->peer are inverse: no packet of a peer reaches another
\* client, and a closed or free peer reaches none.
PeersMatchSlots ==
    /\ \A p \in Peers : (peerstate[p] = "up") <=> (peerdata[p] # NoSlot)
    /\ \A p \in Peers : peerdata[p] # NoSlot => slotpeer[peerdata[p]] = p
    /\ \A n \in Slots : slotinfo[n] # NoInfo =>
         slotpeer[n] \in Peers /\ peerdata[slotpeer[n]] = n

\* No list, slot or peer keeps a pointer to a clientinfo that is gone.
LinksMatch == ListsMatchSlots /\ PeersMatchSlots

\* An authenticated kick waiting for its answer still names the session it was
\* asked for, although client numbers are reused (clientdisconnect).
AuthKickNamesSession ==
    \A i \in clients : auth[i].victim # NoSlot =>
        auth[i].authreq # 0 /\ slotinfo[auth[i].victim] = auth[i].target

\* A joined client that waits on the master server is waiting for something: the
\* link exists and carries its request, and a verdict on that request can reach
\* no other client (tryauth, masterdisconnected, findauth).
AuthRequestsLive ==
    /\ \A i \in clients : auth[i].authreq # 0 /\ auth[i].dom = "global" =>
         /\ mastersock # "none"
         /\ mreq[auth[i].authreq].stage # "none"
         /\ mreq[auth[i].authreq].asker = i
    /\ \A r \in DOMAIN mreq : mreq[r].stage # "none" => Holder(r) \subseteq {mreq[r].asker}

\* A client in connect-time authentication always has a challenge to answer.
ConnectAuthPending == \A i \in connects : connectauth[i] <=> auth[i].authreq # 0

\* Whoever waits to be authenticated, joined or joining, waits for something that
\* can come, and nobody else gets it.
AnswersPending == AuthRequestsLive /\ ConnectAuthPending

\* Locked and private modes never outlive the last master (setmaster).
LockedNeedsMaster == mastermode # MM_OPEN => HasMaster(clients, priv)

\* The game never stays paused with nobody left who could resume it
\* (checkpausegame).
PausedNeedsAuthority == gamepaused => MayPause(clients, priv)

\* Nobody is locked out or paused without a client who may undo it.
AuthorityKept == LockedNeedsMaster /\ PausedNeedsAuthority

\* A client that has connected either joins or is gone in the end.
JoinResolved == \A i \in Infos : i \in connects ~> i \notin connects
=============================================================================
