--------------------------- MODULE SessionsProofs ---------------------------
(***************************************************************************)
(* Theorems about Sessions, for any number of peers, addresses, sessions   *)
(* and requests.                                                           *)
(***************************************************************************)
EXTENDS Sessions, FiniteSetTheorems, TLAPS

\* The number of client numbers is the number of peers.
LEMMA SlotsAreNumbers == Slots \subseteq Int /\ NoSlot \notin Slots
  BY PeersAssumption, FS_CardinalityType DEF Slots, NoSlot

LEMMA PrivTypes ==
  /\ PRIV_NONE \in Privs /\ PRIV_MASTER \in Privs /\ PRIV_AUTH \in Privs
  /\ PRIV_ADMIN \in Privs /\ KeyPrivs \subseteq Privs /\ PausePriv \in Privs
  BY KeyAssumption, PauseAssumption
     DEF Privs, PRIV_NONE, PRIV_MASTER, PRIV_AUTH, PRIV_ADMIN

LEMMA NoAuthType == NoAuth \in AuthState
  BY BoundsAssumption, PrivTypes DEF NoAuth, AuthState

LEMMA RequestType ==
  ASSUME slotinfo \in [Slots -> Infos \cup {NoInfo}],
         NEW r \in 0 .. MaxReq, NEW d \in {"local", "global"}, NEW k \in Privs,
         NEW v \in Slots \cup {NoSlot}
  PROVE  Request(r, d, k, v) \in AuthState
  BY DEF Request, AuthState

LEMMA LargerType ==
  ASSUME NEW a \in Privs, NEW b \in Privs
  PROVE  Larger(a, b) \in Privs /\ Larger(a, b) >= a /\ Larger(a, b) >= b
  BY DEF Larger, Privs, PRIV_NONE, PRIV_ADMIN

\* The part of TypeOK that a departure can change.
SessionType ==
  /\ peerstate \in [Peers -> {"free", "up", "closing"}]
  /\ peerdata \in [Peers -> Slots \cup {NoSlot}]
  /\ slotinfo \in [Slots -> Infos \cup {NoInfo}]
  /\ slotpeer \in [Slots -> Peers \cup {NoPeer}]
  /\ num \in [Infos -> Slots \cup {NoSlot}]
  /\ ip \in [Infos -> Addresses \cup {NoAddress}]
  /\ priv \in [Infos -> Privs]
  /\ spec \in [Infos -> BOOLEAN] /\ connectauth \in [Infos -> BOOLEAN]
  /\ auth \in [Infos -> AuthState]
  /\ connects \subseteq Infos /\ clients \subseteq Infos
  /\ mastermode \in MM_OPEN .. MM_PRIVATE
  /\ allowedips \subseteq Addresses \cup {NoAddress}
  /\ bannedips \subseteq Addresses \cup {NoAddress}
  /\ gamepaused \in BOOLEAN

LEMMA SettleType ==
  ASSUME mastermode \in MM_OPEN .. MM_PRIVATE,
         NEW S, NEW pr, NEW changed \in BOOLEAN, NEW paused \in BOOLEAN,
         NEW allowed \in SUBSET (Addresses \cup {NoAddress}),
         Settle(S, pr, changed, allowed, paused)
  PROVE  /\ mastermode' \in MM_OPEN .. MM_PRIVATE
         /\ allowedips' \subseteq Addresses \cup {NoAddress}
         /\ gamepaused' \in BOOLEAN
  BY DEF Settle, MM_OPEN, MM_PRIVATE

LEMMA DisconnectType ==
  ASSUME SessionType, NEW N, NEW how \in {"free", "closing"},
         NEW banned \in SUBSET (Addresses \cup {NoAddress}),
         NEW allowed \in SUBSET (Addresses \cup {NoAddress}),
         NEW paused \in BOOLEAN,
         Disconnect(N, how, banned, allowed, paused)
  PROVE  SessionType'
<1> DEFINE gone == {slotinfo[n] : n \in N}
           left == clients \ gone
<1>1. /\ peerstate' \in [Peers -> {"free", "up", "closing"}]
      /\ peerdata' \in [Peers -> Slots \cup {NoSlot}]
      /\ slotinfo' \in [Slots -> Infos \cup {NoInfo}]
      /\ slotpeer' \in [Slots -> Peers \cup {NoPeer}]
  BY DEF Disconnect, DelClient, SessionType
<1>2. /\ num' \in [Infos -> Slots \cup {NoSlot}]
      /\ ip' \in [Infos -> Addresses \cup {NoAddress}]
      /\ priv' \in [Infos -> Privs]
      /\ spec' \in [Infos -> BOOLEAN] /\ connectauth' \in [Infos -> BOOLEAN]
  BY PrivTypes DEF Disconnect, SessionType
<1>3. auth' \in [Infos -> AuthState]
  BY NoAuthType DEF Disconnect, CancelKicks, SessionType
<1>4. connects' \subseteq Infos /\ clients' \subseteq Infos
  BY DEF Disconnect, SessionType
<1>5. bannedips' \subseteq Addresses \cup {NoAddress}
  BY DEF Disconnect
<1>6. /\ mastermode' \in MM_OPEN .. MM_PRIVATE
      /\ allowedips' \subseteq Addresses \cup {NoAddress}
      /\ gamepaused' \in BOOLEAN
  <2>1. CASE \E i \in gone \cap clients : priv[i] > PRIV_NONE
    <3>1. Settle(left, priv, TRUE, allowed, paused)
      BY <2>1 DEF Disconnect
    <3>2. QED
      BY <3>1, SettleType DEF SessionType
  <2>2. CASE ~\E i \in gone \cap clients : priv[i] > PRIV_NONE
    BY <2>2 DEF Disconnect, SessionType
  <2>3. QED
    BY <2>1, <2>2
<1>7. QED
  BY <1>1, <1>2, <1>3, <1>4, <1>5, <1>6 DEF SessionType

\* The rest of it.
ServerType ==
  /\ created \in 0 .. MaxInfos /\ nextauthreq \in 1 .. MaxReq + 1
  /\ mastersock \in {"none", "connecting", "up"}
  /\ mreq \in [1 .. MaxReq -> MasterRequest]
  /\ gbans \subseteq Addresses /\ mp \in BOOLEAN /\ overdue \in 0 .. MaxInfos

LEMMA TypeParts ==
  /\ TypeOK <=> SessionType /\ ServerType
  /\ TypeOK' <=> SessionType' /\ ServerType'
  BY DEF TypeOK, SessionType, ServerType

LEMMA DropType ==
  ASSUME TypeOK, NEW N, NEW how \in {"free", "closing"}, Drop(N, how)
  PROVE  TypeOK'
<1>1. SessionType /\ ServerType
  BY TypeParts
<1>2. /\ bannedips \in SUBSET (Addresses \cup {NoAddress})
      /\ allowedips \in SUBSET (Addresses \cup {NoAddress})
      /\ gamepaused \in BOOLEAN
  BY <1>1 DEF SessionType
<1>3. SessionType'
  BY <1>1, <1>2, DisconnectType DEF Drop
<1>4. ServerType'
  BY <1>1 DEF Drop, ServerType, counters, masterlink
<1>5. QED
  BY <1>3, <1>4, TypeParts

LEMMA KickType ==
  ASSUME SessionType, NEW a \in Addresses \cup {NoAddress}, NEW actor, NEW p,
         KickAddress(a, actor, p)
  PROVE  SessionType'
<1>1. /\ bannedips \cup {a} \in SUBSET (Addresses \cup {NoAddress})
      /\ allowedips \ {a} \in SUBSET (Addresses \cup {NoAddress})
      /\ gamepaused \in BOOLEAN
  BY DEF SessionType
<1>2. QED
  BY <1>1, DisconnectType DEF KickAddress

LEMMA TryKickType ==
  ASSUME SessionType, NEW i, NEW n, NEW p, TryKick(i, n, p)
  PROVE  SessionType'
<1>1. slotinfo[n] \in clients
  BY DEF TryKick, CanKick
<1>2. ip[slotinfo[n]] \in Addresses \cup {NoAddress}
  BY <1>1 DEF SessionType
<1>3. QED
  BY <1>2, KickType DEF TryKick

LEMMA SetMasterType ==
  ASSUME SessionType, NEW i \in Infos, NEW val \in BOOLEAN, NEW want \in Privs,
         SetMaster(i, val, want)
  PROVE  /\ priv' \in [Infos -> Privs]
         /\ mastermode' \in MM_OPEN .. MM_PRIVATE
         /\ allowedips' \subseteq Addresses \cup {NoAddress}
         /\ gamepaused' \in BOOLEAN
<1>1. priv' \in [Infos -> Privs]
  BY LargerType, PrivTypes DEF SetMaster, SessionType
<1>2. QED
  BY <1>1 DEF SetMaster, Settle, SessionType, MM_OPEN, MM_PRIVATE

LEMMA AuthenticatedType ==
  ASSUME SessionType, NEW i \in Infos, NEW want \in Privs, Authenticated(i, want)
  PROVE  SessionType'
<1> DEFINE n == auth[i].victim
           p == Larger(priv[i], want)
<1>1. CASE n # NoSlot /\ TryKick(i, n, p)
  BY <1>1, TryKickType
<1>2. CASE /\ auth' = [auth EXCEPT ![i] = NoAuth]
           /\ UNCHANGED <<links, idents, priv, spec, connectauth, roster, access, bannedips,
                          gamepaused>>
  BY <1>2, NoAuthType DEF SessionType, links, idents, roster, access
<1>3. CASE /\ auth' = [auth EXCEPT ![i] = NoAuth]
           /\ SetMaster(i, TRUE, want)
           /\ UNCHANGED <<links, idents, spec, connectauth, roster, bannedips>>
  BY <1>3, NoAuthType, SetMasterType DEF SessionType, links, idents, roster
<1>4. QED
  BY <1>1, <1>2, <1>3 DEF Authenticated

LEMMA JoinedType ==
  ASSUME SessionType, NEW i \in Infos, Joined(i)
  PROVE  /\ connects' \subseteq Infos /\ clients' \subseteq Infos
         /\ connectauth' \in [Infos -> BOOLEAN] /\ spec' \in [Infos -> BOOLEAN]
<1>1. (mastermode \in MM_LOCKED .. MM_PRIVATE) \in BOOLEAN
  OBVIOUS
<1>2. QED
  BY <1>1 DEF Joined, SessionType

LEMMA AuthJoinedType ==
  ASSUME SessionType, NEW i \in Infos, AuthJoined(i)
  PROVE  SessionType'
<1>1. priv' \in [Infos -> Privs]
  <2>1. auth[i].key \in Privs
    BY DEF SessionType, AuthState
  <2>2. QED
    BY <2>1, LargerType DEF AuthJoined, SessionType
<1>2. PICK rotate \in {FALSE, MayRotate(i)} :
        Settle(clients', priv', priv'[i] # priv[i], allowedips, gamepaused /\ ~rotate)
  BY DEF AuthJoined
<1>3. /\ mastermode' \in MM_OPEN .. MM_PRIVATE
      /\ allowedips' \subseteq Addresses \cup {NoAddress}
      /\ gamepaused' \in BOOLEAN
  BY <1>2, SettleType DEF SessionType
<1>4. QED
  BY <1>1, <1>3, JoinedType, NoAuthType DEF AuthJoined, SessionType, links, idents

LEMMA RefusedType ==
  ASSUME SessionType, NEW i \in Infos, AuthRefused(i)
  PROVE  SessionType'
<1>1. CASE connectauth[i]
  <2>1. Disconnect({num[i]}, "closing", bannedips, allowedips, gamepaused)
    BY <1>1 DEF AuthRefused
  <2>2. /\ bannedips \in SUBSET (Addresses \cup {NoAddress})
        /\ allowedips \in SUBSET (Addresses \cup {NoAddress})
        /\ gamepaused \in BOOLEAN
    BY DEF SessionType
  <2>3. QED
    BY <2>1, <2>2, DisconnectType
<1>2. CASE ~connectauth[i]
  BY <1>2, NoAuthType DEF AuthRefused, SessionType, links, idents, roster, access
<1>3. QED
  BY <1>1, <1>2

LEMMA TypeInit == Init => TypeOK
<1> SUFFICES ASSUME Init PROVE TypeOK
  OBVIOUS
<1>1. SessionType
  <2>1. /\ peerstate \in [Peers -> {"free", "up", "closing"}]
        /\ peerdata \in [Peers -> Slots \cup {NoSlot}]
        /\ slotinfo \in [Slots -> Infos \cup {NoInfo}]
        /\ slotpeer \in [Slots -> Peers \cup {NoPeer}]
    BY DEF Init
  <2>2. /\ num \in [Infos -> Slots \cup {NoSlot}]
        /\ ip \in [Infos -> Addresses \cup {NoAddress}]
        /\ priv \in [Infos -> Privs]
        /\ auth \in [Infos -> AuthState]
    BY NoAuthType, PrivTypes DEF Init
  <2>3. spec \in [Infos -> BOOLEAN] /\ connectauth \in [Infos -> BOOLEAN]
    BY DEF Init
  <2>4. connects = {} /\ clients = {} /\ allowedips = {} /\ bannedips = {}
    BY DEF Init
  <2>5. mastermode \in MM_OPEN .. MM_PRIVATE
    BY DEF Init, MM_OPEN, MM_PRIVATE
  <2>6. gamepaused \in BOOLEAN
    BY DEF Init
  <2>7. QED
    BY <2>1, <2>2, <2>3, <2>4, <2>5, <2>6 DEF SessionType
<1>2. mreq \in [1 .. MaxReq -> MasterRequest]
  BY DEF Init, MasterRequest, NoRequest
<1>3. ServerType
  BY <1>2, BoundsAssumption, SMTT(60) DEF Init, ServerType
<1>4. QED
  BY <1>1, <1>3, TypeParts

\* Every step keeps the types: one step per action.
LEMMA TypeStep == TypeOK /\ [Next]_vars => TypeOK'
<1> SUFFICES ASSUME TypeOK, [Next]_vars PROVE TypeOK'
  OBVIOUS
<1>t. SessionType /\ ServerType
  BY TypeParts
<1>l. /\ bannedips \in SUBSET (Addresses \cup {NoAddress})
      /\ allowedips \in SUBSET (Addresses \cup {NoAddress})
      /\ gamepaused \in BOOLEAN /\ connects \subseteq Infos /\ clients \subseteq Infos
  BY DEF TypeOK
<1>1. CASE PeerEvent
  <2>1. ASSUME NEW p \in Peers, DisconnectEvent(p) PROVE TypeOK'
    <3>1. CASE peerdata[p] = NoSlot
      BY <2>1, <3>1 DEF DisconnectEvent, TypeOK, ci, idents, roster, counters, masterlink,
                        access, bans
    <3>2. CASE peerdata[p] # NoSlot
      BY <2>1, <3>2, DropType DEF DisconnectEvent
    <3>3. QED
      BY <3>1, <3>2
  <2>2. ASSUME NEW p \in Peers, NEW a \in Addresses, ConnectEvent(p, a) PROVE TypeOK'
    <3> DEFINE i == created + 1
    <3>1. /\ i \in Infos /\ created' = i
          /\ UNCHANGED <<priv, spec, connectauth, auth, clients, nextauthreq, masterlink,
                         access, bans, gamepaused, mp, overdue>>
      BY <2>2 DEF ConnectEvent
    <3>2. created' \in 0 .. MaxInfos
      BY <3>1, BoundsAssumption DEF Infos
    <3>3. CASE mp
      <4>1. PICK n \in Slots :
              /\ peerstate' = [peerstate EXCEPT ![p] = "up"]
              /\ peerdata' = [peerdata EXCEPT ![p] = n]
              /\ slotinfo' = [slotinfo EXCEPT ![n] = i]
              /\ slotpeer' = [slotpeer EXCEPT ![n] = p]
              /\ num' = [num EXCEPT ![i] = n]
              /\ ip' = [ip EXCEPT ![i] = a]
              /\ connects' = connects \cup {i}
        BY <2>2, <3>3 DEF ConnectEvent
      <4>2. QED
        BY <2>2, <4>1, <3>1, <3>2 DEF ConnectEvent, TypeOK, masterlink, access, bans
    <3>4. CASE ~mp
      BY <2>2, <3>1, <3>2, <3>4 DEF ConnectEvent, TypeOK, idents, masterlink, access, bans
    <3>5. QED
      BY <3>3, <3>4
  <2>3. QED
    BY <1>1, <2>1, <2>2 DEF PeerEvent
<1>2. CASE Joining
  <2>2. ASSUME NEW i \in connects, NEW pwd \in Passwords, NEW key \in KeyPrivs \cup {NoKey},
               Connect(i, pwd, key)
        PROVE  TypeOK'
    <3>1. CASE /\ Joined(i)
               /\ \E rotate \in {FALSE, MayRotate(i)} : gamepaused' = (gamepaused /\ ~rotate)
               /\ UNCHANGED <<links, idents, priv, auth, counters, masterlink, access, bans, mp, overdue>>
      BY <1>t, <1>l, <3>1, JoinedType
         DEF TypeOK, links, idents, counters, masterlink, access, bans
    <3>2. CASE /\ key # NoKey /\ nextauthreq <= MaxReq
               /\ nextauthreq' = nextauthreq + 1
               /\ auth' = [auth EXCEPT ![i] = Request(nextauthreq, "local", key, NoSlot)]
               /\ connectauth' = [connectauth EXCEPT ![i] = TRUE]
               /\ UNCHANGED <<links, idents, priv, spec, roster, created, masterlink, access,
                             bans, gamepaused, mp, overdue>>
      <4>1. Request(nextauthreq, "local", key, NoSlot) \in AuthState
        BY <3>2, RequestType, PrivTypes, BoundsAssumption DEF TypeOK
      <4>2. QED
        BY <4>1, <3>2, BoundsAssumption
           DEF TypeOK, links, idents, roster, masterlink, access, bans
    <3>3. CASE Drop({num[i]}, "closing")
      BY <3>3, DropType
    <3>4. QED
      BY <2>2, <3>1, <3>2, <3>3 DEF Connect
  <2>3. QED
    BY <1>2, <2>2 DEF Joining
<1>3. CASE Answering
  <2> SUFFICES ASSUME NEW i \in clients \cup connects,
                      \/ Misbehave(i)
                      \/ \E right \in BOOLEAN : AnswerLocal(i, right)
                      \/ AnswerMaster(i) \/ AnswerStale(i)
               PROVE  TypeOK'
    BY <1>3 DEF Answering
  <2>i. i \in Infos
    BY <1>l
  <2>1. CASE Misbehave(i)
    BY <2>1, DropType DEF Misbehave
  <2>2. ASSUME NEW right \in BOOLEAN, AnswerLocal(i, right) PROVE TypeOK'
    <3>1. auth[i].key \in Privs
      BY <2>i DEF TypeOK, AuthState
    <3>2. SessionType'
      BY <1>t, <2>i, <2>2, <3>1, RefusedType, AuthJoinedType, AuthenticatedType DEF AnswerLocal
    <3>3. ServerType'
      BY <1>t, <2>2 DEF AnswerLocal, ServerType, counters, masterlink
    <3>4. QED
      BY <3>2, <3>3, TypeParts
  <2>3. CASE AnswerMaster(i)
    <3>1. PICK ok \in BOOLEAN :
            /\ RequestMaster(ok)
            /\ mreq' = [r \in DOMAIN mreq |->
                          IF ok /\ r = auth[i].authreq THEN [stage |-> "conf", asker |-> i] ELSE mreq[r]]
            /\ auth' = [auth EXCEPT ![i] = IF ok THEN auth[i] ELSE NoAuth]
      BY <2>3 DEF AnswerMaster
    <3>2. mreq' \in [1 .. MaxReq -> MasterRequest]
      BY <2>i, <3>1 DEF TypeOK, MasterRequest
    <3>3. auth' \in [Infos -> AuthState]
      BY <2>i, <3>1, NoAuthType DEF TypeOK
    <3>4. mastersock' \in {"none", "connecting", "up"}
      BY <3>1 DEF RequestMaster, TypeOK
    <3>5. QED
      BY <2>3, <3>2, <3>3, <3>4
         DEF AnswerMaster, TypeOK, links, idents, roster, counters, access, bans
  <2>4. CASE AnswerStale(i)
    <3>1. SessionType'
      BY <1>t, <2>i, <2>4, RefusedType DEF AnswerStale
    <3>2. ServerType'
      BY <1>t, <2>4 DEF AnswerStale, ServerType, counters, masterlink
    <3>3. QED
      BY <3>1, <3>2, TypeParts
  <2>5. QED
    BY <2>1, <2>2, <2>3, <2>4
<1>4. CASE Handling
  <2> SUFFICES ASSUME NEW i \in clients,
                      \/ AuthTry(i) \/ ClearBans(i)
                      \/ \E n \in Slots : AuthKick(i, n) \/ Kick(i, n)
                      \/ \E val, admin \in BOOLEAN : ClaimMaster(i, val, admin)
                      \/ \E n \in Slots, val \in BOOLEAN : GiveMaster(i, n, val) \/ Spectator(i, n, val)
                      \/ \E mm \in MasterModes : MasterMode(i, mm)
                      \/ \E val \in BOOLEAN : PauseGame(i, val)
               PROVE  TypeOK'
    BY <1>4 DEF Handling
  <2>i. i \in Infos
    BY <1>l
  <2>1. ASSUME NEW key \in Privs, NEW n \in Slots \cup {NoSlot}, AskLocal(i, key, n)
        PROVE  TypeOK'
    <3>1. Request(nextauthreq, "local", key, n) \in AuthState
      BY <2>1, RequestType, BoundsAssumption DEF AskLocal, TypeOK
    <3>2. QED
      BY <3>1, <2>1, BoundsAssumption
         DEF AskLocal, TypeOK, links, idents, roster, masterlink, access, bans
  <2>2. ASSUME NEW n \in Slots \cup {NoSlot}, AskMaster(i, n) PROVE TypeOK'
    <3>1. PICK ok \in BOOLEAN :
            /\ RequestMaster(ok)
            /\ mreq' = IF ok THEN [mreq EXCEPT ![nextauthreq] = [stage |-> "req", asker |-> i]]
                             ELSE mreq
            /\ auth' = [auth EXCEPT ![i] =
                          IF ok THEN Request(nextauthreq, "global", PRIV_AUTH, n) ELSE NoAuth]
      BY <2>2 DEF AskMaster
    <3>2. Request(nextauthreq, "global", PRIV_AUTH, n) \in AuthState
      BY <2>2, RequestType, BoundsAssumption, PrivTypes DEF AskMaster, TypeOK
    <3>3. auth' \in [Infos -> AuthState]
      BY <3>1, <3>2, NoAuthType DEF TypeOK
    <3>4. mreq' \in [1 .. MaxReq -> MasterRequest]
      BY <2>i, <3>1 DEF TypeOK, MasterRequest
    <3>5. mastersock' \in {"none", "connecting", "up"}
      BY <3>1 DEF RequestMaster, TypeOK
    <3>6. nextauthreq' \in 1 .. MaxReq + 1
      BY <2>2, BoundsAssumption DEF AskMaster, TypeOK
    <3>7. QED
      BY <2>2, <3>3, <3>4, <3>5, <3>6 DEF AskMaster, TypeOK, links, idents, roster, access, bans
  <2>3. CASE AuthTry(i)
    <3>1. CASE \E key \in KeyPrivs : AskLocal(i, key, NoSlot)
      BY <3>1, <2>1, PrivTypes
    <3>2. CASE AskMaster(i, NoSlot)
      BY <3>2, <2>2
    <3>3. CASE /\ nextauthreq <= MaxReq
               /\ nextauthreq' = nextauthreq + 1
               /\ auth' = [auth EXCEPT ![i] = NoAuth]
               /\ UNCHANGED <<links, idents, priv, spec, connectauth, roster, created, masterlink,
                             access, bans, gamepaused, mp, overdue>>
      BY <3>3, NoAuthType, BoundsAssumption
         DEF TypeOK, links, idents, roster, masterlink, access, bans
    <3>4. QED
      BY <2>3, <3>1, <3>2, <3>3 DEF AuthTry
  <2>4. CASE ClearBans(i)
    BY <2>4 DEF ClearBans, TypeOK, links, ci, idents, roster, counters, masterlink, access
  <2>5. ASSUME NEW n \in Slots, AuthKick(i, n) PROVE TypeOK'
    BY <2>5, <2>1, <2>2, PrivTypes DEF AuthKick
  <2>6. ASSUME NEW n \in Slots, Kick(i, n) PROVE TypeOK'
    <3>1. SessionType'
      BY <1>t, <2>6, TryKickType DEF Kick
    <3>2. ServerType'
      BY <1>t, <2>6 DEF Kick, ServerType, counters, masterlink
    <3>3. QED
      BY <3>1, <3>2, TypeParts
  <2>7. ASSUME NEW j \in Infos, NEW val \in BOOLEAN, NEW want \in Privs, SetMaster(j, val, want),
               UNCHANGED <<links, idents, spec, connectauth, auth, roster, counters, masterlink,
                           bans, mp, overdue>>
        PROVE  TypeOK'
    BY <1>t, <2>7, SetMasterType DEF TypeOK, links, idents, roster, counters, masterlink, bans
  <2>8. ASSUME NEW val \in BOOLEAN, NEW admin \in BOOLEAN, ClaimMaster(i, val, admin) PROVE TypeOK'
    BY <2>i, <2>7, <2>8, PrivTypes DEF ClaimMaster
  <2>9. ASSUME NEW n \in Slots, NEW val \in BOOLEAN, GiveMaster(i, n, val) PROVE TypeOK'
    BY <1>l, <2>7, <2>9, PrivTypes DEF GiveMaster
  <2>10. ASSUME NEW n \in Slots, NEW val \in BOOLEAN, Spectator(i, n, val) PROVE TypeOK'
    BY <2>10 DEF Spectator, TypeOK, links, idents, roster, counters, masterlink, access, bans
  <2>11. ASSUME NEW mm \in MasterModes, MasterMode(i, mm) PROVE TypeOK'
    <3>1. \A j \in clients : ip[j] \in Addresses \cup {NoAddress}
      BY <1>l DEF TypeOK
    <3>2. QED
      BY <2>11, <3>1, ModeAssumption
         DEF MasterMode, TypeOK, links, ci, idents, roster, counters, masterlink, bans
  <2>12. ASSUME NEW val \in BOOLEAN, PauseGame(i, val) PROVE TypeOK'
    BY <2>12 DEF PauseGame, TypeOK, links, ci, idents, roster, counters, masterlink, access, bans
  <2>13. QED
    BY <2>3, <2>4, <2>5, <2>6, <2>8, <2>9, <2>10, <2>11, <2>12
<1>5. CASE MasterServer
  <2>1. ASSUME NEW r \in DOMAIN mreq, MasterChallenge(r) PROVE TypeOK'
    BY <2>1 DEF MasterChallenge, TypeOK, MasterRequest, links, ci, idents, roster, counters,
                access, bans
  <2>2. ASSUME NEW r \in DOMAIN mreq, NEW succ \in BOOLEAN, MasterVerdict(r, succ) PROVE TypeOK'
    <3>1. SessionType'
      <4>1. CASE UNCHANGED <<links, ci, roster, access, bannedips, gamepaused>>
        BY <1>t, <4>1 DEF SessionType, links, ci, idents, roster, access
      <4>2. ASSUME NEW i \in Holder(r),
                   IF succ THEN Authenticated(i, PRIV_AUTH) ELSE AuthRefused(i)
            PROVE  SessionType'
        <5>1. i \in Infos
          BY <1>l DEF Holder
        <5>2. QED
          BY <1>t, <4>2, <5>1, AuthenticatedType, RefusedType, PrivTypes
      <4>3. QED
        BY <2>2, <4>1, <4>2 DEF MasterVerdict
    <3>2. ServerType'
      BY <1>t, <2>2 DEF MasterVerdict, ServerType, counters, MasterRequest, NoRequest
    <3>3. QED
      BY <3>1, <3>2, TypeParts
  <2>3. ASSUME NEW a \in Addresses, MasterGban(a) PROVE TypeOK'
    <3>1. SessionType'
      BY <1>t, <1>l, <2>3, DisconnectType DEF MasterGban
    <3>2. ServerType'
      BY <1>t, <2>3 DEF MasterGban, ServerType, counters, masterlink
    <3>3. QED
      BY <3>1, <3>2, TypeParts
  <2>4. CASE MasterUp \/ Register
    BY <2>4 DEF MasterUp, Register, RequestMaster, TypeOK, links, ci, idents, roster, counters,
                access, bans
  <2>5. CASE MasterDown
    BY <2>5, NoAuthType DEF MasterDown, TypeOK, MasterRequest, NoRequest, links, idents, roster,
                counters, access, bans
  <2>6. CASE MasterClearGbans
    BY <2>6 DEF MasterClearGbans, TypeOK, links, ci, idents, roster, counters, masterlink, access
  <2>7. QED
    BY <1>5, <2>1, <2>2, <2>3, <2>4, <2>5, <2>6 DEF MasterServer
<1>6. CASE Housekeeping
  <2>1. ASSUME NEW a \in Addresses, TeamkillKick(a) PROVE TypeOK'
    <3>1. SessionType'
      BY <1>t, <2>1, KickType DEF TeamkillKick
    <3>2. ServerType'
      BY <1>t, <2>1 DEF TeamkillKick, ServerType, counters, masterlink
    <3>3. QED
      BY <3>1, <3>2, TypeParts
  <2>2. ASSUME NEW a \in Addresses, BanExpires(a) PROVE TypeOK'
    BY <2>2 DEF BanExpires, TypeOK, links, ci, idents, roster, counters, masterlink, access
  <2>3. ASSUME NEW m \in BOOLEAN, ChangeMap(m) PROVE TypeOK'
    <3>1. SessionType'
      <4>1. CASE m
        BY <1>t, <2>3, <4>1 DEF ChangeMap, SessionType, links, ci, idents, roster, access
      <4>2. CASE ~m
        BY <1>t, <1>l, <2>3, <4>2, DisconnectType DEF ChangeMap
      <4>3. QED
        BY <4>1, <4>2
    <3>2. ServerType'
      BY <1>t, <2>3 DEF ChangeMap, ServerType, counters, masterlink
    <3>3. QED
      BY <3>1, <3>2, TypeParts
  <2>4. CASE Ages
    BY <2>4 DEF Ages, TypeOK, Infos, links, ci, idents, roster, counters, masterlink, access, bans
  <2>5. CASE JoinTimeouts
    BY <2>5, DropType DEF JoinTimeouts
  <2>6. QED
    BY <1>6, <2>1, <2>2, <2>3, <2>4, <2>5 DEF Housekeeping
<1>7. CASE UNCHANGED vars
  BY <1>7 DEF TypeOK, vars, links, ci, idents, roster, counters, masterlink, access, bans
<1>8. QED
  BY <1>1, <1>2, <1>3, <1>4, <1>5, <1>6, <1>7 DEF Next

\* The server's state always has its types.
THEOREM TypeCorrect == Spec => []TypeOK
  BY TypeInit, TypeStep, PTL DEF Spec
-----------------------------------------------------------------------------
(* Authority: locked modes and the pause need somebody in charge. *)

Authority == LockedNeedsMaster /\ PausedNeedsAuthority

LEMMA PauseIsPrivileged ==
  ASSUME NEW x \in Privs PROVE x >= PausePriv => x >= PRIV_MASTER /\ x > PRIV_NONE
  BY PauseAssumption DEF Privs, PRIV_NONE, PRIV_MASTER, PRIV_ADMIN

\* Departures: if nobody privileged leaves, whoever is in charge stays.
LEMMA DisconnectAuthority ==
  ASSUME SessionType, LockedNeedsMaster, NEW N, NEW how, NEW banned, NEW allowed,
         NEW paused \in BOOLEAN, paused => MayPause(clients, priv),
         Disconnect(N, how, banned, allowed, paused)
  PROVE  Authority'
<1> DEFINE gone == {slotinfo[n] : n \in N}
           left == clients \ gone
<1>1. clients' = left /\ \A i \in left : i \in Infos /\ priv'[i] = priv[i]
  BY DEF Disconnect, SessionType
<1>2. HasMaster(left, priv) => HasMaster(clients', priv')
  BY <1>1 DEF HasMaster
<1>3. MayPause(left, priv) => MayPause(clients', priv')
  BY <1>1 DEF MayPause
<1>4. CASE \E i \in gone \cap clients : priv[i] > PRIV_NONE
  <2>1. Settle(left, priv, TRUE, allowed, paused)
    BY <1>4 DEF Disconnect
  <2>2. /\ mastermode' # MM_OPEN => HasMaster(left, priv)
        /\ gamepaused' => MayPause(left, priv)
    BY <2>1 DEF Settle
  <2>3. QED
    BY <2>2, <1>2, <1>3 DEF Authority, LockedNeedsMaster, PausedNeedsAuthority
<1>5. CASE ~\E i \in gone \cap clients : priv[i] > PRIV_NONE
  <2>1. gamepaused' = paused /\ mastermode' = mastermode
    BY <1>5 DEF Disconnect
  <2>2. \A i \in clients : priv[i] \in Privs
    BY DEF SessionType
  <2>3. HasMaster(clients, priv) => HasMaster(left, priv)
    BY <1>5, <2>2 DEF HasMaster, PRIV_MASTER, PRIV_NONE, Privs, PRIV_ADMIN
  <2>4. MayPause(clients, priv) => MayPause(left, priv)
    BY <1>5, <2>2, PauseIsPrivileged DEF MayPause
  <2>5. QED
    BY <2>1, <2>3, <2>4, <1>2, <1>3 DEF Authority, LockedNeedsMaster, PausedNeedsAuthority
<1>6. QED
  BY <1>4, <1>5

LEMMA DropAuthority ==
  ASSUME TypeOK, Authority, NEW N, NEW how, Drop(N, how) PROVE Authority'
<1>1. SessionType /\ gamepaused \in BOOLEAN
  BY TypeParts DEF TypeOK
<1>2. QED
  BY <1>1, DisconnectAuthority DEF Drop, Authority, PausedNeedsAuthority

LEMMA TryKickAuthority ==
  ASSUME SessionType, Authority, NEW a, NEW actor, NEW p, KickAddress(a, actor, p)
  PROVE  Authority'
<1>1. gamepaused \in BOOLEAN
  BY DEF SessionType
<1>2. QED
  BY <1>1, DisconnectAuthority DEF KickAddress, Authority, PausedNeedsAuthority

\* Nobody leaves and nobody loses a privilege.
LEMMA KeptAuthority ==
  ASSUME TypeOK, Authority,
         clients \subseteq clients', \A i \in clients : priv'[i] = priv[i],
         mastermode' = mastermode, gamepaused' => gamepaused
  PROVE  Authority'
  BY DEF Authority, LockedNeedsMaster, PausedNeedsAuthority, HasMaster, MayPause

\* A privilege is raised or lost and settled.
LEMMA SetMasterAuthority ==
  ASSUME SessionType, Authority, NEW i \in Infos, NEW val \in BOOLEAN, NEW want \in Privs,
         SetMaster(i, val, want), clients' = clients
  PROVE  Authority'
<1>1. Settle(clients, priv', priv'[i] # priv[i], allowedips, gamepaused)
  BY DEF SetMaster
<1>2. mastermode' # MM_OPEN => HasMaster(clients, priv')
  BY <1>1 DEF Settle
<1>3. gamepaused' => MayPause(clients, priv')
  <2>1. CASE priv'[i] # priv[i]
    BY <1>1, <2>1 DEF Settle
  <2>2. CASE priv'[i] = priv[i]
    <3>1. priv' = priv
      BY <2>2 DEF SetMaster, SessionType
    <3>2. QED
      BY <3>1, <1>1 DEF Settle, Authority, PausedNeedsAuthority
  <2>3. QED
    BY <2>1, <2>2
<1>4. QED
  BY <1>2, <1>3 DEF Authority, LockedNeedsMaster, PausedNeedsAuthority

LEMMA AuthenticatedAuthority ==
  ASSUME SessionType, Authority, NEW i \in Infos, NEW want \in Privs, Authenticated(i, want)
  PROVE  Authority'
<1>1. CASE TryKick(i, auth[i].victim, Larger(priv[i], want))
  BY <1>1, TryKickAuthority DEF TryKick
<1>2. CASE UNCHANGED <<links, idents, priv, spec, connectauth, roster, access, bannedips,
                       gamepaused>>
  BY <1>2 DEF Authority, LockedNeedsMaster, PausedNeedsAuthority, HasMaster, MayPause,
              roster, access
<1>3. CASE SetMaster(i, TRUE, want) /\ UNCHANGED roster
  BY <1>3, SetMasterAuthority DEF roster
<1>4. QED
  BY <1>1, <1>2, <1>3 DEF Authenticated

LEMMA RefusedAuthority ==
  ASSUME SessionType, Authority, NEW i \in Infos, AuthRefused(i) PROVE Authority'
<1>1. CASE connectauth[i]
  <2>1. gamepaused \in BOOLEAN
    BY DEF SessionType
  <2>2. QED
    BY <1>1, <2>1, DisconnectAuthority DEF AuthRefused, Authority, PausedNeedsAuthority
<1>2. CASE ~connectauth[i]
  BY <1>2 DEF AuthRefused, Authority, LockedNeedsMaster, PausedNeedsAuthority, HasMaster,
              MayPause, roster, access
<1>3. QED
  BY <1>1, <1>2

LEMMA AuthJoinedAuthority ==
  ASSUME SessionType, Authority, NEW i \in Infos, AuthJoined(i) PROVE Authority'
<1>1. PICK rotate \in {FALSE, MayRotate(i)} :
        Settle(clients', priv', priv'[i] # priv[i], allowedips, gamepaused /\ ~rotate)
  BY DEF AuthJoined
<1>2. mastermode' # MM_OPEN => HasMaster(clients', priv')
  BY <1>1 DEF Settle
<1>3. gamepaused' => MayPause(clients', priv')
  <2>1. CASE priv'[i] # priv[i]
    BY <1>1, <2>1 DEF Settle
  <2>2. CASE priv'[i] = priv[i]
    <3>1. priv' = priv /\ clients \subseteq clients'
      BY <2>2 DEF AuthJoined, Joined, SessionType
    <3>2. QED
      BY <3>1, <1>1 DEF Settle, Authority, PausedNeedsAuthority, MayPause
  <2>3. QED
    BY <2>1, <2>2
<1>4. QED
  BY <1>2, <1>3 DEF Authority, LockedNeedsMaster, PausedNeedsAuthority

\* Every step keeps somebody in charge: one step per action.
LEMMA AuthorityStep == TypeOK /\ Authority /\ [Next]_vars => Authority'
<1> SUFFICES ASSUME TypeOK, Authority, [Next]_vars PROVE Authority'
  OBVIOUS
<1>t. SessionType
  BY TypeParts
<1>l. gamepaused \in BOOLEAN /\ connects \subseteq Infos /\ clients \subseteq Infos
  BY DEF TypeOK
<1>k. ASSUME UNCHANGED <<clients, priv, mastermode>>, gamepaused' => gamepaused PROVE Authority'
  BY <1>k, KeptAuthority
<1>1. CASE PeerEvent
  <2>1. ASSUME NEW p \in Peers, DisconnectEvent(p) PROVE Authority'
    <3>1. CASE peerdata[p] = NoSlot
      BY <2>1, <3>1, <1>k DEF DisconnectEvent, ci, roster, access
    <3>2. CASE peerdata[p] # NoSlot
      BY <2>1, <3>2, DropAuthority DEF DisconnectEvent
    <3>3. QED
      BY <3>1, <3>2
  <2>2. ASSUME NEW p \in Peers, NEW a \in Addresses, ConnectEvent(p, a) PROVE Authority'
    BY <2>2, <1>k DEF ConnectEvent, access
  <2>3. QED
    BY <1>1, <2>1, <2>2 DEF PeerEvent
<1>2. CASE Joining
  <2>2. ASSUME NEW i \in connects, NEW pwd \in Passwords, NEW key \in KeyPrivs \cup {NoKey},
               Connect(i, pwd, key)
        PROVE  Authority'
    <3>1. CASE /\ Joined(i)
               /\ \E rotate \in {FALSE, MayRotate(i)} : gamepaused' = (gamepaused /\ ~rotate)
               /\ UNCHANGED <<priv, access>>
      <4>1. gamepaused' => gamepaused
        BY <3>1
      <4>2. QED
        BY <3>1, <4>1, KeptAuthority DEF Joined, access
    <3>2. CASE UNCHANGED <<priv, roster, access, gamepaused>>
      BY <3>2, <1>k DEF roster, access
    <3>3. CASE Drop({num[i]}, "closing")
      BY <3>3, DropAuthority
    <3>4. QED
      BY <2>2, <3>1, <3>2, <3>3 DEF Connect
  <2>3. QED
    BY <1>2, <2>2 DEF Joining
<1>3. CASE Answering
  <2> SUFFICES ASSUME NEW i \in clients \cup connects,
                      \/ Misbehave(i)
                      \/ \E right \in BOOLEAN : AnswerLocal(i, right)
                      \/ AnswerMaster(i) \/ AnswerStale(i)
               PROVE  Authority'
    BY <1>3 DEF Answering
  <2>i. i \in Infos
    BY <1>l
  <2>1. CASE Misbehave(i)
    BY <2>1, DropAuthority DEF Misbehave
  <2>2. ASSUME NEW right \in BOOLEAN, AnswerLocal(i, right) PROVE Authority'
    <3>1. auth[i].key \in Privs
      BY <2>i DEF TypeOK, AuthState
    <3>2. QED
      BY <1>t, <2>i, <2>2, <3>1, RefusedAuthority, AuthJoinedAuthority, AuthenticatedAuthority
         DEF AnswerLocal
  <2>3. CASE AnswerMaster(i)
    BY <2>3, <1>k DEF AnswerMaster, roster, access
  <2>4. CASE AnswerStale(i)
    BY <1>t, <2>i, <2>4, RefusedAuthority DEF AnswerStale
  <2>5. QED
    BY <2>1, <2>2, <2>3, <2>4
<1>4. CASE Handling
  <2> SUFFICES ASSUME NEW i \in clients,
                      \/ AuthTry(i) \/ ClearBans(i)
                      \/ \E n \in Slots : AuthKick(i, n) \/ Kick(i, n)
                      \/ \E val, admin \in BOOLEAN : ClaimMaster(i, val, admin)
                      \/ \E n \in Slots, val \in BOOLEAN : GiveMaster(i, n, val) \/ Spectator(i, n, val)
                      \/ \E mm \in MasterModes : MasterMode(i, mm)
                      \/ \E val \in BOOLEAN : PauseGame(i, val)
               PROVE  Authority'
    BY <1>4 DEF Handling
  <2>i. i \in Infos
    BY <1>l
  <2>1. ASSUME NEW n, (\E key \in KeyPrivs : AskLocal(i, key, n)) \/ AskMaster(i, n)
        PROVE  Authority'
    BY <2>1, <1>k DEF AskLocal, AskMaster, roster, access
  <2>2. CASE AuthTry(i)
    BY <2>2, <2>1, <1>k DEF AuthTry, roster, access
  <2>3. CASE ClearBans(i)
    BY <2>3, <1>k DEF ClearBans, ci, roster, access
  <2>4. ASSUME NEW n \in Slots, AuthKick(i, n) PROVE Authority'
    BY <2>4, <2>1 DEF AuthKick
  <2>5. ASSUME NEW n \in Slots, Kick(i, n) PROVE Authority'
    BY <1>t, <2>5, TryKickAuthority DEF Kick, TryKick
  <2>6. ASSUME NEW val \in BOOLEAN, NEW admin \in BOOLEAN, ClaimMaster(i, val, admin)
        PROVE  Authority'
    BY <1>t, <2>i, <2>6, SetMasterAuthority, PrivTypes DEF ClaimMaster, roster
  <2>7. ASSUME NEW n \in Slots, NEW val \in BOOLEAN, GiveMaster(i, n, val) PROVE Authority'
    BY <1>t, <1>l, <2>7, SetMasterAuthority, PrivTypes DEF GiveMaster, roster
  <2>8. ASSUME NEW n \in Slots, NEW val \in BOOLEAN, Spectator(i, n, val) PROVE Authority'
    <3>1. gamepaused' => gamepaused
      BY <2>8 DEF Spectator
    <3>2. QED
      BY <3>1, <2>8, <1>k DEF Spectator, roster, access
  \* Whoever sets a mode or pauses is the one in charge.
  <2>9. ASSUME NEW mm \in MasterModes, MasterMode(i, mm) PROVE Authority'
    <3>1. priv[i] \in Privs /\ priv[i] > PRIV_NONE
      BY <2>i, <2>9 DEF MasterMode, TypeOK
    <3>2. HasMaster(clients, priv)
      BY <3>1 DEF HasMaster, PRIV_NONE, PRIV_MASTER, PRIV_ADMIN, Privs
    <3>3. QED
      BY <2>9, <3>2 DEF MasterMode, Authority, LockedNeedsMaster, PausedNeedsAuthority, ci, roster
  <2>10. ASSUME NEW val \in BOOLEAN, PauseGame(i, val) PROVE Authority'
    <3>1. MayPause(clients, priv)
      BY <2>10 DEF PauseGame, MayPause
    <3>2. QED
      BY <2>10, <3>1 DEF PauseGame, Authority, LockedNeedsMaster, PausedNeedsAuthority, ci, roster,
                         access
  <2>11. QED
    BY <2>2, <2>3, <2>4, <2>5, <2>6, <2>7, <2>8, <2>9, <2>10
<1>5. CASE MasterServer
  <2>1. ASSUME NEW r \in DOMAIN mreq, MasterChallenge(r) PROVE Authority'
    BY <2>1, <1>k DEF MasterChallenge, ci, roster, access
  <2>2. ASSUME NEW r \in DOMAIN mreq, NEW succ \in BOOLEAN, MasterVerdict(r, succ) PROVE Authority'
    <3>1. CASE UNCHANGED <<links, ci, roster, access, bannedips, gamepaused>>
      BY <3>1, <1>k DEF ci, roster, access
    <3>2. ASSUME NEW i \in Holder(r),
                 IF succ THEN Authenticated(i, PRIV_AUTH) ELSE AuthRefused(i)
          PROVE  Authority'
      <4>1. i \in Infos
        BY <1>l DEF Holder
      <4>2. QED
        BY <1>t, <3>2, <4>1, AuthenticatedAuthority, RefusedAuthority, PrivTypes
    <3>3. QED
      BY <2>2, <3>1, <3>2 DEF MasterVerdict
  <2>3. ASSUME NEW a \in Addresses, MasterGban(a) PROVE Authority'
    BY <1>t, <1>l, <2>3, DisconnectAuthority DEF MasterGban, Authority, PausedNeedsAuthority
  <2>4. CASE MasterUp \/ Register
    <3>1. UNCHANGED <<ci, roster, access, gamepaused>>
      BY <2>4 DEF MasterUp, Register
    <3>2. QED
      BY <3>1, <1>k DEF ci, roster, access
  <2>5. CASE MasterDown \/ MasterClearGbans
    BY <2>5, <1>k DEF MasterDown, MasterClearGbans, ci, roster, access
  <2>6. QED
    BY <1>5, <2>1, <2>2, <2>3, <2>4, <2>5 DEF MasterServer
<1>6. CASE Housekeeping
  <2>1. ASSUME NEW a \in Addresses, TeamkillKick(a) PROVE Authority'
    BY <1>t, <2>1, TryKickAuthority DEF TeamkillKick
  <2>2. ASSUME NEW a \in Addresses, BanExpires(a) PROVE Authority'
    BY <2>2, <1>k DEF BanExpires, ci, roster, access
  <2>3. ASSUME NEW m \in BOOLEAN, ChangeMap(m) PROVE Authority'
    <3>1. CASE m
      BY <2>3, <3>1, <1>k DEF ChangeMap, ci, roster, access
    <3>2. CASE ~m
      <4>1. Disconnect({n \in Slots : slotinfo[n] # NoInfo}, "closing", bannedips, allowedips, FALSE)
        BY <2>3, <3>2 DEF ChangeMap
      <4>2. LockedNeedsMaster /\ FALSE \in BOOLEAN
        BY DEF Authority
      <4>3. QED
        BY <1>t, <4>1, <4>2, DisconnectAuthority
    <3>3. QED
      BY <3>1, <3>2
  <2>4. CASE Ages
    BY <2>4, <1>k DEF Ages, ci, roster, access
  <2>5. CASE JoinTimeouts
    BY <2>5, DropAuthority DEF JoinTimeouts
  <2>6. QED
    BY <1>6, <2>1, <2>2, <2>3, <2>4, <2>5 DEF Housekeeping
<1>7. CASE UNCHANGED vars
  BY <1>7, <1>k DEF vars, ci, roster, access
<1>8. QED
  BY <1>1, <1>2, <1>3, <1>4, <1>5, <1>6, <1>7 DEF Next

\* Master mode is never left locked, nor the game left paused, without somebody
\* joined who may undo it (setmaster, checkpausegame).
THEOREM AuthorityHeld == Spec => []AuthorityKept
<1>1. Init => Authority
  BY DEF Init, Authority, LockedNeedsMaster, PausedNeedsAuthority
<1>2. QED
  BY <1>1, TypeCorrect, AuthorityStep, PTL DEF Spec, Authority, AuthorityKept

-----------------------------------------------------------------------------
(***************************************************************************)
(* The links between peers, client numbers and clientinfos, and the        *)
(* requests and kicks that rely on them.                                   *)
(***************************************************************************)

\* A clientinfo is new when it gets a client number.
Fresh == \A i \in connects \cup clients : i <= created

\* client.info and client.peer are set and cleared together.
EmptySlotsAlike == \A n \in Slots : slotinfo[n] = NoInfo <=> slotpeer[n] = NoPeer

Linked == ListsMatchSlots /\ PeersMatchSlots /\ Fresh /\ EmptySlotsAlike

\* What every departure does to the links and the lists.
Departs(N, how) ==
  LET gone == {slotinfo[n] : n \in N}
  IN  /\ clients' = clients \ gone /\ connects' = connects \ gone
      /\ DelClient(N, how)
      /\ num' = [i \in Infos |-> IF i \in gone THEN NoSlot ELSE num[i]]

LEMMA DisconnectDeparts ==
  ASSUME NEW N, NEW how, NEW banned, NEW allowed, NEW paused,
         Disconnect(N, how, banned, allowed, paused)
  PROVE  Departs(N, how)
  BY DEF Disconnect, Departs

LEMMA NoInfoOutside == NoInfo \notin Infos /\ Infos \subseteq Nat
  BY BoundsAssumption DEF NoInfo, Infos

\* A departure takes a slot, its peer's data and its clientinfo away together.
LEMMA DepartsLinked ==
  ASSUME SessionType, Linked, NEW N \in SUBSET Slots, NEW how \in {"free", "closing"},
         Departs(N, how), created' = created
  PROVE  Linked'
<1> DEFINE gone == {slotinfo[n] : n \in N}
<1>1. /\ clients' = clients \ gone /\ connects' = connects \ gone
      /\ slotinfo' = [n \in Slots |-> IF n \in N THEN NoInfo ELSE slotinfo[n]]
      /\ slotpeer' = [n \in Slots |-> IF n \in N THEN NoPeer ELSE slotpeer[n]]
      /\ peerstate' = [p \in Peers |-> IF \E n \in N : slotpeer[n] = p THEN how ELSE peerstate[p]]
      /\ peerdata' = [p \in Peers |-> IF \E n \in N : slotpeer[n] = p THEN NoSlot ELSE peerdata[p]]
      /\ num' = [i \in Infos |-> IF i \in gone THEN NoSlot ELSE num[i]]
  BY DEF Departs, DelClient
<1>2. ListsMatchSlots'
  <2>1. connects' \cap clients' = {}
    BY <1>1 DEF Linked, ListsMatchSlots
  <2>2. ASSUME NEW n \in Slots, slotinfo'[n] # NoInfo
        PROVE  slotinfo'[n] \in connects' \cup clients' /\ num'[slotinfo'[n]] = n
    <3>1. n \notin N /\ slotinfo'[n] = slotinfo[n] /\ slotinfo[n] # NoInfo
      BY <2>2, <1>1
    <3>2. slotinfo[n] \in connects \cup clients /\ num[slotinfo[n]] = n
      BY <3>1 DEF Linked, ListsMatchSlots
    <3>3. slotinfo[n] \notin gone
      <4>1. ASSUME NEW m \in N, slotinfo[m] = slotinfo[n] PROVE FALSE
        BY <4>1, <3>1, <3>2 DEF Linked, ListsMatchSlots
      <4>2. QED
        BY <4>1
    <3>4. slotinfo[n] \in Infos
      BY <3>2 DEF SessionType
    <3>5. QED
      BY <1>1, <3>1, <3>2, <3>3, <3>4
  <2>3. ASSUME NEW i \in connects' \cup clients' PROVE num'[i] \in Slots /\ slotinfo'[num'[i]] = i
    <3>1. i \in connects \cup clients /\ i \notin gone /\ i \in Infos
      BY <2>3, <1>1 DEF SessionType
    <3>2. num[i] \in Slots /\ slotinfo[num[i]] = i
      BY <3>1 DEF Linked, ListsMatchSlots
    <3>3. num[i] \notin N
      BY <3>1, <3>2
    <3>4. QED
      BY <1>1, <3>1, <3>2, <3>3
  <2>4. QED
    BY <2>1, <2>2, <2>3 DEF ListsMatchSlots
<1>3. PeersMatchSlots'
  <2>1. ASSUME NEW p \in Peers PROVE peerstate'[p] = "up" <=> peerdata'[p] # NoSlot
    <3>1. peerstate[p] = "up" <=> peerdata[p] # NoSlot
      BY DEF Linked, PeersMatchSlots
    <3>2. QED
      BY <1>1, <3>1
  <2>2. ASSUME NEW p \in Peers, peerdata'[p] # NoSlot PROVE slotpeer'[peerdata'[p]] = p
    <3>1. ~(\E n \in N : slotpeer[n] = p) /\ peerdata'[p] = peerdata[p]
      BY <2>2, <1>1
    <3>2. slotpeer[peerdata[p]] = p /\ peerdata[p] \in Slots
      BY <2>2, <3>1 DEF Linked, PeersMatchSlots, SessionType
    <3>3. QED
      BY <1>1, <3>1, <3>2
  <2>3. ASSUME NEW n \in Slots, slotinfo'[n] # NoInfo
        PROVE  slotpeer'[n] \in Peers /\ peerdata'[slotpeer'[n]] = n
    <3>1. n \notin N /\ slotinfo[n] # NoInfo /\ slotpeer'[n] = slotpeer[n]
      BY <2>3, <1>1
    <3>2. slotpeer[n] \in Peers /\ peerdata[slotpeer[n]] = n
      BY <3>1 DEF Linked, PeersMatchSlots
    <3>3. ASSUME NEW m \in N, slotpeer[m] = slotpeer[n] PROVE FALSE
      <4>1. slotinfo[m] # NoInfo
        BY <3>2, <3>3, PeersAssumption DEF Linked, EmptySlotsAlike
      <4>2. peerdata[slotpeer[m]] = m
        BY <4>1 DEF Linked, PeersMatchSlots
      <4>3. QED
        BY <4>2, <3>1, <3>2, <3>3
    <3>4. QED
      BY <1>1, <3>1, <3>2, <3>3
  <2>4. QED
    BY <2>1, <2>2, <2>3 DEF PeersMatchSlots
<1>4. Fresh'
  BY <1>1 DEF Linked, Fresh
<1>5. EmptySlotsAlike'
  BY <1>1 DEF Linked, EmptySlotsAlike
<1>6. QED
  BY <1>2, <1>3, <1>4, <1>5 DEF Linked

\* What any step does to the links: nothing, a peer's event, a join, departures.
Joins(i) == Joined(i) /\ UNCHANGED <<links, num, created>>
Leaves(N) == Departs(N, "closing") /\ UNCHANGED created
Quiet == UNCHANGED <<links, num, roster, created>>
LinkStep ==
  \/ Quiet
  \/ \E p \in Peers : DisconnectEvent(p) \/ \E a \in Addresses : ConnectEvent(p, a)
  \/ \E i \in connects \cup clients : Joins(i)
  \/ \E N \in SUBSET Slots : Leaves(N)

LEMMA DisconnectLeaves ==
  ASSUME NEW N \in SUBSET Slots, NEW banned, NEW allowed, NEW paused,
         Disconnect(N, "closing", banned, allowed, paused), UNCHANGED created
  PROVE  LinkStep
  BY DisconnectDeparts DEF LinkStep, Leaves

LEMMA KickLeaves ==
  ASSUME ListsMatchSlots, NEW a, NEW actor, NEW p, KickAddress(a, actor, p), UNCHANGED created
  PROVE  LinkStep
<1>1. KickSet(a, actor, p) \in SUBSET Slots
  BY DEF KickSet, ListsMatchSlots
<1>2. QED
  BY <1>1, DisconnectLeaves DEF KickAddress

LEMMA OneLeaves ==
  ASSUME ListsMatchSlots, NEW i \in connects \cup clients, NEW banned, NEW allowed, NEW paused,
         Disconnect({num[i]}, "closing", banned, allowed, paused), UNCHANGED created
  PROVE  LinkStep
<1>1. {num[i]} \in SUBSET Slots
  BY DEF ListsMatchSlots
<1>2. QED
  BY <1>1, DisconnectLeaves

LEMMA AuthenticatedLeaves ==
  ASSUME ListsMatchSlots, NEW i \in connects \cup clients, NEW want, Authenticated(i, want),
         UNCHANGED created
  PROVE  LinkStep
<1>1. CASE TryKick(i, auth[i].victim, Larger(priv[i], want))
  BY <1>1, KickLeaves DEF TryKick
<1>2. CASE UNCHANGED <<links, idents, roster>>
  BY <1>2 DEF LinkStep, Quiet, idents
<1>3. QED
  BY <1>1, <1>2 DEF Authenticated

LEMMA RefusedLeaves ==
  ASSUME ListsMatchSlots, NEW i \in connects \cup clients, AuthRefused(i), UNCHANGED created
  PROVE  LinkStep
<1>1. CASE connectauth[i]
  BY <1>1, OneLeaves DEF AuthRefused
<1>2. CASE ~connectauth[i]
  BY <1>2 DEF AuthRefused, LinkStep, Quiet, idents
<1>3. QED
  BY <1>1, <1>2

LEMMA LinkSteps == TypeOK /\ ListsMatchSlots /\ [Next]_vars => LinkStep
<1> SUFFICES ASSUME TypeOK, ListsMatchSlots, [Next]_vars PROVE LinkStep
  OBVIOUS
<1> USE DEF counters, ci, idents
<1>1. CASE PeerEvent
  BY <1>1 DEF PeerEvent, LinkStep
<1>2. CASE Joining
  <2> SUFFICES ASSUME NEW i \in connects,
                      \E pwd \in Passwords, key \in KeyPrivs \cup {NoKey} : Connect(i, pwd, key)
               PROVE  LinkStep
    BY <1>2 DEF Joining
  <2>1. CASE Drop({num[i]}, "closing")
    BY <2>1, OneLeaves DEF Drop
  <2>2. CASE Joined(i) /\ UNCHANGED <<links, idents, counters>>
    BY <2>2 DEF LinkStep, Joins
  <2>3. CASE UNCHANGED <<links, idents, roster, created>>
    BY <2>3 DEF LinkStep, Quiet
  <2>4. QED
    BY <2>1, <2>2, <2>3 DEF Connect
<1>3. CASE Answering
  <2> SUFFICES ASSUME NEW i \in clients \cup connects,
                      \/ Misbehave(i)
                      \/ \E right \in BOOLEAN : AnswerLocal(i, right)
                      \/ AnswerMaster(i) \/ AnswerStale(i)
               PROVE  LinkStep
    BY <1>3 DEF Answering
  <2>1. CASE Misbehave(i)
    BY <2>1, OneLeaves DEF Misbehave, Drop
  <2>2. ASSUME NEW right \in BOOLEAN, AnswerLocal(i, right) PROVE LinkStep
    <3>1. CASE AuthRefused(i)
      BY <2>2, <3>1, RefusedLeaves DEF AnswerLocal
    <3>2. CASE AuthJoined(i)
      BY <2>2, <3>2 DEF AnswerLocal, AuthJoined, LinkStep, Joins
    <3>3. CASE Authenticated(i, auth[i].key)
      BY <2>2, <3>3, AuthenticatedLeaves DEF AnswerLocal
    <3>4. QED
      BY <2>2, <3>1, <3>2, <3>3 DEF AnswerLocal
  <2>3. CASE AnswerMaster(i)
    BY <2>3 DEF AnswerMaster, LinkStep, Quiet
  <2>4. CASE AnswerStale(i)
    BY <2>4, RefusedLeaves DEF AnswerStale
  <2>5. QED
    BY <2>1, <2>2, <2>3, <2>4
<1>4. CASE Handling
  <2>1. ASSUME NEW i \in clients, NEW n \in Slots, Kick(i, n) PROVE LinkStep
    BY <2>1, KickLeaves DEF Kick, TryKick
  <2>2. CASE UNCHANGED <<links, idents, roster, created>>
    BY <2>2 DEF LinkStep, Quiet
  <2>3. QED
    BY <1>4, <2>1, <2>2 DEF Handling, AuthTry, AskLocal, AskMaster, AuthKick, ClearBans, ClaimMaster,
       GiveMaster, Spectator, MasterMode, PauseGame
<1>5. CASE MasterServer
  <2>1. ASSUME NEW r \in DOMAIN mreq, NEW succ \in BOOLEAN, MasterVerdict(r, succ) PROVE LinkStep
    <3>1. CASE UNCHANGED <<links, ci, roster>>
      BY <2>1, <3>1 DEF MasterVerdict, LinkStep, Quiet
    <3>2. ASSUME NEW i \in Holder(r),
                 IF succ THEN Authenticated(i, PRIV_AUTH) ELSE AuthRefused(i)
          PROVE  LinkStep
      BY <2>1, <3>2, AuthenticatedLeaves, RefusedLeaves DEF MasterVerdict, Holder
    <3>3. QED
      BY <2>1, <3>1, <3>2 DEF MasterVerdict
  <2>2. ASSUME NEW a \in Addresses, MasterGban(a) PROVE LinkStep
    <3>1. {num[i] : i \in {j \in clients : /\ priv[j] < PRIV_ADMIN
                                           /\ ip[j] \in bannedips \cup gbans \cup {a}}}
          \in SUBSET Slots
      BY DEF ListsMatchSlots
    <3>2. QED
      BY <2>2, <3>1, DisconnectLeaves DEF MasterGban
  <2>3. CASE UNCHANGED <<links, idents, roster, created>>
    BY <2>3 DEF LinkStep, Quiet
  <2>4. QED
    BY <1>5, <2>1, <2>2, <2>3 DEF MasterServer, MasterChallenge, MasterUp, Register, MasterDown,
       MasterClearGbans
<1>6. CASE Housekeeping
  <2>1. ASSUME NEW a \in Addresses, TeamkillKick(a) PROVE LinkStep
    BY <2>1, KickLeaves DEF TeamkillKick
  <2>2. ASSUME NEW a \in Addresses, BanExpires(a) PROVE LinkStep
    BY <2>2 DEF BanExpires, LinkStep, Quiet
  <2>3. ASSUME NEW m \in BOOLEAN, ChangeMap(m) PROVE LinkStep
    <3>1. CASE m
      BY <2>3, <3>1 DEF ChangeMap, LinkStep, Quiet
    <3>2. CASE ~m
      <4>1. {n \in Slots : slotinfo[n] # NoInfo} \in SUBSET Slots
        OBVIOUS
      <4>2. QED
        BY <2>3, <3>2, <4>1, DisconnectLeaves DEF ChangeMap
    <3>3. QED
      BY <3>1, <3>2
  <2>4. CASE Ages
    BY <2>4 DEF Ages, LinkStep, Quiet
  <2>5. CASE JoinTimeouts
    <3>1. \A i \in Visited : num[i] \in Slots
      BY DEF Visited, ListsMatchSlots
    <3>2. {num[i] : i \in Visited} \in SUBSET Slots
      BY <3>1
    <3>3. QED
      BY <2>5, <3>2, DisconnectLeaves DEF JoinTimeouts, Drop
  <2>6. QED
    BY <1>6, <2>1, <2>2, <2>3, <2>4, <2>5 DEF Housekeeping
<1>7. CASE UNCHANGED vars
  BY <1>7 DEF vars, LinkStep, Quiet
<1>8. QED
  BY <1>1, <1>2, <1>3, <1>4, <1>5, <1>6, <1>7 DEF Next

\* A connection is given a free client number that no peer points at.
LEMMA ConnectLinked ==
  ASSUME TypeOK, Linked, NEW p \in Peers, NEW a \in Addresses, ConnectEvent(p, a)
  PROVE  Linked'
<1> DEFINE i == created + 1
<1>1. /\ peerstate[p] = "free" /\ i \in Infos /\ created' = i /\ created \in Nat
      /\ clients' = clients
  BY BoundsAssumption DEF ConnectEvent, TypeOK
<1>2. peerdata[p] = NoSlot
  BY <1>1 DEF Linked, PeersMatchSlots
<1>3. CASE mp
  <2>1. PICK n \in Slots :
          /\ slotinfo[n] = NoInfo
          /\ peerstate' = [peerstate EXCEPT ![p] = "up"]
          /\ peerdata' = [peerdata EXCEPT ![p] = n]
          /\ slotinfo' = [slotinfo EXCEPT ![n] = i]
          /\ slotpeer' = [slotpeer EXCEPT ![n] = p]
          /\ num' = [num EXCEPT ![i] = n]
          /\ connects' = connects \cup {i}
    BY <1>3 DEF ConnectEvent
  <2>2. i \notin connects \cup clients /\ i # NoInfo
    <3>1. \A j \in connects \cup clients : j <= created
      BY DEF Linked, Fresh
    <3>2. QED
      BY <1>1, <3>1 DEF NoInfo
  <2>3. ListsMatchSlots'
    <3>1. \A m \in Slots : m # n /\ slotinfo[m] # NoInfo => slotinfo[m] # i
      BY <2>2 DEF Linked, ListsMatchSlots
    <3>2. \A j \in connects \cup clients : num[j] \in Slots /\ slotinfo[num[j]] = j /\ num[j] # n
      BY <2>1, <2>2, NoInfoOutside DEF Linked, ListsMatchSlots, TypeOK
    <3>3. connects' \cap clients' = {}
      BY <1>1, <2>1, <2>2 DEF Linked, ListsMatchSlots
    <3>4. \A m \in Slots : slotinfo'[m] # NoInfo =>
            slotinfo'[m] \in connects' \cup clients' /\ num'[slotinfo'[m]] = m
      BY <1>1, <2>1, <3>1 DEF Linked, ListsMatchSlots, TypeOK
    <3>5. \A j \in connects' \cup clients' : num'[j] \in Slots /\ slotinfo'[num'[j]] = j
      BY <1>1, <2>1, <2>2, <3>2 DEF TypeOK
    <3>6. QED
      BY <3>3, <3>4, <3>5 DEF ListsMatchSlots
  <2>4. slotpeer[n] = NoPeer
    BY <2>1 DEF Linked, EmptySlotsAlike
  <2>5. PeersMatchSlots'
    <3>1. \A q \in Peers : q # p => peerdata'[q] # n \/ peerdata'[q] = NoSlot
      BY <2>1, <2>4, PeersAssumption DEF Linked, PeersMatchSlots, TypeOK
    <3>2. \A m \in Slots : m # n /\ slotinfo[m] # NoInfo => slotpeer[m] # p
      BY <1>2, SlotsAreNumbers DEF Linked, PeersMatchSlots
    <3>3. n # NoSlot
      BY SlotsAreNumbers
    <3>4. \A q \in Peers : (peerstate'[q] = "up") <=> (peerdata'[q] # NoSlot)
      BY <2>1, <3>3 DEF Linked, PeersMatchSlots, TypeOK
    <3>5. \A q \in Peers : peerdata'[q] # NoSlot => slotpeer'[peerdata'[q]] = q
      BY <2>1, <3>1 DEF Linked, PeersMatchSlots, TypeOK
    <3>6. \A m \in Slots : slotinfo'[m] # NoInfo =>
            slotpeer'[m] \in Peers /\ peerdata'[slotpeer'[m]] = m
      BY <2>1, <3>2 DEF Linked, PeersMatchSlots, TypeOK
    <3>7. QED
      BY <3>4, <3>5, <3>6 DEF PeersMatchSlots
  <2>6. Fresh'
    <3>1. connects \cup clients \subseteq Nat /\ \A j \in connects \cup clients : j <= created
      BY NoInfoOutside DEF Linked, Fresh, TypeOK
    <3>2. QED
      BY <1>1, <2>1, <3>1 DEF Fresh
  <2>7. EmptySlotsAlike'
    BY <2>1, <2>2, PeersAssumption DEF Linked, EmptySlotsAlike, TypeOK
  <2>8. QED
    BY <2>3, <2>5, <2>6, <2>7 DEF Linked
<1>4. CASE ~mp
  <2>1. /\ peerstate' = [peerstate EXCEPT ![p] = "closing"]
        /\ UNCHANGED <<peerdata, slotinfo, slotpeer, num, connects>>
    BY <1>4 DEF ConnectEvent, idents
  <2>2. Fresh'
    <3>1. connects \cup clients \subseteq Nat /\ \A j \in connects \cup clients : j <= created
      BY NoInfoOutside DEF Linked, Fresh, TypeOK
    <3>2. QED
      BY <1>1, <2>1, <3>1 DEF Fresh
  <2>3. QED
    BY <1>1, <1>2, <2>1, <2>2 DEF Linked, ListsMatchSlots, PeersMatchSlots, EmptySlotsAlike, TypeOK
<1>5. QED
  BY <1>3, <1>4

LEMMA LinkedStep == TypeOK /\ Linked /\ [Next]_vars => Linked'
<1> SUFFICES ASSUME TypeOK, Linked, [Next]_vars PROVE Linked'
  OBVIOUS
<1>t. SessionType
  BY TypeParts
<1>1. LinkStep
  BY LinkSteps DEF Linked
<1>2. CASE Quiet
  BY <1>2 DEF Quiet, links, roster, Linked, ListsMatchSlots, PeersMatchSlots, Fresh, EmptySlotsAlike
<1>3. ASSUME NEW p \in Peers, DisconnectEvent(p) PROVE Linked'
  <2>1. CASE peerdata[p] = NoSlot
    <3>1. /\ peerstate' = [peerstate EXCEPT ![p] = "free"]
          /\ UNCHANGED <<peerdata, slotinfo, slotpeer, num, connects, clients, created>>
      BY <1>3, <2>1 DEF DisconnectEvent, ci, idents, roster, counters
    <3>2. QED
      BY <2>1, <3>1 DEF Linked, ListsMatchSlots, PeersMatchSlots, Fresh, EmptySlotsAlike, TypeOK
  <2>2. CASE peerdata[p] # NoSlot
    <3>1. {peerdata[p]} \in SUBSET Slots
      BY <2>2 DEF TypeOK
    <3>2. Departs({peerdata[p]}, "free") /\ created' = created
      BY <1>3, <2>2, DisconnectDeparts DEF DisconnectEvent, Drop, counters
    <3>3. QED
      BY <1>t, <3>1, <3>2, DepartsLinked
  <2>3. QED
    BY <2>1, <2>2
<1>4. ASSUME NEW p \in Peers, NEW a \in Addresses, ConnectEvent(p, a) PROVE Linked'
  BY <1>4, ConnectLinked
<1>5. ASSUME NEW i \in connects \cup clients, Joins(i) PROVE Linked'
  <2>1. connects' = connects \ {i} /\ clients' = clients \cup {i}
    BY <1>5 DEF Joins, Joined
  <2>2. UNCHANGED <<peerstate, peerdata, slotinfo, slotpeer, num, created>>
    BY <1>5 DEF Joins, links
  <2>3. QED
    BY <2>1, <2>2 DEF Linked, ListsMatchSlots, PeersMatchSlots, Fresh, EmptySlotsAlike
<1>6. ASSUME NEW N \in SUBSET Slots, Leaves(N) PROVE Linked'
  BY <1>t, <1>6, DepartsLinked DEF Leaves
<1>7. QED
  BY <1>1, <1>2, <1>3, <1>4, <1>5, <1>6 DEF LinkStep

LEMMA LinkedInit == Init => Linked
<1> SUFFICES ASSUME Init PROVE Linked
  OBVIOUS
<1>1. connects = {} /\ clients = {} /\ \A n \in Slots : slotinfo[n] = NoInfo /\ slotpeer[n] = NoPeer
  BY DEF Init
<1>2. \A p \in Peers : peerstate[p] = "free" /\ peerdata[p] = NoSlot
  BY DEF Init
<1>3. QED
  BY <1>1, <1>2 DEF Linked, ListsMatchSlots, PeersMatchSlots, Fresh, EmptySlotsAlike

LEMMA LinkedAlways == Spec => []Linked
  BY LinkedInit, LinkedStep, TypeCorrect, PTL DEF Spec

\* Peers, client numbers, clientinfos and the two lists always agree: no list or
\* peer keeps a pointer to a session that is gone (disconnect_client, delclient,
\* clientdisconnect).
THEOREM LinksHold == Spec => []LinksMatch
  BY LinkedAlways, PTL DEF Linked, LinksMatch

\* A connecting peer always finds a free client number, however sessions came
\* and went before: addclient never needs more numbers than the host has peers.
SlotForEveryPeer == \A p \in Peers : peerstate[p] # "up" => \E n \in Slots : slotinfo[n] = NoInfo

THEOREM NumbersSuffice == Spec => []SlotForEveryPeer
<1>1. TypeOK /\ Linked => SlotForEveryPeer
  <2> SUFFICES ASSUME TypeOK, Linked, NEW p \in Peers, peerstate[p] # "up",
                      \A n \in Slots : slotinfo[n] # NoInfo
               PROVE  FALSE
    BY DEF SlotForEveryPeer
  <2> DEFINE others == Peers \ {p}
             peer == [n \in Slots |-> slotpeer[n]]
  <2>1. IsFiniteSet(others) /\ Cardinality(others) = Cardinality(Peers) - 1
    BY PeersAssumption, FS_RemoveElement
  <2>2. IsFiniteSet(Slots) /\ Cardinality(Slots) = Cardinality(Peers) /\ Cardinality(Peers) \in Nat
    <3>1. Cardinality(Peers) \in Nat
      BY PeersAssumption, FS_CardinalityType
    <3>2. Cardinality(Peers) # 0
      BY PeersAssumption, FS_EmptySet
    <3>3. /\ IsFiniteSet(0 .. Cardinality(Peers) - 1)
          /\ Cardinality(0 .. Cardinality(Peers) - 1) = Cardinality(Peers)
      BY <3>1, <3>2, FS_Interval, SMTT(60)
    <3>4. QED
      BY <3>1, <3>3 DEF Slots
  <2>3. peerdata[p] = NoSlot
    BY DEF Linked, PeersMatchSlots
  <2>4. \A n \in Slots : slotpeer[n] \in others /\ peerdata[slotpeer[n]] = n
    BY <2>3, SlotsAreNumbers DEF Linked, PeersMatchSlots
  <2>5. peer \in [Slots -> others]
    BY <2>4
  <2>6. \E m, n \in Slots : m # n /\ peer[m] = peer[n]
    <3>1. Cardinality(others) < Cardinality(Slots)
      BY <2>1, <2>2
    <3> HIDE DEF others, peer
    <3>2. QED
      BY <2>1, <2>2, <2>5, <3>1, FS_PigeonHole
  <2>7. QED
    BY <2>4, <2>6
<1>2. QED
  BY <1>1, TypeCorrect, LinkedAlways, PTL

-----------------------------------------------------------------------------
(***************************************************************************)
(* Pending requests: whom an authenticated kick names, and what a client   *)
(* that waits for an answer waits for.                                     *)
(***************************************************************************)
\* The client a kick names was there when the kick was asked for.
KickTargets == \A i \in clients : auth[i].victim # NoSlot => auth[i].target # NoInfo

\* Only sessions have requests.
OutsidersIdle == \A i \in Infos \ (connects \cup clients) : auth[i] = NoAuth /\ ~connectauth[i]

\* A connecting client authenticates with a local key, on its own account.
ConnectsLocal == \A i \in connects : auth[i].victim = NoSlot /\ auth[i].dom = "local"

Named == /\ AuthKickNamesSession /\ KickTargets /\ OutsidersIdle /\ ConnectsLocal
         /\ ConnectAuthPending

\* The master server is never asked on account of a client that has not joined.
AskersJoined == \A r \in DOMAIN mreq : mreq[r].stage # "none" =>
                  mreq[r].asker \notin connects /\ mreq[r].asker <= created

\* Request numbers are not used twice.
NumbersUsed ==
  /\ \A i \in Infos : auth[i].authreq < nextauthreq
  /\ \A r \in DOMAIN mreq : mreq[r].stage # "none" => r < nextauthreq

Requested == AuthRequestsLive /\ AskersJoined /\ NumbersUsed
-----------------------------------------------------------------------------
(* Named: what each kind of step does to the kicks and challenges. *)

LEMMA NoAuthFields ==
  NoAuth.authreq = 0 /\ NoAuth.dom = "local" /\ NoAuth.victim = NoSlot
  BY DEF NoAuth

\* A departure forgets the requests of those who go, and every kick that names them.
LEMMA DisconnectNamed ==
  ASSUME SessionType, Named, NEW N \in SUBSET Slots, NEW how, NEW banned, NEW allowed, NEW paused,
         Disconnect(N, how, banned, allowed, paused)
  PROVE  Named'
<1> DEFINE gone == {slotinfo[n] : n \in N}
<1>1. clients' = clients \ gone /\ connects' = connects \ gone
  BY DEF Disconnect
<1>2. slotinfo' = [n \in Slots |-> IF n \in N THEN NoInfo ELSE slotinfo[n]]
  BY DEF Disconnect, DelClient
<1>3. auth' = [i \in Infos |-> IF i \in gone \/ (i \in clients /\ auth[i].victim \in N)
                               THEN NoAuth ELSE auth[i]]
  BY DEF Disconnect, CancelKicks
<1>4. connectauth' = [i \in Infos |-> IF i \in gone THEN FALSE ELSE connectauth[i]]
  BY DEF Disconnect
<1>5. connects \subseteq Infos /\ clients \subseteq Infos
  BY DEF SessionType
<1>6. AuthKickNamesSession'
  <2> SUFFICES ASSUME NEW i \in clients', auth'[i].victim # NoSlot
               PROVE  auth'[i].authreq # 0 /\ slotinfo'[auth'[i].victim] = auth'[i].target
    BY DEF AuthKickNamesSession
  <2>1. i \in clients /\ i \in Infos /\ auth'[i] = auth[i] /\ auth[i].victim \notin N
    BY <1>1, <1>3, <1>5, NoAuthFields
  <2>2. auth[i].victim \in Slots
    BY <2>1 DEF SessionType, AuthState
  <2>3. auth[i].authreq # 0 /\ slotinfo[auth[i].victim] = auth[i].target
    BY <2>1 DEF Named, AuthKickNamesSession
  <2>4. QED
    BY <1>2, <2>1, <2>2, <2>3
<1>7. KickTargets'
  <2> SUFFICES ASSUME NEW i \in clients', auth'[i].victim # NoSlot PROVE auth'[i].target # NoInfo
    BY DEF KickTargets
  <2>1. i \in clients /\ i \in Infos /\ auth'[i] = auth[i]
    BY <1>1, <1>3, <1>5, NoAuthFields
  <2>2. QED
    BY <2>1 DEF Named, KickTargets
<1>8. OutsidersIdle'
  <2> SUFFICES ASSUME NEW i \in Infos, i \notin connects' \cup clients'
               PROVE  auth'[i] = NoAuth /\ ~connectauth'[i]
    BY DEF OutsidersIdle
  <2>1. CASE i \in gone
    BY <2>1, <1>3, <1>4
  <2>2. CASE i \notin gone
    <3>1. i \notin connects \cup clients
      BY <2>2, <1>1
    <3>2. auth[i] = NoAuth /\ ~connectauth[i]
      BY <3>1 DEF Named, OutsidersIdle
    <3>3. QED
      BY <2>2, <3>1, <3>2, <1>3, <1>4
  <2>3. QED
    BY <2>1, <2>2
<1>9. ConnectsLocal'
  <2> SUFFICES ASSUME NEW i \in connects' PROVE auth'[i].victim = NoSlot /\ auth'[i].dom = "local"
    BY DEF ConnectsLocal
  <2>1. i \in connects /\ i \in Infos /\ auth[i].victim = NoSlot /\ auth[i].dom = "local"
    BY <1>1, <1>5 DEF Named, ConnectsLocal
  <2>2. QED
    BY <2>1, <1>3, NoAuthFields
<1>10. ConnectAuthPending'
  <2> SUFFICES ASSUME NEW i \in connects' PROVE connectauth'[i] <=> auth'[i].authreq # 0
    BY DEF ConnectAuthPending
  <2>1. i \in connects /\ i \in Infos /\ i \notin gone
    BY <1>1, <1>5
  <2>2. connectauth[i] <=> auth[i].authreq # 0
    BY <2>1 DEF Named, ConnectAuthPending
  <2>3. auth'[i] = auth[i] \/ auth[i].victim \in N
    BY <1>3, <2>1
  <2>4. auth[i].victim = NoSlot
    BY <2>1 DEF Named, ConnectsLocal
  <2> HIDE DEF gone
  <2>5. connectauth'[i] = connectauth[i]
    BY <1>4, <2>1
  <2>6. auth'[i] = auth[i]
    BY <2>3, <2>4, SlotsAreNumbers
  <2>7. QED
    BY <2>2, <2>5, <2>6
<1>11. QED
  BY <1>6, <1>7, <1>8, <1>9, <1>10 DEF Named

\* A join without authentication: nothing was pending.
LEMMA JoinedNamed ==
  ASSUME SessionType, Named, NEW i \in connects \cup clients, Joined(i), slotinfo' = slotinfo,
         \/ auth' = auth /\ ~connectauth[i]
         \/ auth' = [auth EXCEPT ![i] = NoAuth]
  PROVE  Named'
<1>1. /\ connects' = connects \ {i} /\ clients' = clients \cup {i}
      /\ connectauth' = [connectauth EXCEPT ![i] = FALSE]
  BY DEF Joined
<1>2. connects \subseteq Infos /\ clients \subseteq Infos /\ i \in Infos /\ auth \in [Infos -> AuthState]
      /\ connectauth \in [Infos -> BOOLEAN]
  BY DEF SessionType
<1>3. \A j \in Infos : j # i => auth'[j] = auth[j] /\ connectauth'[j] = connectauth[j]
  BY <1>1, <1>2
<1>4. auth'[i] = auth[i] \/ auth'[i] = NoAuth
  BY <1>2
<1>5. i \in connects => auth'[i].victim = NoSlot
  BY <1>4, NoAuthFields DEF Named, ConnectsLocal
<1>6. AuthKickNamesSession' /\ KickTargets'
  BY <1>1, <1>2, <1>3, <1>4, <1>5, NoAuthFields DEF Named, AuthKickNamesSession, KickTargets
<1>7. OutsidersIdle'
  BY <1>1, <1>2, <1>3 DEF Named, OutsidersIdle
<1>8. ConnectsLocal' /\ ConnectAuthPending'
  BY <1>1, <1>2, <1>3 DEF Named, ConnectsLocal, ConnectAuthPending
<1>9. QED
  BY <1>6, <1>7, <1>8 DEF Named

\* Requests of joined clients are given up.
LEMMA ForgetNamed ==
  ASSUME SessionType, Named, UNCHANGED <<slotinfo, roster, connectauth>>,
         NEW S \in SUBSET Infos, \A i \in S : i \in clients \/ ~connectauth[i],
         auth' = [i \in Infos |-> IF i \in S THEN NoAuth ELSE auth[i]],
         connects \cap clients = {}
  PROVE  Named'
<1>1. connects \subseteq Infos /\ clients \subseteq Infos /\ UNCHANGED <<connects, clients>>
  BY DEF SessionType, roster
<1>2. \A i \in Infos : auth'[i] = auth[i] \/ auth'[i] = NoAuth
  OBVIOUS
<1>3. AuthKickNamesSession' /\ KickTargets'
  BY <1>1, <1>2, NoAuthFields DEF Named, AuthKickNamesSession, KickTargets
<1>4. OutsidersIdle' /\ ConnectsLocal'
  BY <1>1, <1>2, NoAuthFields DEF Named, OutsidersIdle, ConnectsLocal
<1>5. ConnectAuthPending'
  <2> SUFFICES ASSUME NEW i \in connects PROVE connectauth[i] <=> auth'[i].authreq # 0
    BY <1>1 DEF ConnectAuthPending
  <2>1. connectauth[i] <=> auth[i].authreq # 0
    BY DEF Named, ConnectAuthPending
  <2>2. CASE i \in S
    BY <1>1, <2>1, <2>2, NoAuthFields
  <2>3. CASE i \notin S
    BY <1>1, <2>1, <2>3
  <2>4. QED
    BY <2>2, <2>3
<1>6. QED
  BY <1>3, <1>4, <1>5 DEF Named

LEMMA ForgetOneNamed ==
  ASSUME SessionType, Named, UNCHANGED <<slotinfo, roster, connectauth>>,
         NEW i \in Infos, i \in clients \/ ~connectauth[i],
         auth' = [auth EXCEPT ![i] = NoAuth], connects \cap clients = {}
  PROVE  Named'
<1>1. auth' = [j \in Infos |-> IF j \in {i} THEN NoAuth ELSE auth[j]]
  BY DEF SessionType
<1>2. QED
  BY <1>1, ForgetNamed, {i} \in SUBSET Infos

LEMMA QuietNamed ==
  ASSUME Named, UNCHANGED <<slotinfo, roster, connectauth, auth>>
  PROVE  Named'
  BY DEF roster, Named, AuthKickNamesSession, KickTargets, OutsidersIdle, ConnectsLocal,
         ConnectAuthPending

\* A new session takes a number nobody's kick names.
LEMMA ConnectNamed ==
  ASSUME TypeOK, Linked, Named, NEW p \in Peers, NEW a \in Addresses, ConnectEvent(p, a)
  PROVE  Named'
<1> DEFINE i == created + 1
<1>1. i \in Infos /\ UNCHANGED <<auth, connectauth, clients>> /\ created \in Nat
  BY BoundsAssumption DEF ConnectEvent, TypeOK
<1>2. CASE mp
  <2>1. PICK n \in Slots : /\ slotinfo[n] = NoInfo
                           /\ slotinfo' = [slotinfo EXCEPT ![n] = i]
                           /\ connects' = connects \cup {i}
    BY <1>2 DEF ConnectEvent
  <2>2. i \notin connects \cup clients
    <3>1. \A j \in connects \cup clients : j <= created
      BY DEF Linked, Fresh
    <3>2. QED
      BY <1>1, <3>1
  <2>3. auth[i] = NoAuth /\ ~connectauth[i]
    BY <1>1, <2>2 DEF Named, OutsidersIdle
  <2> HIDE DEF i
  <2>4. AuthKickNamesSession'
    <3> SUFFICES ASSUME NEW j \in clients, auth[j].victim # NoSlot
                 PROVE  auth[j].authreq # 0 /\ slotinfo'[auth[j].victim] = auth[j].target
      BY <1>1 DEF AuthKickNamesSession
    <3>1. auth[j].victim \in Slots
      BY DEF TypeOK, AuthState
    <3>2. auth[j].authreq # 0 /\ slotinfo[auth[j].victim] = auth[j].target /\ auth[j].target # NoInfo
      BY DEF Named, AuthKickNamesSession, KickTargets
    <3>3. QED
      BY <2>1, <3>1, <3>2 DEF TypeOK
  <2>5. KickTargets'
    BY <1>1 DEF Named, KickTargets
  <2>6. OutsidersIdle' /\ ConnectsLocal'
    BY <1>1, <2>1, <2>3, NoAuthFields DEF Named, OutsidersIdle, ConnectsLocal
  <2>7. ConnectAuthPending'
    BY <1>1, <2>1, <2>3, NoAuthFields DEF Named, ConnectAuthPending
  <2>8. QED
    BY <2>4, <2>5, <2>6, <2>7 DEF Named
<1>3. CASE ~mp
  BY <1>1, <1>3, QuietNamed DEF ConnectEvent, roster
<1>4. QED
  BY <1>2, <1>3

\* A new request of a joined client; the client it is to kick, if any, is there.
LEMMA AskNamed ==
  ASSUME TypeOK, Named, NEW i \in clients, connects \cap clients = {},
         NEW n \in Slots \cup {NoSlot}, n # NoSlot => slotinfo[n] \in clients,
         NEW d, NEW k, UNCHANGED <<slotinfo, roster, connectauth>>,
         auth' = [auth EXCEPT ![i] = Request(nextauthreq, d, k, n)]
  PROVE  Named'
<1>1. /\ Request(nextauthreq, d, k, n).authreq # 0
      /\ Request(nextauthreq, d, k, n).victim = n
      /\ n # NoSlot => Request(nextauthreq, d, k, n).target = slotinfo[n]
  BY BoundsAssumption DEF TypeOK, Request
<1>2. /\ i \in Infos /\ auth \in [Infos -> AuthState] /\ connects \subseteq Infos /\ clients \subseteq Infos
      /\ i \notin connects /\ UNCHANGED <<connects, clients>>
  BY DEF TypeOK, roster
<1>3. auth'[i] = Request(nextauthreq, d, k, n) /\ \A j \in Infos : j # i => auth'[j] = auth[j]
  BY <1>2
<1>4. AuthKickNamesSession' /\ KickTargets'
  BY <1>1, <1>2, <1>3, NoInfoOutside DEF Named, AuthKickNamesSession, KickTargets
<1>5. OutsidersIdle' /\ ConnectsLocal'
  BY <1>2, <1>3 DEF Named, OutsidersIdle, ConnectsLocal
<1>6. ConnectAuthPending'
  BY <1>2, <1>3 DEF Named, ConnectAuthPending
<1>7. QED
  BY <1>4, <1>5, <1>6 DEF Named

\* The challenge of a connecting client.
LEMMA ChallengeNamed ==
  ASSUME TypeOK, Named, NEW i \in connects, connects \cap clients = {},
         NEW k, UNCHANGED <<slotinfo, roster>>,
         connectauth' = [connectauth EXCEPT ![i] = TRUE],
         auth' = [auth EXCEPT ![i] = Request(nextauthreq, "local", k, NoSlot)]
  PROVE  Named'
<1> DEFINE R == Request(nextauthreq, "local", k, NoSlot)
<1>1. R.authreq # 0 /\ R.victim = NoSlot /\ R.dom = "local"
  BY BoundsAssumption DEF TypeOK, Request
<1>2. /\ i \in Infos /\ auth \in [Infos -> AuthState] /\ connects \subseteq Infos /\ clients \subseteq Infos
      /\ i \notin clients /\ UNCHANGED <<connects, clients>> /\ connectauth \in [Infos -> BOOLEAN]
  BY DEF TypeOK, roster
<1> HIDE DEF R
<1>3. auth'[i] = R /\ \A j \in Infos : j # i => auth'[j] = auth[j]
  BY <1>2 DEF R
<1>4. connectauth'[i] /\ \A j \in Infos : j # i => connectauth'[j] = connectauth[j]
  BY <1>2
<1>5. AuthKickNamesSession' /\ KickTargets'
  BY <1>1, <1>2, <1>3 DEF Named, AuthKickNamesSession, KickTargets
<1>6. OutsidersIdle' /\ ConnectsLocal'
  BY <1>1, <1>2, <1>3, <1>4 DEF Named, OutsidersIdle, ConnectsLocal
<1>7. ConnectAuthPending'
  BY <1>1, <1>2, <1>3, <1>4 DEF Named, ConnectAuthPending
<1>8. QED
  BY <1>5, <1>6, <1>7 DEF Named
-----------------------------------------------------------------------------
(* Requested: requests and what the master server was asked. *)

LEMMA AskerIsNat == ASSUME NEW q \in MasterRequest PROVE q.asker \in Nat
<1>1. q.asker \in (1 .. MaxInfos) \cup {0}
  BY DEF MasterRequest, Infos, NoInfo
<1>2. QED
  BY <1>1, BoundsAssumption

\* Nothing new is asked: requests and askers only go, and the requests that stay
\* are still being carried.
LEMMA FewerRequested ==
  ASSUME TypeOK, TypeOK', Requested,
         \A i \in Infos : auth'[i] = auth[i] \/ auth'[i] = NoAuth,
         \A i \in clients' \cup connects' : i \in clients \cup connects \/ auth'[i] = NoAuth,
         \A i \in clients' : auth'[i].authreq # 0 /\ auth'[i].dom = "global" =>
           i \in clients /\ mastersock' # "none" /\ mreq'[auth[i].authreq].stage # "none",
         \A i \in connects' : i \in connects \/ i > created,
         created' >= created, nextauthreq' >= nextauthreq,
         \A r \in 1 .. MaxReq : mreq'[r].stage # "none" =>
           mreq[r].stage # "none" /\ mreq'[r].asker = mreq[r].asker
  PROVE  Requested'
<1>1. /\ clients \subseteq Infos /\ connects \subseteq Infos /\ clients' \subseteq Infos
      /\ connects' \subseteq Infos /\ DOMAIN mreq = 1 .. MaxReq /\ DOMAIN mreq' = 1 .. MaxReq
      /\ created \in Nat /\ created' \in Nat /\ nextauthreq \in Nat /\ nextauthreq' \in Nat
      /\ nextauthreq > 0
  BY BoundsAssumption DEF TypeOK
<1>2. \A i \in Infos : auth[i].authreq \in 0 .. MaxReq
  BY DEF TypeOK, AuthState
<1>3. ASSUME NEW i \in clients', auth'[i].authreq # 0, auth'[i].dom = "global"
      PROVE  /\ mastersock' # "none"
             /\ mreq'[auth'[i].authreq].stage # "none"
             /\ mreq'[auth'[i].authreq].asker = i
  <2>1. i \in clients /\ i \in Infos /\ auth'[i] = auth[i] /\ mastersock' # "none"
        /\ mreq'[auth[i].authreq].stage # "none"
    BY <1>1, <1>3, NoAuthFields
  <2>2. auth[i].authreq \in 1 .. MaxReq
    BY <1>2, <1>3, <2>1, BoundsAssumption
  <2>3. mreq[auth[i].authreq].asker = i
    BY <1>3, <2>1 DEF Requested, AuthRequestsLive
  <2>4. QED
    BY <2>1, <2>2, <2>3
<1>4. ASSUME NEW r \in 1 .. MaxReq, mreq'[r].stage # "none"
      PROVE  Holder(r)' \subseteq {mreq'[r].asker}
  <2>1. Holder(r) \subseteq {mreq[r].asker} /\ mreq'[r].asker = mreq[r].asker
    BY <1>1, <1>4 DEF Requested, AuthRequestsLive
  <2>2. ASSUME NEW i \in Holder(r)' PROVE i \in Holder(r)
    BY <1>1, <2>2, NoAuthFields DEF Holder
  <2>3. QED
    BY <2>1, <2>2
<1>5. AuthRequestsLive'
  BY <1>1, <1>3, <1>4 DEF AuthRequestsLive
<1>6. AskersJoined'
  <2> SUFFICES ASSUME NEW r \in 1 .. MaxReq, mreq'[r].stage # "none"
               PROVE  mreq'[r].asker \notin connects' /\ mreq'[r].asker <= created'
    BY <1>1 DEF AskersJoined
  <2>1. mreq[r].asker \notin connects /\ mreq[r].asker <= created
        /\ mreq'[r].asker = mreq[r].asker
    BY <1>1 DEF Requested, AskersJoined
  <2>2. mreq[r].asker \in Nat
    <3>1. mreq[r] \in MasterRequest
      BY DEF TypeOK
    <3>2. QED
      BY <3>1, AskerIsNat
  <2>3. QED
    BY <1>1, <2>1, <2>2, NoInfoOutside
<1>7. NumbersUsed'
  <2>1. \A i \in Infos : auth'[i].authreq < nextauthreq'
    BY <1>1, <1>2, NoAuthFields DEF Requested, NumbersUsed
  <2>2. \A r \in 1 .. MaxReq : mreq'[r].stage # "none" => r < nextauthreq'
    BY <1>1 DEF Requested, NumbersUsed
  <2>3. QED
    BY <1>1, <2>1, <2>2 DEF NumbersUsed
<1>8. QED
  BY <1>5, <1>6, <1>7 DEF Requested

\* The same when the master link stays as it is, or comes up.
LEMMA KeptRequested ==
  ASSUME TypeOK, TypeOK', Requested, mreq' = mreq,
         mastersock # "none" => mastersock' # "none",
         \A i \in Infos : auth'[i] = auth[i] \/ auth'[i] = NoAuth,
         \A i \in clients' \cup connects' : i \in clients \cup connects \/ auth'[i] = NoAuth,
         \A i \in clients' : i \in clients \/ auth'[i].dom = "local",
         \A i \in connects' : i \in connects \/ i > created,
         created' >= created, nextauthreq' >= nextauthreq
  PROVE  Requested'
<1>1. \A i \in clients' : auth'[i].authreq # 0 /\ auth'[i].dom = "global" =>
        i \in clients /\ mastersock' # "none" /\ mreq'[auth[i].authreq].stage # "none"
  <2> SUFFICES ASSUME NEW i \in clients', auth'[i].authreq # 0, auth'[i].dom = "global"
               PROVE  i \in clients /\ mastersock' # "none" /\ mreq[auth[i].authreq].stage # "none"
    OBVIOUS
  <2>1. i \in clients /\ i \in Infos /\ auth'[i] = auth[i]
    BY NoAuthFields DEF TypeOK
  <2>2. QED
    BY <2>1 DEF Requested, AuthRequestsLive
<1>2. QED
  BY <1>1, FewerRequested

\* A new request gets a number nobody used.
LEMMA AskRequested ==
  ASSUME TypeOK, TypeOK', Requested, NEW i \in clients \cup connects, NEW R,
         R.authreq = nextauthreq, nextauthreq <= MaxReq, auth' = [auth EXCEPT ![i] = R],
         nextauthreq' = nextauthreq + 1,
         \/ R.dom = "local" /\ UNCHANGED <<mreq, mastersock>>
         \/ /\ i \in clients \ connects /\ i <= created /\ mastersock' # "none"
            /\ mreq' = [mreq EXCEPT ![nextauthreq] = [stage |-> "req", asker |-> i]],
         UNCHANGED <<roster, created>>
  PROVE  Requested'
<1>1. /\ clients \subseteq Infos /\ connects \subseteq Infos /\ i \in Infos
      /\ UNCHANGED <<clients, connects>> /\ DOMAIN mreq = 1 .. MaxReq /\ DOMAIN mreq' = 1 .. MaxReq
      /\ nextauthreq \in 1 .. MaxReq
  BY BoundsAssumption DEF TypeOK, roster
<1>2. auth'[i] = R /\ \A j \in Infos : j # i => auth'[j] = auth[j]
  BY <1>1 DEF TypeOK
<1>3. \A j \in Infos : auth[j].authreq \in 0 .. MaxReq /\ auth[j].authreq < nextauthreq
  BY DEF TypeOK, AuthState, Requested, NumbersUsed
<1>4. \A r \in 1 .. MaxReq : r # nextauthreq => mreq'[r] = mreq[r]
  BY <1>1 DEF TypeOK
<1>5. mreq[nextauthreq].stage = "none"
  BY <1>1 DEF Requested, NumbersUsed
<1>6. ASSUME NEW j \in clients, auth'[j].authreq # 0, auth'[j].dom = "global"
      PROVE  /\ mastersock' # "none"
             /\ mreq'[auth'[j].authreq].stage # "none"
             /\ mreq'[auth'[j].authreq].asker = j
  <2>1. CASE j = i
    BY <1>1, <1>2, <1>6, <2>1 DEF TypeOK
  <2>2. CASE j # i
    <3>1. j \in Infos /\ auth'[j] = auth[j] /\ auth[j].authreq \in 1 .. MaxReq
          /\ auth[j].authreq # nextauthreq
      BY <1>1, <1>2, <1>3, <1>6, <2>2, BoundsAssumption
    <3>2. /\ mastersock # "none"
          /\ mreq[auth[j].authreq].stage # "none"
          /\ mreq[auth[j].authreq].asker = j
      BY <3>1, <1>6 DEF Requested, AuthRequestsLive
    <3>3. QED
      BY <3>1, <3>2, <1>4
  <2>3. QED
    BY <2>1, <2>2
<1>7. ASSUME NEW r \in 1 .. MaxReq, mreq'[r].stage # "none"
      PROVE  Holder(r)' \subseteq {mreq'[r].asker}
  <2>1. CASE r = nextauthreq
    <3>1. mreq'[r].asker = i
      BY <1>1, <1>5, <1>7, <2>1 DEF TypeOK
    <3>2. QED
      BY <1>1, <1>2, <1>3, <2>1, <3>1 DEF Holder
  <2>2. CASE r # nextauthreq
    <3>1. Holder(r) \subseteq {mreq[r].asker} /\ mreq'[r] = mreq[r]
      BY <1>1, <1>4, <1>7, <2>2 DEF Requested, AuthRequestsLive
    <3>2. Holder(r)' \subseteq Holder(r)
      BY <1>1, <1>2, <2>2 DEF Holder
    <3>3. QED
      BY <3>1, <3>2
  <2>3. QED
    BY <2>1, <2>2
<1>8. AuthRequestsLive'
  BY <1>1, <1>6, <1>7 DEF AuthRequestsLive
<1>9. AskersJoined'
  <2> SUFFICES ASSUME NEW r \in 1 .. MaxReq, mreq'[r].stage # "none"
               PROVE  mreq'[r].asker \notin connects /\ mreq'[r].asker <= created
    BY <1>1 DEF AskersJoined
  <2>1. CASE r = nextauthreq
    BY <1>1, <1>5, <2>1 DEF TypeOK
  <2>2. CASE r # nextauthreq
    BY <1>1, <1>4, <2>2 DEF Requested, AskersJoined
  <2>3. QED
    BY <2>1, <2>2
<1>10. NumbersUsed'
  <2>1. \A j \in Infos : auth'[j].authreq < nextauthreq'
    BY <1>1, <1>2, <1>3
  <2>2. \A r \in 1 .. MaxReq : mreq'[r].stage # "none" => r < nextauthreq'
    BY <1>1, <1>4 DEF Requested, NumbersUsed
  <2>3. QED
    BY <1>1, <2>1, <2>2 DEF NumbersUsed
<1>11. QED
  BY <1>8, <1>9, <1>10 DEF Requested

LEMMA AnswerRequested ==
  ASSUME TypeOK, TypeOK', ListsMatchSlots, Requested, Named, NEW i \in clients \cup connects,
         AnswerMaster(i)
  PROVE  Requested'
<1> DEFINE r == auth[i].authreq
<1>1. /\ clients \subseteq Infos /\ connects \subseteq Infos /\ i \in Infos
      /\ UNCHANGED <<clients, connects, nextauthreq, created>>
      /\ created \in Nat /\ nextauthreq \in Nat /\ r \in 0 .. MaxReq
      /\ connects \cap clients = {}
  BY BoundsAssumption DEF AnswerMaster, TypeOK, roster, counters, AuthState, ListsMatchSlots
<1>2. i \in clients /\ (r = 0 \/ auth[i].dom = "global")
  BY DEF AnswerMaster, MayAnswer, Named, ConnectsLocal, ConnectAuthPending
<1>3. r # 0 => mreq[r].stage # "none" /\ mreq[r].asker = i
  BY <1>2 DEF Requested, AuthRequestsLive
<1>4. PICK ok \in BOOLEAN :
        /\ RequestMaster(ok)
        /\ mreq' = [q \in DOMAIN mreq |->
                      IF ok /\ q = auth[i].authreq THEN [stage |-> "conf", asker |-> i] ELSE mreq[q]]
        /\ auth' = [auth EXCEPT ![i] = IF ok THEN auth[i] ELSE NoAuth]
  BY DEF AnswerMaster
<1>5. mastersock # "none" => mastersock' # "none"
  BY <1>4 DEF RequestMaster
<1>6. \A q \in 1 .. MaxReq : mreq'[q].stage # "none" =>
        mreq[q].stage # "none" /\ mreq'[q].asker = mreq[q].asker
  BY <1>3, <1>4 DEF TypeOK
<1>7. \A q \in 1 .. MaxReq : mreq[q].stage # "none" => mreq'[q].stage # "none"
  BY <1>3, <1>4 DEF TypeOK
<1>8. \A j \in Infos : auth'[j] = auth[j] \/ auth'[j] = NoAuth
  BY <1>1, <1>4 DEF TypeOK
<1>9. \A j \in clients : auth'[j].authreq # 0 /\ auth'[j].dom = "global" =>
        mastersock' # "none" /\ mreq'[auth[j].authreq].stage # "none"
  <2> SUFFICES ASSUME NEW j \in clients, auth'[j].authreq # 0, auth'[j].dom = "global"
               PROVE  mastersock' # "none" /\ mreq'[auth[j].authreq].stage # "none"
    OBVIOUS
  <2>1. auth'[j] = auth[j] /\ auth[j].authreq \in 1 .. MaxReq
    BY <1>1, <1>8, NoAuthFields, BoundsAssumption DEF TypeOK, AuthState
  <2>2. QED
    BY <2>1, <1>5, <1>7 DEF Requested, AuthRequestsLive
<1>10. QED
  BY <1>1, <1>6, <1>8, <1>9, FewerRequested
-----------------------------------------------------------------------------
(* The steps *)

Pending == Named /\ Requested

\* Departures touch no request but those they cancel.
LEMMA DisconnectPending ==
  ASSUME TypeOK, TypeOK', Pending, NEW N \in SUBSET Slots, NEW how, NEW banned, NEW allowed,
         NEW paused, Disconnect(N, how, banned, allowed, paused), UNCHANGED <<counters, masterlink>>
  PROVE  Pending'
<1>t. SessionType
  BY TypeParts
<1>1. clients' \subseteq clients /\ connects' \subseteq connects
  BY DEF Disconnect
<1>2. \A i \in Infos : auth'[i] = auth[i] \/ auth'[i] = NoAuth
  BY DEF Disconnect, CancelKicks
<1>3. UNCHANGED <<created, nextauthreq, mreq, mastersock>> /\ created \in Nat /\ nextauthreq \in Nat
  BY BoundsAssumption DEF counters, masterlink, TypeOK
<1>4. Requested'
  BY <1>1, <1>2, <1>3, KeptRequested DEF Pending
<1>5. QED
  BY <1>t, <1>4, DisconnectNamed DEF Pending

LEMMA KickPending ==
  ASSUME TypeOK, TypeOK', ListsMatchSlots, Pending, NEW a, NEW actor, NEW p,
         KickAddress(a, actor, p), UNCHANGED <<counters, masterlink>>
  PROVE  Pending'
<1>1. KickSet(a, actor, p) \in SUBSET Slots
  BY DEF KickSet, ListsMatchSlots
<1>2. QED
  BY <1>1, DisconnectPending DEF KickAddress

LEMMA OnePending ==
  ASSUME TypeOK, TypeOK', ListsMatchSlots, Pending, NEW i \in connects \cup clients, NEW how,
         NEW banned, NEW allowed, NEW paused,
         Disconnect({num[i]}, how, banned, allowed, paused), UNCHANGED <<counters, masterlink>>
  PROVE  Pending'
<1>1. {num[i]} \in SUBSET Slots
  BY DEF ListsMatchSlots
<1>2. QED
  BY <1>1, DisconnectPending

\* Nobody's request changes.
LEMMA QuietPending ==
  ASSUME TypeOK, TypeOK', Pending, UNCHANGED <<slotinfo, roster, connectauth, auth, counters, mreq>>,
         mastersock # "none" => mastersock' # "none"
  PROVE  Pending'
<1>1. UNCHANGED <<clients, connects, created, nextauthreq>> /\ created \in Nat /\ nextauthreq \in Nat
  BY BoundsAssumption DEF roster, counters, TypeOK
<1>2. QED
  BY <1>1, QuietNamed, KeptRequested DEF Pending

\* The request of i is given up, for a reason other than the master server's.
LEMMA ForgetOnePending ==
  ASSUME TypeOK, TypeOK', ListsMatchSlots, Pending, NEW i \in connects \cup clients,
         i \in clients \/ ~connectauth[i], auth' = [auth EXCEPT ![i] = NoAuth],
         UNCHANGED <<slotinfo, roster, connectauth, created, masterlink>>,
         nextauthreq' >= nextauthreq
  PROVE  Pending'
<1>t. SessionType /\ i \in Infos /\ connects \cap clients = {}
  BY TypeParts DEF TypeOK, ListsMatchSlots
<1>1. Named'
  BY <1>t, ForgetOneNamed DEF Pending
<1>2. \A j \in Infos : auth'[j] = auth[j] \/ auth'[j] = NoAuth
  BY DEF TypeOK
<1>3. UNCHANGED <<clients, connects, mreq, mastersock>> /\ created \in Nat
  BY BoundsAssumption DEF roster, masterlink, TypeOK
<1>4. Requested'
  BY <1>2, <1>3, KeptRequested DEF Pending
<1>5. QED
  BY <1>1, <1>4 DEF Pending

LEMMA JoinedPending ==
  ASSUME TypeOK, TypeOK', Pending, NEW i \in connects \cup clients, Joined(i), slotinfo' = slotinfo,
         \/ auth' = auth /\ i \in connects /\ ~connectauth[i]
         \/ auth' = [auth EXCEPT ![i] = NoAuth],
         UNCHANGED <<counters, masterlink>>
  PROVE  Pending'
<1>t. SessionType /\ i \in Infos
  BY TypeParts DEF TypeOK
<1>1. Named'
  BY <1>t, JoinedNamed DEF Pending
<1>2. clients' = clients \cup {i} /\ connects' = connects \ {i}
  BY DEF Joined
<1>3. \A j \in Infos : auth'[j] = auth[j] \/ auth'[j] = NoAuth
  BY DEF TypeOK
<1>4. i \in clients \/ auth'[i].dom = "local"
  <2>1. CASE auth' = auth /\ i \in connects
    BY <2>1 DEF Pending, Named, ConnectsLocal
  <2>2. CASE auth' = [auth EXCEPT ![i] = NoAuth]
    BY <1>t, <2>2, NoAuthFields DEF TypeOK
  <2>3. QED
    BY <2>1, <2>2
<1>5. UNCHANGED <<created, nextauthreq, mreq, mastersock>> /\ created \in Nat /\ nextauthreq \in Nat
  BY BoundsAssumption DEF counters, masterlink, TypeOK
<1>6. Requested'
  BY <1>2, <1>3, <1>4, <1>5, KeptRequested DEF Pending
<1>7. QED
  BY <1>1, <1>6 DEF Pending

\* A verdict settles one request: its holder's, if it is still there.
LEMMA VerdictRequested ==
  ASSUME TypeOK, TypeOK', Requested, NEW r \in 1 .. MaxReq, NEW S \in SUBSET Infos,
         mreq[r].stage # "none", mreq' = [mreq EXCEPT ![r] = NoRequest],
         mastersock' = mastersock, mastersock = "up",
         Holder(r) \subseteq S \/ Holder(r) = {},
         \A i \in Infos : auth'[i] = auth[i] \/ auth'[i] = NoAuth,
         \A i \in S : i \in clients' => auth'[i] = NoAuth,
         clients' \subseteq clients, connects' \subseteq connects, UNCHANGED counters
  PROVE  Requested'
<1>1. \A q \in 1 .. MaxReq : mreq'[q].stage # "none" =>
        mreq[q].stage # "none" /\ mreq'[q].asker = mreq[q].asker
  BY DEF TypeOK, NoRequest
<1>2. UNCHANGED <<created, nextauthreq>> /\ created \in Nat /\ nextauthreq \in Nat
  BY BoundsAssumption DEF counters, TypeOK
<1>3. ASSUME NEW i \in clients', auth'[i].authreq # 0, auth'[i].dom = "global"
      PROVE  i \in clients /\ mastersock' # "none" /\ mreq'[auth[i].authreq].stage # "none"
  <2>1. i \in clients /\ i \in Infos /\ auth'[i] = auth[i] /\ auth[i].authreq \in 1 .. MaxReq
    BY <1>3, NoAuthFields, BoundsAssumption DEF TypeOK, AuthState
  <2>2. auth[i].authreq # r
    BY <1>3, <2>1, NoAuthFields DEF Holder
  <2>3. mreq[auth[i].authreq].stage # "none"
    BY <1>3, <2>1 DEF Requested, AuthRequestsLive
  <2>4. QED
    BY <2>1, <2>2, <2>3 DEF TypeOK
<1>4. QED
  BY <1>1, <1>2, <1>3, FewerRequested

LEMMA AuthenticatedPending ==
  ASSUME TypeOK, TypeOK', ListsMatchSlots, Pending, NEW i \in connects \cup clients, NEW want,
         i \in clients \/ ~connectauth[i], Authenticated(i, want),
         UNCHANGED <<counters, masterlink>>
  PROVE  Pending'
<1>1. CASE TryKick(i, auth[i].victim, Larger(priv[i], want))
  BY <1>1, KickPending DEF TryKick
<1>2. CASE auth' = [auth EXCEPT ![i] = NoAuth] /\ UNCHANGED <<links, connectauth, roster>>
  <2>1. created' = created /\ nextauthreq' >= nextauthreq /\ slotinfo' = slotinfo
    BY <1>2, BoundsAssumption DEF links, counters, TypeOK
  <2>2. QED
    BY <1>2, <2>1, ForgetOnePending DEF counters
<1>3. QED
  BY <1>1, <1>2 DEF Authenticated

LEMMA RefusedPending ==
  ASSUME TypeOK, TypeOK', ListsMatchSlots, Pending, NEW i \in connects \cup clients,
         AuthRefused(i), UNCHANGED <<counters, masterlink>>
  PROVE  Pending'
<1>1. CASE connectauth[i]
  BY <1>1, OnePending DEF AuthRefused
<1>2. CASE ~connectauth[i]
  <2>1. auth' = [auth EXCEPT ![i] = NoAuth] /\ UNCHANGED <<slotinfo, roster, connectauth>>
    BY <1>2 DEF AuthRefused, links
  <2>2. created' = created /\ nextauthreq' >= nextauthreq
    BY BoundsAssumption DEF counters, TypeOK
  <2>3. QED
    BY <1>2, <2>1, <2>2, ForgetOnePending
<1>3. QED
  BY <1>1, <1>2

\* What a verdict does to the lists and the requests of its holder.
LEMMA VerdictPending ==
  ASSUME TypeOK, TypeOK', ListsMatchSlots, Pending, NEW r \in 1 .. MaxReq, NEW succ \in BOOLEAN,
         MasterVerdict(r, succ)
  PROVE  Pending'
<1>t. SessionType /\ connects \cap clients = {} /\ clients \subseteq Infos /\ connects \subseteq Infos
  BY TypeParts DEF TypeOK, ListsMatchSlots
<1>1. /\ mastersock = "up" /\ mastersock' = mastersock /\ mreq[r].stage # "none"
      /\ mreq' = [mreq EXCEPT ![r] = NoRequest] /\ UNCHANGED counters
  BY DEF MasterVerdict
<1>2. CASE Holder(r) = {} /\ UNCHANGED <<links, ci, roster>>
  <2>1. UNCHANGED <<slotinfo, clients, connects, roster, connectauth, auth>>
    BY <1>2 DEF links, ci, roster
  <2>2. Named'
    BY <2>1, QuietNamed DEF Pending
  <2>3. Requested'
    <3>1. {} \in SUBSET Infos
      OBVIOUS
    <3>2. QED
      BY <1>1, <1>2, <2>1, <3>1, VerdictRequested DEF Pending
  <2>4. QED
    BY <2>2, <2>3 DEF Pending
<1>3. ASSUME NEW i \in Holder(r), IF succ THEN Authenticated(i, PRIV_AUTH) ELSE AuthRefused(i)
      PROVE  Pending'
  <2>1. i \in clients \cup connects /\ i \in Infos /\ auth[i].authreq = r
    BY <1>t DEF Holder
  <2>2. i = mreq[r].asker /\ i \notin connects /\ Holder(r) \subseteq {i}
    BY <1>1, <1>3 DEF Pending, Requested, AuthRequestsLive, AskersJoined, TypeOK
  <2>3. i \in clients
    BY <2>1, <2>2
  <2>4. ASSUME NEW N \in SUBSET Slots, NEW how, NEW banned, NEW allowed, NEW paused,
               Disconnect(N, how, banned, allowed, paused),
               num[i] \in N \/ auth[i].victim \in N
        PROVE  Pending'
    <3>1. Named'
      BY <1>t, <2>4, DisconnectNamed DEF Pending
    <3>2. \A j \in Infos : auth'[j] = auth[j] \/ auth'[j] = NoAuth
      BY <2>4 DEF Disconnect, CancelKicks
    <3>3. auth'[i] = NoAuth
      <4>1. slotinfo[num[i]] = i
        BY <2>3 DEF ListsMatchSlots
      <4>2. i \in {slotinfo[n] : n \in N} \/ auth[i].victim \in N
        BY <2>4, <4>1
      <4>3. QED
        BY <2>1, <2>3, <2>4, <4>2 DEF Disconnect, CancelKicks
    <3>4. clients' \subseteq clients /\ connects' \subseteq connects
      BY <2>4 DEF Disconnect
    <3>5. {i} \in SUBSET Infos
      BY <2>1
    <3>6. Requested'
      BY <1>1, <2>2, <3>2, <3>3, <3>4, <3>5, VerdictRequested DEF Pending
    <3>7. QED
      BY <3>1, <3>6 DEF Pending
  <2>5. CASE auth[i].victim # NoSlot /\ TryKick(i, auth[i].victim, Larger(priv[i], PRIV_AUTH))
    <3> DEFINE v == slotinfo[auth[i].victim]
               p == Larger(priv[i], PRIV_AUTH)
    <3>1. v \in clients /\ auth[i].victim # num[i] /\ p >= priv[v] /\ priv[v] < PRIV_ADMIN
          /\ KickAddress(ip[v], i, p)
      BY <2>5 DEF TryKick, CanKick
    <3>2. num[v] = auth[i].victim /\ v # i
      <4>1. v # NoInfo
        BY <1>t, <3>1, NoInfoOutside
      <4>2. auth[i].victim \in Slots
        BY <2>1, <2>5 DEF TypeOK, AuthState
      <4>3. num[v] = auth[i].victim
        BY <4>1, <4>2 DEF ListsMatchSlots
      <4>4. QED
        BY <3>1, <4>3
    <3>3. KickSet(ip[v], i, p) \in SUBSET Slots
      BY DEF KickSet, ListsMatchSlots
    <3>4. auth[i].victim \in KickSet(ip[v], i, p)
      <4>1. priv[v] <= p
        BY <1>t, <3>1, <2>1, LargerType, PrivTypes DEF SessionType, Privs, PRIV_NONE, PRIV_ADMIN
      <4>2. QED
        BY <3>1, <3>2, <4>1 DEF KickSet
    <3>5. QED
      BY <3>1, <3>3, <3>4, <2>4 DEF KickAddress
  <2>6. CASE auth' = [auth EXCEPT ![i] = NoAuth] /\ UNCHANGED <<links, connectauth, roster>>
    <3>1. UNCHANGED <<slotinfo, clients, connects, roster, connectauth>>
      BY <2>6 DEF links, roster
    <3>2. Named'
      BY <1>t, <2>1, <2>3, <2>6, <3>1, ForgetOneNamed DEF Pending
    <3>3. auth'[i] = NoAuth /\ \A j \in Infos : auth'[j] = auth[j] \/ auth'[j] = NoAuth
      BY <2>1, <2>6 DEF TypeOK
    <3>4. {i} \in SUBSET Infos
      BY <2>1
    <3>5. Requested'
      BY <1>1, <2>2, <3>1, <3>3, <3>4, VerdictRequested DEF Pending
    <3>6. QED
      BY <3>2, <3>5 DEF Pending
  <2>7. CASE Disconnect({num[i]}, "closing", bannedips, allowedips, gamepaused)
    <3>1. {num[i]} \in SUBSET Slots
      BY <2>3 DEF ListsMatchSlots
    <3>2. QED
      BY <2>4, <2>7, <3>1
  <2>8. CASE succ
    BY <1>3, <2>5, <2>6, <2>8 DEF Authenticated
  <2>9. CASE ~succ
    BY <1>3, <2>6, <2>7, <2>9 DEF AuthRefused
  <2>10. QED
    BY <2>8, <2>9
<1>4. QED
  BY <1>2, <1>3 DEF MasterVerdict

LEMMA PendingStep == TypeOK /\ TypeOK' /\ Linked /\ Pending /\ [Next]_vars => Pending'
<1> SUFFICES ASSUME TypeOK, TypeOK', Linked, Pending, [Next]_vars PROVE Pending'
  OBVIOUS
<1>t. /\ SessionType /\ ListsMatchSlots /\ connects \cap clients = {}
      /\ clients \subseteq Infos /\ connects \subseteq Infos
      /\ created \in Nat /\ nextauthreq \in Nat /\ DOMAIN mreq = 1 .. MaxReq
  BY TypeParts, BoundsAssumption DEF TypeOK, Linked, ListsMatchSlots
<1>q. ASSUME UNCHANGED <<links, ci, roster, counters, mreq>>,
             mastersock # "none" => mastersock' # "none"
      PROVE  Pending'
  <2>1. UNCHANGED <<slotinfo, roster, connectauth, auth, counters, mreq>>
    BY <1>q DEF links, ci
  <2>2. QED
    BY <1>q, <2>1, QuietPending
<1>1. CASE PeerEvent
  <2>1. ASSUME NEW p \in Peers, DisconnectEvent(p) PROVE Pending'
    <3>1. CASE peerdata[p] = NoSlot
      <4>1. UNCHANGED <<slotinfo, roster, connectauth, auth, counters, mreq, mastersock>>
        BY <2>1, <3>1 DEF DisconnectEvent, ci, masterlink
      <4>2. QED
        BY <4>1, QuietPending
    <3>2. CASE peerdata[p] # NoSlot
      <4>1. {peerdata[p]} \in SUBSET Slots
        BY <3>2 DEF TypeOK
      <4>2. QED
        BY <2>1, <3>2, <4>1, DisconnectPending DEF DisconnectEvent, Drop
    <3>3. QED
      BY <3>1, <3>2
  <2>2. ASSUME NEW p \in Peers, NEW a \in Addresses, ConnectEvent(p, a) PROVE Pending'
    <3>1. /\ UNCHANGED <<auth, clients, mreq, mastersock, nextauthreq>>
          /\ connects' \subseteq connects \cup {created + 1} /\ created' = created + 1
          /\ created + 1 \in Infos
      BY <2>2 DEF ConnectEvent, masterlink
    <3>2. auth[created + 1] = NoAuth
      <4>1. created + 1 \notin connects \cup clients
        BY <1>t DEF Linked, Fresh
      <4>2. QED
        BY <3>1, <4>1 DEF Pending, Named, OutsidersIdle
    <3>3. \A i \in clients' \cup connects' : i \in clients \cup connects \/ auth'[i] = NoAuth
      BY <3>1, <3>2
    <3>4. \A i \in connects' : i \in connects \/ i > created
      BY <1>t, <3>1
    <3>5. created' >= created /\ nextauthreq' >= nextauthreq
      BY <1>t, <3>1
    <3>6. Requested'
      BY <3>1, <3>3, <3>4, <3>5, KeptRequested DEF Pending
    <3>7. QED
      BY <2>2, <3>6, ConnectNamed DEF Pending
  <2>3. QED
    BY <1>1, <2>1, <2>2 DEF PeerEvent
<1>2. CASE Joining
  <2>2. ASSUME NEW i \in connects, NEW pwd \in Passwords, NEW key \in KeyPrivs \cup {NoKey},
               Connect(i, pwd, key)
        PROVE  Pending'
    <3>d. CASE Drop({num[i]}, "closing")
      BY <1>t, <3>d, OnePending DEF Drop
    <3>1. CASE Joined(i) /\ UNCHANGED <<links, auth, counters, masterlink>>
      <4>1. slotinfo' = slotinfo /\ ~connectauth[i]
        BY <2>2, <3>1 DEF links, Connect
      <4>2. QED
        BY <3>1, <4>1, JoinedPending
    <3>2. CASE /\ nextauthreq <= MaxReq
               /\ nextauthreq' = nextauthreq + 1
               /\ auth' = [auth EXCEPT ![i] = Request(nextauthreq, "local", key, NoSlot)]
               /\ connectauth' = [connectauth EXCEPT ![i] = TRUE]
               /\ UNCHANGED <<links, roster, created, masterlink>>
      <4>1. UNCHANGED <<slotinfo, roster, created, mreq, mastersock>>
        BY <3>2 DEF links, masterlink
      <4>2. Named'
        BY <1>t, <3>2, <4>1, ChallengeNamed DEF Pending
      <4>3. /\ Request(nextauthreq, "local", key, NoSlot).authreq = nextauthreq
            /\ Request(nextauthreq, "local", key, NoSlot).dom = "local"
        BY DEF Request
      <4>4. Requested'
        BY <3>2, <4>1, <4>3, AskRequested DEF Pending
      <4>5. QED
        BY <4>2, <4>4 DEF Pending
    <3>3. QED
      BY <2>2, <3>d, <3>1, <3>2 DEF Connect
  <2>3. QED
    BY <1>2, <2>2 DEF Joining
<1>3. CASE Answering
  <2> SUFFICES ASSUME NEW i \in clients \cup connects,
                      \/ Misbehave(i)
                      \/ \E right \in BOOLEAN : AnswerLocal(i, right)
                      \/ AnswerMaster(i) \/ AnswerStale(i)
               PROVE  Pending'
    BY <1>3 DEF Answering
  <2>1. CASE Misbehave(i)
    BY <1>t, <2>1, OnePending DEF Misbehave, Drop
  <2>2. ASSUME NEW right \in BOOLEAN, AnswerLocal(i, right) PROVE Pending'
    <3>1. UNCHANGED <<counters, masterlink>>
      BY <2>2 DEF AnswerLocal
    <3>2. CASE AuthRefused(i)
      BY <1>t, <3>1, <3>2, RefusedPending
    <3>3. CASE AuthJoined(i)
      <4>1. Joined(i) /\ slotinfo' = slotinfo /\ auth' = [auth EXCEPT ![i] = NoAuth]
        BY <3>3 DEF AuthJoined, links
      <4>2. QED
        BY <3>1, <4>1, JoinedPending
    <3>4. CASE ~connectauth[i] /\ Authenticated(i, auth[i].key)
      BY <1>t, <3>1, <3>4, AuthenticatedPending
    <3>5. QED
      BY <2>2, <3>2, <3>3, <3>4 DEF AnswerLocal
  <2>3. CASE AnswerMaster(i)
    <3>1. Requested'
      BY <1>t, <2>3, AnswerRequested DEF Pending
    <3>2. i \in clients /\ UNCHANGED <<slotinfo, roster, connectauth>>
      BY <2>3 DEF AnswerMaster, MayAnswer, Pending, Named, ConnectsLocal, ConnectAuthPending, links
    <3>3. auth' = auth \/ auth' = [auth EXCEPT ![i] = NoAuth]
      BY <1>t, <2>3, ZenonT(60) DEF AnswerMaster, TypeOK
    <3>4. Named'
      BY <1>t, <3>2, <3>3, QuietNamed, ForgetOneNamed DEF Pending
    <3>5. QED
      BY <3>1, <3>4 DEF Pending
  <2>4. CASE AnswerStale(i)
    BY <1>t, <2>4, RefusedPending DEF AnswerStale
  <2>5. QED
    BY <2>1, <2>2, <2>3, <2>4
<1>4. CASE Handling
  <2> SUFFICES ASSUME NEW i \in clients,
                      \/ AuthTry(i) \/ ClearBans(i)
                      \/ \E n \in Slots : AuthKick(i, n) \/ Kick(i, n)
                      \/ \E val, admin \in BOOLEAN : ClaimMaster(i, val, admin)
                      \/ \E n \in Slots, val \in BOOLEAN : GiveMaster(i, n, val) \/ Spectator(i, n, val)
                      \/ \E mm \in MasterModes : MasterMode(i, mm)
                      \/ \E val \in BOOLEAN : PauseGame(i, val)
               PROVE  Pending'
    BY <1>4 DEF Handling
  <2>1. ASSUME NEW key, NEW n \in Slots \cup {NoSlot}, n # NoSlot => slotinfo[n] \in clients,
               AskLocal(i, key, n)
        PROVE  Pending'
    <3>1. UNCHANGED <<slotinfo, roster, connectauth, created, mreq, mastersock>>
      BY <2>1 DEF AskLocal, links, masterlink
    <3>2. /\ auth' = [auth EXCEPT ![i] = Request(nextauthreq, "local", key, n)]
          /\ nextauthreq <= MaxReq /\ nextauthreq' = nextauthreq + 1
      BY <2>1 DEF AskLocal
    <3>3. Named'
      BY <1>t, <2>1, <3>1, <3>2, AskNamed DEF Pending
    <3>4. /\ Request(nextauthreq, "local", key, n).authreq = nextauthreq
          /\ Request(nextauthreq, "local", key, n).dom = "local"
      BY DEF Request
    <3>5. Requested'
      BY <3>1, <3>2, <3>4, AskRequested DEF Pending
    <3>6. QED
      BY <3>3, <3>5 DEF Pending
  <2>2. ASSUME NEW n \in Slots \cup {NoSlot}, n # NoSlot => slotinfo[n] \in clients, AskMaster(i, n)
        PROVE  Pending'
    <3>1. UNCHANGED <<slotinfo, roster, connectauth, created>>
      BY <2>2 DEF AskMaster, links
    <3>2. PICK ok \in BOOLEAN :
            /\ RequestMaster(ok)
            /\ mreq' = IF ok THEN [mreq EXCEPT ![nextauthreq] = [stage |-> "req", asker |-> i]]
                             ELSE mreq
            /\ auth' = [auth EXCEPT ![i] =
                          IF ok THEN Request(nextauthreq, "global", PRIV_AUTH, n) ELSE NoAuth]
      BY <2>2 DEF AskMaster
    <3>3. nextauthreq <= MaxReq /\ nextauthreq' = nextauthreq + 1
      BY <2>2 DEF AskMaster
    <3>4. CASE ok
      <4>1. auth' = [auth EXCEPT ![i] = Request(nextauthreq, "global", PRIV_AUTH, n)]
        BY <3>2, <3>4
      <4>2. Named'
        BY <1>t, <2>2, <3>1, <4>1, AskNamed DEF Pending
      <4>3. Request(nextauthreq, "global", PRIV_AUTH, n).authreq = nextauthreq
        BY DEF Request
      <4>4. i <= created /\ i \in clients \ connects
        BY <1>t DEF Linked, Fresh
      <4>5. mastersock' # "none" /\ mreq' = [mreq EXCEPT ![nextauthreq] = [stage |-> "req", asker |-> i]]
        BY <3>2, <3>4 DEF RequestMaster
      <4>6. Requested'
        BY <3>1, <3>3, <4>1, <4>3, <4>4, <4>5, AskRequested DEF Pending
      <4>7. QED
        BY <4>2, <4>6 DEF Pending
    <3>5. CASE ~ok
      <4>1. auth' = [auth EXCEPT ![i] = NoAuth] /\ UNCHANGED masterlink
        BY <3>2, <3>5 DEF RequestMaster, masterlink
      <4>2. nextauthreq' >= nextauthreq
        BY <1>t, <3>3
      <4>3. QED
        BY <1>t, <3>1, <4>1, <4>2, ForgetOnePending
    <3>6. QED
      BY <3>4, <3>5
  <2>3. CASE AuthTry(i)
    <3>1. NoSlot \in Slots \cup {NoSlot}
      OBVIOUS
    <3>2. CASE \E key \in KeyPrivs : AskLocal(i, key, NoSlot)
      BY <2>1, <3>1, <3>2
    <3>3. CASE AskMaster(i, NoSlot)
      BY <2>2, <3>1, <3>3
    <3>4. CASE /\ nextauthreq' = nextauthreq + 1
               /\ auth' = [auth EXCEPT ![i] = NoAuth]
               /\ UNCHANGED <<links, connectauth, roster, created, masterlink>>
      <4>1. nextauthreq' >= nextauthreq /\ slotinfo' = slotinfo
        BY <1>t, <3>4 DEF links
      <4>2. QED
        BY <1>t, <3>4, <4>1, ForgetOnePending
    <3>5. QED
      BY <2>3, <3>2, <3>3, <3>4 DEF AuthTry
  <2>4. ASSUME NEW n \in Slots, AuthKick(i, n) PROVE Pending'
    <3>1. slotinfo[n] \in clients
      BY <2>4 DEF AuthKick, CanKick
    <3>2. QED
      BY <2>1, <2>2, <2>4, <3>1 DEF AuthKick
  <2>5. ASSUME NEW n \in Slots, Kick(i, n) PROVE Pending'
    BY <1>t, <2>5, KickPending DEF Kick, TryKick
  <2>6. CASE ClearBans(i) \/ (\E mm \in MasterModes : MasterMode(i, mm))
             \/ (\E val \in BOOLEAN : PauseGame(i, val))
    <3>1. UNCHANGED <<links, ci, roster, counters, mreq, mastersock>>
      BY <2>6 DEF ClearBans, MasterMode, PauseGame, masterlink
    <3>2. QED
      BY <3>1, <1>q
  <2>7. CASE (\E val, admin \in BOOLEAN : ClaimMaster(i, val, admin))
             \/ (\E n \in Slots, val \in BOOLEAN : GiveMaster(i, n, val) \/ Spectator(i, n, val))
    <3>1. UNCHANGED <<slotinfo, roster, connectauth, auth, counters, mreq, mastersock>>
      BY <2>7 DEF ClaimMaster, GiveMaster, Spectator, links, masterlink
    <3>2. QED
      BY <3>1, QuietPending
  <2>8. QED
    BY <2>3, <2>4, <2>5, <2>6, <2>7
<1>5. CASE MasterServer
  <2>1. ASSUME NEW r \in DOMAIN mreq, MasterChallenge(r) PROVE Pending'
    <3>1. /\ UNCHANGED <<slotinfo, roster, connectauth, auth, counters, clients, connects,
                         created, nextauthreq, mastersock>>
          /\ mastersock = "up" /\ mreq[r].stage = "req"
          /\ mreq' = [mreq EXCEPT ![r] = [stage |-> "chal", asker |-> mreq[r].asker]]
      BY <2>1 DEF MasterChallenge, links, ci, roster, counters
    <3>2. /\ \A q \in 1 .. MaxReq : mreq'[q].stage # "none" =>
               mreq[q].stage # "none" /\ mreq'[q].asker = mreq[q].asker
          /\ \A q \in 1 .. MaxReq : mreq[q].stage # "none" => mreq'[q].stage # "none"
      BY <3>1 DEF TypeOK
    <3>3. ASSUME NEW j \in clients, auth[j].authreq # 0, auth[j].dom = "global"
          PROVE  mreq'[auth[j].authreq].stage # "none"
      <4>1. auth[j].authreq \in 1 .. MaxReq
        BY <1>t, <3>3, BoundsAssumption DEF TypeOK, AuthState
      <4>2. QED
        BY <3>2, <3>3, <4>1 DEF Pending, Requested, AuthRequestsLive
    <3>4. Requested'
      BY <1>t, <3>1, <3>2, <3>3, FewerRequested DEF Pending
    <3>5. QED
      BY <3>1, <3>4, QuietNamed DEF Pending
  <2>2. ASSUME NEW r \in DOMAIN mreq, NEW succ \in BOOLEAN, MasterVerdict(r, succ) PROVE Pending'
    BY <1>t, <2>2, VerdictPending
  <2>3. ASSUME NEW a \in Addresses, MasterGban(a) PROVE Pending'
    <3>1. {num[i] : i \in {j \in clients : /\ priv[j] < PRIV_ADMIN
                                           /\ ip[j] \in bannedips \cup gbans \cup {a}}}
          \in SUBSET Slots
      BY DEF Linked, ListsMatchSlots
    <3>2. QED
      BY <2>3, <3>1, DisconnectPending DEF MasterGban
  <2>4. CASE MasterUp \/ Register \/ MasterClearGbans
    <3>1. UNCHANGED <<links, ci, roster, counters, mreq>>
      BY <2>4 DEF MasterUp, Register, MasterClearGbans, masterlink
    <3>2. mastersock # "none" => mastersock' # "none"
      BY <2>4 DEF MasterUp, Register, MasterClearGbans, masterlink
    <3>3. QED
      BY <3>1, <3>2, <1>q
  <2>5. CASE MasterDown
    <3>1. /\ UNCHANGED <<slotinfo, roster, connectauth, clients, connects, created, nextauthreq>>
          /\ mreq' = [r \in DOMAIN mreq |-> NoRequest]
          /\ auth' = [i \in Infos |-> IF i \in clients THEN NoAuth ELSE auth[i]]
      BY <2>5 DEF MasterDown, links, roster, counters
    <3>2. Named'
      BY <1>t, <3>1, ForgetNamed DEF Pending
    <3>3. \A r \in 1 .. MaxReq : mreq'[r].stage = "none"
      BY <1>t, <3>1 DEF NoRequest
    <3>4. /\ \A i \in Infos : auth'[i] = auth[i] \/ auth'[i] = NoAuth
          /\ \A i \in clients : auth'[i].authreq = 0
      BY <1>t, <3>1, NoAuthFields
    <3>5. Requested'
      BY <1>t, <3>1, <3>3, <3>4, FewerRequested DEF Pending
    <3>6. QED
      BY <3>2, <3>5 DEF Pending
  <2>6. QED
    BY <1>5, <2>1, <2>2, <2>3, <2>4, <2>5 DEF MasterServer
<1>6. CASE Housekeeping
  <2>1. ASSUME NEW a \in Addresses, TeamkillKick(a) PROVE Pending'
    BY <1>t, <2>1, KickPending DEF TeamkillKick
  <2>2. ASSUME NEW a \in Addresses, BanExpires(a) PROVE Pending'
    BY <2>2, <1>q DEF BanExpires, masterlink
  <2>3. ASSUME NEW m \in BOOLEAN, ChangeMap(m) PROVE Pending'
    <3>1. CASE m
      BY <2>3, <3>1, <1>q DEF ChangeMap, masterlink
    <3>2. CASE ~m
      <4>1. {n \in Slots : slotinfo[n] # NoInfo} \in SUBSET Slots
        OBVIOUS
      <4>2. QED
        BY <2>3, <3>2, <4>1, DisconnectPending DEF ChangeMap
    <3>3. QED
      BY <3>1, <3>2
  <2>4. CASE Ages
    BY <2>4, <1>q DEF Ages, masterlink
  <2>5. CASE JoinTimeouts
    <3>1. \A i \in Visited : num[i] \in Slots
      BY <1>t DEF Visited, ListsMatchSlots
    <3>2. {num[i] : i \in Visited} \in SUBSET Slots
      BY <3>1
    <3>3. QED
      BY <1>t, <2>5, <3>2, DisconnectPending DEF JoinTimeouts, Drop
  <2>6. QED
    BY <1>6, <2>1, <2>2, <2>3, <2>4, <2>5 DEF Housekeeping
<1>7. CASE UNCHANGED vars
  BY <1>7, <1>q DEF vars, masterlink
<1>8. QED
  BY <1>1, <1>2, <1>3, <1>4, <1>5, <1>6, <1>7 DEF Next

LEMMA PendingInit == Init => Pending
<1> SUFFICES ASSUME Init PROVE Pending
  OBVIOUS
<1>1. connects = {} /\ clients = {} /\ nextauthreq = 1
  BY DEF Init
<1>2. \A i \in Infos : auth[i] = NoAuth /\ ~connectauth[i]
  BY DEF Init
<1>3. DOMAIN mreq = 1 .. MaxReq /\ \A r \in 1 .. MaxReq : mreq[r].stage = "none"
  BY DEF Init, NoRequest
<1>4. Named
  BY <1>1, <1>2 DEF Named, AuthKickNamesSession, KickTargets, OutsidersIdle, ConnectsLocal,
                    ConnectAuthPending
<1>5. Requested
  BY <1>1, <1>2, <1>3, NoAuthFields DEF Requested, AuthRequestsLive, AskersJoined, NumbersUsed
<1>6. QED
  BY <1>4, <1>5 DEF Pending

LEMMA PendingAlways == Spec => []Pending
  BY PendingInit, PendingStep, TypeCorrect, LinkedAlways, PTL DEF Spec

\* However numbers are reused, an authenticated kick that waits names the session
\* it was asked for (clientdisconnect).
THEOREM KicksNameSessions == Spec => []AuthKickNamesSession
  BY PendingAlways, PTL DEF Pending, Named

\* A joined client that waits on the master server is waited for: its request is
\* carried by a live link, and its verdict reaches nobody else (masterdisconnected);
\* a client that may only join by answering has a challenge to answer (tryauth).
THEOREM AnswersCome == Spec => []AnswersPending
  BY PendingAlways, PTL DEF Pending, Requested, Named, AnswersPending
=============================================================================
