------------------------------- MODULE Runtime -------------------------------
(* What the game server runs on: hooks of Lua scripts and the tables they   *)
(* hang on game objects, the variables that options and scripts set, how    *)
(* the process starts and ends, its clock, packets with several holders,    *)
(* and the keys and passwords of administrators.  The sources are           *)
(* src/spaghetti/, engine/server.cpp, enet/packet.c, fpsgame/server.cpp.    *)
EXTENDS Integers, Sequences, SequencesExt, FiniteSetsExt, Functions

CONSTANTS MaxPeers,      \* MAXCLIENTS, 128
          DefaultPeers,  \* DEFAULTCLIENTS, 8
          Reserved       \* reserveclients(), 3

(* How the server calls a hook: names of the arguments as the preprocessor  *)
(* wrote them, a table through which the script sees the variables behind   *)
(* them, and a call in which every error ends.                              *)
Separators == {",", " "}
\* hook::parseargs()
RECURSIVE ParseArgs(_)
ParseArgs(all) ==
  LET begin == SelectInSeq(all, LAMBDA ch : ch \notin Separators)
      end == SelectInSubSeq(all, begin, Len(all), LAMBDA ch : ch \in Separators)
      after == IF end = 0 THEN Len(all) + 1 ELSE end
  IN IF begin = 0 THEN <<>> ELSE <<SubSeq(all, begin, after - 1)>> \o ParseArgs(SubSeq(all, after, Len(all)))

\* lua_cppcall(): the stack afterwards, f being what the call leaves there
Drop(stack, n) == SubSeq(stack, 1, Len(stack) - n)
CppCall(stack, fails) ==
  LET dumper == Len(stack) + 1
      called == Append(stack, "dumper") \o IF fails THEN <<"error">> ELSE <<>>
      removed == RemoveAt(called, dumper)
  IN IF fails THEN Drop(removed, 1) ELSE removed
\* hook::testinterest(): on its stack is the pointer lua_cppcall() passed
TestInterest(stack, hook) ==
  LET got == stack \o <<"hooks", hook>>
  IN IF hook # "nil" THEN Drop(ReplaceAt(Drop(got, 1), Len(got) - 2, hook), 1) ELSE Drop(got, 3)

\* setfield() for every argument: the last of a name counts; `skip' comes after all
Fields(names, skippable) ==
  LET fields == FoldLeftDomain(LAMBDA f, i : (names[i] :> i) @@ f, <<>>, names)
  IN IF skippable THEN ("skip" :> 0) @@ fields ELSE fields
\* what the table's __index and __newindex do; own are fields of the script
GetField(e, fields, name) ==
  IF name \in DOMAIN e.own THEN e.own[name] ELSE IF name \in DOMAIN fields THEN e.args[fields[name]] ELSE "nil"
SetField(e, fields, consts, name, val) ==
  CASE e.error -> e
    [] ~e.error /\ name \notin DOMAIN fields -> [e EXCEPT !.own = (name :> val) @@ @]
    [] ~e.error /\ name \in DOMAIN fields -> IF fields[name] \in consts THEN [e EXCEPT !.error = TRUE]
                                             ELSE [e EXCEPT !.args[fields[name]] = val]
\* hook::defaulthook(): args[0] is what it returns, script the fields it sets
DefaultHook(names, skippable, consts, args, hook, script) ==
  LET fields == Fields(names, skippable)
      called == TestInterest(<<"lambda">>, hook) # <<>>
      start == [args |-> (0 :> "no") @@ args, own |-> <<>>, error |-> FALSE]
  IN IF called THEN FoldLeft(LAMBDA e, s : SetField(e, fields, consts, s[1], s[2]), start, script) ELSE start

\* writelog(): a line a hook logs while one is being logged is written at once
RECURSIVE WriteLog(_, _, _)
WriteLog(l, line, hook) ==
  LET told == FoldLeft(LAMBDA m, s : WriteLog(m, s, hook), [l EXCEPT !.recursion = TRUE, !.calls = @ + 1], hook.says)
      m == IF l.recursion THEN l ELSE [told EXCEPT !.recursion = FALSE]
  IN IF ~l.recursion /\ hook.skip THEN m ELSE [m EXCEPT !.out = Append(@, line)]
-----------------------------------------------------------------------------
(* The hook groups of script/bootstrap.lua: a traversal is [no, at, in]:    *)
(* the group it goes through, its index, and whether a callback runs.  A    *)
(* group that empties is dropped, and the next hook makes one anew.         *)
NoHooks == [no |-> 1, group |-> <<>>, frames |-> <<>>, fresh |-> 1]
Cells(h, frame) == IF frame.no = h.no THEN h.group ELSE <<>>
Innermost(h) == h.frames[Len(h.frames)]
LuaIdle(h) == h.frames # <<>> => Innermost(h).in
Shifted(h, by(_)) == [i \in DOMAIN h.frames |-> IF h.frames[i].no = h.no THEN [h.frames[i] EXCEPT !.at = by(@)] ELSE h.frames[i]]

\* the __call of a group, one callback at a time
CallHooks(h) == [h EXCEPT !.frames = Append(@, [no |-> h.no, at |-> 1, in |-> FALSE])]
Enter(h) == [h EXCEPT !.frames[Len(h.frames)].in = TRUE]
Leave(h) == [h EXCEPT !.frames[Len(h.frames)] = [@ EXCEPT !.in = FALSE, !.at = @ + 1]]
EndCall(h) == [h EXCEPT !.frames = Front(@)]
AddHook(h, prepend) ==
  [h EXCEPT !.fresh = @ + 1, !.group = IF prepend THEN <<h.fresh>> \o @ ELSE Append(@, h.fresh),
            !.frames = IF prepend THEN Shifted(h, LAMBDA at : at + 1) ELSE @]
RemoveHook(h, token) ==
  LET k == SelectInSeq(h.group, LAMBDA t : t = token)
      rest == RemoveAt(h.group, k)
  IN IF k = 0 THEN h
     ELSE [h EXCEPT !.group = rest, !.no = IF rest = <<>> THEN @ + 1 ELSE @,
                    !.frames = Shifted(h, LAMBDA at : IF k <= at THEN at - 1 ELSE at)]
-----------------------------------------------------------------------------
(* spaghetti::extra: an object's table lives in Lua's registry under a      *)
(* number of its own.                                                       *)
NoRef == 0
NoExtras == [registry |-> <<>>, extras |-> <<>>, tables |-> 0]
\* luaL_ref() takes a number nobody has
NewRef(r) == Min({i \in 1..Cardinality(DOMAIN r.registry) + 1 : i \notin DOMAIN r.registry})
Refer(r, o, table) ==
  [r EXCEPT !.registry = (NewRef(r) :> table) @@ @, !.extras = (o :> NewRef(r)) @@ @, !.tables = Max({@, table})]
Unconstructed(r, o) == [r EXCEPT !.extras = [x \in DOMAIN @ \ {o} |-> @[x]]]

\* extra::init(), fini()
ExtraInit(r, o) == Refer(r, o, r.tables + 1)
ExtraFini(r, o) ==
  IF r.extras[o] = NoRef THEN r
  ELSE [r EXCEPT !.registry = [i \in DOMAIN @ \ {r.extras[o]} |-> @[i]], !.extras[o] = NoRef]
\* the constructors
Extra(r, o, manualalloc) ==
  LET made == [r EXCEPT !.extras = (o :> NoRef) @@ @] IN IF manualalloc THEN made ELSE ExtraInit(made, o)
ExtraCopy(r, o, from) ==
  LET made == [r EXCEPT !.extras = (o :> NoRef) @@ @]
  IN IF r.extras[from] = NoRef THEN made ELSE Refer(made, o, r.registry[r.extras[from]])
\* operator=
ExtraAssign(r, o, from) ==
  LET freed == ExtraFini(r, o)
  IN IF freed.extras[from] = NoRef THEN freed ELSE Refer(freed, o, freed.registry[freed.extras[from]])
\* ~extra(): the tables of clients are given back by ~clientinfo()
ExtraGone(r, o, manualalloc) == Unconstructed(IF manualalloc THEN r ELSE ExtraFini(r, o), o)
-----------------------------------------------------------------------------
(* Variables: [min, max] of those that are numbers.  What a variable does   *)
(* when it is set may depend on the host, hence one record for all.         *)
Bounds ==
  [maxclients |-> <<0, MaxPeers>>, maxdupclients |-> <<0, MaxPeers>>, serverport |-> <<0, 65534>>, serveruprate |-> <<0, 2147483647>>,
   publicserver |-> <<0, 2>>, masterport |-> <<1, 65535>>]
DefaultPort == 28785
\* peers and duplicates are the limits of the host, 0 while there is none
NoVars ==
  [maxclients |-> DefaultPeers, maxdupclients |-> 0, serverport |-> DefaultPort, serveruprate |-> 0, publicserver |-> 0,
   masterport |-> 28787, mastername |-> "default", updatemaster |-> 1, serverip |-> "", serverdesc |-> "", serverpass |-> "", adminpass |-> "",
   mastermask |-> "private", linked |-> FALSE, peers |-> 0, duplicates |-> 0]
Clamp(val, range) == Max({range[1], Min({val, range[2]})})
Duplicates(v) == IF v.maxdupclients = 0 THEN MaxPeers ELSE v.maxdupclients

\* the bodies of VARF and SVARF
Body(v, name) ==
  CASE name = "maxclients" -> [v EXCEPT !.maxclients = IF @ = 0 THEN DefaultPeers ELSE @]
    [] name = "maxdupclients" -> [v EXCEPT !.duplicates = IF v.peers > 0 THEN Duplicates(v) ELSE @]
    [] name = "serverport" -> [v EXCEPT !.serverport = IF @ = 0 THEN DefaultPort ELSE @]
    [] name = "publicserver" -> [v EXCEPT !.mastermask = <<"private", "public", "coop">>[v.publicserver + 1]]
    [] name \in {"mastername", "masterport"} -> [v EXCEPT !.linked = FALSE]
    [] OTHER -> v
\* settable_bind::set() and setvar(), string_bind::set() and setsvar()
SetVar(v, name, val) == Body([v EXCEPT ![name] = Clamp(val, Bounds[name])], name)
SetSVar(v, name, val) == Body([v EXCEPT ![name] = val], name)
\* serveroption(), of the engine and of the game
ServerOption(v, opt, arg) ==
  CASE opt = "u" -> SetVar(v, "serveruprate", arg)
    [] opt = "c" -> SetVar(v, "maxclients", arg)
    [] opt = "i" -> SetSVar(v, "serverip", arg)
    [] opt = "j" -> SetVar(v, "serverport", arg)
    [] opt = "m" -> [SetSVar(v, "mastername", arg) EXCEPT !.updatemaster = IF arg = "" THEN 0 ELSE 1]
    [] opt = "n" -> SetSVar(v, "serverdesc", arg)
    [] opt = "y" -> SetSVar(v, "serverpass", arg)
    [] opt = "p" -> SetSVar(v, "adminpass", arg)
    [] opt = "o" -> SetVar(v, "publicserver", arg)
\* setuplistenserver(): the limits of the host
HostCreate(v) == [v EXCEPT !.peers = Min({v.maxclients + Reserved, MaxPeers}), !.duplicates = Duplicates(v)]
-----------------------------------------------------------------------------
(* The process: slots of clients, those that have joined, bots, sockets and *)
(* Lua.  orphans are clients deleted when Lua could not free their tables.  *)
NoProcess ==
  [phase |-> "start", lua |-> FALSE, host |-> FALSE, pong |-> FALSE, lan |-> FALSE, slots |-> <<>>, nonlocal |-> 0, joined |-> {},
   bots |-> 0, orphans |-> 0]

\* addclient(), delclient()
AddClient(w) ==
  LET empty == SelectInSeq(w.slots, LAMBDA s : s = "empty")
  IN [w EXCEPT !.slots = IF empty > 0 THEN ReplaceAt(@, empty, "tcpip") ELSE Append(@, "tcpip"), !.nonlocal = @ + 1]
DelClient(w, n) ==
  IF w.slots[n] = "empty" THEN w
  ELSE [w EXCEPT !.slots[n] = "empty", !.nonlocal = @ - 1, !.orphans = IF w.lua THEN @ ELSE @ + 1]
\* clientdisconnect(): the last to leave takes the bots with it, noclients()
DisconnectClient(w, n) ==
  LET left == w.joined \ {n}
      gone == [w EXCEPT !.joined = left, !.bots = IF n \in w.joined /\ left = {} THEN 0 ELSE @]
  IN IF w.slots[n] = "tcpip" THEN DelClient(gone, n) ELSE w
KickNonLocalClients(w) == FoldLeftDomain(LAMBDA u, n : DisconnectClient(u, n), w, w.slots)
\* cleanupserver(): slots from the last to the first
CleanupServer(w) ==
  LET emptied == FoldLeftDomain(LAMBDA u, i : DelClient(u, Len(w.slots) + 1 - i), w, w.slots)
  IN [emptied EXCEPT !.slots = <<>>, !.host = FALSE, !.pong = FALSE, !.lan = FALSE]

\* spaghetti::fini()
Fini(w, servererror) == [(IF servererror THEN w ELSE KickNonLocalClients(w)) EXCEPT !.lua = FALSE]
\* servererror(), fatal()
ServerError(w) == [CleanupServer(Fini(w, TRUE)) EXCEPT !.phase = "failed"]

\* setuplistenserver(): a hook may skip a socket, having made one ("made") or
\* not ("none"); a host that cannot be made is used before it is looked at
SetupListenServer(w, got) ==
  LET host == [w EXCEPT !.host = got.host = "made"]
      pong == [host EXCEPT !.pong = got.pong = "made"]
  IN IF got.host = "failed" THEN [w EXCEPT !.phase = "crashed"]
     ELSE IF ~host.host THEN ServerError(host)
     ELSE IF got.pong = "failed" THEN ServerError(pong)
     ELSE [pong EXCEPT !.lan = got.lan = "made", !.phase = "running"]
\* initserver() up to rundedicatedserver(), and after it
InitServer(w, got) == SetupListenServer([w EXCEPT !.lua = TRUE], got)
EndServer(w) == [CleanupServer(Fini(w, FALSE)) EXCEPT !.phase = "over"]

\* the clock of serverslice()
NoClock == [total |-> 0, last |-> 0, timeerr |-> 0, lastsec |-> 0, totalsecs |-> 0]
UpdateTime(t) ==
  LET cursecs == IF t.total - t.lastsec >= 1000 THEN (t.total - t.lastsec) \div 1000 ELSE 0
  IN [t EXCEPT !.lastsec = @ + cursecs * 1000, !.totalsecs = @ + cursecs]
Advance(t, elapsed, gamespeed, paused) ==
  LET scaled == elapsed * gamespeed + t.timeerr
  IN UpdateTime([t EXCEPT !.total = @ + elapsed, !.last = IF paused THEN @ ELSE @ + scaled \div 100, !.timeerr = scaled % 100])
-----------------------------------------------------------------------------
(* A packet and the count of those that hold it.                            *)
NoPacket == [count |-> 0, freed |-> 0]
Destroyed(p) == IF p.count = 0 THEN [p EXCEPT !.freed = @ + 1] ELSE p
\* packetbuf(packet), LuaENetPacket(): one holder more; and one less
Taken(p) == [p EXCEPT !.count = @ + 1]
Released(p) == Destroyed([p EXCEPT !.count = @ - 1])
\* enet_peer_send(): a reference for every fragment
Queued(p, fragments) == [p EXCEPT !.count = @ + fragments]
\* enet_peer_remove_incoming_commands(), enet_peer_reset_outgoing_commands(): of
\* the commands from..to all but one, which may be 0; queue says of each whether
\* it carries the packet
RemoveCommands(p, queue, from, to, exclude) ==
  LET removed == (from..to) \ {exclude}
      kept == SelectSeq([i \in DOMAIN queue |-> i], LAMBDA i : i \notin removed)
  IN [p |-> FoldLeftDomain(LAMBDA q, i : IF i \in removed /\ queue[i] THEN Released(q) ELSE q, p, queue),
      queue |-> [k \in DOMAIN kept |-> queue[kept[k]]]]
\* enet_packet_resize(): the block is what was allocated
Resize(p, n, fails) ==
  IF n <= p.length \/ p.noallocate THEN [p EXCEPT !.length = n]
  ELSE IF fails THEN p ELSE [p EXCEPT !.length = n, !.block = [i \in 1..n |-> IF i <= p.length THEN p.block[i] ELSE "?"]]
\* sendf(), sendfile(): the packet if anybody will have it when they return
Sent(p) == p.count > 1
\* sendpacket(): who gets it, for the slots of clients
Receivers(n, slots, exclude, allowed) ==
  IF n >= 0 THEN {n} ELSE {i \in DOMAIN slots : i # exclude /\ i \in allowed /\ slots[i] = "tcpip"}
-----------------------------------------------------------------------------
(* Keys of administrators, by name and domain; a hash is what it is of.     *)
\* adduser()
PrivilegeOf(priv) == CASE priv = "a" -> "admin" [] priv = "n" -> "none" [] OTHER -> "auth"
AddUser(users, name, desc, pubkey, priv) == (<<name, desc>> :> [pubkey |-> pubkey, privilege |-> PrivilegeOf(priv)]) @@ users
\* hashpassword(), checkpassword()
HashPassword(cn, sessionid, pwd) == <<cn, sessionid, pwd>>
CheckPassword(ci, wanted, given) == HashPassword(ci.clientnum, ci.sessionid, wanted) = given
-----------------------------------------------------------------------------
\* The names of a hook's arguments are what stands between the separators.
NamesSound(all) ==
  LET ends(i) == i = Len(all) \/ all[i + 1] \in Separators
      runs == {r \in (DOMAIN all) \X (DOMAIN all) :
                 /\ r[1] = 1 \/ all[r[1] - 1] \in Separators
                 /\ \A i \in r[1]..r[2] : all[i] \notin Separators
                 /\ r[1] <= r[2] /\ ends(r[2])}
      names == ParseArgs(all)
  IN /\ Len(names) = Cardinality(runs)
     /\ \A r \in runs : names[Cardinality({q \in runs : q[1] <= r[1]})] = SubSeq(all, r[1], r[2])

\* A script sees what it set last, and the server sees what the script set
\* before its first error; arguments that are const stay, and a script that
\* is not there changes nothing.  Lua's stack is left as it was found.
HookSound(names, skippable, consts, hook, script) ==
  LET fields == Fields(names, skippable)
      e == DefaultHook(names, skippable, consts, names, hook, script)
      errs == {i \in DOMAIN script : script[i][1] \in DOMAIN fields /\ fields[script[i][1]] \in consts}
      runs == IF hook = "nil" THEN <<>> ELSE IF errs = {} THEN script ELSE SubSeq(script, 1, Min(errs) - 1)
      set(name) == {i \in DOMAIN runs : runs[i][1] = name}
  IN /\ \A i \in consts : e.args[i] = names[i]
     /\ \A i \in DOMAIN runs : GetField(e, fields, runs[i][1]) = runs[Max(set(runs[i][1]))][2]
     /\ e.args[0] = "yes" => skippable /\ set("skip") # {}
     /\ runs = <<>> => e.args = (0 :> "no") @@ names
     /\ \A fails \in BOOLEAN : CppCall(<<"before">>, fails) = <<"before">>
     /\ TestInterest(<<"lambda">>, hook) = IF hook = "nil" THEN <<>> ELSE <<hook>>

\* A line is written once, or skipped by the hook, which is called once for it
\* and never for what it logs itself.
LogSound(hook) ==
  LET both == WriteLog(WriteLog([recursion |-> FALSE, out |-> <<>>, calls |-> 0], "a", hook), "b", hook)
      line(s) == hook.says \o IF hook.skip THEN <<>> ELSE <<s>>
  IN both = [recursion |-> FALSE, out |-> line("a") \o line("b"), calls |-> 2]

\* Whatever hooks are added and removed meanwhile, a traversal calls every hook
\* that was there or was appended, and stays, and none twice; due and called
\* are of the traversals under way.
HooksSound(h, expected) ==
  \A i \in DOMAIN h.frames :
    LET f == h.frames[i]
        e == expected[i]
    IN /\ Cardinality(ToSet(e.called)) = Len(e.called) /\ ToSet(e.called) \subseteq e.due
       /\ ~f.in /\ f.at > Len(Cells(h, f)) => ToSet(Cells(h, f)) \intersect e.due \subseteq ToSet(e.called)

\* Every object has the table it was given, and Lua keeps no other.
ExtrasSound(r, tables) ==
  /\ DOMAIN r.extras = DOMAIN tables
  /\ \A o \in DOMAIN tables : IF tables[o] = 0 THEN r.extras[o] = NoRef ELSE r.registry[r.extras[o]] = tables[o]
  /\ Cardinality(DOMAIN r.registry) = Cardinality({o \in DOMAIN tables : tables[o] # 0})

\* However options and scripts set them, the server has a place and a port for
\* clients, and its host the limits that were asked for.
VarsSound(v) ==
  /\ v.maxclients \in 1..MaxPeers /\ v.serverport \in 1..65534
  /\ v.peers > 0 => v.peers <= MaxPeers /\ v.duplicates = Duplicates(v)
  /\ v.mastermask = "private" <=> v.publicserver = 0

\* The server runs with Lua and a host, and ends without either, without
\* clients, bots or sockets; every client goes while Lua can free its table.
ProcessSound(w) ==
  /\ w.orphans = 0
  /\ w.nonlocal = Cardinality({i \in DOMAIN w.slots : w.slots[i] = "tcpip"})
  /\ \A n \in w.joined : w.slots[n] = "tcpip"
  /\ w.bots > 0 => w.joined # {}
  /\ w.phase = "running" => w.lua /\ w.host
  /\ w.phase \in {"over", "failed"} => w = [NoProcess EXCEPT !.phase = w.phase]

\* The game's time is the server's at the game's speed, to the fraction, but
\* for what a pause takes, less than a millisecond in every slice; seconds are
\* counted without loss.  scaled is in hundredths, pauses counts slices.
ClockSound(t, scaled, pauses) ==
  /\ t.last * 100 + t.timeerr - scaled \in -99 * pauses..99 * pauses
  /\ t.totalsecs = t.total \div 1000

\* A packet lives as long as anybody holds it, is freed once, and is given
\* back by sendf only if it outlives the call.
PacketSound(p, bufs, others) ==
  /\ p.count = bufs + others /\ p.freed = IF bufs + others = 0 THEN 1 ELSE 0
  /\ bufs = 1 => (Sent(p) <=> Released(p).freed = 0)

\* A packet that changes its size keeps the bytes that fit, and if it may
\* allocate has room for all of it.
ResizeSound(p, kept) ==
  /\ ~p.noallocate => p.length <= Len(p.block)
  /\ \A i \in DOMAIN kept : i <= Len(p.block) => p.block[i] = kept[i]

\* A user's key is the one given last, by name and domain; and a password
\* opens only for the connection it was hashed for.
UsersSound(users, given) ==
  /\ \A u \in DOMAIN given : IF given[u] < 0 THEN u \notin DOMAIN users ELSE users[u].pubkey = given[u]
  /\ \A ci \in [clientnum : 0..1, sessionid : 0..1], pwd \in {"a", "b"}, cn, session \in 0..1 :
       CheckPassword(ci, "a", HashPassword(cn, session, pwd)) <=> cn = ci.clientnum /\ session = ci.sessionid /\ pwd = "a"
=============================================================================
