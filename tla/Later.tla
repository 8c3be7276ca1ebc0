--------------------------------- MODULE Later ---------------------------------
(***************************************************************************)
(* Delayed calls, spaghetti/later.cpp: scripts ask for a function to be    *)
(* called after some milliseconds of the server's clock (later) or of the  *)
(* game's clock (latergame), once or repeatedly.  Each slice of the main   *)
(* loop runs the calls that have become due, of one list after the other.  *)
(*                                                                         *)
(* A call may ask for calls, cancel any, itself included, change the map   *)
(* and fail; so may, between the checks, the handlers of events.  A call   *)
(* is a place in memory, taken again once it is free: a script that keeps  *)
(* the handle of a call that is over cancels whatever has its place now.   *)
(* Running out of memory, calls with an infinite delay (never put on a     *)
(* list) and the hooks called in the middle of a map change or between a   *)
(* tick and its check are left out.                                        *)
(***************************************************************************)
EXTENDS Integers, Sequences, FiniteSets

CONSTANTS
    Calls,          \* latertokens
    NoCall,         \* no latertoken
    Delays,         \* delays, rounded up
    Elapsed,        \* elapsedtime of a slice in which time passes
    Curtimes,       \* curtime of a slice in which game time passes
    MaxWait,        \* the longest wait for the network (10)
    Word,           \* unsigned arithmetic is modulo this (2^64)
    MaxTime         \* bound: longtotalmillis

Lists == {"abs", "game"}

ASSUME CallAssumption == NoCall \notin Calls /\ IsFiniteSet(Calls)
ASSUME TimeAssumption ==
    /\ Delays \subseteq Nat \ {0} /\ Elapsed \subseteq Nat \ {0} /\ Curtimes \subseteq Nat \ {0}
    /\ MaxTime \in Nat /\ MaxWait \in Nat /\ Word \in Nat \ {0}

VARIABLES
    lists,              \* abs and game
    token,              \* what is known of each latertoken
    longtotalmillis,
    gamemillis,
    currentlambda,
    slice,              \* "events", or the list that is being checked
    now,                \* what check() was given
    earlier             \* history: pairs of a list, the first inserted before the second

clocks == <<longtotalmillis, gamemillis>>
check == <<slice, now>>
vars == <<lists, token, clocks, currentlambda, check, earlier>>

Free == [list |-> "none", when |-> 0, delay |-> 0]

Clock(k) == IF k = "abs" THEN longtotalmillis ELSE gamemillis

On(k) == {lists[k][i] : i \in DOMAIN lists[k]}

Init ==
    /\ lists = [k \in Lists |-> <<>>] /\ token = [t \in Calls |-> Free]
    /\ longtotalmillis = 0 /\ gamemillis = 0
    /\ currentlambda = NoCall
    /\ slice = "events" /\ now = 0
    /\ earlier = {}
-----------------------------------------------------------------------------
\* Wrong on purpose, to be put in the place of the next definition: a call goes
\* before those due at the same time.
PlaceBefore(s, tok, t) == CHOOSE n \in 1 .. Len(s) + 1 :
    /\ n <= Len(s) => tok[t].when <= tok[s[n]].when
    /\ \A i \in 1 .. n - 1 : tok[t].when > tok[s[i]].when

\* Where insert() puts t on s: before the first call due later.
Place(s, tok, t) == CHOOSE n \in 1 .. Len(s) + 1 :
    /\ n <= Len(s) => tok[t].when < tok[s[n]].when
    /\ \A i \in 1 .. n - 1 : tok[t].when >= tok[s[i]].when

\* insert()
Insert(s, tok, t) ==
    LET n == Place(s, tok, t)
    IN  [i \in 1 .. Len(s) + 1 |-> IF i < n THEN s[i] ELSE IF i = n THEN t ELSE s[i - 1]]

\* erase_after() of the one before the i-th.
Erase(s, i) == [j \in 1 .. Len(s) - 1 |-> IF j < i THEN s[j] ELSE s[j + 1]]

Forgotten(t) == {pair \in earlier : t \notin {pair[1], pair[2]}}

\* Lua code runs: the call, or the handler of an event.
LuaRuns == currentlambda # NoCall \/ slice = "events"

\* later(), latergame()
NewLater(t, k, delay, repeat) ==
    /\ LuaRuns /\ token[t] = Free
    /\ token' = [token EXCEPT ![t] = [list |-> k, when |-> delay + Clock(k),
                                      delay |-> IF repeat THEN delay ELSE 0]]
    /\ lists' = [lists EXCEPT ![k] = Insert(@, token', t)]
    /\ earlier' = earlier \cup (On(k) \X {t})
    /\ UNCHANGED <<clocks, currentlambda, check>>

\* Wrong on purpose, to be put in the place of the next definition: it is freed
\* while it runs.
StoppedNow(t) == [token EXCEPT ![t] = Free]

\* A call that runs is freed when it returns.
Stopped(t) == [token EXCEPT ![t].delay = 0]

\* cancel()
Cancel(t) ==
    /\ LuaRuns
    /\ IF t = currentlambda
       THEN token' = Stopped(t) /\ UNCHANGED <<lists, earlier>>
       ELSE \E k \in Lists, i \in 1 .. Cardinality(Calls) :
              /\ k = token[t].list /\ i \in DOMAIN lists[k] /\ lists[k][i] = t
              /\ lists' = [lists EXCEPT ![k] = Erase(@, i)]
              /\ token' = [token EXCEPT ![t] = Free]
              /\ earlier' = Forgotten(t)
    /\ UNCHANGED <<clocks, currentlambda, check>>

\* cleargame(): a repeated call that runs is not to be repeated.
ClearedGame == [t \in Calls |->
    IF t \in On("game") THEN Free
    ELSE IF t = currentlambda /\ token[t].list = "game" THEN [token[t] EXCEPT !.delay = 0]
    ELSE token[t]]

\* server::changemap() starts the game's clock again; a check of the game's calls goes
\* on with the time it was given.
ChangeMap ==
    /\ LuaRuns
    /\ token' = ClearedGame
    /\ lists' = [lists EXCEPT !["game"] = <<>>]
    /\ earlier' = {pair \in earlier : pair[1] \notin On("game")}
    /\ gamemillis' = 0
    /\ UNCHANGED <<longtotalmillis, currentlambda, check>>
-----------------------------------------------------------------------------
\* Wrong on purpose, to be put in the place of the next definition: the calls are
\* checked before the clock is set.
SliceLate(elapsed) ==
    /\ slice = "events" /\ longtotalmillis + elapsed <= MaxTime
    /\ longtotalmillis' = longtotalmillis + elapsed
    /\ slice' = "abs" /\ now' = longtotalmillis
    /\ UNCHANGED <<lists, token, gamemillis, currentlambda, earlier>>

\* serverslice() and check()
Slice(elapsed) ==
    /\ slice = "events" /\ longtotalmillis + elapsed <= MaxTime
    /\ longtotalmillis' = longtotalmillis + elapsed
    /\ slice' = "abs" /\ now' = longtotalmillis'
    /\ UNCHANGED <<lists, token, gamemillis, currentlambda, earlier>>

Due == lists[slice] # <<>> /\ token[Head(lists[slice])].when <= now

\* The loop of check(now, list)
Call ==
    /\ slice \in Lists /\ currentlambda = NoCall /\ Due
    /\ currentlambda' = Head(lists[slice])
    /\ lists' = [lists EXCEPT ![slice] = Tail(@)]
    /\ earlier' = Forgotten(Head(lists[slice]))
    /\ UNCHANGED <<token, clocks, check>>

\* Missed periods are made up for.
NextTime(l) == l.when + l.delay

\* The call returns and is freed, or is inserted again.
Return ==
    LET t == currentlambda
        l == token[t]
    IN  /\ t # NoCall /\ currentlambda' = NoCall
        /\ IF l.delay = 0
           THEN /\ token' = [token EXCEPT ![t] = Free]
                /\ UNCHANGED <<lists, earlier>>
           ELSE /\ token' = [token EXCEPT ![t].when = NextTime(l)]
                /\ lists' = [lists EXCEPT ![slice] = Insert(@, token', t)]
                /\ earlier' = earlier \cup (On(slice) \X {t})
        /\ UNCHANGED <<clocks, check>>

\* The call ends in an error and is freed.
Fail ==
    /\ currentlambda # NoCall /\ currentlambda' = NoCall
    /\ token' = [token EXCEPT ![currentlambda] = Free]
    /\ UNCHANGED <<lists, clocks, check, earlier>>

Checked(k) == slice = k /\ currentlambda = NoCall /\ ~Due

\* serverupdate(): when the game is not paused, its time passes and checkgame() begins.
Update(curtime) ==
    /\ Checked("abs")
    /\ gamemillis' = gamemillis + curtime
    /\ slice' = "game" /\ now' = gamemillis'
    /\ UNCHANGED <<lists, token, longtotalmillis, currentlambda, earlier>>

\* The server goes on to the network; the game is paused or has been checked.
Service ==
    /\ Checked("abs") \/ Checked("game")
    /\ slice' = "events" /\ now' = 0
    /\ UNCHANGED <<lists, token, clocks, currentlambda, earlier>>

\* Wrong on purpose, to be put in the place of the next definition: until the call
\* is due.
MaxhangUntilDue ==
    IF lists["abs"] = <<>> THEN MaxWait
    ELSE LET next == (token[Head(lists["abs"])].when - longtotalmillis) % Word
         IN  IF next < MaxWait THEN next ELSE MaxWait

\* maxhang(): how long the server waits for the network.
Maxhang ==
    IF lists["abs"] = <<>> THEN MaxWait
    ELSE LET next == (token[Head(lists["abs"])].when - longtotalmillis) % Word
         IN  IF next < 1 THEN 0 ELSE IF next - 1 < MaxWait THEN next - 1 ELSE MaxWait

Next ==
    \/ \E t \in Calls :
         \/ \E k \in Lists, delay \in Delays, repeat \in BOOLEAN : NewLater(t, k, delay, repeat)
         \/ Cancel(t)
    \/ ChangeMap
    \/ Call \/ Return \/ Fail \/ Service
    \/ \E elapsed \in Elapsed : Slice(elapsed)
    \/ \E curtime \in Curtimes : Update(curtime)

Spec == Init /\ [][Next]_vars

\* Calls return, loops go on, and time passes.
FairSpec ==
    /\ Spec
    /\ WF_vars(Call) /\ WF_vars(Return) /\ WF_vars(Service)
    /\ WF_vars(\E elapsed \in Elapsed : Slice(elapsed))
-----------------------------------------------------------------------------
\* The types of the state.
TypeOK ==
    /\ lists \in [Lists -> Seq(Calls)]
    /\ token \in [Calls -> [list : Lists \cup {"none"}, when : Nat, delay : Delays \cup {0}]]
    /\ longtotalmillis \in 0 .. MaxTime /\ gamemillis \in Nat
    /\ currentlambda \in Calls \cup {NoCall}
    /\ slice \in Lists \cup {"events"} /\ now \in Nat
    /\ earlier \subseteq Calls \X Calls

\* A call is freed once and only when nothing refers to it: each one in use is on
\* the list of its kind, in one place, or is the one that runs (cancel, cleargame
\* and check() share them).
Owned ==
    /\ \A k \in Lists : \A i, j \in DOMAIN lists[k] : lists[k][i] = lists[k][j] => i = j
    /\ \A k \in Lists : On(k) = {t \in Calls : token[t].list = k} \ {currentlambda}
    /\ currentlambda # NoCall => slice \in Lists /\ token[currentlambda].list = slice

\* The server does not sleep past a call: the difference that maxhang() takes of
\* unsigned numbers does not wrap, whatever was asked for since the check.
NoOversleep == slice = "events" /\ lists["abs"] # <<>> =>
    longtotalmillis + Maxhang < token[Head(lists["abs"])].when

\* A call of the game's clock has changed the map: check() still goes by the time of
\* the game before.
Restarted == slice = "game" /\ now # gamemillis

\* A check ends, although its calls ask for calls and are repeated.
CheckEnds == (slice \in Lists) ~> (slice = "events")

\* Checks end, and a call that is asked for runs or is cancelled, if the clock gets
\* there; unless calls of the game's clock change the map and ask for others without
\* end, which all run in the same check.
CallsRun ==
    \/ /\ CheckEnds
       /\ \A t \in Calls : (t \in On("abs") /\ token[t].when <= MaxTime) ~> (t \notin On("abs"))
    \/ <>[]Restarted

Has(k, f) == [t \in Calls |-> IF token[t].list = k THEN f[t] ELSE 0]
When == [t \in Calls |-> token[t].when]
Delay == [t \in Calls |-> token[t].delay]
Running(k) == IF slice = k THEN currentlambda ELSE NoCall

A == INSTANCE Timers WITH
    clock <- longtotalmillis, waiting <- On("abs"),
    due <- Has("abs", When), period <- Has("abs", Delay), running <- Running("abs"),
    earlier <- {pair \in earlier : pair[1] \in On("abs")}

G == INSTANCE Timers WITH
    clock <- gamemillis, waiting <- On("game"),
    due <- Has("game", When), period <- Has("game", Delay), running <- Running("game"),
    earlier <- {pair \in earlier : pair[1] \in On("game")}

\* The calls of each list implement the timers scripts are promised: in time, in
\* order, as often as asked for, and never once cancelled or cleared.  Only when a call
\* of the game's clock changes the map may the calls asked for after it be early, in
\* the same check; they keep to the rest.
TimersKept ==
    /\ A!Spec /\ G!Init
    /\ [][[G!Next]_(G!vars) \/ (Restarted /\ \E t \in Calls : G!Start(t))]_vars
=============================================================================
