-------------------------------- MODULE Timers --------------------------------
(***************************************************************************)
(* What a script that asks for delayed calls is promised, for the calls    *)
(* that follow one clock: a call runs neither before it is due nor, but    *)
(* for the calls due before it, after that; calls due at the same time run *)
(* in the order they were asked for; a repeated call is due again after    *)
(* its period; a cancelled one is never run again.  Later implements this  *)
(* twice, for the clock of the server and for the clock of the game.       *)
(***************************************************************************)
EXTENDS Integers

CONSTANTS Calls, NoCall, Delays

VARIABLES
    clock,
    waiting,    \* the calls that are to run
    due,        \* when
    period,     \* 0 for a call that is to run once
    running,    \* the call that runs, or NoCall
    earlier     \* pairs of waiting calls, the first asked for before the second

vars == <<clock, waiting, due, period, running, earlier>>

Without(t) == {pair \in earlier : t \notin {pair[1], pair[2]}}

Init ==
    /\ clock = 0 /\ waiting = {} /\ running = NoCall /\ earlier = {}
    /\ due = [t \in Calls |-> 0] /\ period = [t \in Calls |-> 0]

\* t is due at time d, after all that have been asked for.
Queue(t, d) ==
    /\ waiting' = waiting \cup {t}
    /\ due' = [due EXCEPT ![t] = d]
    /\ earlier' = earlier \cup (waiting \X {t})
    /\ UNCHANGED clock

Forget(t) ==
    /\ due' = [due EXCEPT ![t] = 0] /\ period' = [period EXCEPT ![t] = 0]

Ask(t) ==
    /\ t \notin waiting /\ t # running
    /\ \E d \in Delays :
         /\ Queue(t, clock + d)
         /\ period' \in {period, [period EXCEPT ![t] = d]}
    /\ UNCHANGED running

Cancel(t) ==
    /\ IF t = running
       THEN period' = [period EXCEPT ![t] = 0] /\ UNCHANGED due
       ELSE t \in waiting /\ Forget(t)
    /\ waiting' = waiting \ {t} /\ earlier' = Without(t)
    /\ UNCHANGED <<clock, running>>

\* The clock starts again: no call outlives it.
Reset ==
    /\ clock' = 0 /\ waiting' = {} /\ earlier' = {}
    /\ period' = [t \in Calls |-> 0]
    /\ due' = [t \in Calls |-> IF t = running THEN due[t] ELSE 0]
    /\ UNCHANGED running

IsNext(t) == \A u \in waiting :
    due[t] < due[u] \/ (due[t] = due[u] /\ <<u, t>> \notin earlier)

\* t runs, at whatever time.
Start(t) ==
    /\ running = NoCall /\ t \in waiting /\ IsNext(t)
    /\ running' = t /\ waiting' = waiting \ {t} /\ earlier' = Without(t)
    /\ UNCHANGED <<clock, due, period>>

Run(t) == due[t] <= clock /\ Start(t)

\* The call returns; it is due again if it has a period, unless it failed.
Repeat ==
    /\ running # NoCall /\ period[running] # 0
    /\ Queue(running, due[running] + period[running])
    /\ running' = NoCall /\ UNCHANGED period

End ==
    /\ running # NoCall /\ Forget(running)
    /\ running' = NoCall
    /\ UNCHANGED <<clock, waiting, earlier>>

\* Time passes when no call is overdue.
Tick ==
    /\ running = NoCall /\ \A t \in waiting : due[t] > clock
    /\ clock' \in Nat /\ clock' > clock
    /\ UNCHANGED <<waiting, due, period, running, earlier>>

Next ==
    \/ \E t \in Calls : Ask(t) \/ Cancel(t) \/ Run(t)
    \/ Repeat \/ End \/ Reset \/ Tick

Spec == Init /\ [][Next]_vars
=============================================================================
