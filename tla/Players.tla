------------------------------ MODULE Players ------------------------------
(* What the game modes of the server see of the players: state, team, place,*)
(* no-clip mark and skulls carried (fpsgame/server.cpp, clientinfo and       *)
(* gamestate). A place is a base of the map or Elsewhere; being inside a     *)
(* base is being at its place.                                              *)
EXTENDS Integers, Sequences, FiniteSets, SequencesExt

CONSTANTS
  Clients,      \* client numbers in use
  Places,       \* places a player can be at, a set of positive numbers
  MaxTime       \* ticks of the game clock explored in one game

VARIABLES
  ci,           \* [Clients -> player]; state "gone" for a number not in use
  smode,        \* the game mode in play
  m             \* the state of that mode, with m.now, lastmillis in ticks from 1, and m.seen, the clients' copy

Nobody == 0
Elsewhere == 0
ASSUME PlayersAssumption == Nobody \notin Clients /\ IsFiniteSet(Clients) /\ IsFiniteSet(Places)
Good == 1
Evil == 2
Teams == {Good, Evil}
States == {"gone", "dead", "alive", "spectator"}

Player == [state : States, team : Teams, o : Places \cup {Elsewhere}, clip : BOOLEAN, tokens : Nat]
NewPlayer(team) == [state |-> "dead", team |-> team, o |-> Elsewhere, clip |-> FALSE, tokens |-> 0]
Gone == [NewPlayer(Good) EXCEPT !.state = "gone"]

Alive(c) == ci[c].state = "alive"
Present(c) == ci[c].state /= "gone"
IsTeam(c, d) == ci[c].team = ci[d].team

\* Only protect and capture look at where players are; elsewhere one place stands for all.
Spots == CASE smode = "protect" -> Places [] smode = "capture" -> Places \cup {Elsewhere} [] OTHER -> {Elsewhere}

\* Team scores: scores[2], or a list indexed by team name.
AddScore(s, team, n) == [s EXCEPT !.scores[team] = @ + n]
\* sendf of a score: the clients set theirs.
SeeScore(s, team) == [s EXCEPT !.seen.scores[team] = s.scores[team]]
\* startintermission: the game is over from here on.
Intermission(s) == [s EXCEPT !.ended = TRUE]
=============================================================================
