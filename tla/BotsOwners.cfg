\* Two humans come and go; three bots on two teams.
SPECIFICATION FairSpec
CONSTANTS
    Humans = {h1, h2}
    NoOwner = NoOwner
    MaxBots = 3
    Teams = {1, 2}
    DefaultTeams <- GoodEvil
    TeamMode = TRUE
    Limits = {2}
    MapSpectator = TRUE
INVARIANTS OwnersKept OwnersBalanced
PROPERTY RefreshEnds
