\* Three clients who play, of whom NEW_GAME has room for two; the fields run out
\* before MaxTicks turns.
CONSTANTS
    Session = {1, 2, 3}
    SocketOf <- OwnSocket
    NameOf <- ThreePlayers
    ConnLimit = 3
    NamesThatFit = 2
    maxx = 2
    maxy = 1
    Turns = {0, 1}
    Steps <- MovingSteps
    MaxGames = 1
    MaxTicks = 7
SPECIFICATION FairSpec
PROPERTY
    GameEnds
CHECK_DEADLOCK FALSE
