\* Two or three clients who play, an observer, two games.
CONSTANTS
    Session = {1, 2, 3, 4}
    SocketOf <- OwnSocket
    NameOf <- SomeNames
    ConnLimit = 3
    NamesThatFit = 2
    maxx = 2
    maxy = 1
    Turns = {0, 1}
    Steps <- SomeSteps
    MaxGames = 2
    MaxTicks = 3
SPECIFICATION Spec
INVARIANTS
    TypeOK
    TablesAgree
    GameIdsAgree
    TrailIsPublic
    NumbersNameThePlayers
    LogTellsWhoPlays
    EliminatedForGood
PROPERTY
    LogSpec
CHECK_DEADLOCK FALSE
