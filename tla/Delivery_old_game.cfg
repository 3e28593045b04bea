\* Two games: can the first come back?
CONSTANTS
    MaxGames = 2
    MaxEvents = 3
    MaxBatch = 1
    PerDatagram = 2
    MaxInFlight = 2
    MaxRequests = 1
    HasName = TRUE
    JunkIds = {0}
SPECIFICATION Spec
PROPERTY
    GamesInOrder
CHECK_DEADLOCK FALSE
