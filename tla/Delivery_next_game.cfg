\* Two games, room for one datagram: is the second one learned?
CONSTANTS
    MaxGames = 2
    MaxEvents = 3
    MaxBatch = 1
    PerDatagram = 3
    MaxInFlight = 1
    MaxRequests = 1
    HasName = TRUE
    JunkIds = {0}
SPECIFICATION FairSpec
PROPERTY
    EventuallyCurrent
CHECK_DEADLOCK FALSE
