\* One game; the network has room for two datagrams.
CONSTANTS
    MaxGames = 1
    MaxEvents = 4
    MaxBatch = 2
    PerDatagram = 2
    MaxInFlight = 2
    MaxRequests = 1
    HasName = TRUE
    JunkIds = {0}
SPECIFICATION FairSpec
PROPERTY
    EventuallyShown
CHECK_DEADLOCK FALSE
