\* Two games, a network of two datagrams, any junk in the client's game_id.
CONSTANTS
    MaxGames = 2
    MaxEvents = 4
    MaxBatch = 1
    PerDatagram = 2
    MaxInFlight = 2
    MaxRequests = 1
    HasName = TRUE
    JunkIds = {0, 1, 2}
SPECIFICATION Spec
INVARIANTS
    TypeOK
    AsksForFirstGap
    OnlyGenuineEvents
    QueueIsUnshown
    NamesBeforeMoves
PROPERTY
    FeedSpec
CHECK_DEADLOCK FALSE
