CONSTANTS
    \* Two requests fit; the third datagram overflows.
    Client = {1, 2}
    Capacity = 2
    MaxSilence = 1
    MaxTime = 2
    MaxAccepted = 3
    \* One foreign price in the master wallet, for a second payment to take.
    Bidder = {bob, eve}
    Request = {w1, w2}
    Held = 1
    AlertId = {"low", "high"}
    Price = {1, 3}
    Condition <- MCCondition
    alert_interval = 1
    MaxSeconds = 2
    MaxQueue = 1
    MaxCrashes = 1
    Rooms <- MCRooms
    Orders <- MCOrders
    Clerks <- MCClerks
    Queues <- MCQueues
    NoRoom = 0
    Child = {kid1, kid2}
    Root = root
    NoNode = NoNode
    \* One child is a survey; three changes, so that two can be undone before another.
    Survey = {kid1}
    Letter = {x1, x2}
    MaxText = 2
    MaxLikes = 1
    MaxChanges = 3
    Never = Never
    Nobody = Nobody
    \* Two slots: the refill goes around, and a process can be a parent.
    NR_PROCS = 2
    MAX_TOKENS = 1
    MaxPriority = 1
    MaxTicks = 3
    MaxStarts = 2
    \* Two requests overlap, a third does not.
    CandidateId = {v1, v2}
    Worker = {w1, w2}
    MaxVotes = 2
    MaxServed = 3
    Invalid = 1
    Spare = 1
    Whole <- MCWhole
    Vector <- MCVector
    Shifts <- MCShifts
    MaxRectangles = 4
    Town = {oz, salem}
    Citizen = {"adult", "sheriff"}
    Fiend = {"mummy", "zombie"}
    Power <- MCPower
    Health <- MCHealth
    Hours = {0, 3}
    Clock = 3
    TownStep = {1, 3}
    Nothing = Nothing
    \* 127 in place of the largest int; a step of 120 overflows it.
    t0 = 1
    t1 = 8
    Limit = 127
    Step = {1, 2, 7, 120}
    Citizens <- MCCitizens
    Monster <- MCMonster
    stem = stem
    va = va
    vb = vb
    vc = vc
    piece = piece
SPECIFICATION ServicesSpec
INVARIANTS
    TypesOK
    NothingIsLost
    RecordsAgree
    AlertsAreQuiet
    UndoRestores
    OrdersAreSettled
    TownsCountRight
PROPERTIES
    RelayPromise
    MapPromise
CHECK_DEADLOCK FALSE
