CONSTANTS
    p1 = p1
    p2 = p2
    p3 = p3
    Piece = {p1, p2, p3}
    WidthOf <- MCWidthOf
    HeightOf <- MCHeightOf
    Width = 2
    Height = 2
    NoPiece = NoPiece
    NoTask = NoTask
    Thread = {1, 2, 3}
    Initial = 1
    None = None
    rose = rose
    fern = fern
\* A datagram has room for two moves or one NEW_GAME of 33 bytes of data; 34 is the
\* first length that does not fit at all.
    MAX_MSG_SIZE = 50
    DataLengths = {0, 1, 9, 32, 33, 34}
    MaxEvents = 4
SPECIFICATION ProcessesSpec
INVARIANTS
    TypesOK
    FieldMirrorsCharacters
    NoLostWakeup
    NoCircularWait
    MutualExclusion
    CentralityIsComplete
    SizesFit
    NothingSkipped
PROPERTIES
    EveryRoundAnsweredRight
    PageSettles
    Ends
CHECK_DEADLOCK FALSE
