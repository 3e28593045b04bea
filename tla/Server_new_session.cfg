\* Two clients, one of whom was restarted on the socket it had.
CONSTANTS
    Session = {1, 2, 3}
    SocketOf <- SharedSocket
    NameOf <- NameOfSocket
    ConnLimit = 3
    NamesThatFit = 2
    maxx = 2
    maxy = 1
    Turns = {0, 1}
    Steps <- SomeSteps
    MaxGames = 1
    MaxTicks = 2
SPECIFICATION Spec
INVARIANT
    OneSessionPerSocket
CHECK_DEADLOCK FALSE
