\* Two clients; one thing goes wrong in the network or the server.
CONSTANTS
    a = a
    b = b
    Clients = {a, b}
    Ports = {1, 2, 3}
    Assignments <- MCAssignments
    ServerPort <- MCServerPort
    MaxRequests <- MCMaxRequests
    Local = TRUE
SPECIFICATION RUFairSpec
INVARIANTS
    InStep
    NumbersCount
PROPERTY AnsweredUnlessLost
CHECK_DEADLOCK FALSE
