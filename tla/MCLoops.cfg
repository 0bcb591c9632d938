CONSTANTS
\* Every array of up to four numbers among four; INT_MAX is one of them.
    Numbers = {0, 1, 2, 3}
    MaxSize = 4
    IntMax = 3
\* Four of each signal: one more SIGINT than the program waits for.
    MaxSent = 4
\* Three connections: one removed while others are there, and a later one that reuses the
\* descriptors of its socket and of its file.
    MaxConns = 3
    MaxFd = 6
SPECIFICATION MCFairSpec
INVARIANTS
    NowReturns
    NothingInvented
    AcceptNeverBlocks
    TableExact
PROPERTIES
    ThirdEndsUnlessFourth
    
CHECK_DEADLOCK FALSE
