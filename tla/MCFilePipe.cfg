\* Both programs; two tokens (D_EMPTY_MAX is 1000), one line more than that, and two
\* starts of each program, with SIGINT and SIGKILL anywhere.
CONSTANTS
    EmptyMax = 2
    MaxLines = 3
    MaxStarts = 2
SPECIFICATION FairSpec
INVARIANTS
    LinesOwed
    TokensStay
PROPERTIES
    StopsWhenTold
CHECK_DEADLOCK FALSE
