\* Two tokens (D_EMPTY_MAX is 1), so that the writer can overtake the reader twice, one
\* array more than that needs, a SIGINT and a SIGKILL at any point of either process.
CONSTANTS
    EmptyMax = 2
    MaxBlocks = 4
    Killable = {"writer", "reader"}
SPECIFICATION FairSpec
INVARIANTS
    NoTornScan
    AnswerNotLost
    LossBound
PROPERTIES
    ImplementsMailbox
    BothEnd
CHECK_DEADLOCK FALSE
