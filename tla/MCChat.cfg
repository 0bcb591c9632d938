\* Two lines for each of two clients, room for two messages, so that clients and server
\* block, and a server that is killed or stopped and started again.
CONSTANTS
    Pids = {a, b}
    Kinds = {"chat", "shutdown"}
    QueueMax = 2
    MaxLines = 2
    MaxBoots = 2
SPECIFICATION MQFairSpec
INVARIANTS
    InOrderAtMostOnce
PROPERTIES
    NobodyPassedOver
    OthersStay
    LinesAreTaken
CHECK_DEADLOCK FALSE
