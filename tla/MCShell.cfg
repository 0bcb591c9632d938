\* Three commands, so that one has a neighbour on both sides; more input than a pipe has room for.
CONSTANTS
    Commands <- MCCommands
    MaxStages = 3
    Pieces = 2
    Room = 1
    MaxDepth = 3
SPECIFICATION FairSpec
INVARIANTS
    EndsHeld
    NothingLeft
PROPERTY BackToPrompt
CHECK_DEADLOCK FALSE
