\* Two drivers, so that get_drivers asks more than one, and a timer of each sign.
CONSTANTS
    MAX_DRIVERS = 2
    Timers <- MCTimers
SPECIFICATION FairSpec
INVARIANTS
    EpollIsExact
    QuietAtPrompt
    AvailableStaysTrue
PROPERTIES
    TaskRunsItsTime
    NobodyHangs
CHECK_DEADLOCK FALSE
