SPECIFICATION Spec
CONSTANTS
    TimeoutMsSet <- MCTimeouts
    PollMsSet <- MCPolls
    MinPollMs = 2
    MaxTimerDelay = 4
    TimerSlack = 1
    Horizon = 9
INVARIANTS
    TypeOK
    NoStrayTimer
    OneRequestAtATime
PROPERTIES
    PollSpacing
    EventuallySettles
    ImplementsPromise
CHECK_DEADLOCK FALSE
