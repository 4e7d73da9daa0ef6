SPECIFICATION Spec
CONSTANTS
    TimeoutMsSet <- LongTimeouts
    PollMsSet <- LongPolls
    MinPollMs = 2
    MaxTimerDelay = 4
    TimerSlack = 0
    Horizon = 9
PROPERTIES
    PollSpacing
CHECK_DEADLOCK FALSE
