\* Two clients on one event, with the test's limit.
CONSTANTS
    c1 = c1
    c2 = c2
    e1 = e1
    Clients = {c1, c2}
    Events = {e1}
    Listeners <- SameEvent
    Limit = 2
    MaxEmits = 3
SPECIFICATION FairSpec
INVARIANTS OneAtATime HandledWasEmitted OneCallAfterOff
PROPERTY WakingCalls
\* Nothing happens when all has been emitted.
CHECK_DEADLOCK FALSE
