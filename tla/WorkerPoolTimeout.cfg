CONSTANTS
    Workers = {w1}
    Calls = {c1, c2}
    TimedCalls = {c1, c2}
    NilCalls = {}
    StopLimit = 1
    NoCall = NoCall
    NoWorker = NoWorker
SPECIFICATION TimerSpec
PROPERTY TimedCallReturns
CHECK_DEADLOCK FALSE
