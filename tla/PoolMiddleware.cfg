\* Three requests for one worker, behind each of the three middlewares; one has
\* no timeout; StopServer may be called.
CONSTANTS
    Kinds = {"sync", "async", "unary"}
    Workers = {w1}
    Calls = {c1, c2, c3}
    TimedCalls = {c1, c2}
    NilCalls = {}
    StopLimit = 1
    NoCall = NoCall
    NoWorker = NoWorker
SPECIFICATION MFairSpec
INVARIANTS ResultsInv ReplyTellsTruth RunsDoNotOverlap
PROPERTIES RequestEnds WorkerIsFreed
\* Every request is over and the workers wait, or the pool has been stopped.
CHECK_DEADLOCK FALSE
