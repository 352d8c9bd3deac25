\* Two workers, three calls of which one has a timeout; one job is
\* nil; StopServer up to twice.
CONSTANTS
    Workers = {w1, w2}
    Calls = {c1, c2, c3}
    TimedCalls = {c1}
    NilCalls = {c3}
    StopLimit = 2
    NoCall = NoCall
    NoWorker = NoWorker
SPECIFICATION FairSpec
INVARIANTS RegisterNeverBlocks OneHolder NoSendOnClosed
PROPERTIES KeepsPromise WorkersEnd CallSettles
\* A stopped pool with a caller that sends to a worker that has left is stuck.
CHECK_DEADLOCK FALSE
