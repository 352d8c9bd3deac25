\* Three Connects of one client; two calls of Do; two trace clients, two
\* collectors and one call that is traced; one circuit, two Starts and three
\* calls of Execute.
CONSTANTS
    MaxConnects = 3
    MaxSets = 2
    Calls = {c1, c2}
    MaxRetries = 2
    Cap = 5
    Tracers = {t1, t2}
    Sends = {s1}
    None = None
    MaxCollectors = 2
    Circuits = {n1}
    Executes = {x1, x2, x3}
    Limits <- NoneZeroTwo
    LibraryLimit = 1
    MaxStarts = 2
SPECIFICATION MCSpec
INVARIANTS NothingLeftOpen ConnectedAsAsked RetriesCounted SpansArrive LimitHolds AnswerIsTrue
PROPERTIES DoEnds SendEnds
\* All calls have ended, or the process has.
CHECK_DEADLOCK FALSE
