CONSTANTS
    Writers = {w1}
    Receivers = {r1, r2}
    Values = {a, b}
    Modifiers = {}
    Failers = {}
    MaxWrites = 1
    None = None
SPECIFICATION FairSpec
PROPERTY ListenReturns
\* A receiver may have read everything, and Close may leave goroutines stuck.
CHECK_DEADLOCK FALSE
