\* Two writers; two receivers whose handlers change values, and those of one may
\* fail; and a Close.
CONSTANTS
    Writers = {w1, w2}
    Receivers = {r1, r2}
    Values = {a, b}
    Modifiers = {r1, r2}
    Failers = {r2}
    MaxWrites = 3
    None = None
SPECIFICATION FairSpec
INVARIANTS ChainInv ModificationsAccumulate
PROPERTIES KeepsLog EveryReceiverReads ReceiversEnd
\* A receiver may have read everything, and Close may leave goroutines stuck.
CHECK_DEADLOCK FALSE
