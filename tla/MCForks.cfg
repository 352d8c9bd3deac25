\* Five structs, up to three levels deep, in every environment; or two channels
\* (one select), or three to seven: up to three levels, the last with no
\* channel, one or two.
CONSTANTS
    top = top
    sub = sub
    deep = deep
    ptr1 = ptr1
    ptr2 = ptr2
    None = None
    Root = top
    Structs = {top, sub, deep, ptr1, ptr2}
    Fields <- Nested
    Sizes = {2, 3, 4, 5, 6, 7}
SPECIFICATION MCSpec
INVARIANTS ParseInv ErrorReported SignalInv
PROPERTIES ParseEnds SignalsArrive
\* The goroutines have ended, or wait for a channel that is nil.
CHECK_DEADLOCK FALSE
