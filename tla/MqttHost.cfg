\* Two Connects of any client.
CONSTANTS
    MaxConnects = 2
    MaxSets = 2
SPECIFICATION Spec
INVARIANT HostIsUsed
\* A program that has panicked has stopped.
CHECK_DEADLOCK FALSE
