\* Three starts and stops each; four routes of two paths, two interceptors.
CONSTANTS
    Paths = {a, b}
    Methods = {Get, Post}
    MaxStarts = 3
    MaxOptions = 2
SPECIFICATION MCSpec
INVARIANTS NoDuplicatePattern DownIsDeaf RoutesServed GrpcDownIsDeaf
\* A grpc server that has panicked has stopped.
CHECK_DEADLOCK FALSE
