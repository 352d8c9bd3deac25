\* One start, two routes of one path.
CONSTANTS
    Paths = {a}
    Methods = {Get, Post}
    MaxStarts = 1
    MaxOptions = 1
SPECIFICATION Spec
INVARIANT MethodsServed
