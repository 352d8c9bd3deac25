\* All handlers and two requests, while a client pages through the table.
CONSTANTS
    id = id
    a = a
    b = b
    PK = id
    Columns = {a, b}
    Structs <- BothStructs
    Kinds = {"create", "read", "update", "delete", "list"}
    zero = zero
    bad = bad
    Values = {zero, good, bad}
    Zero = zero
    Rejects <- SampleRejects
    Requests = {r1, r2}
    MaxKey = 4
    Stored = 2
    PerPage = 1
    NoRow = NoRow
SPECIFICATION Spec
INVARIANTS RowsAreValid AnswersAreTrue PagesMissNothing
SYMMETRY RequestSymmetry
\* All requests are answered.
CHECK_DEADLOCK FALSE
