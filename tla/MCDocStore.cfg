SPECIFICATION Spec
CONSTANTS
    Ids = {1, 2}
    f1 = f1
    f2 = f2
    IdField = IdField
    Fields = {f1, f2, IdField}
    IndexFields = {f1}
    number1 = number1
    string1 = string1
    int1 = int1
    nameA = nameA
    nameB = nameB
    Values = {number1, int1, string1, nameA, nameB}
    Text <- MCText
    Number <- MCNumber
    Json <- MCJson
    Name <- MCName
    Absent = Absent
    NoDoc = NoDoc
    NoIndex = NoIndex
    None = None
    Delete = Delete
    Procs = {p1, p2}
    Documents <- MCDocuments
    Updates <- MCUpdates
    Finds <- MCFinds
    Selections <- MCSelections
    MaxCalls = 4
    MaxRestarts = 1
INVARIANTS
    IndexCovers
    IndexExact
    FindComplete
    OnlyMatchedWritten
    UpdatesKept
SYMMETRY Goroutines
CHECK_DEADLOCK FALSE
