CONSTANTS
    File = {1, 2, 3}
    NoFile = NoFile
    Lower <- MCLower
    Listed <- MCListed
    First <- MCFirst
    Field = {x, y}
    Value = {empty, v}
    Empty = empty
    Key = {x, y, k}
    JsonValue = {empty, v, number}
    Outside <- AnyFiles
    OutsideRemoves = TRUE
    MayFail = TRUE
    Broken = Broken
    Blank = Blank
    Unreadable = Unreadable
    Absent = Absent
SPECIFICATION FilesSpec
INVARIANTS TimerHasFile ShownIsStoredOrUnset
