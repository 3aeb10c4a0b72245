CONSTANTS
    File = {1, 2, 3, 4}
    NoFile = NoFile
    Lower <- MCLower
    Listed <- MCListed
    First <- MCFirst
    Field = {x}
    Value = {empty, v}
    Empty = empty
    Key = {x, k}
    JsonValue = {empty, v}
    Outside <- UsableFiles
    OutsideRemoves = TRUE
    MayFail = FALSE
    Broken = Broken
    Blank = Blank
    Unreadable = Unreadable
    Absent = Absent
SPECIFICATION FilesSpec
INVARIANT SelectedIsCurrent
PROPERTY PendingWriteKept
