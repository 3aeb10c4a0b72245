CONSTANTS
    File = {2, 3}
    NoFile = NoFile
    Lower <- MCLower
    Listed <- MCListed
    First <- MCFirst
    Field = {x}
    Value = {empty, v}
    Empty = empty
    Key = {x}
    JsonValue = {empty, v}
    Outside <- WholeFiles
    OutsideRemoves = FALSE
    MayFail = FALSE
    Broken = Broken
    Blank = Blank
    Unreadable = Unreadable
    Absent = Absent
SPECIFICATION FilesSpec
INVARIANT RemovedStaysRemoved
