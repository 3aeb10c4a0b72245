CONSTANTS
    File = {1, 2}
    NoFile = NoFile
    Lower <- MCLower
    Listed <- MCListed
    First <- MCFirst
    Field = {x}
    Value = {empty, v}
    Empty = empty
    Key = {x}
    JsonValue = {empty, v}
    Outside <- OddFiles
    OutsideRemoves = FALSE
    MayFail = FALSE
    Broken = Broken
    Blank = Blank
    Unreadable = Unreadable
    Absent = Absent
    Call = {c1, c2}
    SearchMap <- SearchesOrNone
SPECIFICATION CallsFairSpec
INVARIANTS CallsTypeOK WatcherHasCall
PROPERTIES SearchFindsAll KeepsContract SearchesEnd
