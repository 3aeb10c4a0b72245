CONSTANTS
    p = p
    q = q
    c1 = c1
    c2 = c2
    c3 = c3
    Uid <- MCUid
    NoUid = NoUid
    Peer = {p, q}
    Call = {c1, c2, c3}
    Priority <- MCPriority
    SessionName = {a, b}
    Session = {a, b}
    NoSession = NoSession
    Message = {m}
    Procedure <- MCProcedure
    MaxQueue = 2
    MaxMessages = 2
SPECIFICATION Spec
INVARIANTS ShownIsKept SessionShown GrantedHolds
PROPERTIES HighestDecides KeepsContract KeepsControl
