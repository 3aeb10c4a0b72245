CONSTANTS
    Call = {c1, c2}
    Path = {p1, p2, p3}
    Database = {p1, p2}
SPECIFICATION FairSpec
INVARIANTS PostsHaveCall PendingIsServed
PROPERTIES SearchFindsAll KeepsContract EveryCallAnswered
