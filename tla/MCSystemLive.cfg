SPECIFICATION FairSpec
CONSTANTS
    a = a
    b = b
    c = c
    gone = gone
    status = status
    meter = meter
    range = range
    ghost = ghost
    bad = bad
    logger = logger
    customer = customer
    s1 = s1
    s2 = s2
    NoSerial = NoSerial
    AnySerial = AnySerial
    Never = Never
    NoSystem = NoSystem
    NoSession = NoSession
    System <- MCSystem
    Session <- MCSession
    SessionName <- MCSessionName
    SessionFile <- MCSessionFile
    ModuleName <- MCModuleName
    StatusModule = status
    DefaultSession = a
    ConditionalSystem = {logger, customer}
    License <- MCLicense
    Serial = {s1}
    MaxDestroying = 2
    MaxMonth = 1
    FactoryTable = {status, meter, range, bad}
    Creatable = {status, meter, range, bad}
    Unreadable = {bad}
    Failing = {}
INVARIANTS
    ReadyMeansComplete
PROPERTIES
    QueueDrains
    SwitchCompletes
