SPECIFICATION LicenseSpec
CONSTANTS
    status = status
    meter = meter
    range = range
    logger = logger
    s1 = s1
    s2 = s2
    NoSerial = NoSerial
    AnySerial = AnySerial
    Never = Never
    NoSystem = NoSystem
    System = {status, meter, range, logger}
    Serial = {s1, s2}
    License <- MCLicense
    MaxMonth = 3
INVARIANTS
    EarlyNeedsAnySerial
PROPERTIES
    RefusedUntilNewSerial
    LicensedStaysLicensed
