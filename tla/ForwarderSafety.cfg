SPECIFICATION Spec
CONSTANTS
    Requests = {r1, r2, r3}
    NoRequest = NoRequest
SYMMETRY Symmetry
INVARIANTS
    TypeOK
    CleanStopReleasesAll
    CleanReportIsTrue
    OpenSocketIsOwned
    TimeoutNeedsExpiry
    ServesUntilStopped
PROPERTIES
    NoRegistrationAfterStop
    ImplementsContract
