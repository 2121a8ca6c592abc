SPECIFICATION FairSpec
CONSTANTS
    Requests = {r1, r2}
    NoRequest = NoRequest
PROPERTIES
    StopEnds
    StopDrains
