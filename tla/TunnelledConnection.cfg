SPECIFICATION Spec
INVARIANTS
    TypeOK
    NothingForgotten
    EndsEmpty
    ConnectedIsWhole
    WaitsLast
    TimeoutIsReported
