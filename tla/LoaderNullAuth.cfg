SPECIFICATION BlockSpec
INVARIANT FailuresAreProfileErrors
CHECK_DEADLOCK FALSE
