SPECIFICATION Spec
CONSTANT Programs <- EarlyReturns
INVARIANT ReturnsLeave
CHECK_DEADLOCK FALSE
