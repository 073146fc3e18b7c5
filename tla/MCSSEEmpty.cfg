SPECIFICATION SSESpec
CONSTANT MaxBytes = 5
CHECK_DEADLOCK FALSE
INVARIANT NoEmptyEvents
