SPECIFICATION QuietSpec
CONSTANT MaxDue = 2
INVARIANTS GatewaySafety ResumeFits
PROPERTIES NeverHangs StopsWhenCancelled
CHECK_DEADLOCK FALSE
