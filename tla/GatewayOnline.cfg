SPECIFICATION ReachableSpec
CONSTANT MaxDue = 2
PROPERTY StaysOnline
CHECK_DEADLOCK FALSE
