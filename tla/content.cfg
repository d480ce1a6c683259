SPECIFICATION Spec
CONSTANT MaxReps = 3
INVARIANTS ForbiddenAsAWhole KeptByCategory
CHECK_DEADLOCK FALSE
