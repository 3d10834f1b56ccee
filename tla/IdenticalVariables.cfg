SPECIFICATION Spec
INVARIANT IdenticalMerged
CHECK_DEADLOCK FALSE
