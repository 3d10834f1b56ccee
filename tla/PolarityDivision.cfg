SPECIFICATION Spec
INVARIANT PartsSearchedInFull
CHECK_DEADLOCK FALSE
