SPECIFICATION Spec
INVARIANT RemovedEquationsFollow
CHECK_DEADLOCK FALSE
