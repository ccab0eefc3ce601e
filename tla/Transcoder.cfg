SPECIFICATION Spec
INVARIANT EncodedOnce
CHECK_DEADLOCK FALSE
