CONSTANT Inputs <- MCTokenInputs
SPECIFICATION Spec
CHECK_DEADLOCK FALSE
INVARIANT CleaningIdempotent
