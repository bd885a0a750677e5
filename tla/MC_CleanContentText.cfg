CONSTANT Inputs <- MCLineInputs
SPECIFICATION Spec
CHECK_DEADLOCK FALSE
INVARIANT LineModelFaithful
