\* One look is enough to get past the start.
CONSTANT Tries = 1
SPECIFICATION Spec
PROPERTY StopIsGraceful
\* The container ends.
CHECK_DEADLOCK FALSE
