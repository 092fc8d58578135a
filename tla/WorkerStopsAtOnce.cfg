CONSTANTS
    Consumers <- StartOrder
SPECIFICATION Spec
INVARIANT RunningConsumes
CHECK_DEADLOCK FALSE
