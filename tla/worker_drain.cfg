\* A handler that is past the draining test when the signal arrives.
\* The process may exit.
SPECIFICATION Spec
CHECK_DEADLOCK FALSE
CONSTANTS
    a1 = a1
    e1 = e1
    AssignThread = {a1}
    ExecThread = {e1}
    capacity = 1
    kMaxAttempts = 1
INVARIANTS DrainLeavesNothing
