\* Two handlers and one free slot.
\* The process may exit.
SPECIFICATION Spec
CHECK_DEADLOCK FALSE
CONSTANTS
    a1 = a1
    a2 = a2
    e1 = e1
    e2 = e2
    AssignThread = {a1, a2}
    ExecThread = {e1, e2}
    capacity = 1
    kMaxAttempts = 1
INVARIANTS CapacityRespected
