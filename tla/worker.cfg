\* A worker of capacity two with overlapping handlers, and a coordinator that may never answer.
\* The process may exit.
SPECIFICATION FairPrimeSpec
CHECK_DEADLOCK FALSE
CONSTANTS
    Modulus = 1024
    a1 = a1
    a2 = a2
    e1 = e1
    e2 = e2
    e3 = e3
    AssignThread = {a1, a2}
    ExecThread = {e1, e2, e3}
    capacity = 2
    kMaxAttempts = 2
    Number = {25}
    Malformed = Malformed
    None = None
INVARIANTS TypeOK ActiveCounted OvershootBounded LeftBehindBounded PrimeRight ResultsRight
PROPERTIES DrainWaits ShutdownCompletes RoomAgain
