\* Two tasks of any priorities and ages on one worker of capacity two, whose queue entries go stale;
\* the coordinator may die.
CONSTANTS
  Task = {t1, t2}
  Worker = {w1}
  Address = {a1}
  Thread = {th1}
  BadPayload = {}
  NoTask = NoTask
  NoWorker = NoWorker
  NoAddress = NoAddress
  Priority = {1, 2}
  Clock = {0, 1}
  Capacity = {2}
  MaxLoad = 2
  MaxReports = 1
  MaxEntries = 1
  Faults = {"unreachable", "overrun", "crash"}
SYMMETRY TaskSymmetry
SPECIFICATION Spec
INVARIANTS IInv ForgottenStayForgotten
PROPERTIES UnreachableSwept MostUrgentFirst
