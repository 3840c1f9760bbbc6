\* Two workers that die, revive and take over a task, which fails.
CONSTANTS
  Task = {t1}
  Worker = {w1, w2}
  Address = {a1}
  Thread = {th1}
  BadPayload = {t1}
  NoTask = NoTask
  NoWorker = NoWorker
  NoAddress = NoAddress
  Priority = {1}
  Clock = {0}
  Capacity = {1}
  MaxLoad = 1
  MaxReports = 1
  MaxEntries = 1
  Faults = {"unreachable", "silence"}
SPECIFICATION Spec
SYMMETRY WorkerSymmetry
INVARIANTS LoadBounded InFlightOwned
