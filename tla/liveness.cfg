\* Two tasks and a worker that never reports, may refuse, be unreachable or silent; shutdown at any
\* moment.
CONSTANTS
  Task = {t1, t2}
  Worker = {w1}
  Address = {a1}
  Thread = {th1}
  BadPayload = {}
  NoTask = NoTask
  NoWorker = NoWorker
  NoAddress = NoAddress
  Priority = {1}
  Clock = {0}
  Capacity = {1}
  MaxLoad = 1
  MaxReports = 0
  MaxEntries = 1
  Faults = {"unreachable", "refusal", "silence", "overrun", "stop"}
SPECIFICATION FairSpec
PROPERTIES InFlightIsTransient PendingIsOffered StopCompletes
