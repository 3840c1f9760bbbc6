\* One task, one worker, two handler threads, every fault of the network and the workers.
CONSTANTS
  Task = {t1}
  Worker = {w1}
  Address = {a1}
  Thread = {th1, th2}
  BadPayload = {}
  NoTask = NoTask
  NoWorker = NoWorker
  NoAddress = NoAddress
  Priority = {1}
  Clock = {0}
  Capacity = {1}
  MaxLoad = 1
  MaxReports = 1
  MaxEntries = 1
  Faults = {"unreachable", "refusal", "silence", "restart", "overrun"}
SPECIFICATION Spec
INVARIANTS TypeOK NoTaskLost VerdictsCounted
PROPERTIES RecoveryKeepsVerdicts ImplementsLifecycle
