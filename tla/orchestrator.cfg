\* One task and one worker process, started again under either id; one trouble of any kind.
CONSTANTS
  Task = {t1}
  Worker = {w1, w2}
  Address = {a1}
  Thread = {th1}
  BadPayload = {}
  NoTask = NoTask
  NoWorker = NoWorker
  NoAddress = NoAddress
  Priority = {1}
  Clock = {0}
  MaxReports = 9
  MaxEntries = 9
  AssignThread = {g1}
  ExecThread = {e1}
  FirstId = w1
  capacity = 1
  kMaxAttempts = 2
  MaxTroubles = 1
SPECIFICATION FairSystem
INVARIANTS SystemInv ExecutionsJustified ReportsCounted
PROPERTIES RunsCoordinator SubmittedIsResolved WorkerIsUsable LoadCorrected
