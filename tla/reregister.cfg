\* A worker restarts while the dispatch thread assigns it a task.
CONSTANTS
  Task = {t1}
  Worker = {w1}
  Address = {a1}
  Thread = {th1}
  BadPayload = {}
  NoTask = NoTask
  NoWorker = NoWorker
  NoAddress = NoAddress
  Priority = {1}
  Clock = {0}
  Capacity = {1}
  MaxLoad = 1
  MaxReports = 1
  MaxEntries = 1
  Faults = {"restart"}
SPECIFICATION Spec
PROPERTIES RegistrationSweeps
