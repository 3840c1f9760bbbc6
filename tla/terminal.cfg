\* A report overtakes the assignment it answers.
CONSTANTS
  Task = {t1}
  Worker = {w1}
  Address = {a1}
  Thread = {th1}
  BadPayload = {}
  NoTask = NoTask
  NoWorker = NoWorker
  NoAddress = NoAddress
  Priority = {1}
  Clock = {0}
  Capacity = {1}
  MaxLoad = 1
  MaxReports = 1
  MaxEntries = 1
  Faults = {}
SPECIFICATION Spec
PROPERTIES TerminalIsFinal
