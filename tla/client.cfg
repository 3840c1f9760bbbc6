\* A batch of three and a single submission; one of three tasks has a payload no worker can check.
CONSTANTS
  Task = {t1, t2, t3}
  Worker = {w1}
  Address = {a1}
  Priority = {1}
  BadPayload = {t3}
  NoTask = NoTask
  NoWorker = NoWorker
  NoAddress = NoAddress
  BatchCount = 3
  Batch = {TRUE, FALSE}
SPECIFICATION ClientSpec
INVARIANTS ClientTypeOK SubmissionsAccounted TotalsRight
PROPERTIES BatchEnds
