\* One segment, its retry and its continuation, stopped while it waits.
CONSTANTS
  t1 = t1
  t2 = t2
  tp = tp
  fq = fq
  fp = fp
  Jobs = {t1, fq}
  Workers = {w1}
  NoWorker = NoWorker
  Phase <- RowPhase
  Born <- RowStatus
  Requests = {"stop_now"}
  MaxRetries = 1
  MaxAttempts = 1
  MaxLooks = 1
  FirstPhase = "train"
  TotalEpochs = 1
  UnitEpochs = 1
SYMMETRY Rows
SPECIFICATION RunSpec
PROPERTIES
  StopCancelsContinuation
CHECK_DEADLOCK FALSE
