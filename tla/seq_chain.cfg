\* Up to three units: a segment of two epochs, cut short or not; pauses and stops.
\* No automatic retry: a unit whose attempt is lost fails, and is restarted by hand.
CONSTANTS
  t1 = t1
  t2 = t2
  tp = tp
  fq = fq
  fp = fp
  Jobs = {t1, t2, tp, fq, fp}
  Workers = {w1}
  NoWorker = NoWorker
  Phase <- RowPhase
  Born <- RowStatus
  Requests = {"pause", "stop_now"}
  MaxRetries = 0
  MaxAttempts = 1
  MaxLooks = 1
  FirstPhase = "train"
  TotalEpochs = 2
  UnitEpochs = 2
SYMMETRY Rows
SPECIFICATION RunSpec
INVARIANTS
  RunTypeOK
  OnlyHeadRuns
  CommittedUnitAdvanced
  ChainIsContiguous
PROPERTIES
  ImplementsProgress
CHECK_DEADLOCK FALSE
