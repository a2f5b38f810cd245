CONSTANTS
  Workers = {w1, w2}
  Secrets = {k1, k2}
  NoSecret = NoSecret
  Batches = {b1, b2}
  BatchSize = 2
  NoWorker = NoWorker
SPECIFICATION Spec
INVARIANT BackupCodesConsumed
CHECK_DEADLOCK FALSE
