CONSTANTS
  Workers = {w1, w2}
  Secrets = {k1, k2}
  NoSecret = NoSecret
  Batches = {b1, b2}
  BatchSize = 1
  NoWorker = NoWorker
SPECIFICATION FairSpec
INVARIANTS
  TypeOK
  EnabledIsProven
  NoCodesWhileDisabled
PROPERTIES
  SecretKeptWhileEnabled
  RequestsEnd
CHECK_DEADLOCK FALSE
