CONSTANTS
  Workers = {w1, w2}
  Grants = {1, 2}
  NoGrant = NoGrant
  MaxTokens = 2
  Tables <- MCTables
  Mappings <- MCMappings
  NoMapping = NoMapping
  NoTitle = NoTitle
  MaxRows = 2
SPECIFICATION Spec
INVARIANTS
  TypeOK
  RefreshTokenKept
  ImportComplete
PROPERTY StaleConnectionEnds
CHECK_DEADLOCK FALSE
