CONSTANTS
  Workers = {w1, w2}
  Checkouts = {c1, c2}
  NoRef = NoRef
  OtherRef = OtherRef
  PriceId = PriceId
  NoEvent = NoEvent
  Bodies <- ClientBodies
  Toggles = {t1}
  Missing = Missing
  MaxRequests = 2
  MaxEvents = 2
SPECIFICATION Spec
SYMMETRY Interchangeable
INVARIANTS
  TypeOK
  CacheNeverAhead
  PaymentFound
  SettingsNeedPremium
  MarkedIsHandled
PROPERTY
  CanceledAtStripe
CHECK_DEADLOCK FALSE
