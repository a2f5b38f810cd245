CONSTANTS
  DayLen = 6
  BlockSizes = {1, 3}
  Requests <- MCRequests
  Calendars <- MCCalendars
SPECIFICATION FairSpec
INVARIANTS
  TypeOK
  SlotsDisjoint
  SlotsAvoidFetchedEvents
  NoFreeTimeLost
PROPERTIES
  ScanEnds
