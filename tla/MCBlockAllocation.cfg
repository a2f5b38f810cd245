CONSTANTS
  DayLen = 6
  Days = {0, 1}
  DefaultDuration = 2
  Caps = {1, 2}
  FreeSlotLists <- MCFreeSlotLists
  TaskLists <- MCTaskLists
SPECIFICATION Spec
INVARIANTS
  TypeOK
  NoDoubleBooking
  StaysInsideFreeSlots
  DailyCapRespected
  RefusalsJustified
PROPERTIES
  UrgentTasksEarliest
  BooksAvailableTime
CHECK_DEADLOCK FALSE
