CONSTANTS
  DayLen = 6
  BlockSizes = {1, 3}
  Requests <- MCOneInstant
  Calendars <- MCCalendars
SPECIFICATION Spec
INVARIANTS
  SlotsAvoidCalendar
