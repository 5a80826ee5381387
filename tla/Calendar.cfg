SPECIFICATION Spec
CONSTANTS
  None = None
  Worker = {w1, w2}
  Year = {y1, y2}
  Period = {p1, p2}
  Day <- FourDays
  Calls <- CalendarCalls
SYMMETRY CalendarSymmetry
INVARIANTS
  TypeOK
  CalendarNested
  DraftsInOpenPeriods
PROPERTIES
  YearClosesSettled
  ClosedYearKeepsPeriods
