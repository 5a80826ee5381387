SPECIFICATION Spec
CONSTANTS
  None = None
  Account <- Accounts
  Worker = {w1, w2}
  LastDay = 4
  FiscalPeriod <- BothPeriods
  Movements <- Sales
  Stored <- Tables
  Calls <- AllCalls
  Room = 2
SYMMETRY StatementSymmetry
INVARIANTS
  TypeOK
  SheetBalances
  NetIncomeIsMovement
  ReportsTie
