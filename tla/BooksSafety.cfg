SPECIFICATION Spec
CONSTANTS
  None = None
  Period = {p1, p2}
  Entry = {e1, e2, e3}
  Actor = {ann, bob}
  Key = {k1, k2, k3}
  Lines <- MCLines
  Net <- MCNet
  Swap <- MCSwap
  AuditRoom <- ToSix
SYMMETRY BooksSymmetry
INVARIANTS
  TypeOK
  LedgerIsPostedJournal
  PostingsBalance
  ClosedPeriodSettled
  ReversalsLinked
  KeysUnique
  TwoPersons
  TrailExplains
PROPERTIES
  ClosedPeriodFrozen
  HistoryKept
CHECK_DEADLOCK FALSE
