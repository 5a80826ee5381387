SPECIFICATION Spec
CONSTANTS
  ann = ann
  bob = bob
  cash = cash
  None = None
  Org = Org
  Period = {p1}
  Entry = {e1, e2, e3}
  Actor = {ann, bob}
  Key = {k1, k2}
  Worker = {w1}
  Account = {}
  Lines <- MCLines
  Net <- MCNet
  Swap <- MCSwap
  AccountsOf <- MCAccountsOf
  Calls <- LifeCalls
  AuditRoom <- ToFive
SYMMETRY EntrySymmetry
INVARIANT
  OrphansAreDrift
