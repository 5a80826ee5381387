SPECIFICATION FairSpec
CONSTANTS
  ann = ann
  bob = bob
  cash = cash
  None = None
  Org = Org
  Period = {p1, p2}
  Entry = {e1, e2}
  Actor = {ann, bob}
  Key = {k1, k2}
  Worker = {w1, w2}
  Account = {}
  Lines <- MCLines
  Net <- MCNet
  Swap <- MCSwap
  AccountsOf <- MCAccountsOf
  Calls <- LiveCalls
  AuditRoom <- ToThree
INVARIANTS
  DeadlocksOnlyOnOrganization
PROPERTIES
  ImplementsBooks
  EveryCallEnds
