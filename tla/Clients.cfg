SPECIFICATION Spec
CONSTANTS
  ann = ann
  bob = bob
  eve = eve
  None = None
  Worker = {w1, w2}
  Customer = {c1, c2}
  Code = {1, 2}
  TaxId = {t1}
  Actor = {ann, bob, eve}
  RoleOf <- Roles
  Calls <- AllCalls
  Filters <- AllFilters
  Page = 1
  Room = 3
SYMMETRY CustomerSymmetry
INVARIANTS
  TypeOK
  TrailTellsCustomers
  PagesMissNobody
