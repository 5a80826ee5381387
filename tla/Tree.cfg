SPECIFICATION Spec
CONSTANTS
  None = None
  Worker = {w1, w2}
  Account = {a1, a2}
  Code = {c1, c2}
  Calls <- CollectiveCalls
  Room = 2
SYMMETRY TreeSymmetry
INVARIANTS
  TypeOK
  CyclesTakeTwoMoves
