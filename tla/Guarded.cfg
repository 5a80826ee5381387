SPECIFICATION Spec
CONSTANTS
  None = None
  Session = {s1, s2}
  Period = {p1}
  Entry = {e1, e2}
  Line = {l1, l2, l3, l4}
  Actor = {ann, bob}
  Room <- GuardedRoom
SYMMETRY GuardsSymmetry
INVARIANTS
  TypeOK
  PostedBalanced
  LedgerMatchesJournal
  CreatorNeverPosts
