SPECIFICATION Spec
CONSTANTS
  None = None
  Session = {s1}
  Period = {p1}
  Entry = {e1, e2}
  Line = {l1, l2, l3, l4}
  Actor = {ann, bob}
  Room <- TakenBackRoom
SYMMETRY GuardsSymmetry
INVARIANTS
  ReversedHasReversal
