SPECIFICATION Spec
CONSTANTS
  Organization = {o1, o2}
  Event = {v1}
  Payload <- TwoPayloads
  Length = 3
  Changes = 3
SYMMETRY ChainSymmetry
INVARIANTS
  TypeOK
  UntouchedVerifies
  VerifiedIsPrefix
CHECK_DEADLOCK FALSE
