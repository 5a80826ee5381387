------------------------------ MODULE MCChain ------------------------------
(* Small instances of AuditChain.                                          *)
EXTENDS AuditChain, TLC

(* A decimal and the text it is written as, which digest alike, and an     *)
(* enumeration.                                                            *)
Decimal == [type |-> "Decimal", text |-> "1.00"]
Posted == [type |-> "Enum", text |-> "POSTED"]
ManyPayloads == {Decimal, [Decimal EXCEPT !.type = "str"], Posted}
TwoPayloads == {Decimal, Posted}

ChainSymmetry == Permutations(Organization) \cup Permutations(Event)

============================================================================
