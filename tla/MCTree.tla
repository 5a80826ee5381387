------------------------------- MODULE MCTree -------------------------------
(* Small instances of AccountTree.                                         *)
EXTENDS AccountTree

Creations(codes, collectives) ==
  {[op |-> "create", account |-> a, code |-> c, parent |-> p, collective |-> d] :
     a \in Account, c \in codes, p \in Reference, d \in collectives}
Settings(fields) ==
  {[op |-> "update", account |-> a, set |-> f] :
     a \in Account, f \in UNION {[F -> Reference] : F \in SUBSET fields}}
Deletions == {[op |-> "delete", account |-> a] : a \in Account}

(* Parents only.                                                           *)
TreeCalls == Creations(Code, {None}) \cup Settings({"parent"}) \cup Deletions

(* An update moves an account or changes its collective account.           *)
CollectiveCalls == TreeCalls \cup Settings({"collective"})

TreeSymmetry == Permutations(Worker) \cup Permutations(Account) \cup Permutations(Code)

=============================================================================
