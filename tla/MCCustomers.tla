----------------------------- MODULE MCCustomers -----------------------------
(* Small instances of Customers.                                           *)
EXTENDS Customers, TLC

CONSTANTS ann, bob, eve

(* Ann creates and Bob updates; an auditor may only read.                  *)
Roles == [a \in Actor |-> CASE a = ann -> "ACCOUNTANT" [] a = bob -> "ADMIN" [] OTHER -> "AUDITOR"]

Creations ==
  {[op |-> "create", actor |-> ann, target |-> c, code |-> k, tax |-> t] :
     c \in Customer, k \in Code, t \in TaxId \cup {None}}

Changes ==
  [{"tax"} -> TaxId \cup {None}] \cup [{"active"} -> BOOLEAN \cup {None}] \cup {<<>>}

Updates ==
  {[op |-> "update", actor |-> bob, target |-> c, set |-> f] : c \in Customer, f \in Changes}

AllCalls == Creations \cup Updates

AllFilters == {None, TRUE}

CustomerSymmetry == Permutations(Worker) \cup Permutations(Customer)

=============================================================================
