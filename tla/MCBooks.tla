------------------------------ MODULE MCBooks ------------------------------
(* Small instances of Books.                                               *)
EXTENDS Books, TLC

(* "sale" balances, "slip" does not; "elas" and "pils" are their sides     *)
(* exchanged.                                                              *)
MCLines == {"sale", "elas", "slip", "pils"}
MCNet == [l \in MCLines |-> CASE l = "slip" -> 1 [] l = "pils" -> -1 [] OTHER -> 0]
MCSwap == [l \in MCLines |-> CASE l = "sale" -> "elas" [] l = "elas" -> "sale"
                               [] l = "slip" -> "pils" [] l = "pils" -> "slip"]

ToFive == 0..4
ToSix == 0..5

BooksSymmetry ==
  Permutations(Entry) \cup Permutations(Actor) \cup Permutations(Key)
    \cup Permutations(Period)

============================================================================
