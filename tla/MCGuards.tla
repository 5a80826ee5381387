------------------------------ MODULE MCGuards ------------------------------
(* Small instances of DbGuards.                                            *)
EXTENDS DbGuards, TLC

(* Every statement but four that the triggers let by (a status taken back, *)
(* a posted entry or a line moved, a line inserted for an entry of others) *)
(* and the posted_by of a draft, which posting sets anew.                  *)
GuardedRoom ==
  [kind \in {"insert", "sign", "move", "amount", "erase", "delete", "close", "reopen"} |-> {0}]
    @@ [kind \in {"post", "reverse", "ledger"} |-> 0..1]
    @@ [kind \in {"compose"} |-> {1}]

(* Reversing an entry, and taking a status back.                           *)
TakenBackRoom == [kind \in {"insert", "post", "reverse", "restate"} |-> {0}]

GuardsSymmetry ==
  Permutations(Session) \cup Permutations(Entry) \cup Permutations(Line)
    \cup Permutations(Actor) \cup Permutations(Period)

============================================================================
