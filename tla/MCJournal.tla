----------------------------- MODULE MCJournal -----------------------------
(* Small instances of JournalTx.                                           *)
EXTENDS JournalTx, TLC

CONSTANTS ann, bob, cash

(* "sale" balances, "slip" does not; the swapped sides are theirs.         *)
MCLines == {"sale", "elas", "slip", "pils"}
MCNet == [l \in MCLines |-> CASE l = "slip" -> 1 [] l = "pils" -> -1 [] OTHER -> 0]
MCSwap == [l \in MCLines |-> CASE l = "sale" -> "elas" [] l = "elas" -> "sale"
                               [] l = "slip" -> "pils" [] l = "pils" -> "slip"]
MCAccountsOf == [l \in MCLines |-> Account]

NoCall == [op |-> "close", actor |-> ann, period |-> None, lines |-> None,
           key |-> None, target |-> None, dated |-> TRUE]

Creates(as, ps, ls, ks) ==
  {[NoCall EXCEPT !.op = "create", !.actor = a, !.period = p, !.lines = l, !.key = k] :
     a \in as, p \in ps, l \in ls, k \in ks}
Posts(as, es) ==
  {[NoCall EXCEPT !.op = "post", !.actor = a, !.target = e] : a \in as, e \in es}
Reverses(as, es, ks) ==
  {[NoCall EXCEPT !.op = "reverse", !.actor = a, !.target = e, !.key = k] :
     a \in as, e \in es, k \in ks}
Closes(as, ps) == {[NoCall EXCEPT !.actor = a, !.period = p] : a \in as, p \in ps}
Reopens(as, ps) ==
  {[NoCall EXCEPT !.op = "reopen", !.actor = a, !.period = p] : a \in as, p \in ps}

(* One period, the whole life of its entries.  Ann creates and closes, Bob *)
(* posts, reverses and reopens, and Ann tries to post what she created.    *)
(* Two sessions may create under one key, with the same payload or with    *)
(* different ones, balanced or not, dated in the period or not.            *)
OrderlyCalls ==
  Creates({ann}, Period, {"sale"}, Key) \cup Posts({ann, bob}, Entry)
    \cup Reverses({bob}, Entry, Key) \cup Closes({ann}, Period)
    \cup Reopens({bob}, Period)
LifeCalls ==
  OrderlyCalls \cup Creates({ann}, Period, {"slip"}, Key)
    \cup {[c EXCEPT !.dated = FALSE] : c \in Creates({ann}, Period, {"sale"}, Key)}

(* Two periods, whose transactions meet at the organization only.          *)
LiveCalls ==
  Creates({ann}, Period, {"sale"}, Key) \cup Posts({bob}, Entry)
    \cup Reverses({bob}, Entry, Key) \cup Closes({ann}, Period)

ToTwo == 0..1
ToThree == 0..2
ToFour == 0..3
ToFive == 0..4
ToSix == 0..5

EntrySymmetry == Permutations(Entry) \cup Permutations(Worker) \cup Permutations(Key)

============================================================================
