----------------------------- MODULE AccountTree -----------------------------
(***************************************************************************)
(* The chart of accounts: creating, updating and deleting accounts, each   *)
(* with a parent it lies under and a collective account it is part of.  A  *)
(* worker serves one call at a time, one statement per step, at READ       *)
(* COMMITTED; nothing is locked but what a write or a foreign key locks.   *)
(*                                                                         *)
(* A path is the sequence of the codes it is put together from; names,     *)
(* types and the active flag are left out (JournalTx has the flag).        *)
(***************************************************************************)
EXTENDS Integers, FiniteSets, Sequences, SequencesExt, TLC

CONSTANTS
  Worker,    \* concurrent sessions
  Account,   \* identities of accounts
  Code,      \* account codes
  Calls,     \* the calls that may be made
  Room,      \* Bound: codes a path has room for (the column has 500 characters)
  None       \* NULL, "no row", "no call"

Reference == Account \cup {None}

(* update: "set" has the fields the request contains, null ones included.  *)
Call ==
  [op : {"create"}, account : Account, code : Code, parent : Reference, collective : Reference]
    \cup [op : {"update"}, account : Account,
          set : UNION {[F -> Reference] : F \in SUBSET {"parent", "collective"}}]
    \cup [op : {"delete"}, account : Account]

AccountRow == [code : Code, parent : Reference, collective : Reference, path : Seq(Code)]

ASSUME TreeAssumption ==
  Calls \subseteq Call /\ None \notin Account \cup Calls \cup AccountRow /\ Room \in Nat

VARIABLES
  account,   \* the committed accounts
  writes,    \* rows each session has written and not committed
  stage,     \* the statement each worker executes next
  call,      \* the call it serves
  loaded,    \* the rows it has loaded
  children,  \* the children it found when it deletes an account
  locks      \* the row locks it holds

vars == <<account, writes, stage, call, loaded, children, locks>>

(* The rows of new, in place of what old has for the same identities.      *)
Overlay(old, new) ==
  [a \in DOMAIN old \cup DOMAIN new |-> IF a \in DOMAIN new THEN new[a] ELSE old[a]]

One(a, row) == [b \in {a} |-> row]

Rows == {a \in Account : account[a] # None}
Children(a) == {b \in Rows : account[b].parent = a}
Referring(a) == {b \in Rows : account[b].parent = a \/ account[b].collective = a}

Init ==
  /\ account = [a \in Account |-> None]
  /\ writes = [w \in Worker |-> <<>>]
  /\ stage = [w \in Worker |-> "idle"]
  /\ call = [w \in Worker |-> None]
  /\ loaded = [w \in Worker |-> <<>>]
  /\ children = [w \in Worker |-> {}]
  /\ locks = [w \in Worker |-> {}]

----------------------------------------------------------------------------
(* Statements                                                              *)

Go(w, s) == stage' = [stage EXCEPT ![w] = s] /\ UNCHANGED <<account, call>>

(* The session keeps the row it loaded, and does not read it again.        *)
Load(w, a) ==
  /\ account[a] # None
  /\ loaded' = [loaded EXCEPT ![w] = Overlay(One(a, account[a]), @)]

On(a, mode) == [row |-> a, mode |-> mode]

(* A reference takes "share", an update "change", a delete "all".          *)
Conflict(k, m) ==
  /\ k.row = m.row
  /\ IF "share" \in {k.mode, m.mode} THEN "all" \in {k.mode, m.mode} ELSE TRUE

Lock(w, wants) ==
  /\ \A v \in Worker \ {w} : \A k \in wants, m \in locks[v] : ~Conflict(k, m)
  /\ locks' = [locks EXCEPT ![w] = @ \cup wants]

Shares(references) == {On(a, "share") : a \in references \ {None}}

Write(w, a, row) == writes' = [writes EXCEPT ![w] = Overlay(@, One(a, row))]

(* Mutant: no foreign keys.                                                *)
Dangling(references) == TRUE

(* Foreign keys and the trigger that looks the references up.              *)
Exist(references) == references \ {None} \subseteq Rows

----------------------------------------------------------------------------
(* Calls                                                                   *)

(* The accounts a call names.                                              *)
Mentioned(c) ==
  {c.account} \cup (CASE c.op = "create" -> {c.parent, c.collective}
                      [] c.op = "update" -> {c.set[f] : f \in DOMAIN c.set}
                      [] c.op = "delete" -> {})

(* An identity is never given twice: no call in progress names it from a   *)
(* time before.                                                            *)
NewIdentity(a) ==
  /\ account[a] = None
  /\ \A w \in Worker : stage[w] # "idle" => a \notin Mentioned(call[w])

Begin(w) ==
  /\ stage[w] = "idle"
  /\ \E c \in Calls :
       /\ c.op = "create" => NewIdentity(c.account)
       /\ call' = [call EXCEPT ![w] = c]
       /\ stage' = [stage EXCEPT ![w] = IF c.op = "create" THEN "code" ELSE "account"]
  /\ UNCHANGED <<account, writes, loaded, children, locks>>

(* create_account                                                          *)

FindCode(w) ==
  /\ stage[w] = "code"
  /\ \A a \in Rows : account[a].code # call[w].code
  /\ Go(w, "parent")
  /\ UNCHANGED <<writes, loaded, children, locks>>

(* The account above, and below it the account itself.                     *)
Path(w) ==
  LET p == call[w].parent IN
    Append(IF p = None THEN <<>> ELSE loaded[w][p].path, call[w].code)

(* Mutant: no unique constraint on the code.                               *)
AnyCode(w, code) == TRUE

(* The unique constraint refuses a committed code, and waits for one that  *)
(* is being inserted or deleted.                                           *)
FreeCode(w, code) ==
  /\ \A a \in Rows : account[a].code # code
  /\ \A v \in Worker \ {w} : \A a \in DOMAIN writes[v] :
       writes[v][a] # None => writes[v][a].code # code

Insert(w) ==
  LET c == call[w] IN
  /\ stage[w] = "insert"
  /\ Lock(w, Shares({c.parent, c.collective}))
  /\ Exist({c.parent, c.collective})
  /\ FreeCode(w, c.code)
  /\ Len(Path(w)) <= Room
  /\ Write(w, c.account, [code |-> c.code, parent |-> c.parent,
                          collective |-> c.collective, path |-> Path(w)])
  /\ Go(w, "commit")
  /\ UNCHANGED <<loaded, children>>

(* update_account and delete_account load the account first.               *)
LoadAccount(w) ==
  /\ stage[w] = "account"
  /\ Load(w, call[w].account)
  /\ Go(w, IF call[w].op = "update" THEN "parent" ELSE "count")
  /\ UNCHANGED <<writes, children, locks>>

----------------------------------------------------------------------------
(* The references of a call, looked up one after the other                 *)

Named(w, field) ==
  IF call[w].op = "create" THEN call[w][field]
  ELSE IF field \in DOMAIN call[w].set THEN call[w].set[field] ELSE None

Self(w) == call[w].account

(* Mutant: only the parent itself is compared.                             *)
NotItself(w, p) == p # Self(w)

(* An update may not put an account under itself: the paths tell, as they  *)
(* were when the accounts were created.                                    *)
NotUnderItself(w, p) ==
  /\ p # Self(w)
  /\ ~IsPrefix(loaded[w][Self(w)].path, account[p].path)

FindParent(w) ==
  LET p == Named(w, "parent") IN
  /\ stage[w] = "parent"
  /\ IF p = None THEN UNCHANGED loaded ELSE Load(w, p)
  /\ (call[w].op = "update" /\ p # None) => NotUnderItself(w, p)
  /\ Go(w, "collective")
  /\ UNCHANGED <<writes, children, locks>>

FindCollective(w) ==
  LET c == Named(w, "collective") IN
  /\ stage[w] = "collective"
  /\ IF c = None THEN UNCHANGED loaded ELSE Load(w, c)
  /\ Go(w, IF call[w].op = "create" THEN "insert" ELSE "update")
  /\ UNCHANGED <<writes, children, locks>>

(* The columns that differ from the row as loaded are written; path and    *)
(* level are not.  The trigger refuses a reference to the account itself.  *)
Update(w) ==
  LET a == Self(w)
      set == call[w].set
      changed == {f \in DOMAIN set : set[f] # loaded[w][a][f]}
      values == {set[f] : f \in changed}
  IN /\ stage[w] = "update"
     /\ IF changed = {}
          THEN UNCHANGED <<writes, locks>>
          ELSE /\ Lock(w, {On(a, "change")} \cup Shares(values))
               /\ a \in Rows /\ a \notin values /\ Exist(values)
               /\ Write(w, a, Overlay(account[a], [f \in changed |-> set[f]]))
     /\ Go(w, "commit")
     /\ UNCHANGED <<loaded, children>>

----------------------------------------------------------------------------
(* delete_account                                                          *)

(* The count is not locked against new children.                           *)
CountChildren(w) ==
  /\ stage[w] = "count"
  /\ Children(Self(w)) = {}
  /\ Go(w, "children")
  /\ UNCHANGED <<writes, loaded, children, locks>>

(* The flush loads the relationship "children" ...                         *)
LoadChildren(w) ==
  /\ stage[w] = "children"
  /\ children' = [children EXCEPT ![w] = Children(Self(w))]
  /\ Go(w, "detach")
  /\ UNCHANGED <<writes, loaded, locks>>

(* ... and clears the parent of each of them, wherever it is by now.       *)
Detach(w) ==
  /\ stage[w] = "detach"
  /\ Lock(w, {On(b, "change") : b \in children[w]})
  /\ children[w] \subseteq Rows
  /\ writes' = [writes EXCEPT ![w] = [b \in children[w] |-> [account[b] EXCEPT !.parent = None]]]
  /\ Go(w, "delete")
  /\ UNCHANGED <<loaded, children>>

(* No foreign key may refer to the account that goes.                      *)
Delete(w) ==
  /\ stage[w] = "delete"
  /\ Lock(w, {On(Self(w), "all")})
  /\ Self(w) \in Rows
  /\ \A b \in Referring(Self(w)) \ {Self(w)} :
       b \in children[w] /\ account[b].collective # Self(w)
  /\ Write(w, Self(w), None)
  /\ Go(w, "commit")
  /\ UNCHANGED <<loaded, children>>

----------------------------------------------------------------------------
End(w) ==
  /\ stage' = [stage EXCEPT ![w] = "idle"]
  /\ call' = [call EXCEPT ![w] = None]
  /\ writes' = [writes EXCEPT ![w] = <<>>]
  /\ loaded' = [loaded EXCEPT ![w] = <<>>]
  /\ children' = [children EXCEPT ![w] = {}]
  /\ locks' = [locks EXCEPT ![w] = {}]

Commit(w) ==
  /\ stage[w] = "commit"
  /\ account' = Overlay(account, writes[w])
  /\ End(w)

(* The request is refused, or cut off between two statements.              *)
Abort(w) ==
  /\ stage[w] # "idle"
  /\ End(w)
  /\ UNCHANGED account

(* No call in progress: the service may rest.                              *)
Rest == (\A w \in Worker : stage[w] = "idle") /\ UNCHANGED vars

Next ==
  \/ \E w \in Worker :
       \/ Begin(w) \/ FindCode(w) \/ LoadAccount(w)
       \/ FindParent(w) \/ FindCollective(w)
       \/ Insert(w) \/ Update(w)
       \/ CountChildren(w) \/ LoadChildren(w) \/ Detach(w) \/ Delete(w)
       \/ Commit(w) \/ Abort(w)
  \/ Rest

Spec == Init /\ [][Next]_vars

----------------------------------------------------------------------------
(* Properties                                                              *)

(* The rows have their types, every reference leads to another account     *)
(* that exists, whatever is deleted meanwhile, and a code is one account,  *)
(* although create_account looks it up and locks nothing.                  *)
TypeOK ==
  /\ \A a \in Rows : account[a] \in AccountRow
  /\ \A a \in Rows : {account[a].parent, account[a].collective} \ {None} \subseteq Rows \ {a}
  /\ \A a, b \in Rows : account[a].code = account[b].code => a = b
  /\ \A w \in Worker : stage[w] = "idle" <=> call[w] = None
  /\ \A w \in Worker : stage[w] = "idle" => (writes[w] = <<>> /\ locks[w] = {})

(* An account whose path is not where it lies: it has been moved, or its   *)
(* parent has gone.                                                        *)
Stale(a) ==
  LET p == account[a].parent IN
    account[a].path # Append(IF p = None THEN <<>> ELSE account[p].path, account[a].code)

(* "Account cannot become a descendant of itself": the comparison of paths *)
(* stops every cycle that one move would make.  Moves leave the paths as   *)
(* they were, so a second move may close one: on every set of accounts     *)
(* that lie under each other two have been moved, and their paths are      *)
(* stale.                                                                  *)
CyclesTakeTwoMoves ==
  \A S \in SUBSET Rows :
    (S # {} /\ \A a \in S : account[a].parent \in S) => Cardinality({a \in S : Stale(a)}) > 1

=============================================================================
