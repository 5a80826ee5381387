------------------------------ MODULE Customers ------------------------------
(***************************************************************************)
(* Customer master data: creating and updating customers, with the record  *)
(* each call leaves in the audit trail, and listing them page by page.  A  *)
(* worker serves one call at a time, one statement per step, at READ       *)
(* COMMITTED; an update locks the customer it loads.                       *)
(*                                                                         *)
(* Of a customer the model keeps the code, the tax id, the active flag and *)
(* who wrote it last: what the service compares, and two fields that two   *)
(* updates may change apart from each other.  One organization.            *)
(***************************************************************************)
EXTENDS Integers, FiniteSets, Sequences, SequencesExt

CONSTANTS
  Worker,    \* concurrent sessions
  Customer,  \* identities of customers
  Code,      \* customer codes, numbered in their order
  TaxId,
  Actor,
  RoleOf,    \* RoleOf[a]: the role of a in the organization
  Calls,     \* the calls that may be made
  Filters,   \* the filters a client lists with: an active flag, or None
  Page,      \* the limit it lists with
  Room,      \* Bound: a call is taken while the trail is shorter
  None       \* NULL, "no row", "no call"

Role == {"OWNER", "ADMIN", "ACCOUNTANT", "MANAGER", "USER", "AUDITOR"}

(* update: "set" has the fields the request contains, null ones included.  *)
Call ==
  [op : {"create"}, actor : Actor, target : Customer, code : Code, tax : TaxId \cup {None}]
    \cup [op : {"update"}, actor : Actor, target : Customer,
          set : [{"tax"} -> TaxId \cup {None}] \cup [{"active"} -> BOOLEAN \cup {None}]
                  \cup [{} -> {None}]]

CustomerRow == [code : Code, tax : TaxId \cup {None}, active : BOOLEAN, updater : Actor]

ASSUME CustomersAssumption ==
  /\ Calls \subseteq Call
  /\ None \notin CustomerRow \cup Code
  /\ Code \subseteq Nat /\ Page \in Nat \ {0} /\ Room \in Nat
  /\ RoleOf \in [Actor -> Role]
  /\ Filters \subseteq BOOLEAN \cup {None}

VARIABLES
  customer,  \* the committed customers
  trail,     \* the committed audit records about them
  tx,        \* the call and the transaction of each worker
  reading    \* how far the client that lists page after page has come

vars == <<customer, trail, tx, reading>>

Rows == {c \in Customer : customer[c] # None}

(* A transaction: its call, the next statement, the row an update loaded,  *)
(* the row it has written and not committed, and what it answers with.     *)
Idle == [stage |-> "idle", call |-> None, loaded |-> None, written |-> None, answer |-> None]

Init ==
  /\ customer = [c \in Customer |-> None]
  /\ trail = <<>>
  /\ tx = [w \in Worker |-> Idle]
  /\ reading = [skip |-> 0, filter |-> None, seen |-> {}, before |-> {}, done |-> TRUE]

----------------------------------------------------------------------------
(* Transactions                                                            *)

Go(w, s) == tx' = [tx EXCEPT ![w].stage = s]

(* The session is closed, and what it has not committed is rolled back.    *)
Close(w) == tx' = [tx EXCEPT ![w] = Idle]

OnlySession == UNCHANGED <<customer, trail, reading>>

(* role_allows: what each role may do with customers.                      *)
Allowed(a, op) == RoleOf[a] \in {"OWNER", "ADMIN", "ACCOUNTANT"} /\ op \in {"create", "update"}

(* A new customer has an identity of its own.                              *)
NewIdentity(c) ==
  /\ customer[c] = None
  /\ \A w \in Worker : tx[w].stage # "idle" => tx[w].call.target # c

Begin(w) ==
  /\ tx[w].stage = "idle"
  /\ Len(trail) < Room
  /\ \E c \in Calls :
       /\ Allowed(c.actor, c.op)
       /\ c.op = "create" => NewIdentity(c.target)
       /\ tx' = [tx EXCEPT ![w].call = c,
                           ![w].stage = IF c.op = "create" THEN "code" ELSE "load"]
  /\ OnlySession

(* The tax id a call asks for, if any.                                     *)
NamedTax(c) ==
  IF c.op = "create" THEN c.tax ELSE IF "tax" \in DOMAIN c.set THEN c.set.tax ELSE None

Has(c, code, tax) == customer[c].code = code \/ (tax # None /\ customer[c].tax = tax)

(* Other transactions that have written a row with this code or tax id, or *)
(* written over one: the unique indexes make an insert or update wait.     *)
Awaited(w, code, tax) ==
  \E v \in Worker \ {w} :
    LET row == tx[v].written IN
    /\ row # None
    /\ \/ row.code = code \/ (tax # None /\ row.tax = tax)
       \/ tx[v].call.target \in Rows /\ Has(tx[v].call.target, code, tax)

(* Mutant: the tax id has no unique constraint.                            *)
TakenCode(c, code, tax) == \E d \in Rows \ {c} : customer[d].code = code

(* The unique constraints.                                                 *)
Taken(c, code, tax) == \E d \in Rows \ {c} : Has(d, code, tax)

(* A create shares the lock on the organization (foreign key) since its    *)
(* insert; the audit record takes the lock exclusively, until the commit.  *)
Shares(w) == tx[w].call # None /\ tx[w].call.op = "create" /\ tx[w].stage \in {"audit", "commit"}
Owns(w) == tx[w].stage = "commit"
NoOther(Holds(_), w) == \A v \in Worker \ {w} : ~Holds(v)

----------------------------------------------------------------------------
(* create                                                                  *)

FindCode(w) ==
  /\ tx[w].stage = "code"
  /\ IF \E c \in Rows : customer[c].code = tx[w].call.code THEN Close(w) ELSE Go(w, "tax")
  /\ OnlySession

(* Also the check of an update, which may keep its own tax id.             *)
FindTaxId(w) ==
  LET c == tx[w].call
      tax == NamedTax(c)
  IN /\ tx[w].stage = "tax"
     /\ IF tax # None /\ \E d \in Rows \ {c.target} : customer[d].tax = tax
          THEN Close(w)
          ELSE Go(w, IF c.op = "create" THEN "insert" ELSE "update")
     /\ OnlySession

(* A constraint that refuses the row is answered with a conflict.          *)
Insert(w) ==
  LET c == tx[w].call IN
  /\ tx[w].stage = "insert"
  /\ ~Awaited(w, c.code, c.tax)
  /\ IF Taken(c.target, c.code, c.tax)
       THEN Close(w)
       ELSE /\ NoOther(Owns, w)
            /\ tx' = [tx EXCEPT
                 ![w].written = [code |-> c.code, tax |-> c.tax, active |-> TRUE,
                                 updater |-> c.actor],
                 ![w].stage = "audit"]
  /\ OnlySession

----------------------------------------------------------------------------
(* update                                                                  *)

(* Mutant: get_by_id instead of get_for_update.                            *)
Unlocked(w, c) == TRUE

(* No other update is in progress on the row: get_for_update.              *)
Lockable(w, c) ==
  \A v \in Worker \ {w} :
    ~(tx[v].stage \in {"tax", "update", "audit", "commit"} /\ tx[v].call.target = c
        /\ tx[v].call.op = "update")

(* Without a field to change the customer is answered as it is.            *)
Load(w) ==
  LET c == tx[w].call
      row == customer[c.target]
  IN /\ tx[w].stage = "load"
     /\ Lockable(w, c.target)
     /\ IF row = None
          THEN Close(w)
          ELSE IF DOMAIN c.set = {}
            THEN tx' = [tx EXCEPT ![w].stage = "reply",
                                  ![w].answer = [row |-> row, since |-> Len(trail)]]
            ELSE tx' = [tx EXCEPT ![w].stage = "tax", ![w].loaded = row]
     /\ OnlySession

(* The fields of new, in place of those old has.                           *)
Overlay(old, new) ==
  [f \in DOMAIN old \cup DOMAIN new |-> IF f \in DOMAIN new THEN new[f] ELSE old[f]]

(* The columns that differ from the row as loaded are written; an active   *)
(* flag of null is refused like a tax id that is taken.                    *)
Update(w) ==
  LET c == tx[w].call
      old == tx[w].loaded
      wanted == Overlay([updater |-> c.actor], c.set)
      changed == {f \in DOMAIN wanted : wanted[f] # old[f]}
      row == Overlay(customer[c.target], [f \in changed |-> wanted[f]])
      tax == IF "tax" \in changed THEN row.tax ELSE None
  IN /\ tx[w].stage = "update"
     /\ \/ row.active = None /\ Close(w)
        \/ /\ row.active # None
           /\ ~Awaited(w, None, tax)
           /\ IF Taken(c.target, None, tax)
                THEN Close(w)
                ELSE tx' = [tx EXCEPT ![w].written = row, ![w].stage = "audit"]
     /\ OnlySession

----------------------------------------------------------------------------
(* The audit record, the commit and the answer                             *)

(* Mutant: whether the flag is set, and not whether it changes.            *)
ActionByRequest(c, old) ==
  IF c.op = "create" THEN "CUSTOMER_CREATED"
  ELSE IF "active" \notin DOMAIN c.set THEN "CUSTOMER_UPDATED"
  ELSE IF c.set.active THEN "CUSTOMER_ACTIVATED" ELSE "CUSTOMER_DEACTIVATED"

(* _update_audit_action compares the request with the row as loaded.       *)
ActionOf(c, old) ==
  IF c.op = "create" THEN "CUSTOMER_CREATED"
  ELSE IF "active" \notin DOMAIN c.set \/ c.set.active = old.active THEN "CUSTOMER_UPDATED"
  ELSE IF c.set.active THEN "CUSTOMER_ACTIVATED" ELSE "CUSTOMER_DEACTIVATED"

(* The payload is the customer as the session knows it: what it loaded and *)
(* what the request sets.                                                  *)
Payload(w) ==
  LET c == tx[w].call IN
  IF c.op = "create"
    THEN tx[w].written
    ELSE Overlay([tx[w].loaded EXCEPT !.updater = c.actor], c.set)

RecordOf(w) ==
  LET c == tx[w].call IN
  [subject |-> c.target, action |-> ActionOf(c, tx[w].loaded), row |-> Payload(w)]

(* append locks the organization.                                          *)
AppendAudit(w) ==
  /\ tx[w].stage = "audit"
  /\ NoOther(Shares, w) /\ NoOther(Owns, w)
  /\ Go(w, "commit")
  /\ OnlySession

(* Two creates that share the organization and wait for each other.        *)
DeadlockVictim(w) ==
  /\ tx[w].stage = "audit" /\ Shares(w)
  /\ \E v \in Worker \ {w} : tx[v].stage = "audit" /\ Shares(v)
  /\ Close(w)
  /\ OnlySession

Commit(w) ==
  /\ tx[w].stage = "commit"
  /\ customer' = [customer EXCEPT ![tx[w].call.target] = tx[w].written]
  /\ trail' = Append(trail, RecordOf(w))
  /\ tx' = [tx EXCEPT ![w] = [Idle EXCEPT !.stage = "refresh", !.call = tx[w].call,
                                          !.answer = [row |-> None, since |-> Len(trail) + 1]]]
  /\ UNCHANGED reading

(* The answer is the row as it is after the commit, and perhaps others.    *)
Refresh(w) ==
  /\ tx[w].stage = "refresh"
  /\ tx' = [tx EXCEPT ![w].stage = "reply", ![w].answer.row = customer[tx[w].call.target]]
  /\ OnlySession

Deliver(w) == tx[w].stage = "reply" /\ Close(w) /\ OnlySession

CutOff(w) == tx[w].stage \notin {"idle", "reply"} /\ Close(w) /\ OnlySession

----------------------------------------------------------------------------
(* list                                                                    *)

(* Mutant: the most recently deactivated come last.                        *)
ActiveFirst(c, d) ==
  IF customer[c].active # customer[d].active THEN customer[c].active
  ELSE customer[c].code < customer[d].code

(* ORDER BY code (the identity after it never decides).                    *)
Before(c, d) == customer[c].code < customer[d].code

(* Codes are unique, so that there is one such sequence.                   *)
Ordered(found) ==
  CHOOSE s \in [1..Cardinality(found) -> found] :
    \A i, j \in DOMAIN s : i < j => Before(s[i], s[j])

List(skip, limit, filter) ==
  LET found == {c \in Rows : filter # None => customer[c].active = filter}
      all == Ordered(found)
  IN SubSeq(all, skip + 1, IF skip + limit < Len(all) THEN skip + limit ELSE Len(all))

(* A client lists page after page, until one is not full, and begins anew. *)
ReadPage ==
  \E filter \in Filters :
    LET now == IF reading.done
                 THEN [skip |-> 0, filter |-> filter, seen |-> {}, before |-> Rows, done |-> FALSE]
                 ELSE reading
        page == List(now.skip, Page, now.filter)
    IN /\ now.filter = filter
       /\ reading' = [now EXCEPT !.skip = @ + Page, !.seen = @ \cup ToSet(page),
                                 !.done = Len(page) < Page]
       /\ UNCHANGED <<customer, trail, tx>>

----------------------------------------------------------------------------
Next ==
  \/ \E w \in Worker :
       \/ Begin(w) \/ FindCode(w) \/ FindTaxId(w) \/ Insert(w) \/ Load(w) \/ Update(w)
       \/ AppendAudit(w) \/ DeadlockVictim(w) \/ Commit(w) \/ Refresh(w)
       \/ Deliver(w) \/ CutOff(w)
  \/ ReadPage

Spec == Init /\ [][Next]_vars

----------------------------------------------------------------------------
(* Properties                                                              *)

Stage == {"idle", "code", "tax", "insert", "load", "update", "audit", "commit", "refresh", "reply"}

(* The variables have their types, and no two customers have one code or   *)
(* one tax id, although both are looked up before the row is written.      *)
TypeOK ==
  /\ \A c \in Rows : customer[c] \in CustomerRow
  /\ \A c, d \in Rows : c # d => ~Has(c, customer[d].code, customer[d].tax)
  /\ \A w \in Worker :
       /\ tx[w].stage \in Stage /\ tx[w].call \in Calls \cup {None}
       /\ tx[w].loaded \in CustomerRow \cup {None}
       /\ tx[w].written \in CustomerRow \cup {None}
       /\ tx[w].stage = "idle" <=> tx[w] = Idle
  /\ reading.seen \cup reading.before \subseteq Rows

About(c) == {i \in DOMAIN trail : trail[i].subject = c}

(* The action of a record is the change from the one before it.            *)
Tells(action, old, new) ==
  action = IF old.active = new.active THEN "CUSTOMER_UPDATED"
           ELSE IF new.active THEN "CUSTOMER_ACTIVATED" ELSE "CUSTOMER_DEACTIVATED"

(* The record that created the customer, or the change from the record     *)
(* before it; the last record has the row as it is.                        *)
RecordTells(i) ==
  LET earlier == {j \in About(trail[i].subject) : j < i}
      later == {j \in About(trail[i].subject) : j > i}
  IN /\ IF earlier = {} THEN trail[i].action = "CUSTOMER_CREATED"
                        ELSE Tells(trail[i].action, trail[Max(earlier)].row, trail[i].row)
     /\ later = {} => trail[i].row = customer[trail[i].subject]

(* What w answers with is in a record, none of those it knew of came later.*)
AnswerTells(w) ==
  \E i \in About(tx[w].call.target) :
    /\ trail[i].row = tx[w].answer.row
    /\ \A j \in About(tx[w].call.target) : j <= tx[w].answer.since => j <= i

(* "customer creation and updates append durable tenant audit events in    *)
(* the same transaction": the trail of a customer begins with its creation,*)
(* each later record tells whether it changed the flag, and the last one   *)
(* has the row as it is, whoever updates it at the same time; and what a   *)
(* call answers with is a row the trail has, not older than its own.       *)
TrailTellsCustomers ==
  /\ \A c \in Customer : About(c) # {} <=> c \in Rows
  /\ \A i \in DOMAIN trail : RecordTells(i)
  /\ \A w \in Worker : tx[w].stage = "reply" => AnswerTells(w)

(* A client that lists all customers page by page misses none of those     *)
(* there were when it began, whatever is created or changed between two    *)
(* pages: a code never changes, and nobody is deleted.                     *)
PagesMissNobody == (reading.done /\ reading.filter = None) => reading.before \subseteq reading.seen

=============================================================================
