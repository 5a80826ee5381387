------------------------------ MODULE DbGuards ------------------------------
(***************************************************************************)
(* The triggers and constraints that guard the journal against SQL written *)
(* by somebody else than the services: maintenance scripts, migrations,    *)
(* other programs.  Sessions run transactions of a few statements at READ  *)
(* COMMITTED; a trigger runs within its statement, a deferred one when the *)
(* transaction commits, and each sees the committed rows and those its own *)
(* transaction wrote.                                                      *)
(*                                                                         *)
(* A statement a trigger refuses aborts its transaction, which is the      *)
(* action Rollback.  Updates and deletes of ledger postings are refused    *)
(* whatever they do, so no action stands for them; no statement here       *)
(* changes which entry a reversal refers to.                               *)
(***************************************************************************)
EXTENDS Integers, FiniteSets, Functions

CONSTANTS
  Session,   \* database sessions
  Period,    \* fiscal periods
  Entry,     \* identities of journal entries
  Line,      \* identities of journal lines
  Actor,     \* users named in created_by and posted_by
  None,      \* NULL, and "no row"
  Room       \* Bound: for each kind of statement the sessions execute, the numbers of
             \* statements after which a transaction takes one of that kind

(* A debit of one, or a credit of one.                                     *)
Amount == {1, -1}

EntryRow == [status : {"DRAFT", "POSTED", "REVERSED"}, period : Period, creator : Actor,
             poster : Actor \cup {None}, reversalOf : Entry \cup {None}]
LineRow == [entry : Entry, amount : Amount]
PostingRow == [period : Period, amount : Amount]

Kinds == DOMAIN Room

ASSUME GuardsAssumption ==
  /\ Kinds \subseteq {"insert", "post", "reverse", "restate", "assign", "sign", "move",
                      "transfer", "amount", "reparent", "erase", "compose", "append", "delete",
                      "ledger", "close", "reopen"}
  /\ Room \in [Kinds -> SUBSET Nat]
  /\ None \notin Entry \cup EntryRow \cup LineRow \cup PostingRow

VARIABLES
  db,      \* the committed rows of the four tables
  work,    \* rows each session has written and not committed
  locks,   \* row locks each session holds
  fired,   \* deferred trigger events of its transaction: the rows as they became
  done     \* statements its transaction has executed

vars == <<db, work, locks, fired, done>>

Tables == {"period", "entry", "line", "posting"}
Nothing == [t \in Tables |-> <<>>]

Overlay(old, new) ==
  [x \in DOMAIN old \cup DOMAIN new |-> IF x \in DOMAIN new THEN new[x] ELSE old[x]]

(* What a statement of s sees.                                             *)
Sees(s, table) == Overlay(db[table], work[s][table])

RowsOf(table) == {x \in DOMAIN table : table[x] # None}

LinesOf(line, e) == {l \in RowsOf(line) : line[l].entry = e}

Kept(row) == row.status \in {"POSTED", "REVERSED"}

----------------------------------------------------------------------------
(* Row locks: a reference takes "share", an update "change", a delete and  *)
(* SELECT FOR UPDATE take "all".                                           *)

On(x, mode) == [row |-> x, mode |-> mode]

Conflict(k, m) ==
  /\ k.row = m.row
  /\ IF "share" \in {k.mode, m.mode} THEN "all" \in {k.mode, m.mode} ELSE TRUE

(* s executes one more statement, when it gets the locks it wants.         *)
Execute(s, kind, wants) ==
  /\ kind \in Kinds
  /\ done[s] \in Room[kind]
  /\ \A t \in Session \ {s} : \A k \in wants, m \in locks[t] : ~Conflict(k, m)
  /\ done' = [done EXCEPT ![s] = @ + 1]
  /\ locks' = [locks EXCEPT ![s] = @ \cup wants]
  /\ UNCHANGED db

Write(s, table, rows) ==
  work' = [work EXCEPT ![s][table] = Overlay(@, rows)]

(* Nobody uses the identity x.                                             *)
Unused(table, x) ==
  db[table][x] = None /\ \A t \in Session : x \notin DOMAIN work[t][table]

Fire(s, e, row) == fired' = [fired EXCEPT ![s] = @ \cup {<<e, row>>}]

----------------------------------------------------------------------------
(* What the triggers check                                                 *)

(* Entries are inserted, and their status and period changed, in open      *)
(* periods; updates of other columns do not fire the trigger, and the      *)
(* period an entry leaves is not looked at.  The trigger reads the period  *)
(* without locking it.                                                     *)
OpenPeriod(s, row) == Sees(s, "period")[row.period] = "OPEN"

AmountsOf(line, e) == [l \in LinesOf(line, e) |-> line[l].amount]
Total(amounts) == FoldFunction(LAMBDA x, y : x + y, 0, amounts)

(* An entry becomes posted or reversed with lines that balance.            *)
Balanced(line, e) ==
  /\ LinesOf(line, e) # {}
  /\ Total(AmountsOf(line, e)) = 0

RequireBalance(s, e, row) == Kept(row) => Balanced(Sees(s, "line"), e)

RequirePoster(row) == Kept(row) => row.poster # None

(* Mutant: the test that exempts reversals is inverted.                    *)
SegregatedReversalsOnly(row) ==
  (row.reversalOf # None /\ Kept(row)) => row.creator # row.poster

Segregated(row) ==
  (row.reversalOf = None /\ Kept(row)) => row.creator # row.poster

(* Mutant: the entry is read without a lock, as before revision 0013.      *)
ReadParent(e) == {}

(* The entry a line belongs to is locked before its status is looked at.   *)
LockParent(e) == {On(e, "all")}

(* Mutant: the lines of reversed entries can be changed.                   *)
MutableUnlessPosted(s, e) == Sees(s, "entry")[e].status # "POSTED"

Mutable(s, e) == ~Kept(Sees(s, "entry")[e])

Proven(s, e, l, row) ==
  LET entry == Sees(s, "entry") line == Sees(s, "line") IN
    /\ line[l] # None /\ line[l].entry = e
    /\ entry[e].status = "POSTED"
    /\ row.period = entry[e].period
    /\ row.amount = line[l].amount

(* At commit, for each row whose status was written: what refers to it and *)
(* is reversed needs it posted, and if it became reversed, something that  *)
(* refers to it is posted.                                                 *)
ReversalIntact(s, e, row) ==
  LET entry == Sees(s, "entry")
      refer(status) == {o \in RowsOf(entry) : entry[o].reversalOf = e /\ entry[o].status = status}
  IN /\ refer("REVERSED") # {} => row.status = "POSTED"
     /\ row.status = "REVERSED" => refer("POSTED") # {}

----------------------------------------------------------------------------
(* Statements                                                              *)

Init ==
  /\ db = [period |-> [p \in Period |-> "OPEN"], entry |-> [e \in Entry |-> None],
           line |-> [l \in Line |-> None], posting |-> [x \in Entry \X Line |-> None]]
  /\ work = [s \in Session |-> Nothing]
  /\ locks = [s \in Session |-> {}]
  /\ fired = [s \in Session |-> {}]
  /\ done = [s \in Session |-> 0]

(* A draft and two lines that balance.  Nothing but a draft is accepted:   *)
(* the lines of an entry cannot precede it.                                *)
Draft(p, a, of) ==
  [status |-> "DRAFT", period |-> p, creator |-> a, poster |-> None, reversalOf |-> of]

(* One reversal for an entry: the unique index waits for the transactions  *)
(* that are inserting another.                                             *)
NoOtherReversal(s, of) ==
  /\ \A o \in RowsOf(Sees(s, "entry")) : Sees(s, "entry")[o].reversalOf # of
  /\ \A t \in Session \ {s} : \A o \in RowsOf(work[t].entry) :
       work[t].entry[o].reversalOf # of

InsertEntry(s, e, row, l, m) ==
  /\ Unused("entry", e) /\ Unused("line", l) /\ Unused("line", m) /\ l # m
  /\ OpenPeriod(s, row)
  /\ row.reversalOf # None =>
       row.reversalOf \in RowsOf(Sees(s, "entry")) /\ NoOtherReversal(s, row.reversalOf)
  /\ Execute(s, "insert", {On(e, "all"), On(row.period, "share")}
                            \cup {On(x, "share") : x \in {row.reversalOf} \ {None}})
  /\ work' = [work EXCEPT
       ![s].entry = Overlay(@, [x \in {e} |-> row]),
       ![s].line = Overlay(@, [x \in {l, m} |->
                                 [entry |-> e, amount |-> IF x = l THEN 1 ELSE -1]])]
  /\ Fire(s, e, row)

(* UPDATE journal_entries SET status, posted_by.                           *)
SetStatus(s, e, status, a) ==
  LET old == Sees(s, "entry")[e]
      row == [old EXCEPT !.status = status, !.poster = a]
      kind == CASE <<old.status, status>> = <<"DRAFT", "POSTED">>    -> "post"
                [] <<old.status, status>> = <<"POSTED", "REVERSED">> -> "reverse"
                [] OTHER                                             -> "restate"
  IN /\ old # None
     /\ Execute(s, kind, {On(e, "change")})
     /\ OpenPeriod(s, row)
     /\ RequireBalance(s, e, row)
     /\ RequirePoster(row)
     /\ Segregated(row)
     /\ Write(s, "entry", [x \in {e} |-> row])
     /\ Fire(s, e, row)

(* UPDATE journal_entries SET posted_by: neither the period nor the lines  *)
(* are looked at again.                                                    *)
SetPoster(s, e, a) ==
  LET old == Sees(s, "entry")[e]
      row == [old EXCEPT !.poster = a]
  IN /\ old # None
     /\ Execute(s, IF Kept(old) THEN "sign" ELSE "assign", {On(e, "change")})
     /\ RequirePoster(row)
     /\ Segregated(row)
     /\ Write(s, "entry", [x \in {e} |-> row])
     /\ UNCHANGED fired

(* UPDATE journal_entries SET fiscal_period_id, with a date in p.  The     *)
(* trigger lets posted entries move as it does drafts.                     *)
MoveEntry(s, e, p) ==
  LET old == Sees(s, "entry")[e]
      row == [old EXCEPT !.period = p]
  IN /\ old # None
     /\ Execute(s, IF Kept(old) THEN "transfer" ELSE "move", {On(e, "change"), On(p, "share")})
     /\ OpenPeriod(s, row)
     /\ Write(s, "entry", [x \in {e} |-> row])
     /\ UNCHANGED fired

(* Mutant: the lines of a deleted entry stay.                              *)
DeleteEntryOnly(s, e) ==
  LET entry == Sees(s, "entry") IN
    /\ entry[e] # None /\ ~Kept(entry[e])
    /\ Execute(s, "delete", {On(e, "all")})
    /\ Write(s, "entry", [x \in {e} |-> None])
    /\ UNCHANGED fired

(* The lines of a deleted draft go with it; references from postings and   *)
(* reversals refuse the delete.                                            *)
DeleteEntry(s, e) ==
  LET entry == Sees(s, "entry")
      lines == LinesOf(Sees(s, "line"), e)
  IN /\ entry[e] # None /\ ~Kept(entry[e])
     /\ \A o \in RowsOf(entry) : entry[o].reversalOf # e
     /\ \A x \in RowsOf(Sees(s, "posting")) : x[1] # e /\ x[2] \notin lines
     /\ Execute(s, "delete", {On(x, "all") : x \in lines \cup {e}})
     /\ work' = [work EXCEPT ![s].entry = Overlay(@, [x \in {e} |-> None]),
                             ![s].line = Overlay(@, [x \in lines |-> None])]
     /\ UNCHANGED fired

(* UPDATE journal_entry_lines: the trigger looks at the entry the line     *)
(* goes to, not at the one it leaves.                                      *)
UpdateLine(s, l, row) ==
  LET old == Sees(s, "line")[l]
      stays == row.entry = old.entry
  IN /\ old # None /\ Sees(s, "entry")[row.entry] # None
     /\ Execute(s, IF stays THEN "amount" ELSE "reparent",
                {On(l, IF stays THEN "change" ELSE "all")} \cup LockParent(row.entry))
     /\ Mutable(s, row.entry)
     /\ Write(s, "line", [x \in {l} |-> row])
     /\ UNCHANGED fired

DeleteLine(s, l) ==
  LET old == Sees(s, "line")[l] IN
    /\ old # None
    /\ \A x \in RowsOf(Sees(s, "posting")) : x[2] # l
    /\ Execute(s, "erase", {On(l, "all")} \cup LockParent(old.entry))
    /\ Mutable(s, old.entry)
    /\ Write(s, "line", [x \in {l} |-> None])
    /\ UNCHANGED fired

(* No trigger looks at the status of the entry a line is inserted for, be  *)
(* it a draft of this transaction or an entry others see.                  *)
InsertLine(s, l, row) ==
  LET entry == Sees(s, "entry")[row.entry]
      own == db.entry[row.entry] = None /\ ~Kept(entry)
  IN /\ Unused("line", l)
     /\ entry # None
     /\ Execute(s, IF own THEN "compose" ELSE "append", {On(l, "all"), On(row.entry, "share")})
     /\ Write(s, "line", [x \in {l} |-> row])
     /\ UNCHANGED fired

InsertPosting(s, e, l, row) ==
  /\ Unused("posting", <<e, l>>)
  /\ Sees(s, "entry")[e] # None
  /\ Proven(s, e, l, row)
  /\ Execute(s, "ledger", {On(x, "share") : x \in {e, l, row.period}})
  /\ Write(s, "posting", [x \in {<<e, l>>} |-> row])
  /\ UNCHANGED fired

(* UPDATE fiscal_periods SET status: no trigger looks at the entries.      *)
SetPeriod(s, p, status) ==
  /\ Sees(s, "period")[p] # status
  /\ Execute(s, IF status = "OPEN" THEN "reopen" ELSE "close", {On(p, "change")})
  /\ Write(s, "period", [x \in {p} |-> status])
  /\ UNCHANGED fired

End(s) ==
  /\ work' = [work EXCEPT ![s] = Nothing]
  /\ locks' = [locks EXCEPT ![s] = {}]
  /\ fired' = [fired EXCEPT ![s] = {}]
  /\ done' = [done EXCEPT ![s] = 0]

Commit(s) ==
  /\ done[s] > 0
  /\ \A x \in fired[s] : ReversalIntact(s, x[1], x[2])
  /\ db' = [t \in Tables |-> Sees(s, t)]
  /\ End(s)

Rollback(s) == done[s] > 0 /\ End(s) /\ UNCHANGED db

Next ==
  \E s \in Session :
    \/ \E e \in Entry, p \in Period, a \in Actor, of \in Entry \cup {None}, l, m \in Line :
         InsertEntry(s, e, Draft(p, a, of), l, m)
    \/ \E e \in Entry, status \in {"DRAFT", "POSTED", "REVERSED"}, a \in Actor :
         SetStatus(s, e, status, a)
    \/ \E e \in Entry, a \in Actor \cup {None} : SetPoster(s, e, a)
    \/ \E e \in Entry, p \in Period : MoveEntry(s, e, p)
    \/ \E e \in Entry : DeleteEntry(s, e)
    \/ \E l \in Line, row \in LineRow : UpdateLine(s, l, row)
    \/ \E l \in Line : DeleteLine(s, l)
    \/ \E l \in Line, row \in LineRow : InsertLine(s, l, row)
    \/ \E e \in Entry, l \in Line, row \in PostingRow : InsertPosting(s, e, l, row)
    \/ \E p \in Period, status \in {"OPEN", "CLOSED"} : SetPeriod(s, p, status)
    \/ Commit(s) \/ Rollback(s)

Spec == Init /\ [][Next]_vars

----------------------------------------------------------------------------
(* Properties of the committed rows                                        *)

(* The tables hold rows of their types, and every reference has its row.   *)
TypeOK ==
  /\ db.period \in [Period -> {"OPEN", "CLOSED"}]
  /\ db.entry \in [Entry -> EntryRow \cup {None}]
  /\ db.line \in [Line -> LineRow \cup {None}]
  /\ db.posting \in [Entry \X Line -> PostingRow \cup {None}]
  /\ \A l \in RowsOf(db.line) : db.entry[db.line[l].entry] # None
  /\ \A e \in RowsOf(db.entry) :
       db.entry[e].reversalOf # None => db.entry[db.entry[e].reversalOf] # None
  /\ \A x \in RowsOf(db.posting) : db.entry[x[1]] # None /\ db.line[x[2]] # None

(* "For an entry with status POSTED or REVERSED: at least one journal line *)
(* must exist; total debit must equal total credit": the balance checked   *)
(* by the transition is not undone by a line changed in a transaction that *)
(* runs beside it.                                                         *)
PostedBalanced ==
  \A e \in RowsOf(db.entry) : Kept(db.entry[e]) => Balanced(db.line, e)

(* Each ledger posting agrees with the journal line and the entry it was   *)
(* made from, long after it was made.                                      *)
LedgerMatchesJournal ==
  \A x \in RowsOf(db.posting) :
    /\ db.line[x[2]] = [entry |-> x[1], amount |-> db.posting[x].amount]
    /\ Kept(db.entry[x[1]])
    /\ db.entry[x[1]].period = db.posting[x].period

(* "A journal entry marked REVERSED must have a corresponding reversal     *)
(* journal entry ... whose status is POSTED", in every committed state and *)
(* not only when the entry is marked.                                      *)
ReversedHasReversal ==
  \A e \in RowsOf(db.entry) : db.entry[e].status = "REVERSED" =>
    \E r \in RowsOf(db.entry) :
      db.entry[r].reversalOf = e /\ db.entry[r].status = "POSTED"

(* No entry but a reversal is posted by the user who created it, whichever *)
(* statements and transactions led there.                                  *)
CreatorNeverPosts ==
  \A e \in RowsOf(db.entry) :
    (Kept(db.entry[e]) /\ db.entry[e].reversalOf = None)
      => db.entry[e].poster # db.entry[e].creator

(* "After the status becomes non-OPEN, the database rejects direct journal *)
(* insertion ... and status changes": when a commit leaves the status of a *)
(* closed period alone, no entry is brought into the period and none that  *)
(* stays there has changed but in who posted it.  Entries may leave it.    *)
ClosedPeriodGainsNothing ==
  [][\A p \in Period :
       (db.period[p] = "CLOSED" /\ \A s \in Session : p \notin DOMAIN work[s].period) =>
         \A e \in RowsOf(db.entry') : db'.entry[e].period = p =>
           /\ db.entry[e] # None
           /\ db.entry[e] = [db'.entry[e] EXCEPT !.poster = db.entry[e].poster]]_vars

============================================================================
