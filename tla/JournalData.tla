---------------------------- MODULE JournalData ----------------------------
(***************************************************************************)
(* The rows of one organization's journal, ledger and audit trail, and the *)
(* questions the services ask of them.  Every operator is a function of    *)
(* the rows it is given, so that the atomic specification (Books) and the  *)
(* concurrent one (JournalTx) ask the same questions of their own rows.    *)
(*                                                                         *)
(* One organization is modelled: every query of the services is filtered   *)
(* by organization_id, and the lock the audit trail takes is its own row.  *)
(***************************************************************************)
EXTENDS Integers, Sequences, FiniteSets, Folds

CONSTANTS
  Period,   \* fiscal periods
  Entry,    \* identities of journal entries
  Actor,    \* authenticated users
  Key,      \* idempotency keys
  Lines,    \* sets of journal lines a request can carry
  Net,      \* Net[l]: total debit minus total credit of l
  Swap,     \* Swap[l]: l with the debit and credit sides exchanged
  None      \* the SQL NULL and "no row"

(* Swapping the sides of every line negates the net and is undone by doing *)
(* it again.                                                               *)
ASSUME LinesAssumption ==
  /\ Net \in [Lines -> Int]
  /\ Swap \in [Lines -> Lines]
  /\ \A l \in Lines : Net[Swap[l]] = -Net[l] /\ Swap[Swap[l]] = l

----------------------------------------------------------------------------
(* Rows                                                                    *)

EntryStatus == {"DRAFT", "POSTED", "REVERSED"}

(* The statuses the lifecycle operations read and write.  CLOSING and      *)
(* LOCKED exist in the enumeration and no operation moves a period into    *)
(* or out of them.                                                         *)
PeriodStatus == {"OPEN", "CLOSED"}

(* The canonical payload whose digest is stored beside the key.  A create  *)
(* request hashes its period and lines; the body of a reversal request     *)
(* names neither the entry it reverses nor its lines.                      *)
Hash == {<<>>} \cup (Period \X Lines)
CreateHash(p, l) == <<p, l>>
ReverseHash == <<>>

EntryRow == [status : EntryStatus, period : Period, lines : Lines, key : Key,
             hash : Hash, creator : Actor, poster : Actor \cup {None},
             reversalOf : Entry \cup {None}]

(* NULL is no identity and no row.                                         *)
ASSUME NoneAssumption == None \notin Entry \cup Actor \cup EntryRow

(* All the postings of one entry are written by one flush: one element     *)
(* stands for them.                                                        *)
Posting == [entry : Entry, period : Period, lines : Lines]

AuditAction == {"JOURNAL_ENTRY_CREATED", "JOURNAL_ENTRY_POSTED",
                "JOURNAL_ENTRY_REVERSED", "FISCAL_PERIOD_CLOSED",
                "FISCAL_PERIOD_REOPENED"}

AuditRow == [seq : Nat \ {0}, actor : Actor, action : AuditAction,
             subject : Entry \cup Period]

DraftRow(p, l, k, h, a, of) ==
  [status |-> "DRAFT", period |-> p, lines |-> l, key |-> k, hash |-> h,
   creator |-> a, poster |-> None, reversalOf |-> of]

(* Mutant: the poster takes the place of the creator.                      *)
PosterAsCreator(row, a) == [row EXCEPT !.status = "POSTED", !.poster = a, !.creator = a]

PostedRow(row, a) == [row EXCEPT !.status = "POSTED", !.poster = a]

(* Mutant: the original keeps its status.                                  *)
UnmarkedRow(row) == row

ReversedRow(row) == [row EXCEPT !.status = "REVERSED"]

PostingOf(e, row) == [entry |-> e, period |-> row.period, lines |-> row.lines]

(* Mutant: the sequence numbers start at 0.                                *)
AuditRecordFromZero(trail, a, action, subject) ==
  [seq |-> Len(trail), actor |-> a, action |-> action, subject |-> subject]

(* The record the audit repository appends after the trail it has read.    *)
AuditRecord(trail, a, action, subject) ==
  [seq |-> Len(trail) + 1, actor |-> a, action |-> action, subject |-> subject]

----------------------------------------------------------------------------
(* Questions                                                               *)

Rows(entry) == {e \in Entry : entry[e] # None}

KeyHolders(entry, k) == {e \in Rows(entry) : entry[e].key = k}

ReversalsOf(entry, e) == {r \in Rows(entry) : entry[r].reversalOf = e}

Drafts(entry, p) ==
  {e \in Rows(entry) : entry[e].period = p /\ entry[e].status = "DRAFT"}

HasPostings(ledger, e) == \E i \in DOMAIN ledger : ledger[i].entry = e

(* Mutant: the lines are not validated.                                    *)
Unvalidated(l) == TRUE

(* The double-entry validation: equal total debit and credit.  A request   *)
(* with malformed lines is rejected at the same point as an unbalanced one *)
(* and is represented by it.                                               *)
Validated(l) == Net[l] = 0

(* The postings and the journal entries reconciliation compares: the       *)
(* postings of the period, and the POSTED entries of the period.           *)
PostingsIn(ledger, p) == {i \in DOMAIN ledger : ledger[i].period = p}

Expected(entry, p) ==
  {e \in Rows(entry) : entry[e].period = p /\ entry[e].status = "POSTED"}

Missing(entry, ledger, p) ==
  {e \in Expected(entry, p) :
     \A i \in PostingsIn(ledger, p) : ledger[i].entry # e}

Orphans(entry, ledger, p) ==
  {i \in PostingsIn(ledger, p) : ledger[i].entry \notin Expected(entry, p)}

Mismatched(entry, ledger, p) ==
  {i \in PostingsIn(ledger, p) :
     /\ ledger[i].entry \in Expected(entry, p)
     /\ ledger[i].lines # entry[ledger[i].entry].lines}

Reconciled(entry, ledger, p) ==
  /\ Missing(entry, ledger, p) = {}
  /\ Orphans(entry, ledger, p) = {}
  /\ Mismatched(entry, ledger, p) = {}

Total(amount) ==
  MapThenFoldSet(LAMBDA x, y : x + y, 0, LAMBDA i : amount[i],
                 LAMBDA S : CHOOSE i \in S : TRUE, DOMAIN amount)

(* Total debit minus total credit of the postings of p.                    *)
Imbalance(ledger, p) ==
  Total([i \in PostingsIn(ledger, p) |-> Net[ledger[i].lines]])

TrialBalanced(ledger, p) == Imbalance(ledger, p) = 0

============================================================================
