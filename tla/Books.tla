------------------------------- MODULE Books -------------------------------
(***************************************************************************)
(* What the journal and fiscal-period services promise: every call that    *)
(* succeeds is one indivisible change of the committed rows, made in a     *)
(* state where its checks hold, with its audit record.                     *)
(*                                                                         *)
(* JournalTx shows how concurrent database transactions keep this promise. *)
(***************************************************************************)
EXTENDS JournalData

CONSTANT AuditRoom  \* lengths of the audit trail at which a further call is taken

ASSUME AuditRoomAssumption == AuditRoom \subseteq Nat

VARIABLES
  period,   \* status of each fiscal period
  entry,    \* row of each journal entry, None while it has none
  ledger,   \* ledger postings, in the order they were committed
  audit     \* audit trail of the organization

books == <<period, entry, ledger, audit>>

Init ==
  /\ period = [p \in Period |-> "OPEN"]
  /\ entry = [e \in Entry |-> None]
  /\ ledger = <<>>
  /\ audit = <<>>

----------------------------------------------------------------------------
(* Calls                                                                   *)

Log(a, action, subject) ==
  /\ Len(audit) \in AuditRoom
  /\ audit' = Append(audit, AuditRecord(audit, a, action, subject))

(* Mutant: the key of the request is not looked up.                        *)
CreatableUnderAnyKey(p, l, k) == period[p] = "OPEN" /\ Validated(l)

Creatable(p, l, k) ==
  /\ KeyHolders(entry, k) = {}
  /\ period[p] = "OPEN"
  /\ Validated(l)

Create(e, a, p, l, k) ==
  /\ entry[e] = None
  /\ Creatable(p, l, k)
  /\ entry' = [entry EXCEPT ![e] = DraftRow(p, l, k, CreateHash(p, l), a, None)]
  /\ Log(a, "JOURNAL_ENTRY_CREATED", e)
  /\ UNCHANGED <<period, ledger>>

(* Mutant: anything but a posted entry can be posted, its postings are not *)
(* looked for.                                                             *)
PostableUnlessPosted(e, a) ==
  /\ entry[e].status # "POSTED"
  /\ entry[e].creator # a
  /\ period[entry[e].period] = "OPEN"
  /\ Validated(entry[e].lines)

(* Drafts come from create: a reversal is posted by the call that inserts  *)
(* it, so the exemption of reversals from the creator check is not needed. *)
Postable(e, a) ==
  /\ entry[e].status = "DRAFT"
  /\ entry[e].creator # a
  /\ period[entry[e].period] = "OPEN"
  /\ Validated(entry[e].lines)
  /\ ~HasPostings(ledger, e)

Post(e, a) ==
  /\ e \in Rows(entry)
  /\ Postable(e, a)
  /\ entry' = [entry EXCEPT ![e] = PostedRow(entry[e], a)]
  /\ ledger' = Append(ledger, PostingOf(e, entry[e]))
  /\ Log(a, "JOURNAL_ENTRY_POSTED", e)
  /\ UNCHANGED period

(* Posting an entry that is already posted succeeds, changes nothing and   *)
(* is recorded, whoever asks.                                              *)
PostAgain(e, a) ==
  /\ e \in Rows(entry)
  /\ entry[e].status = "POSTED"
  /\ HasPostings(ledger, e)
  /\ Log(a, "JOURNAL_ENTRY_POSTED", e)
  /\ UNCHANGED <<period, entry, ledger>>

(* Mutant: the creator of an entry may reverse it.                         *)
ReversibleByCreator(e, a, k) ==
  /\ entry[e].status = "POSTED"
  /\ KeyHolders(entry, k) = {}
  /\ ReversalsOf(entry, e) = {}
  /\ period[entry[e].period] = "OPEN"

(* Mutant: the status of the period is not looked at.                      *)
ReversibleAtAnyTime(e, a, k) ==
  /\ entry[e].status = "POSTED"
  /\ entry[e].creator # a
  /\ KeyHolders(entry, k) = {}
  /\ ReversalsOf(entry, e) = {}

(* A reversal can itself be reversed, and that reversal too.               *)
Reversible(e, a, k) ==
  /\ entry[e].status = "POSTED"
  /\ entry[e].creator # a
  /\ KeyHolders(entry, k) = {}
  /\ ReversalsOf(entry, e) = {}
  /\ period[entry[e].period] = "OPEN"

ReversalRow(e, a, k) ==
  PostedRow(DraftRow(entry[e].period, Swap[entry[e].lines], k, ReverseHash, a, e), a)

Reverse(e, r, a, k) ==
  /\ e \in Rows(entry)
  /\ entry[r] = None
  /\ Reversible(e, a, k)
  /\ entry' = [entry EXCEPT ![r] = ReversalRow(e, a, k),
                            ![e] = ReversedRow(entry[e])]
  /\ ledger' = Append(ledger, PostingOf(r, ReversalRow(e, a, k)))
  /\ Log(a, "JOURNAL_ENTRY_REVERSED", r)
  /\ UNCHANGED period

(* Mutant: the drafts are not counted.                                     *)
ClosableOverDrafts(p) ==
  /\ period[p] = "OPEN"
  /\ Reconciled(entry, ledger, p)
  /\ TrialBalanced(ledger, p)

Closable(p) ==
  /\ period[p] = "OPEN"
  /\ Drafts(entry, p) = {}
  /\ Reconciled(entry, ledger, p)
  /\ TrialBalanced(ledger, p)

ClosePeriod(p, a) ==
  /\ Closable(p)
  /\ period' = [period EXCEPT ![p] = "CLOSED"]
  /\ Log(a, "FISCAL_PERIOD_CLOSED", p)
  /\ UNCHANGED <<entry, ledger>>

(* Mutant: reopening leaves no record.                                     *)
ReopenSilently(p, a) ==
  /\ period[p] = "CLOSED"
  /\ period' = [period EXCEPT ![p] = "OPEN"]
  /\ UNCHANGED <<entry, ledger, audit>>

ReopenPeriod(p, a) ==
  /\ period[p] = "CLOSED"
  /\ period' = [period EXCEPT ![p] = "OPEN"]
  /\ Log(a, "FISCAL_PERIOD_REOPENED", p)
  /\ UNCHANGED <<entry, ledger>>

Next ==
  \E a \in Actor :
    \/ \E e \in Entry, p \in Period, l \in Lines, k \in Key : Create(e, a, p, l, k)
    \/ \E e \in Entry : Post(e, a)
    \/ \E e \in Entry : PostAgain(e, a)
    \/ \E e, r \in Entry, k \in Key : Reverse(e, r, a, k)
    \/ \E p \in Period : ClosePeriod(p, a)
    \/ \E p \in Period : ReopenPeriod(p, a)

Spec == Init /\ [][Next]_books

----------------------------------------------------------------------------
(* Properties                                                              *)

TypeOK ==
  /\ period \in [Period -> PeriodStatus]
  /\ entry \in [Entry -> EntryRow \cup {None}]
  /\ ledger \in Seq(Posting)
  /\ audit \in Seq(AuditRow)

(* The ledger is the posted journal, exactly once: each posting carries    *)
(* the period and lines of an entry that has been posted, no entry has two *)
(* postings, and every posted or reversed entry has one.                   *)
LedgerIsPostedJournal ==
  /\ \A i \in DOMAIN ledger :
       LET e == ledger[i].entry IN
         /\ e \in Rows(entry)
         /\ entry[e].status # "DRAFT"
         /\ ledger[i] = PostingOf(e, entry[e])
  /\ \A i, j \in DOMAIN ledger : ledger[i].entry = ledger[j].entry => i = j
  /\ \A e \in Rows(entry) : entry[e].status # "DRAFT" => HasPostings(ledger, e)

(* Everything posted balances: originals, reversals, reversals of those.   *)
PostingsBalance == \A i \in DOMAIN ledger : Net[ledger[i].lines] = 0

(* A closed period holds only posted entries, so no draft, and nothing     *)
(* that was reversed.                                                      *)
ClosedPeriodSettled ==
  \A e \in Rows(entry) :
    period[entry[e].period] = "CLOSED" => entry[e].status = "POSTED"

(* An entry is reversed exactly when another one in its period, with the   *)
(* sides of its lines exchanged, undoes it, and never by two.              *)
ReversalsLinked ==
  /\ \A r \in Rows(entry) :
       entry[r].reversalOf # None =>
         LET e == entry[r].reversalOf IN
           /\ e \in Rows(entry) \ {r}
           /\ entry[e].status = "REVERSED"
           /\ entry[r].status # "DRAFT"
           /\ entry[r].period = entry[e].period
           /\ entry[r].lines = Swap[entry[e].lines]
  /\ \A e \in Rows(entry) :
       entry[e].status = "REVERSED" => ReversalsOf(entry, e) # {}
  /\ \A q, r \in Rows(entry) :
       (entry[q].reversalOf # None /\ entry[q].reversalOf = entry[r].reversalOf) => q = r

(* One idempotency key, one financial event.                               *)
KeysUnique ==
  \A d, e \in Rows(entry) : entry[d].key = entry[e].key => d = e

(* Two people for every financial effect: the poster of an entry is not    *)
(* its creator, and whoever reverses it did not create it.                 *)
TwoPersons ==
  \A e \in Rows(entry) :
    IF entry[e].reversalOf = None
      THEN entry[e].poster # entry[e].creator
      ELSE entry[e].creator # entry[entry[e].reversalOf].creator

Recorded(action, subject) ==
  {i \in DOMAIN audit : audit[i].action = action /\ audit[i].subject = subject}

(* The trail is contiguous from 1.                                         *)
TrailContiguous == \A i \in DOMAIN audit : audit[i].seq = i

EntryExplained(e) ==
  LET created  == Recorded("JOURNAL_ENTRY_CREATED", e)
      posted   == Recorded("JOURNAL_ENTRY_POSTED", e)
      reversed == Recorded("JOURNAL_ENTRY_REVERSED", e)
  IN IF e \notin Rows(entry) THEN created \cup posted \cup reversed = {}
     ELSE IF entry[e].reversalOf = None
     THEN /\ \E i \in created : created = {i} /\ audit[i].actor = entry[e].creator
          /\ reversed = {}
          /\ posted = {} <=> entry[e].status = "DRAFT"
          /\ posted # {} => \E i \in posted :
               /\ \A j \in posted : i <= j
               /\ audit[i].actor = entry[e].poster
     ELSE /\ created = {}
          /\ \E i \in reversed : reversed = {i} /\ audit[i].actor = entry[e].creator

PeriodExplained(p) ==
  Cardinality(Recorded("FISCAL_PERIOD_CLOSED", p))
    - Cardinality(Recorded("FISCAL_PERIOD_REOPENED", p))
      = IF period[p] = "CLOSED" THEN 1 ELSE 0

(* The trail accounts for the books: the rows and the periods are as the   *)
(* records say, by the actors they name, and nothing was written without a *)
(* record.                                                                 *)
TrailExplains ==
  /\ \A e \in Entry : EntryExplained(e)
  /\ \A p \in Period : PeriodExplained(p)

(* While a period stays closed, what it contains does not change: no row   *)
(* is added to it or altered in it, and no posting reaches it.             *)
RowsIn(p) == {e \in Rows(entry) : entry[e].period = p}

ClosedPeriodFrozen ==
  [][\A p \in Period : (period[p] = "CLOSED" /\ period'[p] = "CLOSED") =>
       /\ RowsIn(p)' = RowsIn(p)
       /\ \A e \in RowsIn(p) : entry'[e] = entry[e]
       /\ PostingsIn(ledger', p) = PostingsIn(ledger, p)]_books

(* Nothing recorded is lost or rewritten: the ledger and the trail only    *)
(* grow, a row keeps all but its status and poster, the status only moves  *)
(* forward, and the poster is set once, when the entry is posted.          *)
HistoryKept ==
  [][/\ SubSeq(ledger', 1, Len(ledger)) = ledger
     /\ SubSeq(audit', 1, Len(audit)) = audit
     /\ \A e \in Rows(entry) :
          LET old == entry[e]
              kept == entry'[e]
          IN /\ kept = [old EXCEPT !.status = kept.status, !.poster = kept.poster]
             /\ <<old.status, kept.status>> \in
                  {<<s, s>> : s \in EntryStatus}
                    \cup {<<"DRAFT", "POSTED">>, <<"POSTED", "REVERSED">>}
             /\ kept.poster # old.poster => old.status = "DRAFT"]_books

============================================================================
