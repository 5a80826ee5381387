# The accounting kernel in TLA+

These modules model the accounting core of the FIP backend (`src/backend/app`):
a FastAPI service over PostgreSQL that keeps, for each organization, journal
entries, an append-only ledger, fiscal periods, and an audit trail. TLC checks
small instances; TLAPS proves the theorems for every value of the constants.

## The system

One API call is one database transaction of one `AsyncSession`
(`db/session.py`). Components share no memory: they interact through rows, row
locks and unique indexes, and through the direct calls the services make to the
repositories.

| Component | State | Operations | Interactions | What is hard |
|---|---|---|---|---|
| Journal entries (`journal_entry_service.py`) | entries, lines, postings | create, post, reverse | locks its period and entry, writes the ledger, appends to the trail | idempotency races, checks separated from writes, reversals of reversals, retries |
| Fiscal period lifecycle (`fiscal_period_service.py`) | status of a period | create, close, reopen | counts drafts, reconciles, balances, appends to the trail | readiness checks in several statements while entries are created |
| Audit trail (`audit_log_repository.py`) | records numbered per organization | append, verify, inspect | locks the row of the organization, called last by every service | sequence numbers taken by concurrent appends, lock upgrades |
| Ledger (`ledger_service.py`) | postings | reconciliation, balances, trial balance, general ledger | asked by the close and by the statements | postings of reversed entries, windows and the balance before them, two reads in one report |
| Database session (`db/session.py`) | transactions | begin, commit, rollback | everything | cut-offs between two statements, deadlock |
| Accounts (`account_service.py`) | tree of accounts, active flag | create, update, delete | checked when an entry is created | stale checks, cycles, children that appear during a delete |
| Fiscal years | years, status | create, close | contain the periods | overlap, close order |
| Database guards (migrations 0010-0024) | - | triggers and constraints | guard every row against direct SQL | gaps between triggers, what a trigger reads |
| Mappings and statements (`*_mapping_repository.py`, `profitability_service.py`, `balance_sheet_service.py`) | effective-dated mappings | create, select, compute a statement | read the ledger, feed the calculation engine | date ranges at their ends, concurrent creations, reads at different moments |
| Calculation engine (`domain/calculation`) | - | evaluate a dependency graph | called by the read models | order, missing values |
| Customers (`customer_service.py`, `customer_repository.py`) | customers | create, update (with the active flag), list by pages | appends to the trail | races for a code or a tax id, stale rows behind an audit record, pages cut while rows change |
| Tenancy, users, schemas, configuration | - | checks and parsing | before every call | - |

What makes each correct: *entries* - one key, one entry; posted once, by
somebody other than the creator; balanced; reversed once, by a linked entry.
*Periods* - closed only when settled, and frozen while closed. *Trail* -
contiguous, and it accounts for the rows. *Ledger* - exactly the posted journal.
*Customers* - one per code and per tax id, and a trail that tells what became of each.
*Reports* - the movement between two balances, whichever report says it.
*Sessions* - a call takes effect whole or not at all, and ends. *Calendar* -
years and periods do not overlap, and a year closes over closed, settled
periods. *Accounts* - unique codes, references that exist, no account that
one move puts under itself. *Mappings* - one category for an account and day; what is answered as
created is there. *Statements* - the movements of the mapped accounts, nothing
guessed. *Guards* - direct SQL cannot do what the services would refuse.

## Modules

- `JournalData` - the rows and the queries the services ask of them, as
  operators of the rows. `Lines` abstracts a set of journal lines to a value
  with a net amount (`Net`) and its mirror image (`Swap`); a create digest is its
  period and lines, and a reversal digest is one value because the body of a
  reversal request names no entry.
- `Books` - the abstract specification: the successful calls of the journal and
  period services, each one indivisible change of four variables (`period`,
  `entry`, `ledger`, `audit`). Refused calls change nothing and need no action.
- `BooksProofs` - the theorems about `Books`.
- `JournalTx` - the same services as workers that run one statement at a time.
  `stage[w]` is the statement a worker awaits next, `writes[w]` its uncommitted
  rows, `locks[w]` the row locks it holds, `row[w]` and `open[w]` what it loaded
  and goes on using. `After` lists the statements of each operation in the order
  of the code. `CutOff` ends a transaction between any two statements (a client
  that disconnects, a server that stops); `DeadlockVictim` is PostgreSQL breaking
  a wait cycle; `FlagAccount` is the account service. It refines `Books`.
- `JournalTxProofs` - the theorems about `JournalTx`, the refinement of `Books` at the
  end; `Atomic` brings in the theorems of `BooksProofs`.
- `FiscalCalendar` - fiscal years and periods over a set of days: creating both,
  closing years, closing and reopening periods, with the row locks of the
  services, the exclusion constraint on years and the trigger on periods. Of
  the readiness of a period it keeps the count of drafts.
- `FiscalCalendarProofs`, `AccountTreeProofs`, `AuditChainProofs`, `DbGuardsProofs`,
  `CustomersProofs`, `StatementsProofs` - the theorems about the modules they are named
  after (`StatementsProofs` also has the lemmas about `LedgerReports`, `CalculationEngine`
  and sums).
- `AccountTree` - the accounts: create, update, delete, one statement per step.
  A path is the sequence of codes it is put together from; `loaded[w]` is what
  the session read and does not read again, `Detach` and `Delete` are the flush
  of an ORM delete.
- `AuditChain` - what `append` stores and what the two verifications read back,
  when rows were changed by hand in between. The digest is injective.
- `DbGuards` - sessions that run direct SQL against the tables, and the triggers
  and constraints of revisions 0010 to 0024: row triggers run inside their
  statement (`Balanced`, `OpenPeriod`, `Mutable`, ...), the deferred one at
  `Commit`. `Sees` is what a READ COMMITTED statement sees; `Conflict` is the
  lock table of PostgreSQL reduced to the three modes the statements take.
- `CalculationEngine` - the kernel as operators: which graphs are accepted, the
  order of evaluation, how a status spreads and how figures are rounded. The recursion
  of the code is written as recursive functions (`Visit`, `Execute`).
- `LedgerReports` - the queries of the ledger as operators of the sequence of
  posted entries: the windows a report accepts (`DatesAccepted`, `InScope`), the
  postings in them, balances, trial balance, and the balance brought forward
  (`OpeningDate`, `Opening`).
- `Statements` - sessions that create mappings (`EnsureNoOverlap`, `Flush`,
  `AppendAudit`), that compute the two statements (`ReadRules`, `Reconcile`,
  `ReadFacts`), and that read the reports of the ledger (`CheckDates`, `ReadOpening`,
  `ReadRange`), while mappings are stored by SQL (`Store`) and entries posted
  and reversed. `Upper` and `Excluded` are the exclusion constraints, `Overlap`
  the check of the services; the graphs and formulas are `ProfitGraph` and
  `SheetGraph`, their inputs `Resolve`.
- `Customers` - sessions that create and update customers, one statement per step:
  `tx[w]` is the call of a worker, its next statement, the row it loaded under its
  lock (`Lockable`), the row it has flushed and what it answers with after the
  commit (`Refresh`). `Allowed` is the permission of the caller's role. `ReadPage` is
  a client that lists page after page.
- `MCBooks`, `MCJournal`, `MCCalendar`, `MCTree`, `MCChain`, `MCGuards`,
  `MCStatements`, `MCCustomers` - definitions for the runs: the sets of calls, of lines, of
  mappings and of audit lengths, and the symmetries.

In `JournalTx` a unique index makes an insert wait for another transaction
holding the same uncommitted key and then refuse or insert; an insert of
journal or ledger rows shares the lock on the organization's row (foreign key)
and the trail then asks for it exclusively, which is how two transactions in
different periods deadlock.

## Runs

| Run | Question |
|---|---|
| `BooksSafety` | Do journal, ledger, periods and trail agree after every sequence of six successful calls, over two periods, three entries, three keys and two actors? |
| `Life` | Two sessions, every operation on one period, valid and invalid payloads, an account switched on and off, calls cut off anywhere: is every committed transaction a call of `Books`, does every uncommitted row lie under its period's lock, and is every answer true? |
| `Live` | Two sessions in two periods: is every committed transaction a call of `Books` (so the trail is one chain and a key one entry, although no period lock orders the two), does deadlock arise at the organization's row only, and does every call end, under fair lock queues and deadlock detection? |
| `Calendar` | Two sessions create years and periods over four days, fill, close and reopen periods and close years: do the intervals keep apart, and is what a year closes over settled and afterwards the same set of periods? |
| `Tree` | Two sessions create, move and delete accounts: do references exist, do codes stay unique, and do accounts come to lie under each other only where two of them have been moved? |
| `Chain` | Does an untouched chain verify, does a chain that verifies hold only appended records without a gap, and is no append refused by the unique digests? |
| `Guarded` | Two sessions, transactions of up to two direct statements, closing and reopening included: do the triggers keep posted entries balanced and the ledger equal to their lines, and are creator and poster different? |
| `Statements` | Two sessions create mappings, compute statements and read reports over four days in two periods while the ledger and the mappings change: is a balance sheet always computed (no account has two categories on a day) and balanced when all accounts are mapped, is net income what the mapped postings moved, and do balance, trial balance and general ledger agree with each other and across periods? |
| `Clients` | Two sessions create and update two customers that compete for two codes and one tax id: do both stay unique, does the trail tell what became of each customer, is an answer a row the trail knows, and does a listing of all customers by pages miss nobody? |

Three runs check a statement of the documentation that the
code does not keep, and are expected to fail; the findings in `PROJECT.json`
quote the statements.

| Run | What it shows |
|---|---|
| `ReversedPeriod` | After a reversal, reconciliation reports the original's postings as orphans: a period with a reversal can never be closed. |
| `VanishedMapping` | A mapping that was answered as created is rolled back: the endpoint flushes, the session is closed, nobody commits. |
| `TakenBack` | A reversal is posted and its original marked REVERSED, and a later transaction makes the posted reversal a draft again: the original stays REVERSED without a posted reversal. |

The models show more of the kind that no run is spent on. A second entry
reversed under a key and body already used by a reversal is answered with that
other reversal (`SameRequest` compares digests that do not name the original);
so `AnswersTrue` says of a reversal that the answer
has the key of the request, is not a draft, and that what it reverses is marked,
and not that this is the entry the request named. A caller that lost the answer to
a reversal and repeats it is refused (the original is REVERSED by then, and its
status is looked at before the key). Two moves, one after the
other or at once, can put two accounts under each other: `update_account` compares
paths and never stores new ones, so the second comparison misses the first move.
`CyclesTakeTwoMoves` says how far the check goes. Entries are posted on
accounts switched off since their creation (`PostEntry` does not read `active`).
A creator who posts an entry already posted by somebody else succeeds, and the
trail says so (`AlreadyPosted`). An account whose child is created between the
count and the flush of its delete is deleted, and the child loses its parent
(`CountChildren`, `Detach`). A reversal can be reversed, and
then its original is REVERSED with no POSTED reversal (`Reversible`), although
`JOURNAL_REVERSAL_STATUS_BOUNDARY.md` asks for one.

Direct SQL, in particular, may do more than the documents of the guards say.

- `JOURNAL_BALANCE.md:28` says "line INSERT/UPDATE/DELETE locks the same parent journal row
  before changing source lines", but only updates and deletes of lines have a trigger (0011:42 and :49; 0013 replaces its function): a line may be
  inserted for a posted entry (`InsertLine`). The trigger looks at the entry a line goes
  to, so a line of a posted entry may be given to a draft (`UpdateLine`).
- `JOURNAL_FISCAL_PERIOD_BOUNDARY.md:9` says that an entry "may only be inserted or changed
  while its referenced fiscal period is `OPEN`", but the trigger fires on updates of three
  columns (0015:52): `posted_by` alone can be changed in a closed period (`SetPoster`), and
  so can the texts, and the date within the period. Line 27 speaks of "period reassignment", but only
  the period an entry goes to is looked at: an entry can leave a closed period
  (`MoveEntry`), posted or not.
- The trigger reads the period without locking it: a close between the statement that
  inserts an entry and its commit leaves the entry in a closed period (`OpenPeriod`,
  `SetPeriod`). What is left of the closed period is `ClosedPeriodGainsNothing`, below.
- `JOURNAL_REVERSAL_STATUS_BOUNDARY.md:7` says that a posted reversal cannot be changed away
  from POSTED while its original is REVERSED. The trigger of 0022 looks for entries that
  refer to the changed row (lines 39 to 49), where the original is the entry the changed row
  refers to. The test of it (`test_journal_reversal_status_postgres_integrity.py:131`) passes
  because it does everything in one transaction, where the deferred event of the
  original is still pending and finds its reversal gone. The run `TakenBack` commits in
  between (`ReversedHasReversal`).

And of mappings and reports: the exclusion constraint of profitability mappings ends
an interval a day later than the service does. A mapping from the day after the last of its
predecessor passes the check and is refused by the constraint, as an error 500
(`Upper`, `Flush`). Two creations of balance sheet mappings can deadlock on the
organization's row (`DeadlockVictim`). Profit and loss of days with a reversed
original is always refused as not reconciled (`Reconcile`). An entry dated before the
window of a general ledger and posted between its two statements is missing from
the closing balance (`ReadOpening`, `ReadRange`; the premise `Undisturbed` of
`ReportsTie` names exactly this case). `docs/architecture/calculation-engine.md:51`
says "When a period is selected, explicit dates must remain within that period", and so
do the messages of the code, but a start is compared with the first day of the period
only and an end with the last (`DatesAccepted`): a report can be asked to start after the
period or to end before it. It has no movements, and its closing balance is that of the
days before its start, not that of the end asked for. `ReportsTie` is therefore about windows
within their period (`DatesWithin`), and nothing is claimed of the others.
A customer deactivated between two pages of a
listing of the active ones moves the others forward, and one is skipped
(`PagesMissNobody` is about listings without the filter). The answer to an update of a
customer may already be a later update (`Refresh`). Two creations of customers can
deadlock on the organization's row like two of mappings.

Bounds. `AuditRoom` bounds the number of successful calls: a call is taken while
the trail is shorter than the bound, so every history of up to that many
successes (and any number of refusals) is explored. Six are enough for create,
post, reverse, and reversing the reversal, and for close, reopen and close
again. Entry identities are finite; `IdentityLeft` accepts a call only if an
identity remains for it. Two workers meet in every pairwise race and form the
shortest wait cycle. `BooksSafety` disables the deadlock
check because `Books` stops at `AuditRoom`; in `JournalTx` the action `Rest`
is the idle service, and every other stop would be reported.

`Room` names the statements a run of `DbGuards` lets sessions execute (`Kinds`) and, for
each, how many statements may precede it in its transaction. `Guarded` leaves out those
that are known to go through and undo what is posted (a line appended or moved, a posted
entry moved, a status taken back), so that what the triggers do guard is still checked;
`TakenBack` has the last of them, and the theorems that hold of all statements
have them all. `Guarded` also leaves out changing the `posted_by` of a draft, which posting
overwrites; the theorems do not. A posting, a reversal and the writing of the ledger
may be the first or the second statement, a line of one's own draft comes second, and the
others first: each pair of them meets in two transactions, and what follows an
uncommitted insert in its own. There is one period, in which moving a draft
rewrites its row; moves between periods are covered by the theorems. `Commit` checks the
deferred events and commits in one step, while PostgreSQL may let another transaction
commit between the two. Four days hold disjoint, touching, nested and
crossing intervals, and two periods of two days in one year. A chain of three
records has a middle, and three changes can move a row to another organization,
renumber it and relink it. `Room` of `AccountTree` is the length of the path
column: paths of accounts that are moved, deleted and created again would
otherwise grow for ever. `AuditChain` stops at its bounds, so `Chain` does not
check deadlock.

`Statements` has four days, five accounts and two periods of two days, so that a
mapping can be followed by one on the next day and on the day after, reports can
ask for windows in a period and across both, and every category can have a posting
in one entry. Two entries are a sale and one that takes its revenue back (a margin
over zero), or one and its reversal; two sessions meet in every race of two
creations, and of a creation or posting with a report. The reports are read by eight
calls: general ledgers with and without a balance brought forward, from a day, of a
period, of a day in a period, and of an end before its start (refused); the balance of
a period, and trial balances with and without one. Statements are asked for with and
without a period, and with days the period refuses (422, `"invalid"`): the profit and loss
before it is reconciled, the balance sheet when it reads the ledger, whose days it
takes up to the end whatever the period (`Window`). That a period does not exist or is of another
organization (404) is left out.

`Clients` takes calls while the trail has less than three records: a creation, an
update and one more of either on the same or the other customer. Two customers, two
codes and one tax id meet in every race for a code, for the tax id and for its
release; pages of one customer make every boundary between pages fall between two
requests. There is no deadlock check to switch off: the client may always list.

Fairness. `FairSpec` is strongly fair for the steps of each worker (the event
loop resumes every coroutine, and PostgreSQL grants row locks in arrival order,
so a waiter whose lock is released again and again gets it) and weakly fair for
deadlock detection (`deadlock_timeout`). Neither new calls, nor failures, nor
account changes are assumed to happen.

## Proofs

Every theorem holds for all values of the constants that satisfy the named
assumptions: any number of sessions, entries, periods, accounts, customers, and any
bound. What is assumed:

| Assumption | Module | Why the code justifies it |
|---|---|---|
| `LinesAssumption` | `JournalData` | swapping debit and credit negates the net, and twice is once nothing |
| `NoneAssumption`, and the like in `AccountTree`, `Customers`, `DbGuards` | | NULL is no identity, no code and no row |
| `AuditRoomAssumption`, `CallsAssumption`, `ChainAssumption` | `Books`, `JournalTx`, `AuditChain` | types of the bounds, of the calls and of the payloads |
| `TreeAssumption`, `CustomersAssumption`, `GuardsAssumption`, the calendar's | | types of the constants |
| `ReportsAssumption` | `LedgerReports` | fiscal periods are intervals of days, apart from each other (the guard of revision 0014; `CalendarNested` proves it of the calendar services), and NULL is no day |
| `StatementsAssumption` | `Statements` | there are finitely many accounts; an entry that is posted lies in a period and balances (`PostingsBalance` of `Books`); requests and mappings have their types |

**Books.** `Invariance` proves `Spec => []Inv`, with `Inv` the conjunction of the
type invariant, `LedgerIsPostedJournal`, `ClosedPeriodSettled`, `KeysUnique`,
`ReversalsLinked`, `TwoPersons` and `PostingsBalance`. They are inductive only
together: that a closed period is settled needs the ledger to be the posted
journal, since the close looks at postings and not at the status REVERSED; that
a reversal balances needs the original's postings to balance; that the poster
of a reversal is not the creator of its original needs reversals to be linked.
The action properties `ClosedPeriodFrozen` and `HistoryKept` follow from the
types alone, step by step. `TrailContiguous` is inductive with the types.
`TrailAccounts` (`TrailExplains`) follows the set of records of each action and
subject: an append adds one number to one of these sets, so a period has one close
more than reopenings exactly while it is closed, and the first post of an entry stays
the first. That a draft is no reversal comes from `ReversalsLinked`.

**JournalTx.** `TxInv` says for each worker, stage by stage, what it still knows
of the rows it read: the entry it found exists (`Found`), its period is locked and is as
it was loaded (`PeriodLoaded`), so is the entry (`EntryLoaded`), its own rows are new
(`NewFits`, `WritesKnown`), and from the append on it holds the organization's row
(`TrailLocked`); and of any two that their locks and inserts are apart. The idea of
the proof is one for all steps: what a commit changes was locked by the committer, so
the others keep what they know under their own locks. From it follow `TypeOK`,
`WritesUnderPeriodLock` and `AnswersTrue`. `OneLockOrder` (period, entry,
organization) adds that no circle of waits runs through any row but the
organization's, which is asked for shared first and exclusively later
(`DeadlocksOnlyOnOrganization`). `TransactionsAreAtomic` is the refinement: each
`Commit` is one step of `Books`, by case on the operation, and every other step leaves the
tables alone. With it, `ConcurrentBooks` and `ConcurrentHistory` carry the
theorems of `Books` over to the tables that concurrent transactions write.

**FiscalCalendar.** `CalendarInv` holds the tables, and what each session knows of
the year and period it has locked. `CalendarNested`, `DraftsInOpenPeriods` and the two action
properties follow: the overlap of years rests on the exclusion constraint, the
overlap of periods on the lock on their year.

**AccountTree.** `TreeInv` says what each session loaded, locked and wrote.
`TypeOK` is here the foreign keys and unique codes. `OneMoveMakesNoCycle`
(`CyclesTakeTwoMoves`) uses that paths are never stored again and identities never used
again: an account whose parent has not been moved since has its parent's path
before its own code, so on a circle paths would get longer all the way round, and
where only one account on it has moved, the check of that move would have seen it.

**Customers.** `CustomersInv`: a creation has an identity nobody has, the row an update
loaded is the committed one as long as it holds the lock, what it flushed is what it
will report, and two sessions never hold the same code or tax id uncommitted; the
last record of a customer has the row as it is. `ReadingInv` carries
`PagesMissNobody`: the number of customers with a smaller code only grows, so nobody
who was there slips before the offset, and a page that is not full has reached the end.

**AuditChain.** `ChainInv`: a digest in the table was computed by `append`, and what
append inserted carries the digest of its own columns. A digest names what was
digested (`DigestNames`), so a row whose digest fits is a record of this organization
(`VerifiedIsPrefix`). For a chain nobody changed (`UntouchedVerifies`) the numbers are 1 to
the number of rows, by counting (`Places`, `PlaceIsNumber`), and no new record has the digest of
an old one, because its link would have to be that of a record further down.

**DbGuards.** `RowsInv` holds with statements of every kind: behind each uncommitted row
stands a lock that keeps other sessions from it and from what it refers to, and
references hold in the tables and in each session's view of them. `GuardedInv` adds
what the triggers keep (`KeptBalance`, `Agree`, posted rows that stay, events that wait
for the commit) where `Kinds \subseteq Guarded`, the statements the run `Guarded` has and
changes of the `posted_by` of drafts: of two sessions only one writes about an entry, so
after a commit another sees of an entry either what it saw or what the committer saw. The
balance and the ledger follow from it. `CreatorsNeverPost` needs no restriction of the
statements: signing anew is guarded like posting. `ClosedPeriodsGainNothing` is about one
session and statements of every kind: a transaction that leaves the status of a closed
period alone brings no entry into it, and changes none that stays there but in `posted_by`.
With two sessions even that is false, as told above. Reversals have no theorem, since what the
document says of them is refuted.

**Statements.** `Inv` says of the table that no two mappings exclude each other
(`TableOK`), of the ledger that its entries have their types and balance, and of each
worker, stage by stage, what it has read and what it will answer (`Working`). Two mappings
of an account that are effective on one day exclude each other, so there is one at most
(`OneEffective`): the balance sheet is never refused as ambiguous, and a posting
counts in one category (`MappedApart`). The proof goes in five steps.

1. Sums. The library sums over a set with a recursive function that takes out a chosen
   element; that every sum over a finite set is defined (`SumsDefined`) is shown by the least
   number of elements for which it is not, since the library's induction is out of reach.
   From it: taking out any element (`SumTakeOut`), summing by groups (`SumByGroups`), sums of
   sums (`SumOfTwo`) and of negated terms.
2. The kernel. A graph declared in an order that puts dependencies first is evaluated in that
   order (`OrderOfDeclaration`), and each figure is then `Figure` of the final results
   (`Executed`). `ProfitGraphInOrder` and `SheetGraphInOrder` apply it to the two graphs,
   `ProfitFigures` and `SheetFigures` give their figures for any inputs.
3. The ledger. The postings of an entry sum up to its lines (`AmountOfEntry`), so those of
   any days sum up to zero (`DaysBalance`). The amount of a window is the difference of two
   balances (`BalanceOfWindow`), the opening balance is the one before its first day
   (`OpeningIsBalance`), and rows of the trial balance are such amounts (`TrialRows`, `TrialSum`).
4. The statements from 1 to 3: net income is minus the sum of all mapped postings, by groups
   (`ProfitComputed`); the difference of a sheet is the sum over all its postings, which is
   zero if all are mapped (`SheetComputed`).
5. Interleaving. What others do leaves a worker's answer true: entries are only added, and a
   reversal changes a status no amount depends on (`Carries`, `BalanceCarried`), and what is
   added on later days leaves the balance brought forward (`BalanceUndisturbed`).

`SheetBalances`, `NetIncomeIsMovement`, `ReportsTie` and `TypeOK` follow from `Inv`, for any
accounts, periods, mappings, entries and sessions. TLC found `Inv` true of the instance of
the run `Statements` before it was proved.

Only model-checked. Liveness (`FairSpec` and every call ending): the prover has no
fairness and no ENABLED. That the constructor accepts the two graphs (`GraphsAccepted`), an
evaluation of constants; no proof uses it, since that the graphs are declared with
dependencies first is proved. Every other property of a passing run is stated by a theorem. The
three runs that expect a violation are counterexamples and have nothing to prove.

## Not modelled

Several organizations at once: every query is filtered by organization, and all
locks but those on primary keys are within one. Amounts, dates and texts: lines
are reduced to their net, a date to whether it lies in the period (except in
`FiscalCalendar` and `Statements`, which number the days; `Statements` has amounts
in whole cents). Changing a mapping, which no endpoint does. Changes of `reversal_of_id` by direct SQL. Requests
that parsing refuses. Updates
of a customer that change other fields than the tax id and the active flag: they take
the same path. Tokens, sessions of users and the choice of the organization
(`api/dependencies.py`): stateless checks before a call. Users and organizations:
single-row inserts. Pure input and output (schemas, configuration, routing),
and modules that are empty at this commit.

## Plan

1. `JournalData`, `Books`, `JournalTx`: the journal and its periods (done), and
   the proof of the invariants of `Books` (done).
2. `DbGuards`: the triggers and constraints against direct SQL (done; organizations
   and posting dates are left).
3. `FiscalCalendar`: fiscal years, creation of periods, closing years (done).
4. `AccountTree`: the hierarchy of accounts (done).
5. `AuditChain`: the hash chain and its verification (done).
6. `CalculationEngine`, `Statements`: mappings and the statements computed from
   them (done).
7. `LedgerReports` (balances and movements by account and date) and `Customers` (done).
8. Proofs: `FiscalCalendar`, `Customers`, `AccountTree`, `JournalTx` and its refinement of
   `Books`, `DbGuards`, `AuditChain`, and `Statements` with `LedgerReports` and
   `CalculationEngine` (done).
