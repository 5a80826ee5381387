--------------------------- MODULE FiscalCalendar ---------------------------
(***************************************************************************)
(* Fiscal years and their periods: creating them, closing years, closing   *)
(* and reopening periods, and the draft entries that come and go in open   *)
(* periods meanwhile.  A worker serves one call at a time, one statement   *)
(* per step; what it writes becomes visible when it commits, and the rows  *)
(* it locked stay locked until then.                                       *)
(*                                                                         *)
(* Of the readiness of a period only the count of its drafts is kept: the  *)
(* ledger is the subject of JournalTx.                                     *)
(***************************************************************************)
EXTENDS Integers, FiniteSets

CONSTANTS
  Worker,   \* concurrent sessions
  Year,     \* identities of fiscal years
  Period,   \* identities of fiscal periods
  Day,      \* calendar days
  Calls,    \* the calls that may be made
  None      \* "no row", "no call" and an argument not taken

YearStatus == {"OPEN", "CLOSED"}
PeriodStatus == {"OPEN", "CLOSING", "CLOSED", "LOCKED"}

YearRow == [first : Day, last : Day, status : YearStatus]
PeriodRow == [year : Year, first : Day, last : Day, status : PeriodStatus]

(* year and period: the row inserted by the create operations, the row     *)
(* named by the others.                                                    *)
Call ==
  [op : {"create year"}, year : Year, row : YearRow]
    \cup [op : {"create period"}, period : Period, row : PeriodRow]
    \cup [op : {"close year"}, year : Year]
    \cup [op : {"close period", "reopen period", "draft", "post"}, period : Period]

ASSUME CalendarAssumption ==
  /\ Day \subseteq Int
  /\ Calls \subseteq Call
  /\ None \notin Calls \cup YearRow \cup PeriodRow
  /\ Year \cap Period = {}

VARIABLES
  year,     \* committed fiscal years
  period,   \* committed fiscal periods
  drafts,   \* periods in which a draft entry is committed
  stage,    \* the statement each worker executes next
  call,     \* the call it serves
  locks     \* the rows it has locked

tables == <<year, period, drafts>>
vars == <<tables, stage, call, locks>>

Years == {y \in Year : year[y] # None}
Periods == {p \in Period : period[p] # None}
PeriodsOf(y) == {p \in Periods : period[p].year = y}

Init ==
  /\ year = [y \in Year |-> None]
  /\ period = [p \in Period |-> None]
  /\ drafts = {}
  /\ stage = [w \in Worker |-> "idle"]
  /\ call = [w \in Worker |-> None]
  /\ locks = [w \in Worker |-> {}]

----------------------------------------------------------------------------
(* Dates                                                                   *)

ValidDates(r) == r.first < r.last

Within(r, outer) == outer.first <= r.first /\ r.last <= outer.last

(* Mutant: an interval may begin on the day another ends.                  *)
OverlapByMoreThanADay(r, s) == r.first < s.last /\ s.first < r.last

(* Both ends belong to an interval.                                        *)
Overlap(r, s) == r.first <= s.last /\ s.first <= r.last

----------------------------------------------------------------------------
(* Transactions                                                            *)

First(op) ==
  CASE op = "create year" -> "list"
    [] op \in {"create period", "close year"} -> "year"
    [] op \in {"close period", "reopen period", "draft", "post"} -> "period"

(* Nothing else has the identity a create operation gives its row.         *)
NewIdentity(c) ==
  LET creating(op) == {v \in Worker : stage[v] # "idle" /\ call[v].op = op} IN
  /\ c.op = "create year" =>
       year[c.year] = None /\ \A v \in creating(c.op) : call[v].year # c.year
  /\ c.op = "create period" =>
       period[c.period] = None /\ \A v \in creating(c.op) : call[v].period # c.period

Begin(w) ==
  /\ stage[w] = "idle"
  /\ \E c \in Calls :
       /\ NewIdentity(c)
       /\ call' = [call EXCEPT ![w] = c]
       /\ stage' = [stage EXCEPT ![w] = First(c.op)]
  /\ UNCHANGED <<tables, locks>>

Go(w, s) == stage' = [stage EXCEPT ![w] = s] /\ UNCHANGED <<tables, call>>

(* Mutant: SELECT without FOR UPDATE, though the rows are then written.    *)
LockRegardless(w, rows) == locks' = [locks EXCEPT ![w] = @ \cup rows]

(* SELECT FOR UPDATE waits until no other transaction locks the rows.      *)
Lock(w, rows) ==
  /\ \A v \in Worker \ {w} : locks[v] \cap rows = {}
  /\ locks' = [locks EXCEPT ![w] = @ \cup rows]

End(w) ==
  /\ stage' = [stage EXCEPT ![w] = "idle"]
  /\ call' = [call EXCEPT ![w] = None]
  /\ locks' = [locks EXCEPT ![w] = {}]

(* The request is refused, or cut off between two statements.              *)
Abort(w) ==
  /\ stage[w] # "idle"
  /\ End(w)
  /\ UNCHANGED tables

----------------------------------------------------------------------------
(* create_fiscal_year                                                      *)

(* The years are listed and compared, without a lock.                      *)
ListYears(w) ==
  /\ stage[w] = "list"
  /\ ValidDates(call[w].row)
  /\ \A y \in Years : ~Overlap(call[w].row, year[y])
  /\ Go(w, "insert year")
  /\ UNCHANGED locks

(* Mutant: no exclusion constraint.                                        *)
NeverExcluded(w) == FALSE

(* The exclusion constraint: a committed year overlaps the new one.        *)
Excluded(w) == \E y \in Years : Overlap(call[w].row, year[y])

(* ... and it waits for an overlapping one that is not committed.          *)
AwaitsExclusion(w) ==
  \E v \in Worker \ {w} : /\ stage[v] = "commit" /\ call[v].op = "create year"
                          /\ Overlap(call[w].row, call[v].row)

InsertYear(w) ==
  /\ stage[w] = "insert year"
  /\ ~Excluded(w) /\ ~AwaitsExclusion(w)
  /\ Go(w, "commit")
  /\ UNCHANGED locks

----------------------------------------------------------------------------
(* create_fiscal_period and close_fiscal_year lock the year first          *)

YearOf(w) == IF call[w].op = "close year" THEN call[w].year ELSE call[w].row.year

(* Mutant: create_fiscal_period reads the year without locking it.         *)
LockYearToClose(w) ==
  /\ stage[w] = "year"
  /\ YearOf(w) \in Years
  /\ Lock(w, IF call[w].op = "close year" THEN {YearOf(w)} ELSE {})
  /\ year[YearOf(w)].status = "OPEN"
  /\ Go(w, IF call[w].op = "close year" THEN "periods" ELSE "check period")

LockYear(w) ==
  /\ stage[w] = "year"
  /\ YearOf(w) \in Years
  /\ Lock(w, {YearOf(w)})
  /\ year[YearOf(w)].status = "OPEN"
  /\ Go(w, IF call[w].op = "close year" THEN "periods" ELSE "check period")

(* The dates fit in the year and meet no other period of it: checked by    *)
(* the service, and again by a trigger when the row is inserted.           *)
Fits(row) ==
  /\ ValidDates(row)
  /\ Within(row, year[row.year])
  /\ \A p \in PeriodsOf(row.year) : ~Overlap(row, period[p])

CheckPeriod(w) ==
  /\ stage[w] = "check period"
  /\ Fits(call[w].row)
  /\ Go(w, "insert period")
  /\ UNCHANGED locks

(* The trigger locks the year too, and does not look at its status.        *)
InsertPeriod(w) ==
  /\ stage[w] = "insert period"
  /\ Lock(w, {call[w].row.year})
  /\ Fits(call[w].row)
  /\ Go(w, "commit")

(* Mutant: the periods are read without locks.                             *)
ReadPeriods(w) ==
  /\ stage[w] = "periods"
  /\ PeriodsOf(call[w].year) # {}
  /\ \A p \in PeriodsOf(call[w].year) : period[p].status = "CLOSED"
  /\ Go(w, "count")
  /\ UNCHANGED locks

(* The rows are locked one by one; waiting for one while holding another   *)
(* is not told from waiting for both.                                      *)
LockPeriods(w) ==
  /\ stage[w] = "periods"
  /\ Lock(w, PeriodsOf(call[w].year))
  /\ PeriodsOf(call[w].year) # {}
  /\ \A p \in PeriodsOf(call[w].year) : period[p].status = "CLOSED"
  /\ Go(w, "count")

CountDrafts(w) ==
  /\ stage[w] = "count"
  /\ PeriodsOf(call[w].year) \cap drafts = {}
  /\ Go(w, "commit")
  /\ UNCHANGED locks

----------------------------------------------------------------------------
(* Operations on one period lock it first                                  *)

(* close, and everything the journal does, wants the period OPEN; reopen   *)
(* wants it CLOSED.  Nothing looks at the year.                            *)
Wanted(op) == IF op = "reopen period" THEN "CLOSED" ELSE "OPEN"

(* Mutant: the status of the period is read without a lock.                *)
ReadPeriod(w) ==
  /\ stage[w] = "period"
  /\ call[w].period \in Periods
  /\ period[call[w].period].status = Wanted(call[w].op)
  /\ Go(w, IF call[w].op = "close period" THEN "drafts" ELSE "commit")
  /\ UNCHANGED locks

LockPeriod(w) ==
  LET p == call[w].period IN
  /\ stage[w] = "period"
  /\ p \in Periods
  /\ Lock(w, {p})
  /\ period[p].status = Wanted(call[w].op)
  /\ Go(w, IF call[w].op = "close period" THEN "drafts" ELSE "commit")

CountPeriodDrafts(w) ==
  /\ stage[w] = "drafts"
  /\ call[w].period \notin drafts
  /\ Go(w, "commit")
  /\ UNCHANGED locks

----------------------------------------------------------------------------
(* What each operation has written becomes visible                         *)

SetPeriod(p, status) == period' = [period EXCEPT ![p].status = status]

Commit(w) ==
  LET c == call[w] IN
  /\ stage[w] = "commit"
  /\ \/ /\ c.op = "create year"
        /\ year' = [year EXCEPT ![c.year] = c.row]
        /\ UNCHANGED <<period, drafts>>
     \/ /\ c.op = "create period"
        /\ period' = [period EXCEPT ![c.period] = c.row]
        /\ UNCHANGED <<year, drafts>>
     \/ /\ c.op = "close year"
        /\ year' = [year EXCEPT ![c.year].status = "CLOSED"]
        /\ UNCHANGED <<period, drafts>>
     \/ /\ c.op = "close period"
        /\ SetPeriod(c.period, "CLOSED")
        /\ UNCHANGED <<year, drafts>>
     \/ /\ c.op = "reopen period"
        /\ SetPeriod(c.period, "OPEN")
        /\ UNCHANGED <<year, drafts>>
     \/ /\ c.op = "draft"
        /\ drafts' = drafts \cup {c.period}
        /\ UNCHANGED <<year, period>>
     \/ /\ c.op = "post"
        /\ drafts' = drafts \ {c.period}
        /\ UNCHANGED <<year, period>>
  /\ End(w)

(* No call in progress: the service may rest.                              *)
Rest == (\A w \in Worker : stage[w] = "idle") /\ UNCHANGED vars

Next ==
  \/ \E w \in Worker :
       \/ Begin(w) \/ ListYears(w) \/ InsertYear(w)
       \/ LockYear(w) \/ CheckPeriod(w) \/ InsertPeriod(w)
       \/ LockPeriods(w) \/ CountDrafts(w)
       \/ LockPeriod(w) \/ CountPeriodDrafts(w)
       \/ Commit(w) \/ Abort(w)
  \/ Rest

Spec == Init /\ [][Next]_vars

----------------------------------------------------------------------------
(* Properties                                                              *)

(* The variables have their types, and no two workers lock the same row.   *)
TypeOK ==
  /\ year \in [Year -> YearRow \cup {None}]
  /\ period \in [Period -> PeriodRow \cup {None}]
  /\ drafts \subseteq Periods
  /\ stage \in [Worker -> {"idle", "list", "insert year", "year", "check period",
                           "insert period", "periods", "count", "period", "drafts", "commit"}]
  /\ call \in [Worker -> Calls \cup {None}]
  /\ locks \in [Worker -> SUBSET (Year \cup Period)]
  /\ \A w \in Worker : stage[w] = "idle" <=> call[w] = None
  /\ \A v, w \in Worker : v # w => locks[v] \cap locks[w] = {}

Days(row) == {d \in Day : row.first <= d /\ d <= row.last}

(* "Two fiscal years may not have overlapping date ranges", although the   *)
(* service compares them without a lock; every period lies in its year and *)
(* shares no day with another: a date has at most one period.              *)
CalendarNested ==
  /\ \A y, z \in Years : y # z => Days(year[y]) \cap Days(year[z]) = {}
  /\ \A p \in Periods :
       period[p].year \in Years /\ Days(period[p]) \subseteq Days(year[period[p].year])
  /\ \A p, q \in Periods : p # q => Days(period[p]) \cap Days(period[q]) = {}

(* A draft is in an open period: a period closes over none, and none comes *)
(* to a closed one.                                                        *)
DraftsInOpenPeriods == \A p \in drafts : period[p].status = "OPEN"

(* In the state where a year becomes closed, it has periods, all of them   *)
(* are closed, and none holds a draft, whatever reopens, is created or is  *)
(* posted while the transaction that closes it runs.                       *)
YearClosesSettled ==
  [][\A y \in Years : (year[y].status = "OPEN" /\ year'[y].status = "CLOSED") =>
       /\ PeriodsOf(y)' # {}
       /\ \A p \in PeriodsOf(y)' : period'[p].status = "CLOSED" /\ p \notin drafts']_vars

(* No period is added to a year that has been closed.                      *)
ClosedYearKeepsPeriods ==
  [][\A y \in Years : year[y].status = "CLOSED" => PeriodsOf(y)' = PeriodsOf(y)]_vars

============================================================================
