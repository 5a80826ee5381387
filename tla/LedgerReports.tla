---------------------------- MODULE LedgerReports ----------------------------
(***************************************************************************)
(* The queries of the ledger service over the postings, as operators of a  *)
(* ledger: which days a report covers, the balances of accounts, the trial *)
(* balance and the movements of an account with the balance brought        *)
(* forward.                                                                *)
(*                                                                         *)
(* A ledger is the sequence of posted entries, each with its day, its      *)
(* status and what it moves on each account (debit minus credit).  An      *)
(* entry lies in the fiscal period its day lies in.                        *)
(***************************************************************************)
EXTENDS Integers, Sequences, FiniteSetsExt, Functions

CONSTANTS
  Account, None,
  LastDay,       \* Bound: days are numbered from 1
  FiscalPeriod   \* intervals of days, apart from each other

Day == 1 .. LastDay

ASSUME ReportsAssumption ==
  /\ LastDay \in Nat
  /\ None \notin Day
  /\ FiscalPeriod \subseteq [first : Day, last : Day]
  /\ \A p \in FiscalPeriod : p.first < p.last
  /\ \A p, q \in FiscalPeriod : p # q => p.last < q.first \/ q.last < p.first

DaysOf(period) == period.first .. period.last

(* The arguments of a report; those that are not given are None.           *)
Scope == [period : FiscalPeriod \cup {None}, start : Day \cup {None}, end : Day \cup {None}]

----------------------------------------------------------------------------
(* Dates                                                                   *)

(* _validate_dates and _validate_dates_within_period: a start is compared  *)
(* with the first day of the period only, and an end with the last.        *)
DatesAccepted(s) ==
  /\ (s.start # None /\ s.end # None) => s.start <= s.end
  /\ (s.period # None /\ s.start # None) => s.start >= s.period.first
  /\ (s.period # None /\ s.end # None) => s.end <= s.period.last

(* _posting_filters                                                        *)
InScope(day, s) ==
  /\ s.period # None => day \in DaysOf(s.period)
  /\ s.start # None => day >= s.start
  /\ s.end # None => day <= s.end

(* The day before which postings are part of the opening balance.          *)
OpeningDate(s) ==
  IF s.start # None THEN s.start ELSE IF s.period # None THEN s.period.first ELSE None

----------------------------------------------------------------------------
(* Postings and balances                                                   *)

(* An account on which an entry moves nothing has no posting.              *)
Postings(ledger) ==
  {f \in {[entry |-> i, day |-> ledger[i].day, account |-> a, amount |-> ledger[i].lines[a]] :
            i \in DOMAIN ledger, a \in Account} : f.amount # 0}

Facts(ledger, s) == {f \in Postings(ledger) : InScope(f.day, s)}

(* Postings of entries that are not POSTED are orphans.                    *)
Reconciled(ledger, s) ==
  \A i \in DOMAIN ledger : InScope(ledger[i].day, s) => ledger[i].status = "POSTED"

Amount(fs) == SumFunction([f \in fs |-> f.amount])

Of(a, fs) == {f \in fs : f.account = a}

(* account_balance                                                         *)
AccountBalance(ledger, a, s) == Amount(Of(a, Facts(ledger, s)))

(* trial_balance has a row for each account with a posting in its scope.   *)
TrialBalance(ledger, s) ==
  LET fs == Facts(ledger, s) IN [a \in {f.account : f \in fs} |-> Amount(Of(a, fs))]

(* Mutant: the first day is brought forward, and listed again.             *)
OpeningIncluded(ledger, a, s) ==
  IF OpeningDate(s) = None THEN 0
  ELSE Amount({f \in Of(a, Postings(ledger)) : f.day <= OpeningDate(s)})

(* The balance general_ledger brings forward.                              *)
Opening(ledger, a, s) ==
  IF OpeningDate(s) = None THEN 0
  ELSE Amount({f \in Of(a, Postings(ledger)) : f.day < OpeningDate(s)})

=============================================================================
