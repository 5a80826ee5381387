----------------------------- MODULE Statements -----------------------------
(***************************************************************************)
(* Which category an account belongs to on which days (the two tables of   *)
(* mappings), the two statements computed from the mappings and the ledger *)
(* (profit and loss of a window of days, balance sheet at its end), and    *)
(* the reports of the ledger.  Requests run one statement at a time at     *)
(* READ COMMITTED, while entries are posted and reversed; `committed' is   *)
(* what later requests see.                                                *)
(*                                                                         *)
(* One organization and one rule version.                                  *)
(***************************************************************************)
EXTENDS CalculationEngine, LedgerReports

CONSTANTS
  Worker,
  Movements,  \* journal entries that may be posted: a day, and debit minus credit by account
  Stored,     \* tables of mappings there may be at the beginning
  Calls,      \* requests
  Room        \* Bound: entries in the ledger

Profit == <<"REVENUE", "COGS", "OPERATING_EXPENSE", "OTHER_INCOME", "OTHER_EXPENSE">>
Sheet == <<"ASSET", "LIABILITY", "EQUITY">>
Categories == [profit |-> ToSet(Profit), sheet |-> ToSet(Sheet)]

Mapping ==
  {m \in [table : DOMAIN Categories, account : Account, category : ToSet(Profit \o Sheet),
          from : Day, to : Day \cup {None}] : m.category \in Categories[m.table]}

Requests ==
  [op : {"create"}, row : Mapping]
    \cup {c \in [op : {"profit"}, period : FiscalPeriod \cup {None}, start : Day, end : Day] :
            c.start <= c.end}
    \cup [op : {"sheet"}, period : FiscalPeriod \cup {None}, end : Day]
    \cup [op : {"balance", "trial", "movements"}, account : Account, scope : Scope]

ASSUME StatementsAssumption ==
  /\ IsFiniteSet(Account)
  /\ \A m \in Movements : m.day \in UNION {DaysOf(p) : p \in FiscalPeriod}
  /\ \A m \in Movements : m.lines \in [Account -> Int]
  /\ \A m \in Movements : SumFunction(m.lines) = 0
  /\ UNION Stored \subseteq Mapping
  /\ Calls \subseteq Requests
  /\ Room \in Nat

VARIABLES
  committed,  \* the committed rows of both tables
  ledger,     \* entries in the order of posting, with their status
  stage,      \* the statement each worker runs next
  call,       \* the request it serves
  written,    \* the mapping it has inserted and not committed
  rules,      \* mappings it has read
  facts,      \* ledger postings it has read
  opening,    \* the balance it brings forward, and how long the ledger was
  answer      \* what it answers

vars == <<committed, ledger, stage, call, written, rules, facts, opening, answer>>

----------------------------------------------------------------------------
(* Intervals                                                               *)

(* No end is later than every day.                                         *)
Until(to) == IF to = None THEN LastDay + 2 ELSE to

SameAccount(m, n) == m.table = n.table /\ m.account = n.account

(* The overlap the service looks for.                                      *)
Overlap(m, n) ==
  SameAccount(m, n) /\ n.from <= Until(m.to) /\ Until(n.to) >= m.from

(* The overlap the exclusion constraints refuse: that of profitability     *)
(* mappings closes the range a day after effective_to, and includes it.    *)
Upper(m) == IF m.table = "profit" /\ m.to # None THEN m.to + 1 ELSE Until(m.to)

(* Mutant: only the first days are compared, by the unique constraint.     *)
ExcludedSameStart(m, n) == SameAccount(m, n) /\ m.from = n.from

Excluded(m, n) == SameAccount(m, n) /\ n.from <= Upper(m) /\ Upper(n) >= m.from

----------------------------------------------------------------------------
(* Reading                                                                 *)

(* list_for_period                                                         *)
ListForPeriod(start, end) ==
  {m \in committed : m.table = "profit" /\ m.from <= end /\ Until(m.to) >= start}

(* list_effective_at                                                       *)
ListEffectiveAt(day) ==
  {m \in committed : m.table = "sheet" /\ m.from <= day /\ Until(m.to) >= day}

Ambiguous(ms) == \E m, n \in ms : m # n /\ m.account = n.account

(* The scope of a statement, whose dates are checked ...                   *)
Asked(c) ==
  [period |-> c.period, start |-> IF c.op = "profit" THEN c.start ELSE None, end |-> c.end]

(* ... and that of the postings it reads: a balance sheet reads all up to  *)
(* its day, whatever the period.                                           *)
Window(c) == IF c.op = "profit" THEN Asked(c) ELSE [Asked(c) EXCEPT !.period = None]

----------------------------------------------------------------------------
(* The statements                                                          *)

CreditSide == {"REVENUE", "OTHER_INCOME", "LIABILITY", "EQUITY"}

MappedTo(c, fs, ms) ==
  {f \in fs : \E m \in ms : m.account = f.account /\ m.category = c}

(* Mutant: other income is taken on the debit side.                        *)
BalanceByType(c, fs) == IF c \in CreditSide \ {"OTHER_INCOME"} THEN -Amount(fs) ELSE Amount(fs)

(* Mutant: equity is taken on the debit side.                              *)
BalanceOfLiabilities(c, fs) == IF c \in CreditSide \ {"EQUITY"} THEN -Amount(fs) ELSE Amount(fs)

Balance(c, fs) == IF c \in CreditSide THEN -Amount(fs) ELSE Amount(fs)

(* A category without a posting is not zero: it is not there.              *)
Resolve(table, fs, ms) ==
  [c \in Categories[table] |->
     LET mapped == MappedTo(c, fs, ms) IN
       IF mapped = {} THEN Blocked("NOT_READY") ELSE Ready(Balance(c, mapped))]

ProfitGraph ==
  [nodes |-> <<"GROSS_PROFIT", "OPERATING_INCOME", "NET_INCOME",
               "GROSS_MARGIN", "OPERATING_MARGIN", "NET_MARGIN">>,
   external |-> Categories.profit,
   deps |-> [GROSS_PROFIT |-> <<"REVENUE", "COGS">>,
             OPERATING_INCOME |-> <<"GROSS_PROFIT", "OPERATING_EXPENSE">>,
             NET_INCOME |-> <<"OPERATING_INCOME", "OTHER_INCOME", "OTHER_EXPENSE">>,
             GROSS_MARGIN |-> <<"GROSS_PROFIT", "REVENUE">>,
             OPERATING_MARGIN |-> <<"OPERATING_INCOME", "REVENUE">>,
             NET_MARGIN |-> <<"NET_INCOME", "REVENUE">>],
   op |-> [GROSS_PROFIT |-> "subtract", OPERATING_INCOME |-> "subtract",
           NET_INCOME |-> "income", GROSS_MARGIN |-> "ratio",
           OPERATING_MARGIN |-> "ratio", NET_MARGIN |-> "ratio"]]

SheetGraph ==
  [nodes |-> <<"TOTAL_ASSETS", "TOTAL_LIABILITIES", "TOTAL_EQUITY", "BALANCE_DIFFERENCE">>,
   external |-> Categories.sheet,
   deps |-> [TOTAL_ASSETS |-> <<"ASSET">>, TOTAL_LIABILITIES |-> <<"LIABILITY">>,
             TOTAL_EQUITY |-> <<"EQUITY">>,
             BALANCE_DIFFERENCE |-> <<"TOTAL_ASSETS", "TOTAL_LIABILITIES", "TOTAL_EQUITY">>],
   op |-> [TOTAL_ASSETS |-> "copy", TOTAL_LIABILITIES |-> "copy", TOTAL_EQUITY |-> "copy",
           BALANCE_DIFFERENCE |-> "difference"]]

ASSUME GraphsAccepted == Accepted(ProfitGraph) /\ Accepted(SheetGraph)

Statement(table, fs, ms) ==
  Execute(IF table = "profit" THEN ProfitGraph ELSE SheetGraph, Resolve(table, fs, ms))

----------------------------------------------------------------------------
(* Requests                                                                *)

NothingBrought == [at |-> 0, amount |-> 0]

Init ==
  /\ committed \in Stored
  /\ \A m, n \in committed : m # n => ~Excluded(m, n)
  /\ ledger = <<>>
  /\ stage = [w \in Worker |-> "idle"]
  /\ call = [w \in Worker |-> None]
  /\ written = [w \in Worker |-> {}]
  /\ rules = [w \in Worker |-> {}]
  /\ facts = [w \in Worker |-> {}]
  /\ opening = [w \in Worker |-> NothingBrought]
  /\ answer = [w \in Worker |-> None]

Go(w, next) == stage' = [stage EXCEPT ![w] = next]

Reply(w, what) == Go(w, "reply") /\ answer' = [answer EXCEPT ![w] = what]

Code(c) == [code |-> c]

Begin(w) ==
  /\ stage[w] = "idle"
  /\ \E c \in Calls :
       /\ call' = [call EXCEPT ![w] = c]
       /\ Go(w, CASE c.op = "create" -> "overlap"
                  [] c.op \in {"profit", "sheet"} -> "rules"
                  [] c.op \in {"balance", "trial", "movements"} -> "dates")
  /\ UNCHANGED <<committed, ledger, written, rules, facts, opening, answer>>

(* _ensure_no_overlap sees what others have committed.                     *)
EnsureNoOverlap(w) ==
  /\ stage[w] = "overlap"
  /\ IF \E m \in committed : Overlap(call[w].row, m)
       THEN Reply(w, Code("conflict"))
       ELSE Go(w, "flush") /\ UNCHANGED answer
  /\ UNCHANGED <<committed, ledger, call, written, rules, facts, opening>>

Awaited(w, row) == \E v \in Worker \ {w} : \E m \in written[v] : Excluded(row, m)

(* An inserted mapping shares the lock on the organization (foreign key);  *)
(* append has asked for it exclusively.                                    *)
Shares(w) == written[w] # {}
Owns(w) == Shares(w) /\ stage[w] = "reply" /\ call[w].row.table = "sheet"
NoneOf(Holds(_), w) == \A v \in Worker \ {w} : ~Holds(v)

(* The insert waits for those it may collide with.  Only the repository of *)
(* balance sheet mappings turns the refusal into a conflict.               *)
Flush(w) ==
  LET row == call[w].row IN
  /\ stage[w] = "flush"
  /\ ~Awaited(w, row) /\ NoneOf(Owns, w)
  /\ IF \E m \in committed : Excluded(row, m)
       THEN /\ Reply(w, Code(IF row.table = "sheet" THEN "conflict" ELSE "error"))
            /\ UNCHANGED written
       ELSE /\ written' = [written EXCEPT ![w] = {row}]
            /\ IF row.table = "sheet"
                 THEN Go(w, "audit") /\ UNCHANGED answer
                 ELSE Reply(w, Code("created"))
  /\ UNCHANGED <<committed, ledger, call, rules, facts, opening>>

(* The record in the audit trail shares the transaction of the mapping.    *)
AppendAudit(w) ==
  /\ stage[w] = "audit"
  /\ NoneOf(Shares, w)
  /\ Reply(w, Code("created"))
  /\ UNCHANGED <<committed, ledger, call, written, rules, facts, opening>>

(* Two that share the organization and wait for each other.                *)
DeadlockVictim(w) ==
  /\ stage[w] = "audit"
  /\ \E v \in Worker \ {w} : stage[v] = "audit"
  /\ Reply(w, Code("error"))
  /\ written' = [written EXCEPT ![w] = {}]
  /\ UNCHANGED <<committed, ledger, call, rules, facts, opening>>

ReadRules(w) ==
  LET c == call[w]
      ms == IF c.op = "profit" THEN ListForPeriod(c.start, c.end) ELSE ListEffectiveAt(c.end)
  IN /\ stage[w] = "rules"
     /\ rules' = [rules EXCEPT ![w] = ms]
     /\ IF Ambiguous(ms)
          THEN Reply(w, Code("ambiguous"))
          ELSE Go(w, IF c.op = "profit" THEN "reconcile" ELSE "facts") /\ UNCHANGED answer
     /\ UNCHANGED <<committed, ledger, call, written, facts, opening>>

Reconcile(w) ==
  /\ stage[w] = "reconcile"
  /\ IF DatesAccepted(Asked(call[w])) /\ Reconciled(ledger, Window(call[w]))
       THEN Go(w, "facts") /\ UNCHANGED answer
       ELSE Reply(w, Code(IF DatesAccepted(Asked(call[w])) THEN "unreconciled" ELSE "invalid"))
  /\ UNCHANGED <<committed, ledger, call, written, rules, facts, opening>>

(* The day of a balance sheet is looked at here, after the rules are read. *)
ReadFacts(w) ==
  LET c == call[w]
      fs == Facts(ledger, Window(c))
  IN /\ stage[w] = "facts"
     /\ IF DatesAccepted(Asked(c))
          THEN /\ facts' = [facts EXCEPT ![w] = fs]
               /\ Reply(w, [code |-> "statement", results |-> Statement(c.op, fs, rules[w])])
          ELSE Reply(w, Code("invalid")) /\ UNCHANGED facts
     /\ UNCHANGED <<committed, ledger, call, written, rules, opening>>

----------------------------------------------------------------------------
(* Reports of the ledger                                                   *)

CheckDates(w) ==
  LET s == call[w].scope IN
  /\ stage[w] = "dates"
  /\ IF DatesAccepted(s)
       THEN /\ Go(w, IF call[w].op = "movements" /\ OpeningDate(s) # None
                       THEN "opening" ELSE "range")
            /\ UNCHANGED answer
       ELSE Reply(w, Code("invalid"))
  /\ UNCHANGED <<committed, ledger, call, written, rules, facts, opening>>

(* general_ledger brings the balance forward in a statement of its own ... *)
ReadOpening(w) ==
  /\ stage[w] = "opening"
  /\ opening' = [opening EXCEPT
       ![w] = [at |-> Len(ledger), amount |-> Opening(ledger, call[w].account, call[w].scope)]]
  /\ Go(w, "range")
  /\ UNCHANGED <<committed, ledger, call, written, rules, facts, answer>>

(* ... and then adds the postings of the range to it, one after the other. *)
ReadRange(w) ==
  LET c == call[w]
      n == Len(ledger)
  IN
  /\ stage[w] = "range"
  /\ Reply(w,
       CASE c.op = "trial" ->
              [code |-> "trial", at |-> n, rows |-> TrialBalance(ledger, c.scope)]
         [] c.op = "balance" ->
              [code |-> "balance", at |-> n,
               balance |-> AccountBalance(ledger, c.account, c.scope)]
         [] c.op = "movements" ->
              [code |-> "movements", at |-> n,
               closing |-> opening[w].amount + AccountBalance(ledger, c.account, c.scope)])
  /\ UNCHANGED <<committed, ledger, call, written, rules, facts, opening>>

----------------------------------------------------------------------------
(* The end of a request                                                    *)

(* Mutant: the session goes on with what it had read.                      *)
KeepRules(w) ==
  /\ Go(w, "idle")
  /\ call' = [call EXCEPT ![w] = None]
  /\ written' = [written EXCEPT ![w] = {}]
  /\ facts' = [facts EXCEPT ![w] = {}]
  /\ opening' = [opening EXCEPT ![w] = NothingBrought]
  /\ answer' = [answer EXCEPT ![w] = None]
  /\ UNCHANGED <<committed, ledger, rules>>

(* get_db closes the session; what was not committed is rolled back.       *)
Close(w) ==
  /\ Go(w, "idle")
  /\ call' = [call EXCEPT ![w] = None]
  /\ written' = [written EXCEPT ![w] = {}]
  /\ rules' = [rules EXCEPT ![w] = {}]
  /\ facts' = [facts EXCEPT ![w] = {}]
  /\ opening' = [opening EXCEPT ![w] = NothingBrought]
  /\ answer' = [answer EXCEPT ![w] = None]
  /\ UNCHANGED <<committed, ledger>>

Deliver(w) == stage[w] = "reply" /\ Close(w)

CutOff(w) == stage[w] \notin {"idle", "reply"} /\ Close(w)

----------------------------------------------------------------------------
(* Other sessions                                                          *)

(* A mapping written by SQL, with its commit.                              *)
Store(m) ==
  /\ NoneOf(Owns, None)
  /\ \A n \in committed \cup UNION {written[w] : w \in Worker} : ~Excluded(m, n)
  /\ committed' = committed \cup {m}
  /\ UNCHANGED <<ledger, stage, call, written, rules, facts, opening, answer>>

(* Both append to the audit trail, which waits for mappings being written. *)
Post(m) ==
  /\ NoneOf(Shares, None)
  /\ Len(ledger) < Room
  /\ ledger' = Append(ledger, [day |-> m.day, lines |-> m.lines, status |-> "POSTED"])
  /\ UNCHANGED <<committed, stage, call, written, rules, facts, opening, answer>>

(* A reversal is dated in the period of what it reverses.                  *)
ReverseEntry(i, day) ==
  /\ NoneOf(Shares, None)
  /\ Len(ledger) < Room
  /\ ledger[i].status = "POSTED"
  /\ \E p \in FiscalPeriod : {day, ledger[i].day} \subseteq DaysOf(p)
  /\ ledger' = Append([ledger EXCEPT ![i].status = "REVERSED"],
                      [day |-> day, lines |-> [a \in Account |-> -ledger[i].lines[a]],
                       status |-> "POSTED"])
  /\ UNCHANGED <<committed, stage, call, written, rules, facts, opening, answer>>

Next ==
  \/ \E w \in Worker :
       \/ Begin(w) \/ EnsureNoOverlap(w) \/ Flush(w) \/ AppendAudit(w) \/ DeadlockVictim(w)
       \/ ReadRules(w) \/ Reconcile(w) \/ ReadFacts(w)
       \/ CheckDates(w) \/ ReadOpening(w) \/ ReadRange(w)
       \/ Deliver(w) \/ CutOff(w)
  \/ \E c \in {c \in Calls : c.op = "create"} : Store(c.row)
  \/ \E m \in Movements : Post(m)
  \/ \E i \in DOMAIN ledger, day \in Day : ReverseEntry(i, day)

Spec == Init /\ [][Next]_vars

----------------------------------------------------------------------------
(* Properties                                                              *)

Stage == {"idle", "overlap", "flush", "audit", "rules", "reconcile", "facts",
          "dates", "opening", "range", "reply"}

(* The variables have their types; an idle worker keeps nothing from the   *)
(* request before.                                                         *)
TypeOK ==
  /\ committed \subseteq Mapping
  /\ Len(ledger) <= Room
  /\ \A i \in DOMAIN ledger :
       ledger[i] \in [day : Day, lines : [Account -> Int], status : {"POSTED", "REVERSED"}]
  /\ stage \in [Worker -> Stage]
  /\ \A w \in Worker :
       /\ call[w] \in Calls \cup {None}
       /\ written[w] \cup rules[w] \subseteq Mapping
       /\ stage[w] = "idle" => {call[w], answer[w]} = {None} /\ written[w] = {}
                                 /\ rules[w] = {} /\ facts[w] = {} /\ opening[w] = NothingBrought

(* A balance sheet whose day is accepted is always computed ("if more than *)
(* one effective mapping is returned for the same account, the calculation *)
(* fails closed", but with the constraint on the table it never comes to   *)
(* that), and when all accounts with postings are mapped it balances,      *)
(* although mappings and postings are read at different moments and        *)
(* accounts may have been mapped otherwise before.                         *)
SheetBalances ==
  \A w \in Worker :
   (stage[w] = "reply" /\ call[w].op = "sheet" /\ DatesAccepted(Asked(call[w]))) =>
    /\ answer[w].code = "statement"
    /\ (\A f \in facts[w] : \E m \in rules[w] : m.account = f.account) =>
         LET difference == answer[w].results["BALANCE_DIFFERENCE"] IN
           difference.status = "READY" => difference.value = 0

(* Net income is what the mapped postings moved, whichever categories they *)
(* are in; it is there when all categories are, and its margin is an error *)
(* exactly when it divides by a revenue of zero.                           *)
NetIncomeIsMovement ==
  \A w \in Worker :
    (stage[w] = "reply" /\ call[w].op = "profit" /\ answer[w].code = "statement")
    => LET results == answer[w].results
           mapped == [c \in Categories.profit |-> MappedTo(c, facts[w], rules[w])]
           complete == \A c \in Categories.profit : mapped[c] # {}
       IN /\ complete
               => results["NET_INCOME"] = Ready(-Amount(UNION Range(mapped)))
          /\ ~complete => results["NET_INCOME"].status = "NOT_READY"
          /\ results["NET_MARGIN"].status =
               IF ~complete THEN "NOT_READY"
               ELSE IF Amount(mapped["REVENUE"]) = 0 THEN "ERROR" ELSE "READY"

(* The balance of an account at the end of a day, by the first n entries.  *)
BalanceAt(n, a, day) ==
  Amount({f \in Postings(SubSeq(ledger, 1, n)) : f.account = a /\ f.day <= day})

FirstDay(s) == IF OpeningDate(s) = None THEN 1 ELSE OpeningDate(s)

(* The last day a report is about.                                         *)
ClosingDay(s) ==
  IF s.end # None THEN s.end ELSE IF s.period # None THEN s.period.last ELSE LastDay

(* "When a period is selected, explicit dates must remain within that      *)
(* period. Date ranges reject `start_date > end_date`."                    *)
DatesWithin(s) ==
  /\ s.period # None => {s.start, s.end} \ {None} \subseteq DaysOf(s.period)
  /\ (s.start # None /\ s.end # None) => s.start <= s.end

(* Nothing was posted on a day before the window while it was read.        *)
Undisturbed(w) ==
  \A i \in opening[w].at + 1 .. answer[w].at : ledger[i].day >= FirstDay(call[w].scope)

(* "The selected range movements are then applied to derive                *)
(* closing_balance": for every window within its period it is the balance  *)
(* of the account at the end of the window, and the movement between two   *)
(* such balances is what the balance of the window and the rows of the     *)
(* trial balance report; those sum up to zero.  So the closing balance of  *)
(* a window opens the next one, across periods, unless an entry dated      *)
(* before the window was posted between the two statements of the report.  *)
(* It says nothing of windows beside their period, which DatesAccepted     *)
(* lets by.                                                                *)
ReportsTie ==
  \A w \in Worker :
    LET s == call[w].scope
        moved(a) == BalanceAt(answer[w].at, a, ClosingDay(s))
                      - BalanceAt(answer[w].at, a, FirstDay(s) - 1)
    IN (/\ stage[w] = "reply" /\ call[w].op \in {"balance", "trial", "movements"}
        /\ DatesWithin(s)) =>
       CASE call[w].op = "balance" -> answer[w].balance = moved(call[w].account)
         [] call[w].op = "trial" ->
              /\ \A a \in Account :
                   moved(a) = (IF a \in DOMAIN answer[w].rows THEN answer[w].rows[a] ELSE 0)
              /\ SumFunction(answer[w].rows) = 0
         [] call[w].op = "movements" ->
              Undisturbed(w) => answer[w].closing =
                                  BalanceAt(answer[w].at, call[w].account, ClosingDay(s))

(* "creates a mapping after validating account ownership, category,        *)
(* version, and effective dates": when the answer says so, it is there.    *)
CreatedIsStored ==
  [][\A w \in Worker :
       (Deliver(w) /\ answer[w].code = "created") => call[w].row \in committed']_vars

=============================================================================
