---------------------------- MODULE MCStatements ----------------------------
(* Small instances of Statements.                                          *)
EXTENDS Statements, TLC

Accounts == {"cash", "sales", "goods", "rent", "interest"}

Map(table, account, category, from, to) ==
  [table |-> table, account |-> account, category |-> category, from |-> from, to |-> to]

Always(table, account, category) == Map(table, account, category, 1, None)

(* Every account but cash has a category of profit or loss; the balance    *)
(* sheet puts them wherever it balances.                                   *)
ProfitTable ==
  {Always("profit", "sales", "REVENUE"), Always("profit", "goods", "COGS"),
   Always("profit", "rent", "OPERATING_EXPENSE"), Map("profit", "interest", "OTHER_INCOME", 1, 1),
   Always("profit", "cash", "OTHER_EXPENSE")}
SheetTable ==
  {Always("sheet", "cash", "ASSET"), Always("sheet", "sales", "EQUITY"),
   Always("sheet", "goods", "ASSET"), Map("sheet", "rent", "LIABILITY", 1, 1)}
Tables == {ProfitTable \cup SheetTable}

(* Interest and rent change their category on the second day or the third, *)
(* interest gets one for the balance sheet, and goods would get two.       *)
NewMappings ==
  {Map("profit", "interest", "OTHER_EXPENSE", 3, None),
   Map("profit", "interest", "OTHER_INCOME", 2, None),
   Map("sheet", "interest", "EQUITY", 1, None),
   Map("sheet", "rent", "EQUITY", 2, None),
   Map("sheet", "goods", "EQUITY", 2, None)}

Creations == {[op |-> "create", row |-> m] : m \in NewMappings}

(* Two periods.                                                            *)
First == [first |-> 1, last |-> 2]
Second == [first |-> 3, last |-> 4]
BothPeriods == {First, Second}

ProfitOf(period, start, end) ==
  [op |-> "profit", period |-> period, start |-> start, end |-> end]
SheetOf(period, end) == [op |-> "sheet", period |-> period, end |-> end]

(* The last two have dates that their period refuses.                      *)
Reports ==
  {ProfitOf(None, 1, 2), ProfitOf(None, 2, 3), ProfitOf(None, 1, 3), ProfitOf(First, 2, 2),
   SheetOf(None, 1), SheetOf(Second, 3), ProfitOf(Second, 2, 3), SheetOf(First, 3)}

(* Windows in the periods and over both.                                   *)
Span(period, start, end) == [period |-> period, start |-> start, end |-> end]
Read(op, scopes) == {[op |-> op, account |-> "cash", scope |-> s] : s \in scopes}
LedgerReads ==
  Read("movements", {Span(None, None, 2), Span(None, 2, None), Span(Second, None, None),
                     Span(First, 2, None), Span(None, 3, 2)})
    \cup Read("balance", {Span(First, None, None)})
    \cup Read("trial", {Span(None, None, 2), Span(First, 2, 2)})

AllCalls == Creations \cup Reports \cup LedgerReads

(* A sale on all accounts, and one that takes its revenue back.            *)
Lines(cash, sales, goods, rent, interest) ==
  [a \in Accounts |-> CASE a = "cash" -> cash [] a = "sales" -> sales [] a = "goods" -> goods
                        [] a = "rent" -> rent [] a = "interest" -> interest]
Sales ==
  {[day |-> 2, lines |-> Lines(5, -7, 2, 1, -1)], [day |-> 3, lines |-> Lines(-7, 7, 0, 1, -1)]}

StatementSymmetry == Permutations(Worker)

=============================================================================
