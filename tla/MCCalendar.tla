----------------------------- MODULE MCCalendar -----------------------------
(* Small instances of FiscalCalendar.                                      *)
EXTENDS FiscalCalendar, TLC

FourDays == 1..4

Open(a, b) == [first |-> a, last |-> b, status |-> "OPEN"]
Spans == {Open(a, b) : a, b \in Day}
Locked == [Open(1, 2) EXCEPT !.status = "LOCKED"]

CreateYears(spans) ==
  {[op |-> "create year", year |-> y, row |-> r] : y \in Year, r \in spans}
CreatePeriods(spans) ==
  {[op |-> "create period", period |-> p,
    row |-> [year |-> y, first |-> r.first, last |-> r.last, status |-> r.status]] :
     p \in Period, y \in Year, r \in spans}
OnPeriods(ops) == {[op |-> o, period |-> p] : o \in ops, p \in Period}
CloseYears == {[op |-> "close year", year |-> y] : y \in Year}

(* Every interval of the days for years and periods, invalid ones too, and *)
(* all that can happen to them; a period may be created LOCKED.            *)
CalendarCalls ==
  CreateYears(Spans) \cup CreatePeriods(Spans \cup {Locked})
    \cup CloseYears \cup OnPeriods({"close period", "reopen period", "draft", "post"})

CalendarSymmetry ==
  Permutations(Worker) \cup Permutations(Year) \cup Permutations(Period)

============================================================================
