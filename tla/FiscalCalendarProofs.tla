------------------------ MODULE FiscalCalendarProofs ------------------------
(***************************************************************************)
(* What holds of FiscalCalendar for every set of workers, years, periods,  *)
(* days and calls.                                                         *)
(*                                                                         *)
(* The argument: a worker that has read the status of a row under its lock *)
(* can rely on it until it commits.  CalendarInv says so for each stage of *)
(* each call; the properties follow from it and from who may write a row.  *)
(***************************************************************************)
EXTENDS FiscalCalendar, TLAPS

----------------------------------------------------------------------------
(* The inductive invariant                                                 *)

(* The statements of each operation.                                       *)
StagesOf(op) ==
  CASE op = "create year"   -> {"list", "insert year", "commit"}
    [] op = "create period" -> {"year", "check period", "insert period", "commit"}
    [] op = "close year"    -> {"year", "periods", "count", "commit"}
    [] op = "close period"  -> {"period", "drafts", "commit"}
    [] op \in {"reopen period", "draft", "post"} -> {"period", "commit"}

Serving(w, op) == stage[w] # "idle" /\ call[w].op = op

NewYear(w) == Serving(w, "create year") /\ stage[w] = "commit"
NewPeriod(w) == Serving(w, "create period") /\ stage[w] = "commit"

(* An identity belongs to one row, or to the one call that inserts it.     *)
IdentityApart(w) ==
  /\ Serving(w, "create year") =>
       /\ year[call[w].year] = None
       /\ \A v \in Worker \ {w} : Serving(v, "create year") => call[v].year # call[w].year
  /\ Serving(w, "create period") =>
       /\ period[call[w].period] = None
       /\ \A v \in Worker \ {w} : Serving(v, "create period") => call[v].period # call[w].period

(* Who works in a year or closes it has it locked, and it is open.         *)
YearHeld(w) ==
  (Serving(w, "create period") \/ Serving(w, "close year")) /\ stage[w] # "year" =>
    /\ YearOf(w) \in Years /\ YearOf(w) \in locks[w]
    /\ year[YearOf(w)].status = "OPEN"

(* Who has read the periods of a year it closes has locked all it has.     *)
PeriodsHeld(w) ==
  Serving(w, "close year") /\ stage[w] \in {"count", "commit"} =>
    /\ PeriodsOf(call[w].year) # {}
    /\ \A p \in PeriodsOf(call[w].year) : p \in locks[w] /\ period[p].status = "CLOSED"

(* Who works on a period has it locked, in the status the operation wants, *)
(* and who is about to close it has seen that it has no drafts.            *)
PeriodHeld(w) ==
  stage[w] \notin {"idle", "period"}
    /\ call[w].op \in {"close period", "reopen period", "draft", "post"} =>
    /\ call[w].period \in Periods /\ call[w].period \in locks[w]
    /\ period[call[w].period].status = Wanted(call[w].op)
    /\ call[w].op = "close period" /\ stage[w] = "commit" => call[w].period \notin drafts

(* The year about to be committed overlaps no other, committed or not.     *)
NewYearApart(w) ==
  NewYear(w) =>
    /\ \A y \in Years : ~Overlap(call[w].row, year[y])
    /\ \A v \in Worker \ {w} : NewYear(v) => ~Overlap(call[w].row, call[v].row)

WorkerInv(w) ==
  /\ stage[w] # "idle" => stage[w] \in StagesOf(call[w].op)
  /\ IdentityApart(w)
  /\ YearHeld(w)
  /\ PeriodsHeld(w)
  /\ PeriodHeld(w)
  /\ NewYearApart(w)
  /\ NewPeriod(w) => Fits(call[w].row)

YearsApart == \A y, z \in Years : y # z => ~Overlap(year[y], year[z])

(* Periods lie in their years and do not overlap the others of the year.   *)
PeriodsFit ==
  \A p \in Periods :
    /\ period[p].year \in Years
    /\ Within(period[p], year[period[p].year])
    /\ \A q \in PeriodsOf(period[p].year) : p # q => ~Overlap(period[p], period[q])

CalendarInv ==
  /\ TypeOK
  /\ \A w \in Worker : WorkerInv(w)
  /\ YearsApart
  /\ PeriodsFit
  /\ DraftsInOpenPeriods

----------------------------------------------------------------------------
(* Calls and dates                                                         *)

(* The arguments of a call, by its operation.                              *)
LEMMA CallType ==
  ASSUME NEW c \in Calls
  PROVE  /\ c.op \in {"create year", "create period", "close year", "close period",
                       "reopen period", "draft", "post"}
         /\ c.op \in {"create year", "close year"} => c.year \in Year
         /\ c.op = "create year" => c.row \in YearRow
         /\ c.op = "create period" => c.period \in Period /\ c.row \in PeriodRow
         /\ c.op \in {"close period", "reopen period", "draft", "post"} => c.period \in Period
BY CalendarAssumption DEF Call

(* A worker that is not idle serves one of the calls.                      *)
LEMMA ServedCall ==
  ASSUME TypeOK, NEW w \in Worker, stage[w] # "idle"
  PROVE  call[w] \in Calls
BY DEF TypeOK

(* The ends of a row are days, and days are numbers.                       *)
LEMMA EndsAreNumbers ==
  ASSUME NEW r \in YearRow \cup PeriodRow
  PROVE  r.first \in Int /\ r.last \in Int
BY CalendarAssumption DEF YearRow, PeriodRow

(* To overlap goes both ways.                                               *)
LEMMA OverlapSymmetric ==
  ASSUME NEW r \in YearRow \cup PeriodRow, NEW s \in YearRow \cup PeriodRow
  PROVE  Overlap(r, s) <=> Overlap(s, r)
BY EndsAreNumbers DEF Overlap

(* Intervals that do not overlap share no day.                             *)
LEMMA ApartShareNoDay ==
  ASSUME NEW r \in YearRow \cup PeriodRow, NEW s \in YearRow \cup PeriodRow, ~Overlap(r, s)
  PROVE  Days(r) \cap Days(s) = {}
<1>1. SUFFICES ASSUME NEW d \in Day, r.first <= d, d <= r.last, s.first <= d, d <= s.last
               PROVE  FALSE
  BY DEF Days
<1>2. /\ d \in Int
      /\ r.first \in Int /\ r.last \in Int
      /\ s.first \in Int /\ s.last \in Int
  BY EndsAreNumbers, CalendarAssumption
<1>3. r.first <= s.last /\ s.first <= r.last
  BY <1>1, <1>2
<1> QED
  BY <1>3 DEF Overlap

(* What lies within an interval has the days of that interval.              *)
LEMMA WithinHasDays ==
  ASSUME NEW r \in PeriodRow, NEW s \in YearRow, Within(r, s)
  PROVE  Days(r) \subseteq Days(s)
<1>1. SUFFICES ASSUME NEW d \in Day, r.first <= d, d <= r.last
               PROVE  s.first <= d /\ d <= s.last
  BY DEF Days
<1>2. /\ d \in Int
      /\ r.first \in Int /\ r.last \in Int
      /\ s.first \in Int /\ s.last \in Int
  BY EndsAreNumbers, CalendarAssumption
<1> QED
  BY <1>1, <1>2 DEF Within

(* Statements that write nothing                                           *)

(* The stages of an operation are names of stages, and none is idle.        *)
LEMMA StagesAreNames ==
  ASSUME CalendarInv, NEW w \in Worker, stage[w] # "idle", NEW s \in StagesOf(call[w].op)
  PROVE  s # "idle" /\
         s \in {"list", "insert year", "year", "check period", "insert period",
                "periods", "count", "period", "drafts", "commit"}
<1>1. call[w] \in Calls
  BY ServedCall DEF CalendarInv
<1> QED
  BY <1>1, CallType DEF StagesOf

(* A statement that goes on to stage s, with the locks it took, keeps the  *)
(* invariant if what the invariant says of its worker at s holds.          *)
LEMMA StatementKeeps ==
  ASSUME CalendarInv, NEW w \in Worker, stage[w] # "idle",
         NEW s \in StagesOf(call[w].op), Go(w, s),
         NEW rows \in SUBSET (Year \cup Period),
         locks' = [locks EXCEPT ![w] = @ \cup rows],
         \A v \in Worker \ {w} : locks[v] \cap rows = {},
         YearHeld(w)', PeriodsHeld(w)', PeriodHeld(w)', NewYearApart(w)',
         NewPeriod(w)' => Fits(call[w].row)'
  PROVE  CalendarInv'
<1> USE DEF Go, tables
<1>0. stage' = [stage EXCEPT ![w] = s] /\ s # "idle" /\ call[w] \in Calls
  BY StagesAreNames, ServedCall DEF CalendarInv
<1>1. TypeOK'
  <2>1. stage' \in [Worker -> {"idle", "list", "insert year", "year", "check period",
                     "insert period", "periods", "count", "period", "drafts", "commit"}]
    BY StagesAreNames DEF CalendarInv, TypeOK
  <2>2. locks' \in [Worker -> SUBSET (Year \cup Period)]
    BY DEF CalendarInv, TypeOK
  <2>3. \A v \in Worker : stage'[v] = "idle" <=> call'[v] = None
    BY <1>0, CalendarAssumption DEF CalendarInv, TypeOK
  <2>4. \A u, v \in Worker : u # v => locks'[u] \cap locks'[v] = {}
    BY DEF CalendarInv, TypeOK
  <2> QED
    BY <2>1, <2>2, <2>3, <2>4 DEF CalendarInv, TypeOK, Periods
<1>2. ASSUME NEW v \in Worker PROVE WorkerInv(v)'
  <2> USE DEF CalendarInv
  <2>1. /\ stage'[v] = IF v = w THEN s ELSE stage[v]
        /\ locks'[v] = IF v = w THEN locks[v] \cup rows ELSE locks[v]
    BY DEF TypeOK
  <2>2. WorkerInv(v)
    OBVIOUS
  <2>3. IdentityApart(v)'
    <3>1. \A u \in Worker : \A op : Serving(u, op)' <=> Serving(u, op)
      BY <1>0 DEF Serving, TypeOK
    <3> QED
      BY <2>2, <3>1 DEF WorkerInv, IdentityApart
  <2>4. CASE v = w
    BY <2>1, <2>3, <2>4, <1>0 DEF WorkerInv
  <2>5. CASE v # w
    <3>1. /\ stage'[v] = stage[v] /\ locks'[v] = locks[v]
          /\ \A op : Serving(v, op)' <=> Serving(v, op)
      BY <2>1, <2>5 DEF Serving
    <3>2. stage'[v] # "idle" => stage'[v] \in StagesOf(call'[v].op)
      BY <2>2, <3>1 DEF WorkerInv
    <3>3. YearHeld(v)'
      BY <2>2, <3>1 DEF WorkerInv, YearHeld, YearOf, Years
    <3>4. PeriodsHeld(v)'
      BY <2>2, <3>1 DEF WorkerInv, PeriodsHeld, PeriodsOf, Periods
    <3>5. PeriodHeld(v)'
      BY <2>2, <3>1 DEF WorkerInv, PeriodHeld, Periods
    <3>6. NewYearApart(v)'
      <4>1. SUFFICES ASSUME NewYear(v)
                     PROVE  /\ \A y \in Years : ~Overlap(call[v].row, year[y])
                            /\ \A u \in Worker \ {v} :
                                 NewYear(u)' => ~Overlap(call[v].row, call[u].row)
        BY <3>1 DEF NewYearApart, NewYear, Years
      <4>2. /\ \A y \in Years : ~Overlap(call[v].row, year[y])
            /\ \A u \in Worker \ {v} : NewYear(u) => ~Overlap(call[v].row, call[u].row)
        BY <2>2, <4>1 DEF WorkerInv, NewYearApart
      <4>3. ASSUME NEW u \in Worker \ {v}, NewYear(u)'
            PROVE  ~Overlap(call[v].row, call[u].row)
        <5>1. CASE u # w
          BY <4>2, <4>3, <5>1 DEF NewYear, Serving, TypeOK
        <5>2. CASE u = w
          <6>1. NewYear(v)'
            BY <4>1, <3>1 DEF NewYear
          <6>2. ~Overlap(call[w].row, call[v].row)
            BY <4>3, <5>2, <6>1, <2>5 DEF NewYearApart
          <6>3. call[v].row \in YearRow /\ call[w].row \in YearRow
            <7>1. call[v] \in Calls
              BY <4>1, ServedCall DEF NewYear, Serving
            <7> QED
              BY <7>1, <1>0, CallType, <4>1, <4>3, <5>2 DEF NewYear, Serving
          <6> QED
            BY <5>2, <6>2, <6>3, OverlapSymmetric
        <5> QED
          BY <5>1, <5>2
      <4> QED
        BY <4>2, <4>3
    <3>7. (NewPeriod(v) => Fits(call[v].row))'
      BY <2>2, <3>1 DEF WorkerInv, NewPeriod, Fits, PeriodsOf, Periods
    <3> QED
      BY <2>3, <3>2, <3>3, <3>4, <3>5, <3>6, <3>7 DEF WorkerInv
  <2> QED
    BY <2>4, <2>5
<1>3. YearsApart' /\ PeriodsFit' /\ DraftsInOpenPeriods'
  BY DEF CalendarInv, YearsApart, PeriodsFit, DraftsInOpenPeriods, Years, Periods, PeriodsOf
<1> QED
  BY <1>1, <1>2, <1>3 DEF CalendarInv

(* A statement that takes no lock.                                         *)
LEMMA ReadKeeps ==
  ASSUME CalendarInv, NEW w \in Worker, stage[w] # "idle",
         NEW s \in StagesOf(call[w].op), Go(w, s), UNCHANGED locks,
         YearHeld(w)', PeriodsHeld(w)', PeriodHeld(w)', NewYearApart(w)',
         NewPeriod(w)' => Fits(call[w].row)'
  PROVE  CalendarInv'
<1>1. locks' = [locks EXCEPT ![w] = @ \cup {}]
  BY DEF CalendarInv, TypeOK
<1>2. {} \in SUBSET (Year \cup Period) /\ \A v \in Worker \ {w} : locks[v] \cap {} = {}
  OBVIOUS
<1> QED
  BY <1>1, <1>2, StatementKeeps

(* What a worker serves while the statement runs.                          *)
LEMMA AtStage ==
  ASSUME CalendarInv, NEW w \in Worker, stage[w] # "idle"
  PROVE  /\ call[w] \in Calls
         /\ stage[w] \in StagesOf(call[w].op)
         /\ stage[w] \in {"list", "insert year"} => call[w].op = "create year"
         /\ stage[w] \in {"check period", "insert period"} => call[w].op = "create period"
         /\ stage[w] \in {"periods", "count"} => call[w].op = "close year"
         /\ stage[w] = "year" => call[w].op \in {"create period", "close year"}
         /\ stage[w] = "drafts" => call[w].op = "close period"
         /\ stage[w] = "period" =>
              call[w].op \in {"close period", "reopen period", "draft", "post"}
<1>1. call[w] \in Calls /\ stage[w] \in StagesOf(call[w].op)
  BY ServedCall DEF CalendarInv, WorkerInv
<1> QED
  BY <1>1, CallType DEF StagesOf

(* What the goto of a statement does to its worker.                        *)
LEMMA Goes ==
  ASSUME CalendarInv, NEW w \in Worker, NEW s, Go(w, s)
  PROVE  /\ stage'[w] = s /\ call' = call
         /\ year' = year /\ period' = period /\ drafts' = drafts
         /\ Years' = Years /\ Periods' = Periods
         /\ \A y : PeriodsOf(y)' = PeriodsOf(y)
         /\ \A v \in Worker \ {w} : stage'[v] = stage[v]
<1>1. year' = year /\ period' = period /\ drafts' = drafts /\ call' = call
  BY DEF Go, tables
<1>2. stage'[w] = s /\ \A v \in Worker \ {w} : stage'[v] = stage[v]
  BY DEF CalendarInv, TypeOK, Go
<1>3. Years' = Years /\ Periods' = Periods /\ \A y : PeriodsOf(y)' = PeriodsOf(y)
  BY <1>1 DEF Years, Periods, PeriodsOf
<1> QED
  BY <1>1, <1>2, <1>3

(* The queries and locks before a commit keep the invariant, one by one.    *)
LEMMA ListYearsKeeps ==
  ASSUME CalendarInv, NEW w \in Worker, ListYears(w)
  PROVE  CalendarInv'
<1>1. stage[w] = "list" /\ Go(w, "insert year") /\ UNCHANGED locks
  BY DEF ListYears
<1>2. call[w].op = "create year" /\ call'[w] = call[w] /\ stage'[w] = "insert year"
  BY <1>1, AtStage, Goes
<1>3. "insert year" \in StagesOf(call[w].op)
  BY <1>2 DEF StagesOf
<1> QED
  BY <1>1, <1>2, <1>3, ReadKeeps
     DEF YearHeld, PeriodsHeld, PeriodHeld, NewYearApart, NewYear, NewPeriod, Serving

LEMMA InsertYearKeeps ==
  ASSUME CalendarInv, NEW w \in Worker, InsertYear(w)
  PROVE  CalendarInv'
<1>1. stage[w] = "insert year" /\ Go(w, "commit") /\ UNCHANGED locks
  BY DEF InsertYear
<1>2. call[w].op = "create year" /\ call' = call /\ stage'[w] = "commit"
  BY <1>1, AtStage, Goes
<1>3. "commit" \in StagesOf(call[w].op)
  BY <1>2 DEF StagesOf
<1>4. NewYearApart(w)'
  <2>1. \A y \in Years : ~Overlap(call[w].row, year[y])
    BY DEF InsertYear, Excluded
  <2>2. \A v \in Worker \ {w} : NewYear(v)' => ~Overlap(call[w].row, call[v].row)
    BY <1>1, <1>2, Goes DEF InsertYear, AwaitsExclusion, NewYear, Serving
  <2> QED
    BY <1>1, <2>1, <2>2, Goes DEF NewYearApart
<1> QED
  BY <1>1, <1>2, <1>3, <1>4, ReadKeeps
     DEF YearHeld, PeriodsHeld, PeriodHeld, NewPeriod, Serving

LEMMA LockYearKeeps ==
  ASSUME CalendarInv, NEW w \in Worker, LockYear(w)
  PROVE  CalendarInv'
<1> DEFINE s == IF call[w].op = "close year" THEN "periods" ELSE "check period"
<1>1. stage[w] = "year" /\ Go(w, s) /\ Lock(w, {YearOf(w)}) /\ YearOf(w) \in Years
  BY DEF LockYear
<1>2. call[w].op \in {"create period", "close year"} /\ call' = call /\ stage'[w] = s
  BY <1>1, AtStage, Goes
<1>3. s \in StagesOf(call[w].op)
  BY <1>2 DEF StagesOf
<1>4. YearHeld(w)'
  <2>1. YearOf(w)' = YearOf(w) /\ YearOf(w)' \in Years'
    BY <1>1, <1>2, Goes DEF YearOf
  <2>2. YearOf(w) \in locks'[w]
    BY <1>1 DEF Lock, CalendarInv, TypeOK
  <2>3. year'[YearOf(w)].status = "OPEN"
    BY <1>1, Goes DEF LockYear
  <2> QED
    BY <2>1, <2>2, <2>3 DEF YearHeld
<1>5. {YearOf(w)} \in SUBSET (Year \cup Period)
  BY <1>1 DEF Years
<1>6. PeriodsHeld(w)' /\ PeriodHeld(w)' /\ NewYearApart(w)'
        /\ (NewPeriod(w)' => Fits(call[w].row)')
  BY <1>2 DEF PeriodsHeld, PeriodHeld, NewYearApart, NewYear, NewPeriod, Serving
<1> QED
  BY <1>1, <1>3, <1>4, <1>5, <1>6, StatementKeeps DEF Lock

LEMMA CheckPeriodKeeps ==
  ASSUME CalendarInv, NEW w \in Worker, CheckPeriod(w)
  PROVE  CalendarInv'
<1>1. stage[w] = "check period" /\ Go(w, "insert period") /\ UNCHANGED locks
  BY DEF CheckPeriod
<1>2. call[w].op = "create period" /\ call' = call /\ stage'[w] = "insert period"
  BY <1>1, AtStage, Goes
<1>3. "insert period" \in StagesOf(call[w].op)
  BY <1>2 DEF StagesOf
<1>4. YearHeld(w)'
  BY <1>1, <1>2, Goes DEF YearHeld, YearOf, CalendarInv, WorkerInv, Serving
<1> QED
  BY <1>1, <1>2, <1>3, <1>4, ReadKeeps
     DEF PeriodsHeld, PeriodHeld, NewYearApart, NewYear, NewPeriod, Serving

LEMMA InsertPeriodKeeps ==
  ASSUME CalendarInv, NEW w \in Worker, InsertPeriod(w)
  PROVE  CalendarInv'
<1>1. stage[w] = "insert period" /\ Go(w, "commit") /\ Lock(w, {call[w].row.year})
        /\ Fits(call[w].row)
  BY DEF InsertPeriod
<1>2. call[w].op = "create period" /\ call' = call /\ stage'[w] = "commit"
  BY <1>1, AtStage, Goes
<1>3. "commit" \in StagesOf(call[w].op)
  BY <1>2 DEF StagesOf
<1>4. YearHeld(w) /\ YearOf(w) = call[w].row.year /\ YearOf(w) \in Years
  BY <1>1, <1>2 DEF YearHeld, YearOf, CalendarInv, WorkerInv, Serving
<1>5. YearHeld(w)'
  BY <1>1, <1>2, <1>4, Goes DEF YearHeld, YearOf, CalendarInv, TypeOK, Serving, Lock
<1>6. {call[w].row.year} \in SUBSET (Year \cup Period)
  BY <1>4 DEF Years
<1>7. Fits(call[w].row)'
  BY <1>1, <1>2, Goes DEF Fits
<1>8. PeriodsHeld(w)' /\ PeriodHeld(w)' /\ NewYearApart(w)'
  BY <1>2 DEF PeriodsHeld, PeriodHeld, NewYearApart, NewYear, Serving
<1> QED
  BY <1>1, <1>3, <1>5, <1>6, <1>7, <1>8, StatementKeeps DEF Lock

LEMMA LockPeriodsKeeps ==
  ASSUME CalendarInv, NEW w \in Worker, LockPeriods(w)
  PROVE  CalendarInv'
<1> DEFINE ps == PeriodsOf(call[w].year)
<1>1. stage[w] = "periods" /\ Go(w, "count") /\ Lock(w, ps)
  BY DEF LockPeriods
<1>2. call[w].op = "close year" /\ call' = call /\ stage'[w] = "count"
  BY <1>1, AtStage, Goes
<1>3. "count" \in StagesOf(call[w].op)
  BY <1>2 DEF StagesOf
<1>4. ps \in SUBSET (Year \cup Period)
  BY DEF PeriodsOf, Periods
<1>5. locks'[w] = locks[w] \cup ps
  BY <1>1 DEF Lock, CalendarInv, TypeOK
<1>6. YearHeld(w)'
  BY <1>1, <1>2, <1>5, Goes DEF YearHeld, YearOf, CalendarInv, WorkerInv, Serving
<1>7. PeriodsHeld(w)'
  BY <1>2, <1>5, Goes, <1>1 DEF LockPeriods, PeriodsHeld
<1>8. PeriodHeld(w)' /\ NewYearApart(w)' /\ (NewPeriod(w)' => Fits(call[w].row)')
  BY <1>2 DEF PeriodHeld, NewYearApart, NewYear, NewPeriod, Serving
<1> QED
  BY <1>1, <1>3, <1>4, <1>6, <1>7, <1>8, StatementKeeps DEF Lock

LEMMA CountDraftsKeeps ==
  ASSUME CalendarInv, NEW w \in Worker, CountDrafts(w)
  PROVE  CalendarInv'
<1>1. stage[w] = "count" /\ Go(w, "commit") /\ UNCHANGED locks
  BY DEF CountDrafts
<1>2. call[w].op = "close year" /\ call' = call /\ stage'[w] = "commit"
  BY <1>1, AtStage, Goes
<1>3. "commit" \in StagesOf(call[w].op)
  BY <1>2 DEF StagesOf
<1>4. YearHeld(w)'
  BY <1>1, <1>2, Goes DEF YearHeld, YearOf, CalendarInv, WorkerInv, Serving
<1>5. PeriodsHeld(w)'
  BY <1>1, <1>2, Goes DEF PeriodsHeld, CalendarInv, WorkerInv, Serving
<1>6. PeriodHeld(w)' /\ NewYearApart(w)' /\ (NewPeriod(w)' => Fits(call[w].row)')
  BY <1>2 DEF PeriodHeld, NewYearApart, NewYear, NewPeriod, Serving
<1> QED
  BY <1>1, <1>3, <1>4, <1>5, <1>6, ReadKeeps

LEMMA LockPeriodKeeps ==
  ASSUME CalendarInv, NEW w \in Worker, LockPeriod(w)
  PROVE  CalendarInv'
<1> DEFINE p == call[w].period
           s == IF call[w].op = "close period" THEN "drafts" ELSE "commit"
<1>1. stage[w] = "period" /\ Go(w, s) /\ Lock(w, {p}) /\ p \in Periods
  BY DEF LockPeriod
<1>2. /\ call[w].op \in {"close period", "reopen period", "draft", "post"}
      /\ call' = call /\ stage'[w] = s
  BY <1>1, AtStage, Goes
<1>3. s \in StagesOf(call[w].op)
  BY <1>2 DEF StagesOf
<1>4. {p} \in SUBSET (Year \cup Period)
  BY <1>1 DEF Periods
<1>5. PeriodHeld(w)'
  <2>1. locks'[w] = locks[w] \cup {p}
    BY <1>1 DEF Lock, CalendarInv, TypeOK
  <2>2. period[p].status = Wanted(call[w].op)
    BY DEF LockPeriod
  <2> QED
    BY <1>1, <1>2, <2>1, <2>2, Goes DEF PeriodHeld, Wanted
<1>6. YearHeld(w)' /\ PeriodsHeld(w)' /\ NewYearApart(w)'
        /\ (NewPeriod(w)' => Fits(call[w].row)')
  BY <1>2 DEF YearHeld, PeriodsHeld, NewYearApart, NewYear, NewPeriod, Serving
<1> QED
  BY <1>1, <1>3, <1>4, <1>5, <1>6, StatementKeeps DEF Lock

LEMMA CountPeriodDraftsKeeps ==
  ASSUME CalendarInv, NEW w \in Worker, CountPeriodDrafts(w)
  PROVE  CalendarInv'
<1>1. stage[w] = "drafts" /\ Go(w, "commit") /\ UNCHANGED locks /\ call[w].period \notin drafts
  BY DEF CountPeriodDrafts
<1>2. call[w].op = "close period" /\ call' = call /\ stage'[w] = "commit"
  BY <1>1, AtStage, Goes
<1>3. "commit" \in StagesOf(call[w].op)
  BY <1>2 DEF StagesOf
<1>4. PeriodHeld(w)'
  BY <1>1, <1>2, Goes DEF PeriodHeld, Wanted, CalendarInv, WorkerInv
<1> QED
  BY <1>1, <1>2, <1>3, <1>4, ReadKeeps
     DEF YearHeld, PeriodsHeld, NewYearApart, NewYear, NewPeriod, Serving

----------------------------------------------------------------------------
(* The begin and the end of a call                                         *)

(* A call that inserts has an identity no row has.                          *)
LEMMA IdentityIsNew ==
  ASSUME NEW c, NewIdentity(c)
  PROVE  /\ c.op = "create year" =>
              /\ year[c.year] = None
              /\ \A v \in Worker : Serving(v, "create year") => call[v].year # c.year
         /\ c.op = "create period" =>
              /\ period[c.period] = None
              /\ \A v \in Worker : Serving(v, "create period") => call[v].period # c.period
<1> DEFINE creating(op) == {v \in Worker : stage[v] # "idle" /\ call[v].op = op}
<1>1. /\ c.op = "create year" =>
           year[c.year] = None /\ \A v \in creating(c.op) : call[v].year # c.year
      /\ c.op = "create period" =>
           period[c.period] = None /\ \A v \in creating(c.op) : call[v].period # c.period
  BY Zenon DEF NewIdentity
<1>2. \A v \in Worker : \A op : v \in creating(op) <=> Serving(v, op)
  BY DEF Serving
<1> HIDE DEF creating
<1> QED
  BY <1>1, <1>2

(* The begin of a call keeps it.                                            *)
LEMMA BeginKeeps ==
  ASSUME CalendarInv, NEW w \in Worker, Begin(w)
  PROVE  CalendarInv'
<1>1. PICK c \in Calls :
        /\ NewIdentity(c)
        /\ call' = [call EXCEPT ![w] = c]
        /\ stage' = [stage EXCEPT ![w] = First(c.op)]
  BY DEF Begin
<1>2. stage[w] = "idle" /\ locks' = locks /\ year' = year /\ period' = period /\ drafts' = drafts
  BY DEF Begin, tables
<1>3. /\ Years' = Years /\ Periods' = Periods
      /\ \A y : PeriodsOf(y)' = PeriodsOf(y)
  BY <1>2 DEF Years, Periods, PeriodsOf
<1>4. /\ First(c.op) \in {"list", "year", "period"}
      /\ First(c.op) \in StagesOf(c.op)
      /\ c.op \in {"create period", "close year"} => First(c.op) = "year"
      /\ c.op \in {"close period", "reopen period", "draft", "post"} => First(c.op) = "period"
  BY CallType DEF First, StagesOf
<1>5. /\ stage'[w] = First(c.op) /\ call'[w] = c
      /\ \A v \in Worker \ {w} : stage'[v] = stage[v] /\ call'[v] = call[v]
  BY <1>1 DEF CalendarInv, TypeOK
<1>9. /\ c.op = "create year" =>
           /\ year[c.year] = None
           /\ \A v \in Worker : Serving(v, "create year") => call[v].year # c.year
      /\ c.op = "create period" =>
           /\ period[c.period] = None
           /\ \A v \in Worker : Serving(v, "create period") => call[v].period # c.period
  BY <1>1, IdentityIsNew
<1>6. TypeOK'
  <2>1. call' \in [Worker -> Calls \cup {None}]
    BY <1>1 DEF CalendarInv, TypeOK
  <2>2. stage' \in [Worker -> {"idle", "list", "insert year", "year", "check period",
                     "insert period", "periods", "count", "period", "drafts", "commit"}]
    BY <1>1, <1>4 DEF CalendarInv, TypeOK
  <2>3. \A v \in Worker : stage'[v] = "idle" <=> call'[v] = None
    BY <1>4, <1>5, CalendarAssumption DEF CalendarInv, TypeOK
  <2> QED
    BY <1>2, <1>3, <2>1, <2>2, <2>3 DEF CalendarInv, TypeOK
<1>7. ASSUME NEW v \in Worker PROVE WorkerInv(v)'
  <2>1. CASE v = w
    <3>1. IdentityApart(w)'
      <4>1. \A u \in Worker \ {w} : stage'[u] = stage[u] /\ call'[u] = call[u]
        BY <1>5
      <4>2. c.op = "create year" =>
              /\ year'[c.year] = None
              /\ \A u \in Worker \ {w} : Serving(u, "create year")' => call'[u].year # c.year
        BY <1>2, <1>9, <4>1 DEF Serving
      <4>3. c.op = "create period" =>
              /\ period'[c.period] = None
              /\ \A u \in Worker \ {w} : Serving(u, "create period")' => call'[u].period # c.period
        BY <1>2, <1>9, <4>1 DEF Serving
      <4> QED
        BY <1>5, <4>2, <4>3 DEF IdentityApart, Serving
    <3>2. YearHeld(w)' /\ PeriodsHeld(w)' /\ PeriodHeld(w)' /\ NewYearApart(w)'
            /\ (NewPeriod(w) => Fits(call[w].row))'
      BY <1>4, <1>5
         DEF YearHeld, PeriodsHeld, PeriodHeld, NewYearApart, NewYear, NewPeriod, Serving
    <3> QED
      BY <2>1, <3>1, <3>2, <1>4, <1>5 DEF WorkerInv
  <2>2. CASE v # w
    <3>1. WorkerInv(v) /\ stage'[v] = stage[v] /\ call'[v] = call[v]
      BY <1>5, <2>2 DEF CalendarInv
    <3>2. \A op : Serving(v, op)' <=> Serving(v, op)
      BY <3>1 DEF Serving
    <3>3. IdentityApart(v)'
      <4>1. Serving(v, "create year") =>
              \A u \in Worker \ {v} : Serving(u, "create year")' => call'[u].year # call[v].year
        <5>1. SUFFICES ASSUME Serving(v, "create year"),
                              NEW u \in Worker \ {v}, Serving(u, "create year")'
                       PROVE  call'[u].year # call[v].year
          OBVIOUS
        <5>2. CASE u = w
          BY <1>5, <1>9, <5>1, <5>2 DEF Serving
        <5>3. CASE u # w
          BY <1>5, <3>1, <5>1, <5>3 DEF Serving, WorkerInv, IdentityApart
        <5> QED
          BY <5>2, <5>3
      <4>2. Serving(v, "create period") =>
              \A u \in Worker \ {v} : Serving(u, "create period")' => call'[u].period # call[v].period
        <5>1. SUFFICES ASSUME Serving(v, "create period"),
                              NEW u \in Worker \ {v}, Serving(u, "create period")'
                       PROVE  call'[u].period # call[v].period
          OBVIOUS
        <5>2. CASE u = w
          BY <1>5, <1>9, <5>1, <5>2 DEF Serving
        <5>3. CASE u # w
          BY <1>5, <3>1, <5>1, <5>3 DEF Serving, WorkerInv, IdentityApart
        <5> QED
          BY <5>2, <5>3
      <4> QED
        BY <1>2, <3>1, <3>2, <4>1, <4>2 DEF IdentityApart, WorkerInv
    <3>4. NewYearApart(v)'
      <4>1. \A u \in Worker : NewYear(u)' => NewYear(u) /\ call'[u] = call[u]
        BY <1>4, <1>5 DEF NewYear, Serving
      <4> QED
        BY <1>2, <1>3, <3>1, <4>1 DEF NewYearApart, WorkerInv
    <3>5. YearHeld(v)' /\ PeriodsHeld(v)' /\ PeriodHeld(v)'
      BY <1>2, <1>3, <3>1, <3>2 DEF YearHeld, PeriodsHeld, PeriodHeld, WorkerInv, YearOf
    <3>6. (NewPeriod(v) => Fits(call[v].row))'
      BY <1>2, <1>3, <3>1, <3>2 DEF NewPeriod, Fits, WorkerInv
    <3> QED
      BY <3>1, <3>3, <3>4, <3>5, <3>6 DEF WorkerInv
  <2> QED
    BY <2>1, <2>2
<1>8. YearsApart' /\ PeriodsFit' /\ DraftsInOpenPeriods'
  BY <1>2, <1>3 DEF CalendarInv, YearsApart, PeriodsFit, DraftsInOpenPeriods
<1> QED
  BY <1>6, <1>7, <1>8 DEF CalendarInv

(* The worker whose call ends has no more to do with any row.              *)
LEMMA Ends ==
  ASSUME CalendarInv, NEW w \in Worker, End(w)
  PROVE  /\ stage'[w] = "idle" /\ call'[w] = None /\ locks'[w] = {}
         /\ \A v \in Worker \ {w} :
              stage'[v] = stage[v] /\ call'[v] = call[v] /\ locks'[v] = locks[v]
         /\ \A op : ~Serving(w, op)'
         /\ \A v \in Worker \ {w} : \A op : Serving(v, op)' <=> Serving(v, op)
<1>1. /\ stage'[w] = "idle" /\ call'[w] = None /\ locks'[w] = {}
      /\ \A v \in Worker \ {w} :
           stage'[v] = stage[v] /\ call'[v] = call[v] /\ locks'[v] = locks[v]
  BY DEF End, CalendarInv, TypeOK
<1> QED
  BY <1>1 DEF Serving

(* So far as types go, so does its end.                                     *)
LEMMA EndKeepsTypes ==
  ASSUME CalendarInv, NEW w \in Worker, End(w),
         year' \in [Year -> YearRow \cup {None}],
         period' \in [Period -> PeriodRow \cup {None}],
         drafts' \subseteq Periods'
  PROVE  TypeOK'
<1>1. /\ stage' \in [Worker -> {"idle", "list", "insert year", "year", "check period",
                     "insert period", "periods", "count", "period", "drafts", "commit"}]
      /\ call' \in [Worker -> Calls \cup {None}]
      /\ locks' \in [Worker -> SUBSET (Year \cup Period)]
  BY DEF End, CalendarInv, TypeOK
<1>2. \A v \in Worker : stage'[v] = "idle" <=> call'[v] = None
  BY Ends DEF CalendarInv, TypeOK
<1>3. \A u, v \in Worker : u # v => locks'[u] \cap locks'[v] = {}
  BY Ends DEF CalendarInv, TypeOK
<1> QED
  BY <1>1, <1>2, <1>3 DEF TypeOK

(* What the others know stays true when a call ends, if no row was taken   *)
(* that they insert, no row changed that they have locked, and no year was *)
(* added that overlaps one they are about to commit.                       *)
LEMMA EndKeepsOthers ==
  ASSUME CalendarInv, NEW w \in Worker, End(w),
         NEW v \in Worker, v # w,
         Serving(v, "create year") => year'[call[v].year] = None,
         Serving(v, "create period") => period'[call[v].period] = None,
         NewYear(v) => \A y \in Years' : ~Overlap(call[v].row, year'[y]),
         \A y \in Years : y \in locks[v] =>
           y \in Years' /\ year'[y] = year[y] /\ PeriodsOf(y)' = PeriodsOf(y),
         \A p \in Periods : p \in locks[v] =>
           p \in Periods' /\ period'[p] = period[p] /\ (p \in drafts' => p \in drafts),
         \A p \in Periods : period'[p].first = period[p].first /\ period'[p].last = period[p].last
  PROVE  WorkerInv(v)'
<1>1. /\ WorkerInv(v)
      /\ stage'[v] = stage[v] /\ call'[v] = call[v] /\ locks'[v] = locks[v]
      /\ \A op : Serving(v, op)' <=> Serving(v, op)
  <2>1. stage'[v] = stage[v] /\ call'[v] = call[v] /\ locks'[v] = locks[v]
    BY Ends
  <2> QED
    BY <2>1 DEF CalendarInv, Serving
<1>2. \A u \in Worker : /\ \A op : Serving(u, op)' => Serving(u, op) /\ call'[u] = call[u]
                        /\ NewYear(u)' => NewYear(u) /\ call'[u] = call[u]
  BY Ends DEF NewYear, Serving
<1>3. IdentityApart(v)'
  BY <1>1, <1>2 DEF WorkerInv, IdentityApart
<1>4. NewYearApart(v)'
  BY <1>1, <1>2 DEF WorkerInv, NewYearApart
<1>5. YearHeld(v)'
  <2>1. YearOf(v)' = YearOf(v)
    BY <1>1 DEF YearOf
  <2> QED
    BY <1>1, <2>1 DEF WorkerInv, YearHeld
<1>6. PeriodHeld(v)'
  BY <1>1 DEF WorkerInv, PeriodHeld
<1>7. PeriodsHeld(v)'
  <2>1. SUFFICES ASSUME Serving(v, "close year"), stage[v] \in {"count", "commit"}
                 PROVE  /\ PeriodsOf(call[v].year)' # {}
                        /\ \A p \in PeriodsOf(call[v].year)' :
                             p \in locks'[v] /\ period'[p].status = "CLOSED"
    BY <1>1 DEF PeriodsHeld
  <2>2. PeriodsHeld(v) /\ YearHeld(v) /\ YearOf(v) = call[v].year
    BY <1>1, <2>1 DEF WorkerInv, YearOf, Serving
  <2>3. PeriodsOf(call[v].year)' = PeriodsOf(call[v].year)
    BY <1>1, <2>1, <2>2, <1>1 DEF YearHeld, Serving
  <2>4. PeriodsOf(call[v].year) \subseteq Periods
    BY DEF PeriodsOf
  <2> QED
    BY <1>1, <2>1, <2>2, <2>3, <2>4 DEF PeriodsHeld, Serving
<1>8. (NewPeriod(v) => Fits(call[v].row))'
  <2>1. SUFFICES ASSUME NewPeriod(v) PROVE Fits(call[v].row)'
    BY <1>1 DEF NewPeriod
  <2>2. Fits(call[v].row) /\ YearHeld(v) /\ YearOf(v) = call[v].row.year
    BY <1>1, <2>1 DEF WorkerInv, NewPeriod, YearOf, Serving
  <2>3. /\ year'[call[v].row.year] = year[call[v].row.year]
        /\ PeriodsOf(call[v].row.year)' = PeriodsOf(call[v].row.year)
    BY <1>1, <2>1, <2>2 DEF YearHeld, NewPeriod
  <2>4. \A p \in PeriodsOf(call[v].row.year) :
          Overlap(call[v].row, period'[p]) <=> Overlap(call[v].row, period[p])
    BY DEF Overlap, PeriodsOf
  <2> QED
    BY <1>1, <2>2, <2>3, <2>4 DEF Fits
<1> QED
  BY <1>1, <1>3, <1>4, <1>5, <1>6, <1>7, <1>8 DEF WorkerInv

(* An idle worker claims nothing.                                           *)
LEMMA IdleKnowsNothing ==
  ASSUME CalendarInv, NEW w \in Worker, End(w)
  PROVE  WorkerInv(w)'
BY Ends DEF WorkerInv, IdentityApart, YearHeld, PeriodsHeld, PeriodHeld, NewYearApart,
            NewYear, NewPeriod

(* A call that ends without a commit keeps the invariant.                   *)
LEMMA AbortKeeps ==
  ASSUME CalendarInv, NEW w \in Worker, Abort(w)
  PROVE  CalendarInv'
<1>1. End(w) /\ year' = year /\ period' = period /\ drafts' = drafts
  BY DEF Abort, tables
<1>2. Years' = Years /\ Periods' = Periods /\ \A y : PeriodsOf(y)' = PeriodsOf(y)
  BY <1>1 DEF Years, Periods, PeriodsOf
<1>3. TypeOK'
  BY <1>1, <1>2, EndKeepsTypes DEF CalendarInv, TypeOK
<1>4. ASSUME NEW v \in Worker, v # w PROVE WorkerInv(v)'
  <2>1. /\ Serving(v, "create year") => year[call[v].year] = None
        /\ Serving(v, "create period") => period[call[v].period] = None
        /\ NewYear(v) => \A y \in Years : ~Overlap(call[v].row, year[y])
    BY DEF CalendarInv, WorkerInv, IdentityApart, NewYearApart
  <2> QED
    BY <1>1, <1>2, <1>4, <2>1, EndKeepsOthers
<1>5. WorkerInv(w)'
  BY <1>1, IdleKnowsNothing
<1>6. YearsApart' /\ PeriodsFit' /\ DraftsInOpenPeriods'
  BY <1>1, <1>2 DEF CalendarInv, YearsApart, PeriodsFit, DraftsInOpenPeriods
<1> QED
  BY <1>3, <1>4, <1>5, <1>6 DEF CalendarInv

----------------------------------------------------------------------------
(* The commits                                                             *)

(* A row under the identity of a new one: nothing else about the rows      *)
(* changes.                                                                *)
LEMMA CommitYearKeeps ==
  ASSUME CalendarInv, NEW w \in Worker, stage[w] = "commit", call[w].op = "create year",
         year' = [year EXCEPT ![call[w].year] = call[w].row],
         UNCHANGED <<period, drafts>>, End(w)
  PROVE  CalendarInv'
<1> DEFINE c == call[w]
<1>1. /\ c.year \in Year /\ c.row \in YearRow /\ c.row # None
      /\ Serving(w, "create year") /\ NewYear(w)
  BY AtStage, CallType, CalendarAssumption DEF Serving, NewYear
<1>2. year[c.year] = None /\ NewYearApart(w)
  BY <1>1 DEF CalendarInv, WorkerInv, IdentityApart
<1>3. /\ year'[c.year] = c.row /\ c.year \notin Years
      /\ \A y \in Year \ {c.year} : year'[y] = year[y]
      /\ year' \in [Year -> YearRow \cup {None}]
  BY <1>1, <1>2 DEF CalendarInv, TypeOK, Years
<1>4. Years' = Years \cup {c.year} /\ \A y \in Years : year'[y] = year[y]
  BY <1>1, <1>3 DEF Years
<1>5. Periods' = Periods /\ \A y : PeriodsOf(y)' = PeriodsOf(y)
  BY DEF Periods, PeriodsOf
<1>6. TypeOK'
  BY <1>3, <1>5, EndKeepsTypes DEF CalendarInv, TypeOK
<1>7. \A y \in Years : year[y] \in YearRow
  BY DEF CalendarInv, TypeOK, Years
<1>8. \A y \in Years : ~Overlap(c.row, year[y]) /\ ~Overlap(year[y], c.row)
  BY <1>1, <1>2, <1>7, OverlapSymmetric DEF NewYearApart
<1>9. ASSUME NEW v \in Worker, v # w PROVE WorkerInv(v)'
  <2>1. WorkerInv(v)
    BY DEF CalendarInv
  <2>2. Serving(v, "create year") => year'[call[v].year] = None
    <3>1. SUFFICES ASSUME Serving(v, "create year") PROVE year'[call[v].year] = None
      OBVIOUS
    <3>2. call[v].year \in Year
      BY <3>1, AtStage, CallType DEF Serving
    <3> QED
      BY <1>1, <1>3, <1>9, <2>1, <3>1, <3>2 DEF WorkerInv, IdentityApart
  <2>3. NewYear(v) => \A y \in Years' : ~Overlap(call[v].row, year'[y])
    BY <1>1, <1>3, <1>4, <1>9, <2>1 DEF WorkerInv, NewYearApart
  <2>4. Serving(v, "create period") => period'[call[v].period] = None
    BY <2>1 DEF WorkerInv, IdentityApart
  <2> QED
    BY <1>4, <1>5, <1>9, <2>2, <2>3, <2>4, EndKeepsOthers
<1>10. WorkerInv(w)'
  BY IdleKnowsNothing
<1>11. YearsApart'
  BY <1>3, <1>4, <1>8 DEF CalendarInv, YearsApart
<1>12. PeriodsFit' /\ DraftsInOpenPeriods'
  BY <1>4, <1>5 DEF CalendarInv, PeriodsFit, DraftsInOpenPeriods
<1> QED
  BY <1>6, <1>9, <1>10, <1>11, <1>12 DEF CalendarInv

(* So does the commit of a new period.                                      *)
LEMMA CommitPeriodKeeps ==
  ASSUME CalendarInv, NEW w \in Worker, stage[w] = "commit", call[w].op = "create period",
         period' = [period EXCEPT ![call[w].period] = call[w].row],
         UNCHANGED <<year, drafts>>, End(w)
  PROVE  CalendarInv'
<1> DEFINE c == call[w]
<1>1. /\ c.period \in Period /\ c.row \in PeriodRow /\ c.row # None
      /\ Serving(w, "create period") /\ NewPeriod(w)
  BY AtStage, CallType, CalendarAssumption DEF Serving, NewPeriod
<1>2. /\ period[c.period] = None /\ Fits(c.row)
      /\ c.row.year \in Years /\ c.row.year \in locks[w]
  BY <1>1 DEF CalendarInv, WorkerInv, IdentityApart, YearHeld, YearOf
<1>3. /\ period'[c.period] = c.row /\ c.period \notin Periods
      /\ \A p \in Period \ {c.period} : period'[p] = period[p]
      /\ period' \in [Period -> PeriodRow \cup {None}]
  BY <1>1, <1>2 DEF CalendarInv, TypeOK, Periods
<1>4. Periods' = Periods \cup {c.period} /\ \A p \in Periods : period'[p] = period[p]
  BY <1>1, <1>3 DEF Periods
<1>5. /\ Years' = Years
      /\ \A y : PeriodsOf(y)' = PeriodsOf(y) \cup (IF y = c.row.year THEN {c.period} ELSE {})
  BY <1>3, <1>4 DEF Years, PeriodsOf
<1>6. TypeOK'
  BY <1>3, <1>4, EndKeepsTypes DEF CalendarInv, TypeOK
<1>7. ASSUME NEW v \in Worker, v # w PROVE WorkerInv(v)'
  <2>1. WorkerInv(v) /\ locks[v] \cap locks[w] = {}
    BY <1>7 DEF CalendarInv, TypeOK
  <2>2. Serving(v, "create period") => period'[call[v].period] = None
    <3>1. SUFFICES ASSUME Serving(v, "create period") PROVE period'[call[v].period] = None
      OBVIOUS
    <3>2. call[v].period \in Period
      BY <3>1, AtStage, CallType DEF Serving
    <3> QED
      BY <1>1, <1>3, <1>7, <2>1, <3>1, <3>2 DEF WorkerInv, IdentityApart
  <2>3. /\ NewYear(v) => \A y \in Years' : ~Overlap(call[v].row, year'[y])
        /\ Serving(v, "create year") => year'[call[v].year] = None
    BY <1>5, <2>1 DEF WorkerInv, NewYearApart, IdentityApart
  <2>4. \A y \in Years : y \in locks[v] =>
          y \in Years' /\ year'[y] = year[y] /\ PeriodsOf(y)' = PeriodsOf(y)
    BY <1>2, <1>5, <2>1
  <2> QED
    BY <1>4, <1>7, <2>2, <2>3, <2>4, EndKeepsOthers
<1>8. WorkerInv(w)'
  BY IdleKnowsNothing
<1>9. PeriodsFit'
  <2>1. \A p \in Periods : period[p] \in PeriodRow
    BY DEF CalendarInv, TypeOK, Periods
  <2>2. ASSUME NEW p \in Periods'
        PROVE  period'[p].year \in Years /\ Within(period'[p], year[period'[p].year])
    <3>1. Within(c.row, year[c.row.year])
      BY <1>2 DEF Fits
    <3>2. \A q \in Periods :
            period[q].year \in Years /\ Within(period[q], year[period[q].year])
      BY DEF CalendarInv, PeriodsFit
    <3>4. CASE p = c.period
      <4>1. period'[p] = c.row
        BY <1>3, <3>4
      <4> QED
        BY <1>2, <3>1, <4>1
    <3>5. CASE p # c.period
      <4>1. p \in Periods /\ period'[p] = period[p]
        BY <1>4, <3>5
      <4> QED
        BY <3>2, <4>1
    <3> QED
      BY <3>4, <3>5
  <2>3. ASSUME NEW p \in Periods', NEW q \in Periods', p # q,
               period'[q].year = period'[p].year
        PROVE  ~Overlap(period'[p], period'[q])
    <3>1. \A r \in Periods : period[r].year = c.row.year =>
            ~Overlap(c.row, period[r]) /\ ~Overlap(period[r], c.row)
      BY <1>1, <1>2, <2>1, OverlapSymmetric DEF Fits, PeriodsOf
    <3>2. CASE p # c.period /\ q # c.period
      BY <1>4, <2>3, <3>2 DEF CalendarInv, PeriodsFit, PeriodsOf
    <3> QED
      BY <1>3, <1>4, <2>3, <3>1, <3>2
  <2> QED
    BY <1>5, <2>2, <2>3 DEF PeriodsFit, PeriodsOf, Within
<1>10. YearsApart' /\ DraftsInOpenPeriods'
  BY <1>4, <1>5 DEF CalendarInv, TypeOK, YearsApart, DraftsInOpenPeriods
<1> QED
  BY <1>6, <1>7, <1>8, <1>9, <1>10 DEF CalendarInv

(* The status of a year changes and its dates do not.                      *)
LEMMA CloseYearKeeps ==
  ASSUME CalendarInv, NEW w \in Worker, stage[w] = "commit", call[w].op = "close year",
         year' = [year EXCEPT ![call[w].year].status = "CLOSED"],
         UNCHANGED <<period, drafts>>, End(w)
  PROVE  CalendarInv'
<1> DEFINE z == call[w].year
<1>1. z \in Years /\ z \in Year /\ z \in locks[w] /\ year[z] \in YearRow
  <2>1. WorkerInv(w) /\ Serving(w, "close year") /\ YearOf(w) = z
    BY DEF CalendarInv, Serving, YearOf
  <2>2. z \in Years /\ z \in locks[w]
    BY <2>1 DEF WorkerInv, YearHeld
  <2> QED
    BY <2>2 DEF CalendarInv, TypeOK, Years
<1>2. /\ year'[z] \in YearRow
      /\ year'[z].first = year[z].first /\ year'[z].last = year[z].last
      /\ \A y \in Year \ {z} : year'[y] = year[y]
      /\ year' \in [Year -> YearRow \cup {None}]
  <2>1. year' = [year EXCEPT ![z] = [year[z] EXCEPT !.status = "CLOSED"]]
    OBVIOUS
  <2>2. /\ [year[z] EXCEPT !.status = "CLOSED"] \in YearRow
        /\ [year[z] EXCEPT !.status = "CLOSED"].first = year[z].first
        /\ [year[z] EXCEPT !.status = "CLOSED"].last = year[z].last
    BY <1>1 DEF YearRow, YearStatus
  <2> QED
    BY <1>1, <2>1, <2>2 DEF CalendarInv, TypeOK
<1>3. Years' = Years
  BY <1>1, <1>2, CalendarAssumption DEF Years
<1>4. \A y \in Years : year'[y].first = year[y].first /\ year'[y].last = year[y].last
  BY <1>2 DEF Years
<1>5. Periods' = Periods /\ \A y : PeriodsOf(y)' = PeriodsOf(y)
  BY DEF Periods, PeriodsOf
<1>6. TypeOK'
  BY <1>2, <1>5, EndKeepsTypes DEF CalendarInv, TypeOK
<1>7. ASSUME NEW v \in Worker, v # w PROVE WorkerInv(v)'
  <2>1. WorkerInv(v) /\ locks[v] \cap locks[w] = {}
    BY <1>7 DEF CalendarInv, TypeOK
  <2>2. Serving(v, "create year") => year'[call[v].year] = None
    <3>1. SUFFICES ASSUME Serving(v, "create year") PROVE year'[call[v].year] = None
      OBVIOUS
    <3>2. call[v].year \in Year /\ year[call[v].year] = None
      BY <2>1, <3>1, AtStage, CallType DEF Serving, WorkerInv, IdentityApart
    <3> QED
      BY <1>1, <1>2, <3>2 DEF Years
  <2>3. NewYear(v) => \A y \in Years' : ~Overlap(call[v].row, year'[y])
    BY <1>3, <1>4, <2>1 DEF WorkerInv, NewYearApart, Overlap
  <2>4. Serving(v, "create period") => period'[call[v].period] = None
    BY <2>1 DEF WorkerInv, IdentityApart
  <2>5. \A y \in Years : y \in locks[v] =>
          y \in Years' /\ year'[y] = year[y] /\ PeriodsOf(y)' = PeriodsOf(y)
    BY <1>1, <1>2, <1>3, <1>5, <2>1 DEF Years
  <2> QED
    BY <1>5, <1>7, <2>2, <2>3, <2>4, <2>5, EndKeepsOthers
<1>8. WorkerInv(w)'
  BY IdleKnowsNothing
<1>9. YearsApart'
  BY <1>3, <1>4 DEF CalendarInv, YearsApart, Overlap
<1>10. PeriodsFit'
  <2>1. ASSUME NEW p \in Periods
        PROVE  /\ period[p].year \in Years'
               /\ Within(period[p], year'[period[p].year])
               /\ \A q \in Periods : p # q /\ period[q].year = period[p].year =>
                    ~Overlap(period[p], period[q])
    BY <1>3, <1>4 DEF CalendarInv, PeriodsFit, PeriodsOf, Within
  <2>2. period' = period
    OBVIOUS
  <2> QED
    BY <1>5, <2>1, <2>2 DEF PeriodsFit, PeriodsOf
<1>11. DraftsInOpenPeriods'
  BY DEF CalendarInv, DraftsInOpenPeriods
<1> QED
  BY <1>6, <1>7, <1>8, <1>9, <1>10, <1>11 DEF CalendarInv

(* A close writes a status and nothing else.                                *)
LEMMA SetsOnlyStatus ==
  ASSUME TypeOK, NEW z \in Periods, NEW status \in PeriodStatus, SetPeriod(z, status)
  PROVE  /\ period'[z] \in PeriodRow /\ period'[z].status = status
         /\ period'[z].first = period[z].first /\ period'[z].last = period[z].last
         /\ period'[z].year = period[z].year
         /\ \A p \in Period \ {z} : period'[p] = period[p]
         /\ period' \in [Period -> PeriodRow \cup {None}]
<1> DEFINE row == [period[z] EXCEPT !.status = status]
<1>1. z \in Period /\ period[z] \in PeriodRow
  BY DEF TypeOK, Periods
<1>2. period' = [period EXCEPT ![z] = row]
  BY DEF SetPeriod
<1>3. /\ row \in PeriodRow /\ row.status = status
      /\ row.first = period[z].first /\ row.last = period[z].last
      /\ row.year = period[z].year
  BY <1>1 DEF PeriodRow
<1> HIDE DEF row
<1> QED
  BY <1>1, <1>2, <1>3 DEF TypeOK

(* The status of a period changes, in a period the worker has locked, and  *)
(* not to another than OPEN over a draft.                                  *)
LEMMA SetPeriodKeeps ==
  ASSUME CalendarInv, NEW w \in Worker, stage[w] = "commit",
         call[w].op \in {"close period", "reopen period"},
         NEW status \in PeriodStatus, SetPeriod(call[w].period, status),
         status = "OPEN" \/ call[w].period \notin drafts,
         UNCHANGED <<year, drafts>>, End(w)
  PROVE  CalendarInv'
<1> DEFINE z == call[w].period
<1>1. z \in Periods /\ z \in Period /\ z \in locks[w] /\ period[z] \in PeriodRow
  <2>1. z \in Periods /\ z \in locks[w]
    BY DEF CalendarInv, WorkerInv, PeriodHeld
  <2> QED
    BY <2>1 DEF CalendarInv, TypeOK, Periods
<1>2. /\ period'[z] \in PeriodRow /\ period'[z].status = status
      /\ period'[z].first = period[z].first /\ period'[z].last = period[z].last
      /\ period'[z].year = period[z].year
      /\ \A p \in Period \ {z} : period'[p] = period[p]
      /\ period' \in [Period -> PeriodRow \cup {None}]
  BY <1>1, SetsOnlyStatus DEF CalendarInv
<1>3. Periods' = Periods
  BY <1>1, <1>2, CalendarAssumption DEF Periods
<1>4. \A p \in Periods : /\ period'[p].first = period[p].first
                        /\ period'[p].last = period[p].last
                        /\ period'[p].year = period[p].year
  BY <1>2 DEF Periods
<1>5. Years' = Years /\ \A y : PeriodsOf(y)' = PeriodsOf(y)
  BY <1>3, <1>4 DEF Years, PeriodsOf
<1>6. TypeOK'
  BY <1>2, <1>3, EndKeepsTypes DEF CalendarInv, TypeOK
<1>7. ASSUME NEW v \in Worker, v # w PROVE WorkerInv(v)'
  <2>1. WorkerInv(v) /\ locks[v] \cap locks[w] = {}
    BY <1>7 DEF CalendarInv, TypeOK
  <2>2. Serving(v, "create period") => period'[call[v].period] = None
    <3>1. SUFFICES ASSUME Serving(v, "create period") PROVE period'[call[v].period] = None
      OBVIOUS
    <3>2. call[v].period \in Period /\ period[call[v].period] = None
      BY <2>1, <3>1, AtStage, CallType DEF Serving, WorkerInv, IdentityApart
    <3> QED
      BY <1>1, <1>2, <3>2 DEF Periods
  <2>3. /\ NewYear(v) => \A y \in Years' : ~Overlap(call[v].row, year'[y])
        /\ Serving(v, "create year") => year'[call[v].year] = None
    BY <1>5, <2>1 DEF WorkerInv, NewYearApart, IdentityApart
  <2>4. \A p \in Periods : p \in locks[v] =>
          p \in Periods' /\ period'[p] = period[p] /\ (p \in drafts' => p \in drafts)
    BY <1>1, <1>2, <1>3, <2>1 DEF Periods
  <2> QED
    BY <1>4, <1>5, <1>7, <2>2, <2>3, <2>4, EndKeepsOthers
<1>8. WorkerInv(w)'
  BY IdleKnowsNothing
<1>9. PeriodsFit'
  <2>1. ASSUME NEW p \in Periods
        PROVE  /\ period'[p].year \in Years'
               /\ Within(period'[p], year'[period'[p].year])
    BY <1>4, <1>5 DEF CalendarInv, PeriodsFit, Within
  <2>2. ASSUME NEW p \in Periods, NEW q \in Periods, p # q,
               period'[q].year = period'[p].year
        PROVE  ~Overlap(period'[p], period'[q])
    BY <1>4, <2>2 DEF CalendarInv, PeriodsFit, PeriodsOf, Overlap
  <2> QED
    BY <1>3, <2>1, <2>2 DEF PeriodsFit, PeriodsOf
<1>10. YearsApart'
  BY <1>5 DEF CalendarInv, YearsApart
<1>11. DraftsInOpenPeriods'
  BY <1>2 DEF CalendarInv, TypeOK, DraftsInOpenPeriods, Periods
<1> QED
  BY <1>6, <1>7, <1>8, <1>9, <1>10, <1>11 DEF CalendarInv

(* A draft comes to an open period, or the drafts of one are posted.       *)
LEMMA DraftsKeep ==
  ASSUME CalendarInv, NEW w \in Worker, stage[w] = "commit",
         \/ call[w].op = "draft" /\ drafts' = drafts \cup {call[w].period}
         \/ call[w].op = "post" /\ drafts' = drafts \ {call[w].period},
         UNCHANGED <<year, period>>, End(w)
  PROVE  CalendarInv'
<1> DEFINE z == call[w].period
<1>1. z \in Periods /\ z \in locks[w] /\ period[z].status = "OPEN"
  BY DEF CalendarInv, WorkerInv, PeriodHeld, Wanted
<1>2. drafts' \subseteq drafts \cup {z}
  OBVIOUS
<1>3. Years' = Years /\ Periods' = Periods /\ \A y : PeriodsOf(y)' = PeriodsOf(y)
  BY DEF Years, Periods, PeriodsOf
<1>4. TypeOK'
  BY <1>1, <1>2, <1>3, EndKeepsTypes DEF CalendarInv, TypeOK
<1>5. ASSUME NEW v \in Worker, v # w PROVE WorkerInv(v)'
  <2>1. WorkerInv(v) /\ locks[v] \cap locks[w] = {}
    BY <1>5 DEF CalendarInv, TypeOK
  <2>2. /\ Serving(v, "create year") => year'[call[v].year] = None
        /\ Serving(v, "create period") => period'[call[v].period] = None
        /\ NewYear(v) => \A y \in Years' : ~Overlap(call[v].row, year'[y])
    BY <1>3, <2>1 DEF WorkerInv, IdentityApart, NewYearApart
  <2>3. \A p \in Periods : p \in locks[v] =>
          p \in Periods' /\ period'[p] = period[p] /\ (p \in drafts' => p \in drafts)
    BY <1>1, <1>2, <1>3, <2>1
  <2> QED
    BY <1>3, <1>5, <2>2, <2>3, EndKeepsOthers
<1>6. WorkerInv(w)'
  BY IdleKnowsNothing
<1>7. YearsApart' /\ PeriodsFit'
  BY <1>3 DEF CalendarInv, YearsApart, PeriodsFit
<1>8. DraftsInOpenPeriods'
  BY <1>1, <1>2 DEF CalendarInv, DraftsInOpenPeriods
<1> QED
  BY <1>4, <1>5, <1>6, <1>7, <1>8 DEF CalendarInv

(* Every commit keeps the invariant.                                        *)
LEMMA CommitKeeps ==
  ASSUME CalendarInv, NEW w \in Worker, Commit(w)
  PROVE  CalendarInv'
<1> DEFINE c == call[w]
<1>1. stage[w] = "commit" /\ End(w)
  BY DEF Commit
<1>2. c.op \in {"create year", "create period", "close year", "close period",
                "reopen period", "draft", "post"}
  BY <1>1, AtStage, CallType
<1>3. CASE c.op = "create year"
  BY <1>1, <1>3, CommitYearKeeps DEF Commit
<1>4. CASE c.op = "create period"
  BY <1>1, <1>4, CommitPeriodKeeps DEF Commit
<1>5. CASE c.op = "close year"
  BY <1>1, <1>5, CloseYearKeeps DEF Commit
<1>6. CASE c.op = "close period"
  <2>1. c.period \notin drafts
    BY <1>1, <1>6 DEF CalendarInv, WorkerInv, PeriodHeld
  <2> QED
    BY <1>1, <1>6, <2>1, SetPeriodKeeps DEF Commit, PeriodStatus
<1>7. CASE c.op = "reopen period"
  BY <1>1, <1>7, SetPeriodKeeps DEF Commit, PeriodStatus
<1>8. CASE c.op \in {"draft", "post"}
  BY <1>1, <1>8, DraftsKeep DEF Commit
<1> QED
  BY <1>2, <1>3, <1>4, <1>5, <1>6, <1>7, <1>8

----------------------------------------------------------------------------
(* The theorems                                                            *)

(* A worker knows, at each stage of its call, that the rows it has read    *)
(* under a lock are as it read them, and that no other worker is about to  *)
(* commit a year that overlaps its own or the same identity.               *)
THEOREM CalendarInvariant == Spec => []CalendarInv
<1>1. Init => CalendarInv
  <2> SUFFICES ASSUME Init PROVE CalendarInv
    OBVIOUS
  <2>1. Years = {} /\ Periods = {} /\ drafts = {}
    BY DEF Init, Years, Periods
  <2>2. TypeOK
    BY <2>1, CalendarAssumption DEF Init, TypeOK
  <2>3. \A w \in Worker : WorkerInv(w)
    BY DEF Init, WorkerInv, IdentityApart, YearHeld, PeriodsHeld, PeriodHeld, NewYearApart,
           NewYear, NewPeriod, Serving
  <2> QED
    BY <2>1, <2>2, <2>3 DEF CalendarInv, YearsApart, PeriodsFit, DraftsInOpenPeriods
<1>2. CalendarInv /\ [Next]_vars => CalendarInv'
  <2> SUFFICES ASSUME CalendarInv, [Next]_vars PROVE CalendarInv'
    OBVIOUS
  <2>1. CASE UNCHANGED vars
    <3>1. /\ year' = year /\ period' = period /\ drafts' = drafts
          /\ stage' = stage /\ call' = call /\ locks' = locks
      BY <2>1 DEF vars, tables
    <3>2. Years' = Years /\ Periods' = Periods /\ \A y : PeriodsOf(y)' = PeriodsOf(y)
      BY <3>1 DEF Years, Periods, PeriodsOf
    <3>3. TypeOK' /\ YearsApart' /\ PeriodsFit' /\ DraftsInOpenPeriods'
      BY <3>1, <3>2 DEF CalendarInv, TypeOK, YearsApart, PeriodsFit, DraftsInOpenPeriods
    <3>4. ASSUME NEW w \in Worker PROVE WorkerInv(w)'
      BY <3>1, <3>2 DEF CalendarInv, WorkerInv, IdentityApart, YearHeld, PeriodsHeld, PeriodHeld,
                        NewYearApart, NewYear, NewPeriod, Serving, YearOf, Fits
    <3> QED
      BY <3>3, <3>4 DEF CalendarInv
  <2>2. CASE Rest
    BY <2>1, <2>2 DEF Rest
  <2>3. ASSUME NEW w \in Worker,
               \/ Begin(w) \/ ListYears(w) \/ InsertYear(w)
               \/ LockYear(w) \/ CheckPeriod(w) \/ InsertPeriod(w)
               \/ LockPeriods(w) \/ CountDrafts(w)
               \/ LockPeriod(w) \/ CountPeriodDrafts(w)
               \/ Commit(w) \/ Abort(w)
        PROVE  CalendarInv'
    BY <2>3, BeginKeeps, ListYearsKeeps, InsertYearKeeps, LockYearKeeps, CheckPeriodKeeps,
       InsertPeriodKeeps, LockPeriodsKeeps, CountDraftsKeeps, LockPeriodKeeps,
       CountPeriodDraftsKeeps, CommitKeeps, AbortKeeps
  <2> QED
    BY <2>1, <2>2, <2>3 DEF Next
<1> QED
  BY <1>1, <1>2, PTL DEF Spec

(* The tables hold rows of their types, every draft is in a period that    *)
(* exists, and no two transactions lock the same row.                      *)
THEOREM CalendarTypes == Spec => []TypeOK
<1>1. CalendarInv => TypeOK
  BY DEF CalendarInv
<1> QED
  BY <1>1, CalendarInvariant, PTL

(* No two fiscal years share a day, a period lies within its year, and no  *)
(* two periods share a day: a date has at most one period to post in.      *)
THEOREM CalendarIsNested == Spec => []CalendarNested
<1>1. CalendarInv => CalendarNested
  <2> SUFFICES ASSUME CalendarInv PROVE CalendarNested
    OBVIOUS
  <2>1. /\ \A y \in Years : year[y] \in YearRow
        /\ \A p \in Periods : period[p] \in PeriodRow
    BY DEF CalendarInv, TypeOK, Years, Periods
  <2>2. \A y, z \in Years : y # z => Days(year[y]) \cap Days(year[z]) = {}
    BY <2>1, ApartShareNoDay DEF CalendarInv, YearsApart
  <2>3. \A p \in Periods :
          period[p].year \in Years /\ Days(period[p]) \subseteq Days(year[period[p].year])
    BY <2>1, WithinHasDays DEF CalendarInv, PeriodsFit
  <2>4. ASSUME NEW p \in Periods, NEW q \in Periods, p # q
        PROVE  Days(period[p]) \cap Days(period[q]) = {}
    <3>1. CASE period[p].year = period[q].year
      BY <2>1, <2>4, <3>1, ApartShareNoDay DEF CalendarInv, PeriodsFit, PeriodsOf
    <3>2. CASE period[p].year # period[q].year
      <4>1. Days(year[period[p].year]) \cap Days(year[period[q].year]) = {}
        BY <2>2, <2>3, <3>2
      <4> QED
        BY <2>3, <4>1
    <3> QED
      BY <3>1, <3>2
  <2> QED
    BY <2>2, <2>3, <2>4 DEF CalendarNested
<1> QED
  BY <1>1, CalendarInvariant, PTL

(* A period closes over no draft, and none comes to a period that is not   *)
(* open, whatever its status becomes while the draft is on its way.        *)
THEOREM DraftsOnlyInOpenPeriods == Spec => []DraftsInOpenPeriods
<1>1. CalendarInv => DraftsInOpenPeriods
  BY DEF CalendarInv
<1> QED
  BY <1>1, CalendarInvariant, PTL

(* Only a commit changes the tables.                                        *)
LEMMA OnlyCommitsWrite ==
  ASSUME [Next]_vars, ~UNCHANGED tables
  PROVE  \E w \in Worker : Commit(w)
BY DEF Next, vars, Begin, ListYears, InsertYear, LockYear, CheckPeriod, InsertPeriod,
       LockPeriods, CountDrafts, LockPeriod, CountPeriodDrafts, Abort, Rest, Go

(* In the step that closes a year, the year has periods, all closed and    *)
(* without a draft: what the transaction counted under its locks is so     *)
(* when it commits.                                                        *)
THEOREM YearsCloseSettled == Spec => YearClosesSettled
<1>1. ASSUME CalendarInv, [Next]_vars, NEW y \in Years,
             year[y].status = "OPEN", year'[y].status = "CLOSED"
      PROVE  /\ PeriodsOf(y)' # {}
             /\ \A p \in PeriodsOf(y)' : period'[p].status = "CLOSED" /\ p \notin drafts'
  <2>1. ~UNCHANGED tables
    BY <1>1 DEF tables
  <2>2. PICK w \in Worker : Commit(w)
    BY <1>1, <2>1, OnlyCommitsWrite
  <2>3. stage[w] = "commit"
    BY <2>2 DEF Commit
  <2>4. year[y] # None /\ y \in Year /\ WorkerInv(w)
    BY <1>1 DEF Years, CalendarInv
  <2>5. call[w].op # "create year"
    <3>1. SUFFICES ASSUME call[w].op = "create year" PROVE FALSE
      OBVIOUS
    <3>2. year[call[w].year] = None
      BY <2>3, <2>4, <3>1 DEF WorkerInv, IdentityApart, Serving
    <3>3. year' = [year EXCEPT ![call[w].year] = call[w].row]
      BY <2>2, <3>1 DEF Commit
    <3> QED
      BY <1>1, <2>4, <3>2, <3>3 DEF CalendarInv, TypeOK
  <2>6. call[w].op = "close year" /\ period' = period /\ drafts' = drafts
          /\ year' = [year EXCEPT ![call[w].year].status = "CLOSED"]
    BY <1>1, <2>2, <2>5 DEF Commit
  <2>7. y = call[w].year
    BY <1>1, <2>4, <2>6 DEF CalendarInv, TypeOK
  <2>8. /\ PeriodsOf(y) # {}
        /\ \A p \in PeriodsOf(y) : period[p].status = "CLOSED"
    BY <2>3, <2>4, <2>6, <2>7 DEF WorkerInv, PeriodsHeld, Serving
  <2>9. \A p \in PeriodsOf(y) : p \notin drafts
    BY <1>1, <2>8 DEF CalendarInv, DraftsInOpenPeriods
  <2>10. PeriodsOf(y)' = PeriodsOf(y)
    BY <2>6 DEF PeriodsOf, Periods
  <2> QED
    BY <2>6, <2>8, <2>9, <2>10
<1>2. CalendarInv /\ [Next]_vars =>
        [\A y \in Years : (year[y].status = "OPEN" /\ year'[y].status = "CLOSED") =>
           /\ PeriodsOf(y)' # {}
           /\ \A p \in PeriodsOf(y)' : period'[p].status = "CLOSED" /\ p \notin drafts']_vars
  BY <1>1
<1> QED
  BY <1>2, CalendarInvariant, PTL DEF Spec, YearClosesSettled

(* No period is added to a closed year, nor taken from it: who adds one    *)
(* has the year locked, and found it open.                                 *)
THEOREM ClosedYearsKeepTheirPeriods == Spec => ClosedYearKeepsPeriods
<1>1. ASSUME CalendarInv, [Next]_vars, NEW y \in Years, year[y].status = "CLOSED"
      PROVE  PeriodsOf(y)' = PeriodsOf(y)
  <2>1. SUFFICES ASSUME period' # period PROVE PeriodsOf(y)' = PeriodsOf(y)
    BY DEF PeriodsOf, Periods
  <2>2. PICK w \in Worker : Commit(w)
    BY <1>1, <2>1, OnlyCommitsWrite DEF tables
  <2>3. stage[w] = "commit" /\ WorkerInv(w) /\ call[w] \in Calls
    BY <1>1, <2>2, AtStage DEF Commit, CalendarInv
  <2>4. CASE call[w].op = "create period"
    <3>1. period' = [period EXCEPT ![call[w].period] = call[w].row]
      BY <2>2, <2>4 DEF Commit
    <3>2. period[call[w].period] = None /\ call[w].row.year # y
      BY <1>1, <2>3, <2>4 DEF WorkerInv, IdentityApart, YearHeld, YearOf, Serving
    <3>3. call[w].period \in Period
      BY <2>3, <2>4, CallType
    <3> QED
      BY <1>1, <3>1, <3>2, <3>3 DEF CalendarInv, TypeOK, PeriodsOf, Periods
  <2>5. CASE call[w].op \in {"close period", "reopen period"}
    <3>1. PICK s \in PeriodStatus : SetPeriod(call[w].period, s)
      BY <2>2, <2>5 DEF Commit, PeriodStatus
    <3>2. call[w].period \in Periods /\ call[w].period \in Period
      BY <2>3, <2>5 DEF WorkerInv, PeriodHeld, Periods
    <3>3. /\ period'[call[w].period] \in PeriodRow
          /\ period'[call[w].period].year = period[call[w].period].year
          /\ \A p \in Period \ {call[w].period} : period'[p] = period[p]
      BY <1>1, <3>1, <3>2, SetsOnlyStatus DEF CalendarInv
    <3> QED
      BY <3>2, <3>3, CalendarAssumption DEF PeriodsOf, Periods
  <2> QED
    BY <2>1, <2>2, <2>4, <2>5 DEF Commit
<1>2. CalendarInv /\ [Next]_vars =>
        [\A y \in Years : year[y].status = "CLOSED" => PeriodsOf(y)' = PeriodsOf(y)]_vars
  BY <1>1
<1> QED
  BY <1>2, CalendarInvariant, PTL DEF Spec, ClosedYearKeepsPeriods

=============================================================================
