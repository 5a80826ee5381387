--------------------------- MODULE CustomersProofs ---------------------------
(***************************************************************************)
(* What holds of Customers for every set of workers, customers, codes and  *)
(* calls.  CustomersInv says what each session knows at each statement,    *)
(* and keeps apart what two of them write; ReadingInv says whom a listing  *)
(* has still to show, by how many codes come before.                       *)
(***************************************************************************)
EXTENDS Customers, FiniteSetTheorems, NaturalsInduction, SequenceTheorems, TLAPS

----------------------------------------------------------------------------
(* The inductive invariant                                                 *)

Target(w) == tx[w].call.target
Creates(w) == tx[w].call.op = "create"
Busy(w) == tx[w].stage # "idle"

(* A create between its begin and its commit, and an update that holds the *)
(* lock of its row.                                                        *)
Creating(w) == tx[w].stage \in {"code", "tax", "insert", "audit", "commit"} /\ Creates(w)
Updating(w) == tx[w].stage \in {"tax", "update", "audit", "commit"} /\ tx[w].call.op = "update"

(* It has a row that is not committed.                                     *)
Writing(w) == tx[w].stage \in {"audit", "commit"}

Answer == [row : CustomerRow \cup {None}, since : Nat]
TxType == [stage : Stage, call : Calls \cup {None}, loaded : CustomerRow \cup {None},
           written : CustomerRow \cup {None}, answer : Answer \cup {None}]
Action == {"CUSTOMER_CREATED", "CUSTOMER_UPDATED", "CUSTOMER_ACTIVATED", "CUSTOMER_DEACTIVATED"}
AuditRecord == [subject : Customer, action : Action, row : CustomerRow]

(* What a session knows.  A create has a customer nobody has, an update    *)
(* has loaded its row as it is, and what it has written is what its audit  *)
(* record will say.                                                        *)
SessionKnows(w) ==
  /\ IF Busy(w) THEN tx[w].call \in Calls ELSE tx[w] = Idle
  /\ tx[w].stage \in {"code", "insert"} => tx[w].call.op = "create"
  /\ tx[w].stage \in {"load", "update"} => tx[w].call.op = "update"
  /\ tx[w].written # None <=> Writing(w)
  /\ Creating(w) => Target(w) \notin Rows
  /\ Updating(w) => Target(w) \in Rows /\ tx[w].loaded = customer[Target(w)]
  /\ Writing(w) => tx[w].written = Payload(w)
  /\ tx[w].stage \in {"refresh", "reply"} =>
       /\ Target(w) \in Rows
       /\ tx[w].answer \in Answer
       /\ tx[w].answer.since <= Len(trail)

(* Who else works on the customer of a create has not loaded it yet, and   *)
(* one update at a time holds its lock.                                    *)
TargetsApart(v, w) ==
  (Busy(v) /\ Busy(w) /\ Target(v) = Target(w)) =>
    /\ Creating(w) => tx[v].stage = "load"
    /\ Creating(v) => tx[w].stage = "load"
    /\ ~(Updating(v) /\ Updating(w))

SameTax(s, t) == s # None /\ s = t

(* What is written keeps apart from the rows there are, and from what      *)
(* others have written.                                                    *)
FitsRows(w) ==
  Writing(w) => \A d \in Rows \ {Target(w)} :
    ~Has(d, tx[w].written.code, tx[w].written.tax)

WritesApart(v, w) ==
  (Writing(v) /\ Writing(w)) =>
    /\ tx[v].written.code # tx[w].written.code
    /\ ~SameTax(tx[v].written.tax, tx[w].written.tax)

RowsApart == \A c, d \in Rows : c # d => ~Has(c, customer[d].code, customer[d].tax)

Tables ==
  /\ customer \in [Customer -> CustomerRow \cup {None}]
  /\ IsFiniteSet(Rows)
  /\ trail \in Seq(AuditRecord)
  /\ tx \in [Worker -> TxType]

CustomersInv ==
  /\ Tables
  /\ RowsApart
  /\ TrailTellsCustomers
  /\ \A w \in Worker : SessionKnows(w) /\ FitsRows(w)
  /\ \A v, w \in Worker : v # w => TargetsApart(v, w) /\ WritesApart(v, w)

(* How many rows come before c in a listing of all.                        *)
Below(c) == {d \in Rows : Before(d, c)}
Rank(c) == Cardinality(Below(c))

(* A customer that a listing has not shown yet is still to come.           *)
ReadingInv ==
  /\ reading \in [skip : Nat, filter : BOOLEAN \cup {None}, seen : SUBSET Rows,
                  before : SUBSET Rows, done : BOOLEAN]
  /\ reading.filter = None =>
       \A c \in reading.before \ reading.seen : ~reading.done /\ Rank(c) >= reading.skip

----------------------------------------------------------------------------
(* Rows and records                                                        *)

Changes == [{"tax"} -> TaxId \cup {None}] \cup [{"active"} -> BOOLEAN \cup {None}]
             \cup [{} -> {None}]

(* What a request carries.                                                 *)
LEMMA CallType ==
  ASSUME NEW c \in Calls
  PROVE  /\ c.op \in {"create", "update"} /\ c.actor \in Actor /\ c.target \in Customer
         /\ c.op = "create" => c.code \in Code /\ c.tax \in TaxId \cup {None}
         /\ c.op = "update" => c.set \in Changes
BY CustomersAssumption DEF Call, Changes

(* The row an update writes over old.                                      *)
Wanted(c) == Overlay([updater |-> c.actor], c.set)
Changed(c, old) == {f \in DOMAIN Wanted(c) : Wanted(c)[f] # old[f]}
NewRow(c, old) == Overlay(old, [f \in Changed(c, old) |-> Wanted(c)[f]])

(* Writing the columns that differ amounts to setting those the request    *)
(* has and who wrote last.                                                 *)
LEMMA UpdatedRow ==
  ASSUME NEW c \in Calls, c.op = "update", NEW old \in CustomerRow
  PROVE  LET new == NewRow(c, old) IN
         /\ new = Overlay([old EXCEPT !.updater = c.actor], c.set)
         /\ new.code = old.code
         /\ "tax" \notin Changed(c, old) => new.tax = old.tax
         /\ new.active # None => new \in CustomerRow
         /\ new \in CustomerRow => Tells(ActionOf(c, old), old, new)
         /\ new \in CustomerRow => ActionOf(c, old) \in Action
<1> DEFINE fields == {"code", "tax", "active", "updater"}
           new == NewRow(c, old)
           set == c.set
<1>1. c.actor \in Actor /\ set \in Changes
  BY CallType
<1>2. /\ DOMAIN old = fields /\ old.code \in Code /\ old.tax \in TaxId \cup {None}
      /\ old.active \in BOOLEAN /\ old.updater \in Actor
  BY DEF CustomerRow
<1>3. /\ DOMAIN Wanted(c) = DOMAIN set \cup {"updater"}
      /\ DOMAIN set \in {{"tax"}, {"active"}, {}}
      /\ Wanted(c)["updater"] = c.actor
      /\ \A f \in DOMAIN set : Wanted(c)[f] = set[f]
  BY <1>1 DEF Wanted, Overlay, Changes
<1>4. /\ DOMAIN new = fields
      /\ \A f \in fields : new[f] = IF f \in DOMAIN Wanted(c) THEN Wanted(c)[f] ELSE old[f]
  BY <1>2, <1>3 DEF NewRow, Overlay, Changed
<1>5. new = [f \in fields |-> new[f]]
  BY <1>4 DEF NewRow, Overlay
<1> DEFINE other == Overlay([old EXCEPT !.updater = c.actor], set)
<1>6. /\ DOMAIN other = fields
      /\ \A f \in fields : other[f] = IF f \in DOMAIN Wanted(c) THEN Wanted(c)[f] ELSE old[f]
      /\ other = [f \in fields |-> other[f]]
  BY <1>2, <1>3 DEF Overlay
<1>7. new = other
  BY <1>4, <1>5, <1>6
<1>8. /\ new.code = old.code
      /\ new.tax = IF "tax" \in DOMAIN set THEN set["tax"] ELSE old.tax
      /\ new.active = IF "active" \in DOMAIN set THEN set["active"] ELSE old.active
      /\ new.updater = c.actor
  BY <1>3, <1>4
<1>9. "tax" \notin Changed(c, old) => new.tax = old.tax
  BY <1>3, <1>8 DEF Changed
<1>10. /\ "tax" \in DOMAIN set => set["tax"] \in TaxId \cup {None}
       /\ "active" \in DOMAIN set => set["active"] \in BOOLEAN \cup {None}
  BY <1>1 DEF Changes
<1>11. new.active # None => new \in CustomerRow
  <2> HIDE DEF new
  <2>1. new = [code |-> new["code"], tax |-> new["tax"], active |-> new["active"],
               updater |-> new["updater"]]
    BY <1>5
  <2> QED
    BY <1>1, <1>2, <1>8, <1>10, <2>1 DEF CustomerRow
<1>12. new \in CustomerRow => Tells(ActionOf(c, old), old, new) /\ ActionOf(c, old) \in Action
  <2> HIDE DEF new
  <2>1. new \in CustomerRow => new.active \in BOOLEAN
    BY DEF CustomerRow
  <2> QED
    BY <1>2, <1>8, <1>10, <2>1 DEF Tells, ActionOf, Action
<1> QED
  BY <1>7, <1>8, <1>9, <1>11, <1>12

(* The first of a set of numbers.                                          *)
LEMMA FirstOf ==
  ASSUME NEW S \in SUBSET Nat, S # {}
  PROVE  \E m \in S : \A k \in S : m <= k
<1>1. PICK m \in S : \A k \in S : <<k, m>> \notin OpToRel(<, Nat)
  BY WFMin, NatLessThanWellFounded, Zenon
<1>2. \A k \in S : ~(k < m)
  BY <1>1, Zenon DEF OpToRel
<1> QED
  BY <1>2

(* The last of a set of numbers that has a bound.                          *)
LEMMA LastOf ==
  ASSUME NEW S \in SUBSET Nat, S # {}, NEW n \in Nat, \A k \in S : k <= n
  PROVE  /\ Max(S) \in S
         /\ \A k \in S : k <= Max(S)
<1> DEFINE U == {m \in Nat : \A k \in S : k <= m}
<1>1. U # {} /\ U \subseteq Nat
  OBVIOUS
<1>2. PICK m \in U : \A x \in U : m <= x
  BY <1>1, FirstOf
<1>3. m \in S
  <2>1. PICK k \in S : TRUE
    OBVIOUS
  <2>2. CASE m \notin S
    <3>1. \A j \in S : j < m
      BY <1>2, <2>2
    <3>2. m - 1 \in U
      BY <1>2, <2>1, <3>1
    <3> QED
      BY <1>2, <3>2
  <2> QED
    BY <2>2
<1>4. \E x \in S : \A y \in S : x >= y
  BY <1>2, <1>3
<1>5. Max(S) \in S /\ \A y \in S : Max(S) >= y
  BY <1>4, Zenon DEF Max
<1> QED
  BY <1>5

(* The trail has a last record of each customer, with its row.             *)
LEMMA LastRecord ==
  ASSUME CustomersInv, NEW c \in Rows
  PROVE  \E i \in About(c) : /\ \A j \in About(c) : j <= i
                             /\ trail[i].row = customer[c]
<1>1. About(c) # {} /\ \A i \in DOMAIN trail : RecordTells(i)
  BY DEF CustomersInv, TrailTellsCustomers, Rows
<1>2. About(c) \in SUBSET Nat /\ \A k \in About(c) : k <= Len(trail)
  BY DEF About, CustomersInv, Tables
<1>3. Len(trail) \in Nat
  BY DEF CustomersInv, Tables
<1>4. PICK i \in About(c) : \A j \in About(c) : j <= i
  BY <1>1, <1>2, <1>3, LastOf
<1>5. trail[i].subject = c /\ i \in DOMAIN trail
  BY DEF About
<1>6. {j \in About(trail[i].subject) : j > i} = {}
  BY <1>2, <1>4, <1>5
<1>7. trail[i].row = customer[c]
  BY <1>1, <1>5, <1>6 DEF RecordTells
<1> QED
  BY <1>4, <1>7

----------------------------------------------------------------------------
(* Steps of a session that leave the tables as they are                    *)

(* What the invariant says of one session.                                 *)
LEMMA Knows ==
  ASSUME CustomersInv, NEW w \in Worker
  PROVE  /\ tx[w] \in TxType /\ SessionKnows(w) /\ FitsRows(w)
         /\ \A v \in Worker \ {w} : /\ TargetsApart(v, w) /\ TargetsApart(w, v)
                                    /\ WritesApart(v, w) /\ WritesApart(w, v)
         /\ tx[w].stage # "idle" => tx[w].call \in Calls
         /\ tx \in [Worker -> TxType]
BY DEF CustomersInv, Tables, SessionKnows, Busy

(* A step that only moves the session of w keeps the invariant when w      *)
(* knows what it must and keeps apart from the others.                     *)
LEMMA SessionStep ==
  ASSUME CustomersInv, NEW w \in Worker, NEW new \in TxType, OnlySession,
         tx' = [tx EXCEPT ![w] = new],
         SessionKnows(w)', FitsRows(w)',
         \A v \in Worker \ {w} : TargetsApart(v, w)' /\ WritesApart(v, w)',
         new.stage = "reply" => AnswerTells(w)'
  PROVE  CustomersInv'
<1>1. /\ tx \in [Worker -> TxType] /\ tx' \in [Worker -> TxType] /\ tx'[w] = new
      /\ \A v \in Worker \ {w} : tx'[v] = tx[v]
      /\ customer' = customer /\ trail' = trail
  BY DEF CustomersInv, Tables, OnlySession
<1>2. Rows' = Rows
  BY <1>1 DEF Rows
<1>3. Tables'
  BY <1>1, <1>2 DEF Tables, CustomersInv
<1>4. RowsApart'
  BY <1>1, <1>2 DEF CustomersInv, RowsApart, Has
<1>5. ASSUME NEW v \in Worker \ {w}
      PROVE  SessionKnows(v)' /\ FitsRows(v)'
  <2>1. SessionKnows(v) /\ FitsRows(v) /\ tx'[v] = tx[v]
    BY <1>1, Knows
  <2>2. SessionKnows(v)'
    BY <1>1, <1>2, <2>1 DEF SessionKnows, Busy, Creating, Updating, Writing, Payload, Target,
                            Creates, Idle
  <2>3. FitsRows(v)'
    BY <1>1, <1>2, <2>1 DEF FitsRows, Writing, Target, Has
  <2> QED
    BY <2>2, <2>3
<1>6. ASSUME NEW u \in Worker, NEW v \in Worker, u # v
      PROVE  TargetsApart(u, v)' /\ WritesApart(u, v)'
  <2>1. CASE v = w
    BY <1>6, <2>1
  <2>2. CASE u = w
    <3>1. TargetsApart(v, w)' /\ WritesApart(v, w)'
      BY <1>6, <2>2
    <3> QED
      BY <2>2, <3>1 DEF TargetsApart, WritesApart, SameTax
  <2>3. CASE u # w /\ v # w
    <3>1. TargetsApart(u, v) /\ WritesApart(u, v) /\ tx'[u] = tx[u] /\ tx'[v] = tx[v]
      BY <1>1, <1>6, <2>3 DEF CustomersInv
    <3> QED
      BY <3>1 DEF TargetsApart, WritesApart, Busy, Target, Creating, Updating, Writing, Creates
  <2> QED
    BY <2>1, <2>2, <2>3
<1>7. \A c : About(c)' = About(c)
  BY <1>1 DEF About
<1>8. \A i \in DOMAIN trail : RecordTells(i)'
  BY <1>1, <1>7 DEF CustomersInv, TrailTellsCustomers, RecordTells
<1>9. ASSUME NEW v \in Worker, tx'[v].stage = "reply"
      PROVE  AnswerTells(v)'
  <2>1. CASE v = w
    BY <1>1, <1>9, <2>1
  <2>2. CASE v # w
    <3>1. tx'[v] = tx[v] /\ AnswerTells(v)
      BY <1>1, <1>9, <2>2 DEF CustomersInv, TrailTellsCustomers
    <3> QED
      BY <1>1, <1>7, <3>1 DEF AnswerTells
  <2> QED
    BY <2>1, <2>2
<1>10. TrailTellsCustomers'
  <2>1. \A c \in Customer : About(c)' # {} <=> c \in Rows'
    BY <1>2, <1>7 DEF CustomersInv, TrailTellsCustomers
  <2> QED
    BY <1>1, <1>8, <1>9, <2>1 DEF TrailTellsCustomers
<1> QED
  BY <1>1, <1>3, <1>4, <1>5, <1>6, <1>10 DEF CustomersInv

(* An idle session.                                                        *)
LEMMA IdleType ==
  /\ Idle \in TxType
  /\ Idle.stage = "idle" /\ Idle.written = None /\ Idle.loaded = None
  /\ Idle.call = None /\ Idle.answer = None
BY DEF Idle, TxType, Stage

(* A session that is closed knows nothing and holds nothing.               *)
LEMMA CloseStep ==
  ASSUME CustomersInv, NEW w \in Worker, Close(w), OnlySession
  PROVE  CustomersInv'
<1>1. tx' = [tx EXCEPT ![w] = Idle] /\ tx'[w] = Idle
  BY Knows DEF Close
<1>2. SessionKnows(w)'
  BY <1>1, IdleType DEF SessionKnows, Busy, Creating, Updating, Writing
<1>3. FitsRows(w)' /\ \A v \in Worker \ {w} : TargetsApart(v, w)' /\ WritesApart(v, w)'
  BY <1>1, IdleType DEF FitsRows, Writing, TargetsApart, WritesApart, Busy
<1> QED
  BY <1>1, <1>2, <1>3, IdleType, SessionStep

(* A statement that finds nothing in the way.                              *)
LEMMA GoStep ==
  ASSUME CustomersInv, NEW w \in Worker, NEW s, Go(w, s), OnlySession,
         \/ tx[w].stage = "code" /\ s = "tax"
         \/ tx[w].stage = "tax" /\ s = IF tx[w].call.op = "create" THEN "insert" ELSE "update"
         \/ tx[w].stage = "audit" /\ s = "commit"
  PROVE  CustomersInv'
<1> DEFINE new == [tx[w] EXCEPT !.stage = s]
<1>1. /\ tx[w] \in TxType /\ SessionKnows(w) /\ FitsRows(w)
      /\ \A v \in Worker \ {w} : TargetsApart(v, w) /\ WritesApart(v, w)
      /\ tx \in [Worker -> TxType]
  BY Knows
<1>2. tx' = [tx EXCEPT ![w] = new]
  BY DEF Go
<1>3. s \in {"tax", "insert", "update", "commit"}
  OBVIOUS
<1>4. /\ new \in TxType /\ new.stage = s /\ new.call = tx[w].call /\ new.loaded = tx[w].loaded
      /\ new.written = tx[w].written /\ new.answer = tx[w].answer
  BY <1>1, <1>3 DEF TxType, Stage
<1>5. /\ tx'[w] = new /\ customer' = customer /\ trail' = trail
      /\ \A v \in Worker \ {w} : tx'[v] = tx[v]
  BY <1>1, <1>2 DEF OnlySession
<1> HIDE DEF new
<1>6. Rows' = Rows
  BY <1>5 DEF Rows
<1>7. tx[w].call \in Calls /\ tx[w].call.op \in {"create", "update"}
  BY <1>1, CallType DEF SessionKnows, Busy
<1>8. /\ Busy(w) /\ Busy(w)' /\ Target(w)' = Target(w)
      /\ Creating(w)' <=> Creating(w)
      /\ Updating(w)' <=> Updating(w)
      /\ Writing(w)' <=> Writing(w)
  <2>1. tx[w].stage = "code" => tx[w].call.op = "create"
    BY <1>1 DEF SessionKnows
  <2>2. tx'[w].call = tx[w].call /\ tx'[w].stage = s
    BY <1>4, <1>5
  <2> QED
    BY <1>7, <2>1, <2>2 DEF Busy, Target, Creating, Updating, Writing, Creates
<1>9. Payload(w)' = Payload(w)
  BY <1>4, <1>5 DEF Payload
<1>10. SessionKnows(w)'
  BY <1>1, <1>3, <1>4, <1>5, <1>6, <1>7, <1>8, <1>9 DEF SessionKnows
<1>11. FitsRows(w)'
  BY <1>1, <1>4, <1>5, <1>6, <1>8 DEF FitsRows, Has
<1>12. ASSUME NEW v \in Worker \ {w}
       PROVE  TargetsApart(v, w)' /\ WritesApart(v, w)'
  <2>1. /\ Busy(v)' <=> Busy(v)
        /\ Target(v)' = Target(v)
        /\ Creating(v)' <=> Creating(v)
        /\ Updating(v)' <=> Updating(v)
        /\ Writing(v)' <=> Writing(v)
    BY <1>5 DEF Busy, Target, Creating, Updating, Writing, Creates
  <2> QED
    BY <1>1, <1>3, <1>4, <1>5, <1>8, <2>1 DEF TargetsApart, WritesApart
<1>13. new.stage # "reply"
  BY <1>3, <1>4
<1> QED
  BY <1>2, <1>4, <1>10, <1>11, <1>12, <1>13, SessionStep

(* A call that begins.                                                     *)
LEMMA BeginStep ==
  ASSUME CustomersInv, NEW w \in Worker, Begin(w)
  PROVE  CustomersInv'
<1>1. PICK c \in Calls :
        /\ c.op = "create" => NewIdentity(c.target)
        /\ tx' = [tx EXCEPT ![w].call = c,
                            ![w].stage = IF c.op = "create" THEN "code" ELSE "load"]
  BY DEF Begin
<1>2. tx[w] = Idle /\ tx \in [Worker -> TxType] /\ OnlySession
  BY Knows DEF Begin, SessionKnows, Busy
<1> DEFINE s == IF c.op = "create" THEN "code" ELSE "load"
           new == [stage |-> s, call |-> c, loaded |-> None, written |-> None, answer |-> None]
<1>3. [[Idle EXCEPT !.call = c] EXCEPT !.stage = s] = new
  <2> DEFINE called == [Idle EXCEPT !.call = c]
  <2>1. called = [stage |-> "idle", call |-> c, loaded |-> None, written |-> None,
                  answer |-> None]
    BY DEF Idle
  <2> HIDE DEF called
  <2>2. [called EXCEPT !.stage = s] = new
    BY <2>1
  <2> QED
    BY <2>2 DEF called
<1>4. tx' = [tx EXCEPT ![w] = new]
  BY <1>1, <1>2, <1>3
<1>5. new \in TxType
  BY DEF TxType, Stage
<1>6. /\ tx'[w] = new /\ customer' = customer
      /\ \A v \in Worker \ {w} : tx'[v] = tx[v]
  BY <1>2, <1>4 DEF OnlySession
<1>7. Rows' = Rows
  BY <1>6 DEF Rows
<1>8. c.op \in {"create", "update"} /\ c.target \in Customer
  BY CallType
<1>9. c.op = "create" =>
        /\ c.target \notin Rows
        /\ \A v \in Worker \ {w} : Busy(v) => Target(v) # c.target
  BY <1>1 DEF NewIdentity, Rows, Busy, Target
<1>10. SessionKnows(w)'
  BY <1>6, <1>7, <1>8, <1>9 DEF SessionKnows, Busy, Creating, Updating, Writing, Creates, Target
<1>11. FitsRows(w)'
  BY <1>6 DEF FitsRows, Writing
<1>12. ASSUME NEW v \in Worker \ {w}
       PROVE  TargetsApart(v, w)' /\ WritesApart(v, w)'
  BY <1>6, <1>8, <1>9 DEF TargetsApart, WritesApart, Busy, Target, Creating, Updating, Writing,
                          Creates
<1>13. new.stage # "reply"
  OBVIOUS
<1> QED
  BY <1>2, <1>4, <1>5, <1>10, <1>11, <1>12, <1>13, SessionStep

(* The lookups of the code and of the tax id.                              *)
LEMMA FindSteps ==
  ASSUME CustomersInv, NEW w \in Worker, FindCode(w) \/ FindTaxId(w)
  PROVE  CustomersInv'
<1>1. CASE FindCode(w)
  BY <1>1, CloseStep, GoStep DEF FindCode
<1>2. CASE FindTaxId(w)
  BY <1>2, CloseStep, GoStep DEF FindTaxId
<1> QED
  BY <1>1, <1>2

(* A row that is flushed keeps apart from those of others.                 *)
LEMMA FlushStep ==
  ASSUME CustomersInv, NEW w \in Worker, OnlySession, NEW row \in CustomerRow,
         tx' = [tx EXCEPT ![w] = [tx[w] EXCEPT !.written = row, !.stage = "audit"]],
         tx[w].stage \in {"insert", "update"},
         row = Payload(w)',
         \A d \in Rows \ {Target(w)} : ~Has(d, row.code, row.tax),
         \A v \in Worker \ {w} : Writing(v) =>
           /\ row.code # tx[v].written.code
           /\ ~SameTax(row.tax, tx[v].written.tax)
  PROVE  CustomersInv'
<1> DEFINE new == [stage |-> "audit", call |-> tx[w].call, loaded |-> tx[w].loaded,
                   written |-> row, answer |-> tx[w].answer]
<1>1. /\ tx[w] \in TxType /\ SessionKnows(w) /\ tx \in [Worker -> TxType]
      /\ \A v \in Worker \ {w} : TargetsApart(v, w)
      /\ tx[w].call \in Calls /\ tx[w].call.op \in {"create", "update"}
  BY Knows, CallType
<1>2. new \in TxType /\ [tx[w] EXCEPT !.written = row, !.stage = "audit"] = new
  <2> DEFINE written == [tx[w] EXCEPT !.written = row]
  <2>1. written = [stage |-> tx[w].stage, call |-> tx[w].call, loaded |-> tx[w].loaded,
                   written |-> row, answer |-> tx[w].answer]
    BY <1>1 DEF TxType
  <2> HIDE DEF written
  <2>2. [written EXCEPT !.stage = "audit"] = new
    BY <2>1
  <2>3. new \in TxType
    BY <1>1 DEF TxType, Stage
  <2> QED
    BY <2>2, <2>3 DEF written
<1>3. tx' = [tx EXCEPT ![w] = new]
  BY <1>2
<1>4. /\ tx'[w] = new /\ customer' = customer
      /\ \A v \in Worker \ {w} : tx'[v] = tx[v]
  BY <1>1, <1>3 DEF OnlySession
<1>5. /\ new.stage = "audit" /\ new.call = tx[w].call /\ new.loaded = tx[w].loaded
      /\ new.written = row
  OBVIOUS
<1> HIDE DEF new
<1>6. Rows' = Rows /\ row # None
  BY <1>4, CustomersAssumption DEF Rows
<1>7. /\ tx[w].stage = "insert" => tx[w].call.op = "create"
      /\ tx[w].stage = "update" => tx[w].call.op = "update"
  BY <1>1 DEF SessionKnows
<1>8. /\ Busy(w) /\ Busy(w)' /\ Target(w)' = Target(w)
      /\ Creating(w)' <=> Creating(w)
      /\ Updating(w)' <=> Updating(w)
      /\ Writing(w)'
  BY <1>1, <1>4, <1>5, <1>7 DEF Busy, Target, Creating, Updating, Writing, Creates
<1>9. SessionKnows(w)'
  BY <1>1, <1>4, <1>5, <1>6, <1>7, <1>8 DEF SessionKnows
<1>10. FitsRows(w)'
  BY <1>4, <1>5, <1>6, <1>8 DEF FitsRows, Has
<1>11. ASSUME NEW v \in Worker \ {w}
       PROVE  TargetsApart(v, w)' /\ WritesApart(v, w)'
  <2>1. /\ Busy(v)' <=> Busy(v)
        /\ Target(v)' = Target(v)
        /\ Creating(v)' <=> Creating(v)
        /\ Updating(v)' <=> Updating(v)
        /\ Writing(v)' <=> Writing(v)
        /\ tx'[v] = tx[v]
    BY <1>4 DEF Busy, Target, Creating, Updating, Writing, Creates
  <2>2. TargetsApart(v, w)'
    <3>1. TargetsApart(v, w) /\ tx[w].stage # "load"
      BY <1>1
    <3> QED
      BY <1>8, <2>1, <3>1 DEF TargetsApart
  <2>3. WritesApart(v, w)'
    BY <1>4, <1>5, <2>1 DEF WritesApart, SameTax
  <2> QED
    BY <2>2, <2>3
<1> QED
  BY <1>2, <1>3, <1>5, <1>9, <1>10, <1>11, SessionStep

(* Who writes has a row.                                                   *)
LEMMA Written ==
  ASSUME CustomersInv, NEW v \in Worker, Writing(v)
  PROVE  tx[v].written # None /\ tx[v].written \in CustomerRow
BY Knows DEF SessionKnows, TxType

(* The insert of a create: the unique constraints have let it through.     *)
LEMMA InsertStep ==
  ASSUME CustomersInv, NEW w \in Worker, Insert(w)
  PROVE  CustomersInv'
<1> DEFINE c == tx[w].call
           row == [code |-> c.code, tax |-> c.tax, active |-> TRUE, updater |-> c.actor]
<1>1. tx[w].stage = "insert" /\ OnlySession
  BY DEF Insert
<1>2. CASE Close(w)
  BY <1>1, <1>2, CloseStep
<1>3. CASE ~Close(w)
  <2>1. /\ ~Awaited(w, c.code, c.tax) /\ ~Taken(c.target, c.code, c.tax)
        /\ tx' = [tx EXCEPT ![w].written = row, ![w].stage = "audit"]
    BY <1>3 DEF Insert
  <2>2. c \in Calls /\ c.op = "create" /\ c.code \in Code /\ c.tax \in TaxId \cup {None}
        /\ c.actor \in Actor
    BY <1>1, Knows, CallType DEF SessionKnows
  <2>3. row \in CustomerRow
    BY <2>2 DEF CustomerRow
  <2>4. tx' = [tx EXCEPT ![w] = [tx[w] EXCEPT !.written = row, !.stage = "audit"]]
    BY <2>1, Knows
  <2>5. row = Payload(w)'
    <3>1. tx[w] \in TxType /\ tx \in [Worker -> TxType]
      BY Knows
    <3>2. tx'[w].written = row /\ tx'[w].call = c
      BY <2>4, <3>1 DEF TxType
    <3> QED
      BY <2>2, <3>2 DEF Payload
  <2>6. \A d \in Rows \ {Target(w)} : ~Has(d, row.code, row.tax)
    BY <2>1 DEF Taken, Target
  <2>7. ASSUME NEW v \in Worker \ {w}, Writing(v)
        PROVE  row.code # tx[v].written.code /\ ~SameTax(row.tax, tx[v].written.tax)
    <3>1. tx[v].written # None
      BY <2>7, Written
    <3> QED
      BY <2>1, <3>1 DEF Awaited, SameTax
  <2> HIDE DEF row
  <2> QED
    BY <1>1, <2>3, <2>4, <2>5, <2>6, <2>7, FlushStep
<1> QED
  BY <1>2, <1>3

(* An update that takes the lock of its row and loads it, or answers with  *)
(* the row when there is nothing to change.                                *)
LEMMA LoadStep ==
  ASSUME CustomersInv, NEW w \in Worker, Load(w)
  PROVE  CustomersInv'
<1> DEFINE c == tx[w].call
           row == customer[c.target]
<1>1. /\ tx[w] \in TxType /\ tx \in [Worker -> TxType] /\ OnlySession
      /\ tx[w].stage = "load" /\ c.op = "update" /\ c \in Calls /\ c.target \in Customer
      /\ tx[w].written = None
      /\ \A v \in Worker \ {w} : TargetsApart(v, w)
  BY Knows, CallType DEF Load, SessionKnows, Writing
<1>2. CASE row = None
  BY <1>1, <1>2, CloseStep DEF Load
<1>3. CASE row # None
  <2>1. row \in CustomerRow /\ c.target \in Rows
    BY <1>1, <1>3 DEF CustomersInv, Tables, Rows
  <2>2. Len(trail) \in Nat
    BY DEF CustomersInv, Tables
  <2>3. customer' = customer /\ trail' = trail /\ Rows' = Rows
    BY <1>1 DEF OnlySession, Rows
  <2>4. \A v \in Worker \ {w} : Busy(v) /\ Target(v) = c.target => ~Creating(v)
    BY <2>1, Knows DEF SessionKnows, Target
  <2>5. CASE DOMAIN c.set = {}
    <3> DEFINE answer == [row |-> row, since |-> Len(trail)]
               new == [stage |-> "reply", call |-> c, loaded |-> tx[w].loaded,
                       written |-> None, answer |-> answer]
    <3>1. answer \in Answer /\ answer.row = row /\ answer.since = Len(trail)
      BY <2>1, <2>2 DEF Answer
    <3> HIDE DEF answer
    <3>2. new \in TxType
      BY <1>1, <3>1 DEF TxType, Stage
    <3>3. tx' = [tx EXCEPT ![w].stage = "reply", ![w].answer = answer]
      BY <1>3, <2>5 DEF Load, answer
    <3>4. [[tx[w] EXCEPT !.stage = "reply"] EXCEPT !.answer = answer] = new
      <4> DEFINE mid == [tx[w] EXCEPT !.stage = "reply"]
      <4>1. mid = [stage |-> "reply", call |-> c, loaded |-> tx[w].loaded, written |-> None,
                   answer |-> tx[w].answer]
        BY <1>1 DEF TxType
      <4> HIDE DEF mid
      <4>2. [mid EXCEPT !.answer = answer] = new
        BY <4>1
      <4> QED
        BY <4>2 DEF mid
    <3>5. tx' = [tx EXCEPT ![w] = new]
      BY <1>1, <3>3, <3>4
    <3>6. /\ tx'[w] = new /\ \A v \in Worker \ {w} : tx'[v] = tx[v]
      BY <1>1, <3>5
    <3>7. /\ new.stage = "reply" /\ new.call = c /\ new.written = None /\ new.answer = answer
      OBVIOUS
    <3> HIDE DEF new
    <3>8. SessionKnows(w)'
      BY <1>1, <2>1, <2>2, <2>3, <3>1, <3>6, <3>7
         DEF SessionKnows, Busy, Creating, Updating, Writing, Target
    <3>9. FitsRows(w)' /\ \A v \in Worker \ {w} : WritesApart(v, w)'
      BY <3>6, <3>7 DEF FitsRows, Writing, WritesApart
    <3>10. ASSUME NEW v \in Worker \ {w} PROVE TargetsApart(v, w)'
      <4>1. Busy(v) /\ Target(v) = c.target => ~Creating(v)
        BY <2>4
      <4> QED
        BY <3>6, <3>7, <4>1 DEF TargetsApart, Busy, Target, Creating, Updating, Creates
    <3>11. AnswerTells(w)'
      <4>1. PICK i \in About(c.target) :
              (\A j \in About(c.target) : j <= i) /\ trail[i].row = row
        BY <2>1, LastRecord
      <4>2. \A x : About(x)' = About(x)
        BY <2>3 DEF About
      <4>3. tx'[w].call.target = c.target /\ tx'[w].answer.row = row
        BY <3>1, <3>6, <3>7
      <4>4. AnswerTells(w)' <=>
              \E k \in About(c.target) : /\ trail[k].row = row
                                         /\ \A j \in About(c.target) :
                                              j <= tx'[w].answer.since => j <= k
        BY <2>3, <4>2, <4>3 DEF AnswerTells
      <4> QED
        BY <4>1, <4>4
    <3> QED
      BY <1>1, <3>2, <3>5, <3>8, <3>9, <3>10, <3>11, SessionStep
  <2>6. CASE DOMAIN c.set # {}
    <3> DEFINE new == [stage |-> "tax", call |-> c, loaded |-> row, written |-> None,
                       answer |-> tx[w].answer]
    <3>1. tx' = [tx EXCEPT ![w].stage = "tax", ![w].loaded = row]
      BY <1>3, <2>6 DEF Load
    <3>2. new \in TxType
      BY <1>1, <2>1 DEF TxType, Stage
    <3>3. [[tx[w] EXCEPT !.stage = "tax"] EXCEPT !.loaded = row] = new
      <4> DEFINE mid == [tx[w] EXCEPT !.stage = "tax"]
      <4>1. mid = [stage |-> "tax", call |-> c, loaded |-> tx[w].loaded, written |-> None,
                   answer |-> tx[w].answer]
        BY <1>1 DEF TxType
      <4> HIDE DEF mid
      <4>2. [mid EXCEPT !.loaded = row] = new
        BY <4>1
      <4> QED
        BY <4>2 DEF mid
    <3>4. tx' = [tx EXCEPT ![w] = new]
      BY <1>1, <3>1, <3>3
    <3>5. /\ tx'[w] = new /\ \A v \in Worker \ {w} : tx'[v] = tx[v]
      BY <1>1, <3>4
    <3>6. /\ new.stage = "tax" /\ new.call = c /\ new.written = None /\ new.loaded = row
      OBVIOUS
    <3> HIDE DEF new
    <3>7. SessionKnows(w)'
      BY <1>1, <2>1, <2>3, <3>5, <3>6
         DEF SessionKnows, Busy, Creating, Updating, Writing, Target, Creates
    <3>8. FitsRows(w)' /\ \A v \in Worker \ {w} : WritesApart(v, w)'
      BY <3>5, <3>6 DEF FitsRows, Writing, WritesApart
    <3>9. ASSUME NEW v \in Worker \ {w} PROVE TargetsApart(v, w)'
      <4>1. Busy(v) /\ Target(v) = c.target => ~Creating(v)
        BY <2>4
      <4>2. ~(Updating(v) /\ Target(v) = c.target)
        BY <1>3 DEF Load, Lockable, Updating, Target
      <4> QED
        BY <1>1, <3>5, <3>6, <4>1, <4>2
           DEF TargetsApart, Busy, Target, Creating, Updating, Creates
    <3> QED
      BY <1>1, <3>2, <3>4, <3>6, <3>7, <3>8, <3>9, SessionStep
  <2> QED
    BY <2>5, <2>6
<1> QED
  BY <1>2, <1>3

(* The flush of an update: the columns that differ, and the unique         *)
(* constraints for a tax id that does.                                     *)
LEMMA UpdateStep ==
  ASSUME CustomersInv, NEW w \in Worker, Update(w)
  PROVE  CustomersInv'
<1> DEFINE c == tx[w].call
           old == tx[w].loaded
           row == NewRow(c, old)
           tax == IF "tax" \in Changed(c, old) THEN row.tax ELSE None
<1>1. /\ tx[w] \in TxType /\ tx \in [Worker -> TxType] /\ OnlySession
      /\ tx[w].stage = "update" /\ c.op = "update" /\ c \in Calls
      /\ Target(w) \in Rows /\ old = customer[Target(w)]
  BY Knows, CallType DEF Update, SessionKnows, Updating
<1>2. old \in CustomerRow
  BY <1>1 DEF CustomersInv, Tables, Rows
<1>3. LET new == Overlay(customer[c.target], [f \in Changed(c, old) |-> Wanted(c)[f]])
          asked == IF "tax" \in Changed(c, old) THEN new.tax ELSE None
      IN \/ new.active = None /\ Close(w)
         \/ /\ new.active # None
            /\ ~Awaited(w, None, asked)
            /\ IF Taken(c.target, None, asked)
                 THEN Close(w)
                 ELSE tx' = [tx EXCEPT ![w].written = new, ![w].stage = "audit"]
  BY Zenon DEF Update, Changed, Wanted
<1>4. \/ Close(w)
      \/ /\ row.active # None
         /\ ~Awaited(w, None, tax)
         /\ ~Taken(c.target, None, tax)
         /\ tx' = [tx EXCEPT ![w].written = row, ![w].stage = "audit"]
  BY <1>1, <1>3 DEF NewRow, Target
<1>5. CASE Close(w)
  BY <1>1, <1>5, CloseStep
<1>6. CASE ~Close(w)
  <2>1. /\ row = Overlay([old EXCEPT !.updater = c.actor], c.set)
        /\ row.code = old.code
        /\ "tax" \notin Changed(c, old) => row.tax = old.tax
        /\ row \in CustomerRow
    BY <1>1, <1>2, <1>4, <1>6, UpdatedRow
  <2>2. tx' = [tx EXCEPT ![w] = [tx[w] EXCEPT !.written = row, !.stage = "audit"]]
    BY <1>1, <1>4, <1>6
  <2>3. row = Payload(w)'
    <3>1. tx'[w].call = c /\ tx'[w].loaded = old
      BY <1>1, <2>2 DEF TxType
    <3> HIDE DEF row, c, old
    <3> QED
      BY <1>1, <2>1, <3>1 DEF Payload, c
  <2>4. ~Awaited(w, None, tax) /\ ~Taken(Target(w), None, tax)
    BY <1>4, <1>6 DEF Target
  <2> HIDE DEF row
  <2>5. \A d \in Rows \ {Target(w)} : ~Has(d, row.code, row.tax)
    <3>1. \A d \in Rows \ {Target(w)} : ~Has(d, old.code, old.tax)
      BY <1>1 DEF CustomersInv, RowsApart
    <3>2. \A d \in Rows \ {Target(w)} : ~Has(d, None, tax)
      BY <2>4 DEF Taken
    <3> QED
      BY <2>1, <3>1, <3>2 DEF Has
  <2>6. ASSUME NEW v \in Worker \ {w}, Writing(v)
        PROVE  row.code # tx[v].written.code /\ ~SameTax(row.tax, tx[v].written.tax)
    <3>1. tx[v].written # None
      BY <2>6, Written
    <3>2. Target(v) # Target(w)
      <4>1. TargetsApart(v, w) /\ SessionKnows(v) /\ tx[v].call \in Calls
        BY <2>6, Knows DEF SessionKnows, Busy, Writing
      <4>2. Creating(v) \/ Updating(v)
        BY <2>6, <4>1, CallType DEF Writing, Creating, Updating, Creates
      <4>3. Updating(w) /\ Busy(w) /\ Busy(v)
        BY <1>1, <2>6 DEF Updating, Busy, Writing
      <4> QED
        BY <1>1, <4>1, <4>2, <4>3 DEF TargetsApart, SessionKnows
    <3>3. ~Has(Target(w), tx[v].written.code, tx[v].written.tax)
      BY <1>1, <2>6, <3>2, Knows DEF FitsRows
    <3>4. CASE "tax" \in Changed(c, old)
      BY <1>1, <2>1, <2>4, <3>1, <3>3, <3>4 DEF Awaited, SameTax, Has
    <3>5. CASE "tax" \notin Changed(c, old)
      BY <1>1, <2>1, <3>3, <3>5 DEF SameTax, Has
    <3> QED
      BY <3>4, <3>5
  <2> QED
    BY <1>1, <2>1, <2>2, <2>3, <2>5, <2>6, FlushStep
<1> QED
  BY <1>5, <1>6

(* The append waits for its lock, a victim is rolled back, an answer is    *)
(* delivered, a call is cut off.                                           *)
LEMMA EndSteps ==
  ASSUME CustomersInv, NEW w \in Worker,
         AppendAudit(w) \/ DeadlockVictim(w) \/ Deliver(w) \/ CutOff(w)
  PROVE  CustomersInv'
<1>1. CASE AppendAudit(w)
  BY <1>1, GoStep DEF AppendAudit
<1>2. CASE DeadlockVictim(w) \/ Deliver(w) \/ CutOff(w)
  BY <1>2, CloseStep DEF DeadlockVictim, Deliver, CutOff
<1> QED
  BY <1>1, <1>2

(* The row is read once more, for the answer.                              *)
LEMMA RefreshStep ==
  ASSUME CustomersInv, NEW w \in Worker, Refresh(w)
  PROVE  CustomersInv'
<1> DEFINE c == tx[w].call
           row == customer[c.target]
           answer == [row |-> row, since |-> tx[w].answer.since]
           new == [stage |-> "reply", call |-> c, loaded |-> tx[w].loaded,
                   written |-> None, answer |-> answer]
<1>1. /\ tx[w] \in TxType /\ tx \in [Worker -> TxType] /\ OnlySession
      /\ tx[w].stage = "refresh" /\ c \in Calls /\ c.target \in Rows
      /\ tx[w].written = None
      /\ tx[w].answer \in Answer /\ tx[w].answer.since <= Len(trail)
      /\ \A v \in Worker \ {w} : TargetsApart(v, w)
      /\ tx' = [tx EXCEPT ![w].stage = "reply", ![w].answer.row = row]
  BY Knows, CallType DEF Refresh, SessionKnows, Writing, Busy, Target
<1>2. row \in CustomerRow
  BY <1>1 DEF CustomersInv, Tables, Rows
<1>3. [[tx[w] EXCEPT !.stage = "reply"] EXCEPT !.answer = [@ EXCEPT !.row = row]] = new
  <2> DEFINE mid == [tx[w] EXCEPT !.stage = "reply"]
  <2>1. mid = [stage |-> "reply", call |-> c, loaded |-> tx[w].loaded, written |-> None,
               answer |-> tx[w].answer]
    BY <1>1 DEF TxType
  <2>2. [tx[w].answer EXCEPT !.row = row] = answer
    BY <1>1 DEF Answer
  <2> HIDE DEF mid, answer
  <2>3. [mid EXCEPT !.answer = answer] = new
    BY <2>1
  <2>4. mid.answer = tx[w].answer
    BY <2>1
  <2> QED
    BY <2>2, <2>3, <2>4 DEF mid
<1>4. tx' = [tx EXCEPT ![w] = new]
  BY <1>1, <1>3
<1>5. answer \in Answer /\ answer.row = row /\ answer.since = tx[w].answer.since
  BY <1>1, <1>2 DEF Answer
<1> HIDE DEF answer
<1>6. new \in TxType
  BY <1>1, <1>5 DEF TxType, Stage
<1>7. tx'[w] = new /\ \A v \in Worker \ {w} : tx'[v] = tx[v]
  BY <1>1, <1>4
<1>8. customer' = customer /\ trail' = trail /\ Rows' = Rows
  BY <1>1 DEF OnlySession, Rows
<1>9. new.stage = "reply" /\ new.call = c /\ new.written = None /\ new.answer = answer
  OBVIOUS
<1> HIDE DEF new
<1>10. SessionKnows(w)'
  <2>1. /\ tx'[w].stage = "reply" /\ tx'[w].call = c /\ tx'[w].written = None
        /\ tx'[w].answer = answer
    BY <1>7, <1>9
  <2>2. Target(w)' \in Rows'
    BY <1>1, <1>8, <2>1 DEF Target
  <2>3. tx'[w].answer \in Answer /\ tx'[w].answer.since <= Len(trail')
    BY <1>1, <1>5, <1>8, <2>1
  <2> QED
    BY <1>1, <2>1, <2>2, <2>3 DEF SessionKnows, Busy, Creating, Updating, Writing
<1>11. FitsRows(w)' /\ \A v \in Worker \ {w} : WritesApart(v, w)'
  BY <1>7, <1>9 DEF FitsRows, Writing, WritesApart
<1>12. ASSUME NEW v \in Worker \ {w} PROVE TargetsApart(v, w)'
  <2>1. Busy(w) /\ TargetsApart(v, w) /\ tx[w].stage # "load"
    BY <1>1 DEF Busy
  <2>2. tx'[v] = tx[v] /\ tx'[w].call = tx[w].call /\ tx'[w].stage = "reply"
    BY <1>7, <1>9
  <2>3. (Busy(v) /\ Target(v) = Target(w)) => ~Creating(v)
    BY <2>1 DEF TargetsApart
  <2> QED
    BY <2>2, <2>3 DEF TargetsApart, Busy, Target, Creating, Updating, Creates
<1>13. AnswerTells(w)'
  <2>1. PICK i \in About(c.target) :
          (\A j \in About(c.target) : j <= i) /\ trail[i].row = row
    BY <1>1, LastRecord
  <2>2. \A x : About(x)' = About(x)
    BY <1>8 DEF About
  <2>3. tx'[w].call.target = c.target /\ tx'[w].answer.row = row
    BY <1>5, <1>7, <1>9
  <2>4. AnswerTells(w)' <=>
          \E k \in About(c.target) : /\ trail[k].row = row
                                     /\ \A j \in About(c.target) :
                                          j <= tx'[w].answer.since => j <= k
    BY <1>8, <2>2, <2>3 DEF AnswerTells
  <2> QED
    BY <2>1, <2>4
<1> QED
  BY <1>1, <1>4, <1>6, <1>10, <1>11, <1>12, <1>13, SessionStep

----------------------------------------------------------------------------
(* The commit                                                              *)

(* What a commit changes: the row of one customer, which no other session  *)
(* has in hand, and one record.                                            *)
LEMMA CommitEffect ==
  ASSUME CustomersInv, NEW w \in Worker, Commit(w)
  PROVE  LET t == Target(w)
             row == tx[w].written
             n == Len(trail) + 1
         IN /\ t \in Customer /\ row \in CustomerRow
            /\ customer'[t] = row
            /\ \A c \in Customer \ {t} : customer'[c] = customer[c]
            /\ Rows' = Rows \cup {t}
            /\ customer' \in [Customer -> CustomerRow \cup {None}]
            /\ RecordOf(w) = [subject |-> t, action |-> RecordOf(w).action, row |-> row]
            /\ RecordOf(w) \in AuditRecord
            /\ IF t \in Rows THEN Tells(RecordOf(w).action, customer[t], row)
                             ELSE RecordOf(w).action = "CUSTOMER_CREATED"
            /\ trail' = Append(trail, RecordOf(w))
            /\ trail \in Seq(AuditRecord)
            /\ tx' = [tx EXCEPT ![w] = tx'[w]]
            /\ tx'[w] \in TxType
            /\ tx'[w].stage = "refresh" /\ tx'[w].call = tx[w].call /\ tx'[w].written = None
            /\ tx'[w].answer \in Answer /\ tx'[w].answer.since = n
            /\ \A v \in Worker \ {w} : tx'[v] = tx[v]
            /\ \A v \in Worker \ {w} :
                 (Busy(v) /\ Target(v) = t) => ~Creating(v) /\ ~Updating(v)
<1> DEFINE t == Target(w)
           row == tx[w].written
           n == Len(trail) + 1
           c == tx[w].call
<1>1. /\ tx[w] \in TxType /\ tx \in [Worker -> TxType] /\ SessionKnows(w)
      /\ Writing(w) /\ tx[w].stage = "commit" /\ c \in Calls
      /\ \A v \in Worker \ {w} : TargetsApart(v, w)
  BY Knows DEF Commit, Writing
<1>2. t \in Customer /\ c.op \in {"create", "update"}
  BY <1>1, CallType DEF Target
<1>3. row \in CustomerRow /\ row # None /\ row = Payload(w)
  BY <1>1, Written DEF SessionKnows
<1>4. /\ customer \in [Customer -> CustomerRow \cup {None}]
      /\ trail \in Seq(AuditRecord) /\ n \in Nat
  BY DEF CustomersInv, Tables
<1>5. customer' = [customer EXCEPT ![t] = row]
  BY DEF Commit, Target
<1>6. /\ customer'[t] = row
      /\ \A x \in Customer \ {t} : customer'[x] = customer[x]
      /\ Rows' = Rows \cup {t}
      /\ customer' \in [Customer -> CustomerRow \cup {None}]
  BY <1>2, <1>3, <1>4, <1>5 DEF Rows
<1>7. RecordOf(w) = [subject |-> t, action |-> ActionOf(c, tx[w].loaded), row |-> row]
  BY <1>3 DEF RecordOf, Target
<1>8. /\ ActionOf(c, tx[w].loaded) \in Action
      /\ IF t \in Rows THEN Tells(ActionOf(c, tx[w].loaded), customer[t], row)
                       ELSE ActionOf(c, tx[w].loaded) = "CUSTOMER_CREATED"
  <2>1. CASE c.op = "create"
    <3>1. t \notin Rows
      BY <1>1, <2>1 DEF SessionKnows, Creating, Creates
    <3> QED
      BY <2>1, <3>1 DEF ActionOf, Action
  <2>2. CASE c.op = "update"
    <3>1. t \in Rows /\ tx[w].loaded = customer[t]
      BY <1>1, <2>2 DEF SessionKnows, Updating
    <3>2. customer[t] \in CustomerRow
      BY <1>4, <3>1 DEF Rows
    <3>3. row = Overlay([customer[t] EXCEPT !.updater = c.actor], c.set)
      BY <1>3, <2>2, <3>1 DEF Payload
    <3>4. row = NewRow(c, customer[t])
      BY <1>1, <2>2, <3>2, <3>3, UpdatedRow
    <3>5. Tells(ActionOf(c, customer[t]), customer[t], row) /\ ActionOf(c, customer[t]) \in Action
      BY <1>1, <1>3, <2>2, <3>2, <3>4, UpdatedRow
    <3> QED
      BY <3>1, <3>5
  <2> QED
    BY <1>2, <2>1, <2>2
<1>9. RecordOf(w) \in AuditRecord /\ RecordOf(w).action = ActionOf(c, tx[w].loaded)
  BY <1>2, <1>3, <1>7, <1>8 DEF AuditRecord
<1>10. trail' = Append(trail, RecordOf(w))
  BY DEF Commit
<1> DEFINE answer == [row |-> None, since |-> n]
           new == [stage |-> "refresh", call |-> c, loaded |-> None, written |-> None,
                   answer |-> answer]
<1>11. [Idle EXCEPT !.stage = "refresh", !.call = c, !.answer = answer] = new
  <2> DEFINE staged == [Idle EXCEPT !.stage = "refresh"]
             called == [staged EXCEPT !.call = c]
  <2> HIDE DEF answer
  <2>1. staged = [stage |-> "refresh", call |-> None, loaded |-> None, written |-> None,
                  answer |-> None]
    BY DEF Idle
  <2> HIDE DEF staged
  <2>2. called = [stage |-> "refresh", call |-> c, loaded |-> None, written |-> None,
                  answer |-> None]
    BY <2>1
  <2> HIDE DEF called
  <2>3. [called EXCEPT !.answer = answer] = new
    BY <2>2
  <2> QED
    BY <2>3 DEF called, staged
<1>12. tx' = [tx EXCEPT ![w] = new]
  BY <1>11 DEF Commit
<1>13. answer \in Answer /\ answer.since = n
  BY <1>4 DEF Answer
<1> HIDE DEF answer
<1>14. new \in TxType
  BY <1>1, <1>13 DEF TxType, Stage
<1>15. tx'[w] = new /\ \A v \in Worker \ {w} : tx'[v] = tx[v]
  BY <1>1, <1>12
<1>16. /\ new.stage = "refresh" /\ new.call = c /\ new.written = None /\ new.answer = answer
  OBVIOUS
<1> HIDE DEF new
<1>17. ASSUME NEW v \in Worker \ {w}, Busy(v), Target(v) = t
       PROVE  ~Creating(v) /\ ~Updating(v)
  <2>1. TargetsApart(v, w) /\ Busy(w)
    BY <1>1 DEF Busy
  <2>2. Creating(w) \/ Updating(w)
    BY <1>1, <1>2 DEF Creating, Updating, Creates
  <2>3. ~Creating(v)
    BY <1>1, <1>17, <2>1 DEF TargetsApart
  <2>4. tx[v].stage = "load" => ~Updating(v)
    BY DEF Updating
  <2> QED
    BY <1>17, <2>1, <2>2, <2>3, <2>4 DEF TargetsApart
<1> QED
  BY <1>2, <1>3, <1>4, <1>6, <1>7, <1>8, <1>9, <1>10, <1>12, <1>13, <1>14, <1>15, <1>16, <1>17

(* The record of a commit is the last one of its customer, and of no other.*)
LEMMA CommitRecords ==
  ASSUME CustomersInv, NEW w \in Worker, Commit(w)
  PROVE  LET n == Len(trail) + 1 IN
         /\ n \in Nat /\ DOMAIN trail' = DOMAIN trail \cup {n}
         /\ \A i \in DOMAIN trail : i \in Nat /\ i < n /\ trail'[i] = trail[i]
         /\ trail'[n] = RecordOf(w) /\ RecordOf(w).subject = Target(w)
         /\ RecordOf(w).row = tx[w].written
         /\ \A c : About(c)' = IF c = Target(w) THEN About(c) \cup {n} ELSE About(c)
         /\ \A c : About(c) \subseteq DOMAIN trail
<1> DEFINE n == Len(trail) + 1
<1>1. trail' = Append(trail, RecordOf(w)) /\ trail \in Seq(AuditRecord)
  BY CommitEffect
<1>2. RecordOf(w).subject = Target(w) /\ RecordOf(w).row = tx[w].written
  <2>1. RecordOf(w) = [subject |-> Target(w), action |-> RecordOf(w).action,
                       row |-> tx[w].written]
    BY CommitEffect
  <2> QED
    BY <2>1
<1>3. /\ n \in Nat /\ DOMAIN trail' = DOMAIN trail \cup {n}
      /\ \A i \in DOMAIN trail : i \in Nat /\ i < n /\ trail'[i] = trail[i]
      /\ trail'[n] = RecordOf(w)
  BY <1>1
<1> HIDE DEF n
<1>4. \A c : About(c)' = IF c = Target(w) THEN About(c) \cup {n} ELSE About(c)
  BY <1>2, <1>3 DEF About
<1>5. \A c : About(c) \subseteq DOMAIN trail
  BY DEF About
<1> QED
  BY <1>2, <1>3, <1>4, <1>5 DEF n

(* What record i tells when it is about s.                                 *)
TellsAt(i, s) ==
  /\ IF {j \in About(s) : j < i} = {}
       THEN trail[i].action = "CUSTOMER_CREATED"
       ELSE Tells(trail[i].action, trail[Max({j \in About(s) : j < i})].row, trail[i].row)
  /\ {j \in About(s) : j > i} = {} => trail[i].row = customer[s]

(* RecordTells is a matter of the customer the record is about.            *)
LEMMA TellsOfSubject ==
  ASSUME NEW i
  PROVE  RecordTells(i) <=> TellsAt(i, trail[i].subject)
BY Zenon DEF RecordTells, TellsAt

(* Each record still tells the change from the one before it.              *)
LEMMA CommitTells ==
  ASSUME CustomersInv, NEW w \in Worker, Commit(w)
  PROVE  TrailTellsCustomers'
<1>0. PICK n, t, row, rec : /\ n = Len(trail) + 1 /\ t = Target(w)
                            /\ row = tx[w].written /\ rec = RecordOf(w)
  OBVIOUS
<1>1. /\ n \in Nat /\ DOMAIN trail' = DOMAIN trail \cup {n}
      /\ \A i \in DOMAIN trail : i \in Nat /\ i < n /\ trail'[i] = trail[i]
      /\ trail'[n] = rec /\ rec.subject = t /\ rec.row = row
      /\ \A c : About(c)' = IF c = t THEN About(c) \cup {n} ELSE About(c)
      /\ \A c : About(c) \subseteq DOMAIN trail
  BY <1>0, CommitRecords
<1>2. /\ t \in Customer /\ customer'[t] = row
      /\ \A c \in Customer \ {t} : customer'[c] = customer[c]
      /\ Rows' = Rows \cup {t}
      /\ IF t \in Rows THEN Tells(rec.action, customer[t], row)
                       ELSE rec.action = "CUSTOMER_CREATED"
      /\ trail \in Seq(AuditRecord)
      /\ tx'[w].stage = "refresh"
      /\ \A v \in Worker \ {w} : tx'[v] = tx[v]
  BY <1>0, CommitEffect
<1>3. /\ \A c \in Customer : About(c) # {} <=> c \in Rows
      /\ \A i \in DOMAIN trail : RecordTells(i)
      /\ \A v \in Worker : tx[v].stage = "reply" => AnswerTells(v)
  BY DEF CustomersInv, TrailTellsCustomers
<1>4. \A c \in Customer : About(c)' # {} <=> c \in Rows'
  BY <1>1, <1>2, <1>3
<1>5. ASSUME NEW i \in DOMAIN trail
      PROVE  RecordTells(i)'
  <2>0. PICK s, earlier, later : /\ s = trail[i].subject
                                 /\ earlier = {j \in About(s) : j < i}
                                 /\ later = {j \in About(s) : j > i}
    OBVIOUS
  <2>1. trail'[i] = trail[i] /\ i < n /\ i \in Nat
    BY <1>1
  <2>2. {j \in About(s)' : j < i} = earlier
    BY <1>1, <2>0, <2>1
  <2>3. earlier # {} => trail'[Max(earlier)] = trail[Max(earlier)]
    <3>1. earlier \in SUBSET Nat /\ earlier \subseteq DOMAIN trail /\ \A k \in earlier : k <= n
      BY <1>1, <2>0
    <3>2. earlier # {} => Max(earlier) \in earlier
      BY <1>1, <3>1, LastOf
    <3> QED
      BY <1>1, <3>1, <3>2
  <2>4. /\ IF earlier = {} THEN trail[i].action = "CUSTOMER_CREATED"
                           ELSE Tells(trail[i].action, trail[Max(earlier)].row, trail[i].row)
        /\ later = {} => trail[i].row = customer[s]
    <3>1. TellsAt(i, s)
      BY <1>3, <2>0, TellsOfSubject
    <3> QED
      BY <2>0, <3>1 DEF TellsAt
  <2>5. {j \in About(s)' : j > i} = {} => trail'[i].row = customer'[s]
    <3>1. CASE s = t
      <4>1. n \in {j \in About(s)' : j > i}
        BY <1>1, <2>1, <3>1
      <4> QED
        BY <4>1
    <3>2. CASE s # t
      <4>1. About(s)' = About(s)
        BY <1>1, <3>2
      <4>2. s \in Customer
        <5>1. trail[i] \in AuditRecord
          BY <1>2, <2>0
        <5> QED
          BY <2>0, <5>1 DEF AuditRecord
      <4>3. customer'[s] = customer[s]
        BY <1>2, <3>2, <4>2
      <4> QED
        BY <2>0, <2>1, <2>4, <4>1, <4>3
    <3> QED
      BY <3>1, <3>2
  <2>6. IF earlier = {} THEN trail'[i].action = "CUSTOMER_CREATED"
                        ELSE Tells(trail'[i].action, trail'[Max(earlier)].row, trail'[i].row)
    BY <2>1, <2>3, <2>4
  <2>7. TellsAt(i, s)'
    BY <2>2, <2>5, <2>6 DEF TellsAt
  <2>8. RecordTells(i)' <=> TellsAt(i, trail[i].subject)'
    BY Zenon DEF RecordTells, TellsAt
  <2> QED
    BY <2>0, <2>1, <2>7, <2>8
<1>6. RecordTells(n)'
  <2>1. {j \in About(t)' : j < n} = About(t) /\ {j \in About(t)' : j > n} = {}
    BY <1>1
  <2>2. trail'[n].subject = t /\ trail'[n].row = row /\ trail'[n].action = rec.action
    BY <1>1
  <2>3. IF About(t) = {} THEN rec.action = "CUSTOMER_CREATED"
                         ELSE Tells(rec.action, trail'[Max(About(t))].row, row)
    <3>1. CASE About(t) = {}
      BY <1>2, <1>3, <3>1
    <3>2. CASE About(t) # {}
      <4>1. t \in Rows
        BY <1>2, <1>3, <3>2
      <4>2. PICK i \in About(t) : (\A j \in About(t) : j <= i) /\ trail[i].row = customer[t]
        BY <4>1, LastRecord
      <4>3. About(t) \in SUBSET Nat /\ \A k \in About(t) : k <= n
        BY <1>1
      <4>4. Max(About(t)) \in About(t) /\ \A k \in About(t) : k <= Max(About(t))
        BY <1>1, <3>2, <4>3, LastOf
      <4>5. Max(About(t)) = i
        BY <4>2, <4>3, <4>4
      <4>6. trail'[i].row = customer[t]
        BY <1>1, <4>2
      <4> QED
        BY <1>2, <3>2, <4>1, <4>5, <4>6
    <3> QED
      BY <3>1, <3>2
  <2>4. TellsAt(n, t)'
    BY <1>2, <2>1, <2>2, <2>3 DEF TellsAt
  <2>5. RecordTells(n)' <=> TellsAt(n, trail[n].subject)'
    BY Zenon DEF RecordTells, TellsAt
  <2> QED
    BY <2>2, <2>4, <2>5
<1>7. ASSUME NEW v \in Worker, tx'[v].stage = "reply"
      PROVE  AnswerTells(v)'
  <2>1. v # w /\ tx'[v] = tx[v]
    BY <1>2, <1>7
  <2>2. SessionKnows(v) /\ AnswerTells(v)
    BY <1>3, <1>7, <2>1, Knows
  <2>3. tx[v].answer.since \in Nat /\ tx[v].answer.since < n
    <3>1. tx[v].answer.since \in Nat /\ tx[v].answer.since <= Len(trail) /\ Len(trail) \in Nat
      BY <1>2, <1>7, <2>1, <2>2 DEF SessionKnows, Answer
    <3> QED
      BY <1>0, <3>1
  <2>4. PICK i \in About(Target(v)) :
          /\ trail[i].row = tx[v].answer.row
          /\ \A j \in About(Target(v)) : j <= tx[v].answer.since => j <= i
    BY <2>2 DEF AnswerTells, Target
  <2>5. /\ i \in About(Target(v))' /\ trail'[i].row = tx[v].answer.row
        /\ \A j \in About(Target(v))' : j <= tx[v].answer.since => j <= i
    <3>1. Target(v)' = Target(v)
      BY <2>1 DEF Target
    <3>2. \/ About(Target(v))' = About(Target(v))
          \/ About(Target(v))' = About(Target(v)) \cup {n}
      BY <1>1, <3>1
    <3>3. i \in DOMAIN trail
      BY <1>1
    <3> QED
      BY <1>1, <2>3, <2>4, <3>2, <3>3
  <2> QED
    BY <2>1, <2>5 DEF AnswerTells, Target
<1> QED
  BY <1>1, <1>4, <1>5, <1>6, <1>7 DEF TrailTellsCustomers

(* A commit keeps the codes and tax ids apart, and what others know.       *)
LEMMA CommitStep ==
  ASSUME CustomersInv, NEW w \in Worker, Commit(w)
  PROVE  CustomersInv'
<1> DEFINE t == Target(w)
           row == tx[w].written
           n == Len(trail) + 1
<1>1. /\ t \in Customer /\ row \in CustomerRow
      /\ customer'[t] = row
      /\ \A c \in Customer \ {t} : customer'[c] = customer[c]
      /\ Rows' = Rows \cup {t}
      /\ customer' \in [Customer -> CustomerRow \cup {None}]
      /\ trail' = Append(trail, RecordOf(w)) /\ RecordOf(w) \in AuditRecord
      /\ trail \in Seq(AuditRecord)
  BY CommitEffect
<1>2. /\ tx'[w] \in TxType
      /\ tx'[w].stage = "refresh" /\ tx'[w].call = tx[w].call /\ tx'[w].written = None
      /\ tx'[w].answer \in Answer /\ tx'[w].answer.since = n
  BY CommitEffect
<1>3. tx' = [tx EXCEPT ![w] = tx'[w]]
  BY CommitEffect
<1>4. /\ \A v \in Worker \ {w} : tx'[v] = tx[v]
      /\ \A v \in Worker \ {w} :
           (Busy(v) /\ Target(v) = t) => ~Creating(v) /\ ~Updating(v)
  BY CommitEffect
<1>5. tx \in [Worker -> TxType] /\ Writing(w) /\ tx[w].call \in Calls /\ Busy(w)
  BY Knows DEF Commit, Writing, Busy
<1>6. FitsRows(w) /\ RowsApart /\ IsFiniteSet(Rows)
  BY Knows DEF CustomersInv, Tables
<1>7. Len(trail') = n /\ n = Len(trail) + 1 /\ Len(trail) \in Nat /\ trail' \in Seq(AuditRecord)
  BY <1>1
<1>8. Target(w)' = t
  BY <1>2 DEF Target
<1> HIDE DEF t, row, n
<1>9. Tables'
  <2>1. tx' \in [Worker -> TxType]
    BY <1>2, <1>3, <1>5
  <2>2. IsFiniteSet(Rows')
    BY <1>1, <1>6, FS_AddElement
  <2> QED
    BY <1>1, <1>7, <2>1, <2>2 DEF Tables
<1>10. \A d \in Rows \ {t} : ~Has(d, row.code, row.tax)
  BY <1>5, <1>6 DEF FitsRows, t, row
<1>11. RowsApart'
  BY <1>1, <1>6, <1>10 DEF RowsApart, Has, Rows
<1>12. SessionKnows(w)' /\ FitsRows(w)'
  <2>1. tx'[w].answer.since <= Len(trail')
    BY <1>2, <1>7
  <2>2. Target(w)' \in Rows'
    BY <1>1, <1>8
  <2> QED
    BY <1>2, <1>5, <2>1, <2>2
       DEF SessionKnows, FitsRows, Busy, Creating, Updating, Writing
<1>13. ASSUME NEW v \in Worker \ {w}
       PROVE  /\ SessionKnows(v)' /\ FitsRows(v)'
              /\ TargetsApart(v, w)' /\ WritesApart(v, w)'
              /\ TargetsApart(w, v)' /\ WritesApart(w, v)'
  <2>1. /\ SessionKnows(v) /\ FitsRows(v) /\ WritesApart(v, w) /\ tx'[v] = tx[v]
        /\ (Busy(v) /\ Target(v) = t) => ~Creating(v) /\ ~Updating(v)
        /\ tx[v] \in TxType
    BY <1>4, Knows
  <2>2. /\ Busy(v)' <=> Busy(v)
        /\ Target(v)' = Target(v)
        /\ Creating(v)' <=> Creating(v)
        /\ Updating(v)' <=> Updating(v)
        /\ Writing(v)' <=> Writing(v)
        /\ Payload(v)' = Payload(v)
        /\ Creating(v) => Busy(v)
        /\ Updating(v) => Busy(v)
    BY <2>1 DEF Busy, Target, Creating, Updating, Writing, Creates, Payload
  <2>3. SessionKnows(v)'
    <3>1. Creating(v) => Target(v) \notin Rows'
      BY <1>1, <2>1, <2>2 DEF SessionKnows
    <3>2. Updating(v) => Target(v) \in Rows' /\ tx[v].loaded = customer'[Target(v)]
      BY <1>1, <2>1, <2>2 DEF SessionKnows, Rows
    <3>3. tx[v].stage \in {"refresh", "reply"} =>
            Target(v) \in Rows' /\ tx[v].answer.since <= Len(trail')
      BY <1>1, <1>7, <2>1 DEF SessionKnows, Answer
    <3> QED
      BY <2>1, <2>2, <3>1, <3>2, <3>3 DEF SessionKnows, Idle
  <2>4. FitsRows(v)'
    <3>1. ASSUME Writing(v), NEW d \in Rows' \ {Target(v)}
          PROVE  ~Has(d, tx[v].written.code, tx[v].written.tax)'
      <4>1. CASE d = t
        <5>1. tx[v].written.code # row.code /\ ~SameTax(tx[v].written.tax, row.tax)
          BY <1>5, <2>1, <3>1 DEF WritesApart, row
        <5> QED
          BY <1>1, <2>1, <4>1, <5>1 DEF Has, SameTax
      <4>2. CASE d # t
        <5>1. d \in Rows \ {Target(v)} /\ customer'[d] = customer[d]
          BY <1>1, <3>1, <4>2 DEF Rows
        <5> QED
          BY <2>1, <3>1, <5>1 DEF FitsRows, Has
      <4> QED
        BY <4>1, <4>2
    <3> QED
      BY <2>1, <2>2, <3>1 DEF FitsRows, Has
  <2>5. TargetsApart(v, w)' /\ TargetsApart(w, v)'
    BY <1>2, <1>8, <2>1, <2>2 DEF TargetsApart, Creating, Updating
  <2>6. WritesApart(v, w)' /\ WritesApart(w, v)'
    BY <1>2 DEF WritesApart, Writing
  <2> QED
    BY <2>3, <2>4, <2>5, <2>6
<1>14. ASSUME NEW u \in Worker, NEW v \in Worker, u # v
       PROVE  TargetsApart(u, v)' /\ WritesApart(u, v)'
  <2>1. CASE u = w \/ v = w
    BY <1>13, <1>14, <2>1
  <2>2. CASE u # w /\ v # w
    <3>1. TargetsApart(u, v) /\ WritesApart(u, v) /\ tx'[u] = tx[u] /\ tx'[v] = tx[v]
      BY <1>4, <1>14, <2>2 DEF CustomersInv
    <3> QED
      BY <3>1 DEF TargetsApart, WritesApart, Busy, Target, Creating, Updating, Writing, Creates
  <2> QED
    BY <2>1, <2>2
<1> QED
  BY <1>9, <1>11, <1>12, <1>13, <1>14, CommitTells DEF CustomersInv

----------------------------------------------------------------------------
(* A listing reads.                                                        *)
LEMMA QuietStep ==
  ASSUME CustomersInv, UNCHANGED <<customer, trail, tx>>
  PROVE  CustomersInv'
<1>1. customer' = customer /\ trail' = trail /\ tx' = tx
  OBVIOUS
<1>2. Rows' = Rows /\ \A c : About(c)' = About(c)
  BY <1>1 DEF Rows, About
<1>3. TrailTellsCustomers'
  BY <1>1, <1>2 DEF CustomersInv, TrailTellsCustomers, RecordTells, AnswerTells
<1>4. Tables' /\ RowsApart'
  BY <1>1, <1>2 DEF CustomersInv, Tables, RowsApart, Has
<1>5. ASSUME NEW w \in Worker PROVE SessionKnows(w)' /\ FitsRows(w)'
  <2>1. SessionKnows(w) /\ FitsRows(w)
    BY Knows
  <2> QED
    BY <1>1, <1>2, <2>1 DEF SessionKnows, FitsRows, Busy, Creating, Updating, Writing, Payload,
                            Target, Creates, Idle, Has
<1>6. ASSUME NEW v \in Worker, NEW w \in Worker, v # w
      PROVE  TargetsApart(v, w)' /\ WritesApart(v, w)'
  <2>1. TargetsApart(v, w) /\ WritesApart(v, w)
    BY <1>6 DEF CustomersInv
  <2> QED
    BY <1>1, <2>1 DEF TargetsApart, WritesApart, Busy, Target, Creating, Updating, Writing,
                      Creates
<1> QED
  BY <1>3, <1>4, <1>5, <1>6 DEF CustomersInv

(* Every step keeps what the sessions know.                                *)
LEMMA CustomersStep ==
  ASSUME CustomersInv, [Next]_vars
  PROVE  CustomersInv'
<1>1. ASSUME NEW w \in Worker,
             \/ Begin(w) \/ FindCode(w) \/ FindTaxId(w) \/ Insert(w) \/ Load(w) \/ Update(w)
             \/ AppendAudit(w) \/ DeadlockVictim(w) \/ Commit(w) \/ Refresh(w)
             \/ Deliver(w) \/ CutOff(w)
      PROVE  CustomersInv'
  BY <1>1, BeginStep, FindSteps, InsertStep, LoadStep, UpdateStep, EndSteps, CommitStep,
     RefreshStep
<1>2. CASE ReadPage
  BY <1>2, QuietStep DEF ReadPage
<1>3. CASE UNCHANGED vars
  BY <1>3, QuietStep DEF vars
<1> QED
  BY <1>1, <1>2, <1>3 DEF Next

(* What sessions know of the customers, of the locks and of the trail, at  *)
(* every statement, however their calls interleave and are cut off.        *)
THEOREM CustomersInvariant == Spec => []CustomersInv
<1>1. Init => CustomersInv
  <2> SUFFICES ASSUME Init PROVE CustomersInv
    OBVIOUS
  <2>1. Rows = {} /\ trail = <<>> /\ \A w \in Worker : tx[w] = Idle
    BY DEF Init, Rows
  <2>2. \A c : About(c) = {}
    BY <2>1 DEF About
  <2>3. Tables
    BY <2>1, IdleType, FS_EmptySet DEF Init, Tables
  <2>4. RowsApart /\ TrailTellsCustomers
    BY <2>1, <2>2, IdleType DEF RowsApart, TrailTellsCustomers
  <2>5. \A w \in Worker : SessionKnows(w) /\ FitsRows(w)
    BY <2>1, IdleType DEF SessionKnows, FitsRows, Busy, Creating, Updating, Writing
  <2>6. \A v, w \in Worker : v # w => TargetsApart(v, w) /\ WritesApart(v, w)
    BY <2>1, IdleType DEF TargetsApart, WritesApart, Busy, Writing
  <2> QED
    BY <2>3, <2>4, <2>5, <2>6 DEF CustomersInv
<1>2. CustomersInv /\ [Next]_vars => CustomersInv'
  BY CustomersStep
<1> QED
  BY <1>1, <1>2, PTL DEF Spec

(* The trail of a customer begins with its creation and each record tells  *)
(* the change since the one before it, the last has the row as it is, and  *)
(* no answer is older than what its call recorded.                         *)
THEOREM TrailTells == Spec => []TrailTellsCustomers
<1>1. CustomersInv => TrailTellsCustomers
  BY DEF CustomersInv
<1> QED
  BY <1>1, CustomersInvariant, PTL

----------------------------------------------------------------------------
(* Listing page by page                                                    *)

Increasing(s) == \A i, j \in DOMAIN s : i < j => Before(s[i], s[j])

(* Codes are unique, so that Before orders any set of customers.           *)
LEMMA CodesApart ==
  ASSUME CustomersInv
  PROVE  /\ IsFiniteSet(Rows)
         /\ \A c \in Rows : customer[c].code \in Nat
         /\ \A c, d \in Rows : c # d => customer[c].code # customer[d].code
<1>1. \A c \in Rows : customer[c] \in CustomerRow
  BY DEF CustomersInv, Tables, Rows
<1>2. \A c \in Rows : customer[c].code \in Nat
  BY <1>1, CustomersAssumption DEF CustomerRow
<1> QED
  BY <1>2 DEF CustomersInv, Tables, RowsApart, Has

(* Customers can be ordered by their codes: each takes the place after     *)
(* those that come before it.                                              *)
LEMMA OrderExists ==
  ASSUME CustomersInv, NEW S \in SUBSET Rows
  PROVE  \E s \in [1..Cardinality(S) -> S] : Increasing(s)
<1> DEFINE n == Cardinality(S)
           Earlier(c) == {d \in S : Before(d, c)}
           p == [c \in S |-> Cardinality(Earlier(c)) + 1]
<1>1. IsFiniteSet(S) /\ n \in Nat
  BY CodesApart, FS_Subset, FS_CardinalityType
<1>2. ASSUME NEW c \in S
      PROVE  /\ IsFiniteSet(Earlier(c)) /\ Cardinality(Earlier(c)) \in Nat
             /\ IsFiniteSet(Earlier(c) \cup {c})
             /\ Cardinality(Earlier(c) \cup {c}) = Cardinality(Earlier(c)) + 1
  <2>1. c \notin Earlier(c)
    BY CodesApart DEF Before
  <2>2. IsFiniteSet(Earlier(c))
    BY <1>1, FS_Subset
  <2> QED
    BY <2>1, <2>2, FS_AddElement, FS_CardinalityType
<1>3. ASSUME NEW c \in S
      PROVE  p[c] \in 1..n
  <2>1. Earlier(c) \cup {c} \in SUBSET S
    OBVIOUS
  <2>2. Cardinality(Earlier(c) \cup {c}) <= n
    BY <1>1, <2>1, FS_Subset
  <2>3. p[c] = Cardinality(Earlier(c)) + 1
    OBVIOUS
  <2> HIDE DEF p, Earlier, n
  <2> QED
    BY <1>1, <1>2, <2>2, <2>3
<1>4. ASSUME NEW c \in S, NEW d \in S, Before(c, d)
      PROVE  p[c] < p[d]
  <2>1. Earlier(c) \cup {c} \in SUBSET Earlier(d)
    BY <1>4, CodesApart DEF Before
  <2>2. Cardinality(Earlier(c) \cup {c}) <= Cardinality(Earlier(d))
    BY <1>2, <2>1, FS_Subset
  <2>3. p[c] = Cardinality(Earlier(c)) + 1 /\ p[d] = Cardinality(Earlier(d)) + 1
    OBVIOUS
  <2>4. /\ Cardinality(Earlier(c)) \in Nat /\ Cardinality(Earlier(d)) \in Nat
        /\ Cardinality(Earlier(c) \cup {c}) = Cardinality(Earlier(c)) + 1
    BY <1>2
  <2> HIDE DEF p, Earlier
  <2> QED
    BY <2>2, <2>3, <2>4
<1>5. p \in [S -> 1..n]
  BY <1>3
<1> HIDE DEF p, n
<1>6. \A c, d \in S : c # d => Before(c, d) \/ Before(d, c)
  BY CodesApart DEF Before
<1>7. \A c, d \in S : p[c] = p[d] => c = d
  <2>1. \A c \in S : p[c] \in Int
    BY <1>5, <1>1
  <2> QED
    BY <1>4, <1>6, <2>1
<1>8. p \in Injection(S, 1..n)
  BY <1>5, <1>7 DEF Injection, IsInjective
<1>9. p \in Surjection(S, 1..n)
  <2>1. IsFiniteSet(1..n) /\ Cardinality(1..n) = n
    BY <1>1, FS_Interval
  <2> QED
    BY <1>8, <2>1, FS_Injection DEF n
<1>10. \A i \in 1..n : \E c \in S : p[c] = i
  BY <1>9 DEF Surjection
<1> DEFINE s == [i \in 1..n |-> CHOOSE c \in S : p[c] = i]
<1>11. \A i \in 1..n : s[i] \in S /\ p[s[i]] = i
  BY <1>10
<1>12. s \in [1..n -> S]
  BY <1>11
<1> HIDE DEF s
<1>13. ASSUME NEW i \in 1..n, NEW j \in 1..n, i < j
       PROVE  Before(s[i], s[j])
  <2>1. s[i] # s[j] /\ ~(p[s[j]] < p[s[i]])
    BY <1>1, <1>11, <1>13
  <2> QED
    BY <1>4, <1>6, <1>11, <2>1
<1>14. Increasing(s)
  BY <1>12, <1>13 DEF Increasing
<1> QED
  BY <1>12, <1>14 DEF n

(* A listing has each customer it selects at the place its code gives it.  *)
LEMMA OrderedRows ==
  ASSUME CustomersInv, NEW S \in SUBSET Rows
  PROVE  /\ Ordered(S) \in [1..Cardinality(S) -> S]
         /\ Increasing(Ordered(S))
         /\ Cardinality(S) \in Nat
<1>1. Ordered(S) = CHOOSE s \in [1..Cardinality(S) -> S] : Increasing(s)
  BY Zenon DEF Ordered, Increasing
<1> QED
  BY <1>1, OrderExists, CodesApart, FS_Subset, FS_CardinalityType

(* In a listing of all, a customer follows those that come before it.      *)
LEMMA PlaceOf ==
  ASSUME CustomersInv, NEW c \in Rows
  PROVE  /\ Rank(c) \in 0..(Cardinality(Rows) - 1)
         /\ Ordered(Rows)[Rank(c) + 1] = c
<1> DEFINE n == Cardinality(Rows)
           s == Ordered(Rows)
<1>1. s \in [1..n -> Rows] /\ n \in Nat /\ \A i, j \in 1..n : i < j => Before(s[i], s[j])
  <2>1. Rows \in SUBSET Rows
    OBVIOUS
  <2>2. s \in [1..n -> Rows] /\ n \in Nat /\ Increasing(s)
    BY <2>1, OrderedRows
  <2> QED
    BY <2>2 DEF Increasing
<1> HIDE DEF s
<1>2. IsFiniteSet(1..n) /\ Cardinality(1..n) = n /\ IsFiniteSet(Rows)
  BY <1>1, CodesApart, FS_Interval
<1>3. \A d, e \in Rows : Before(d, e) => d # e /\ ~Before(e, d)
  BY CodesApart DEF Before
<1>4. \A i, j \in 1..n : s[i] = s[j] => i = j
  BY <1>1, <1>3
<1>5. s \in Injection(1..n, Rows)
  BY <1>1, <1>4 DEF Injection, IsInjective
<1>6. s \in Surjection(1..n, Rows)
  BY <1>2, <1>5, FS_Injection
<1>7. PICK i \in 1..n : s[i] = c
  BY <1>6 DEF Surjection
<1> DEFINE f == [j \in 1..(i - 1) |-> s[j]]
<1>8. \A j \in 1..(i - 1) : f[j] \in Below(c)
  BY <1>1, <1>7 DEF Below
<1>9. \A d \in Below(c) : \E j \in 1..(i - 1) : f[j] = d
  <2> SUFFICES ASSUME NEW d \in Below(c)
               PROVE  \E j \in 1..(i - 1) : f[j] = d
    OBVIOUS
  <2>1. d \in Rows /\ Before(d, c)
    BY DEF Below
  <2>2. PICK j \in 1..n : s[j] = d
    BY <1>6, <2>1 DEF Surjection
  <2>3. j < i
    BY <1>1, <1>3, <1>7, <2>1, <2>2
  <2> QED
    BY <1>1, <2>2, <2>3
<1>10. \A j, k \in 1..(i - 1) : f[j] = f[k] => j = k
  BY <1>1, <1>4
<1>11. f \in [1..(i - 1) -> Below(c)]
  BY <1>8
<1>12. f \in Bijection(1..(i - 1), Below(c))
  BY <1>9, <1>10, <1>11 DEF Bijection, Injection, Surjection, IsInjective
<1>13. IsFiniteSet(1..(i - 1)) /\ Cardinality(1..(i - 1)) = i - 1
  <2>1. i \in Nat /\ i >= 1
    BY <1>1
  <2> QED
    BY <2>1, FS_Interval
<1> HIDE DEF f
<1>14. Cardinality(Below(c)) = i - 1
  <2>1. ExistsBijection(1..(i - 1), Below(c))
    BY <1>12 DEF ExistsBijection
  <2> QED
    BY <1>13, <2>1, FS_Bijection
<1>15. Rank(c) = i - 1 /\ i \in Nat /\ Rank(c) + 1 = i
  BY <1>1, <1>14 DEF Rank
<1>16. s[Rank(c) + 1] = c
  BY <1>7, <1>15
<1>17. Rank(c) \in 0..(n - 1)
  <2> HIDE DEF n
  <2> QED
    BY <1>1, <1>15
<1> QED
  BY <1>16, <1>17 DEF s

(* The page of a listing: it has customers there are, it is not longer     *)
(* than the limit, and of a listing of all it has everybody from one rank  *)
(* up to the next, and ends the listing when it is not full.               *)
LEMMA PageOf ==
  ASSUME CustomersInv, NEW skip \in Nat, NEW filter \in BOOLEAN \cup {None}
  PROVE  LET page == List(skip, Page, filter) IN
         /\ ToSet(page) \subseteq Rows
         /\ filter = None =>
              \A c \in Rows \ ToSet(page) :
                Rank(c) >= skip => Rank(c) >= skip + Page /\ Len(page) = Page
<1> DEFINE S == {c \in Rows : filter # None => customer[c].active = filter}
           all == Ordered(S)
           n == Cardinality(S)
           m == IF skip + Page < n THEN skip + Page ELSE n
           page == SubSeq(all, skip + 1, m)
<1>1. all \in [1..n -> S] /\ n \in Nat /\ Page \in Nat \ {0} /\ S \subseteq Rows
  BY OrderedRows, CustomersAssumption
<1>2. all \in Seq(S) /\ Len(all) = n
  BY <1>1
<1>3. List(skip, Page, filter) = page
  BY <1>2, Zenon DEF List
<1> HIDE DEF S, all, n
<1>4. m \in Nat /\ m <= n /\ \A i \in (skip + 1)..m : all[i] \in S
  BY <1>1
<1>5. /\ page \in Seq(S)
      /\ Len(page) = IF skip + 1 <= m THEN m - skip ELSE 0
      /\ \A i \in 1..(m - skip) : page[i] = all[skip + i]
  <2>1. m \in Int /\ skip + 1 \in Int
    BY <1>4
  <2>2. /\ page \in Seq(S)
        /\ Len(page) = IF skip + 1 <= m THEN m - (skip + 1) + 1 ELSE 0
        /\ \A i \in 1..(m - (skip + 1) + 1) : page[i] = all[skip + 1 + i - 1]
    BY <1>4, <2>1, SubSeqProperties
  <2>3. m - (skip + 1) + 1 = m - skip /\ \A i \in Int : skip + 1 + i - 1 = skip + i
    BY <1>4
  <2> QED
    BY <2>2, <2>3
<1>6. ToSet(page) \subseteq Rows
  BY <1>1, <1>5 DEF ToSet
<1>7. ASSUME filter = None, NEW c \in Rows \ ToSet(page), Rank(c) >= skip
      PROVE  Rank(c) >= skip + Page /\ Len(page) = Page
  <2>1. S = Rows
    BY <1>7 DEF S
  <2>2. Rank(c) \in 0..(n - 1) /\ all[Rank(c) + 1] = c
    BY <2>1, PlaceOf DEF n, all
  <2>3. CASE Rank(c) + 1 <= m
    <3>1. Rank(c) + 1 - skip \in 1..(m - skip) /\ skip + (Rank(c) + 1 - skip) = Rank(c) + 1
      BY <1>1, <1>4, <1>7, <2>2, <2>3
    <3>2. page[Rank(c) + 1 - skip] = c /\ Rank(c) + 1 - skip \in DOMAIN page
      BY <1>1, <1>4, <1>5, <2>2, <3>1
    <3> QED
      BY <1>7, <3>2 DEF ToSet
  <2>4. CASE ~(Rank(c) + 1 <= m)
    BY <1>1, <1>5, <1>7, <2>2, <2>4
  <2> QED
    BY <2>3, <2>4
<1> QED
  BY <1>3, <1>6, <1>7

(* Whoever comes before a customer still does after any step.              *)
LEMMA RanksGrow ==
  ASSUME CustomersInv, [Next]_vars
  PROVE  /\ Rows \subseteq Rows'
         /\ \A c \in Rows : Rank(c) \in Nat /\ Rank(c)' \in Nat /\ Rank(c)' >= Rank(c)
<1>1. Rows \subseteq Rows' /\ \A c \in Rows : customer'[c].code = customer[c].code
  <2>1. CASE UNCHANGED customer
    BY <2>1 DEF Rows
  <2>2. ASSUME NEW w \in Worker, Commit(w)
        PROVE  Rows \subseteq Rows' /\ \A c \in Rows : customer'[c].code = customer[c].code
    <3> DEFINE t == Target(w)
    <3>1. /\ customer'[t] = tx[w].written /\ tx[w].written \in CustomerRow
          /\ \A c \in Customer \ {t} : customer'[c] = customer[c]
          /\ Rows' = Rows \cup {t}
      BY <2>2, CommitEffect
    <3>2. ASSUME t \in Rows
          PROVE  tx[w].written.code = customer[t].code
      <4>1. /\ SessionKnows(w) /\ tx[w].call \in Calls
            /\ tx[w].stage = "commit"
        BY <2>2, Knows DEF Commit
      <4>2. tx[w].call.op = "update" /\ tx[w].loaded = customer[t] /\ tx[w].written = Payload(w)
        BY <3>2, <4>1, CallType DEF SessionKnows, Creating, Updating, Writing, Creates
      <4>3. customer[t] \in CustomerRow
        BY <3>2 DEF CustomersInv, Tables, Rows
      <4>4. tx[w].written
              = Overlay([customer[t] EXCEPT !.updater = tx[w].call.actor], tx[w].call.set)
        BY <4>2 DEF Payload
      <4> HIDE DEF t
      <4>5. /\ tx[w].written = NewRow(tx[w].call, customer[t])
            /\ NewRow(tx[w].call, customer[t]).code = customer[t].code
        BY <4>1, <4>2, <4>3, <4>4, UpdatedRow
      <4> QED
        BY <4>5
    <3> QED
      BY <3>1, <3>2 DEF Rows
  <2>3. (\E w \in Worker : Commit(w)) \/ UNCHANGED customer
    BY DEF Next, vars, Begin, FindCode, FindTaxId, Insert, Load, Update, AppendAudit,
           DeadlockVictim, Refresh, Deliver, CutOff, OnlySession, ReadPage
  <2> QED
    BY <2>1, <2>2, <2>3
<1>2. IsFiniteSet(Rows')
  BY CustomersStep, CodesApart DEF CustomersInv, Tables
<1>3. ASSUME NEW c \in Rows
      PROVE  Rank(c) \in Nat /\ Rank(c)' \in Nat /\ Rank(c)' >= Rank(c)
  <2>1. Below(c) \subseteq Below(c)'
    BY <1>1 DEF Below, Before
  <2>2. Below(c)' \subseteq Rows'
    BY DEF Below
  <2>3. /\ IsFiniteSet(Below(c)') /\ Cardinality(Below(c)) <= Cardinality(Below(c)')
        /\ IsFiniteSet(Below(c))
    BY <1>2, <2>1, <2>2, FS_Subset
  <2> QED
    BY <2>3, FS_CardinalityType DEF Rank
<1> QED
  BY <1>1, <1>3

(* The listing a page continues, and the step that reads it.               *)
Asked(filter) ==
  IF reading.done
    THEN [skip |-> 0, filter |-> filter, seen |-> {}, before |-> Rows, done |-> FALSE]
    ELSE reading

PageRead(filter) ==
  LET now == Asked(filter)
      page == List(now.skip, Page, now.filter)
  IN /\ now.filter = filter
     /\ reading' = [now EXCEPT !.skip = @ + Page, !.seen = @ \cup ToSet(page),
                               !.done = Len(page) < Page]
     /\ UNCHANGED <<customer, trail, tx>>

(* A step keeps what a listing has still to show.                          *)
LEMMA ReadingStep ==
  ASSUME CustomersInv, ReadingInv, [Next]_vars
  PROVE  ReadingInv'
<1>1. /\ reading \in [skip : Nat, filter : BOOLEAN \cup {None}, seen : SUBSET Rows,
                      before : SUBSET Rows, done : BOOLEAN]
      /\ reading.filter = None =>
           \A c \in reading.before \ reading.seen : ~reading.done /\ Rank(c) >= reading.skip
  BY DEF ReadingInv
<1>2. /\ Rows \subseteq Rows'
      /\ \A c \in Rows : Rank(c) \in Nat /\ Rank(c)' \in Nat /\ Rank(c)' >= Rank(c)
  BY RanksGrow
<1>3. CASE reading' = reading
  <2>1. reading.seen \subseteq Rows' /\ reading.before \subseteq Rows'
    BY <1>1, <1>2
  <2>2. reading' \in [skip : Nat, filter : BOOLEAN \cup {None}, seen : SUBSET Rows',
                      before : SUBSET Rows', done : BOOLEAN]
    BY <1>1, <1>3, <2>1
  <2>3. ASSUME reading.filter = None, NEW c \in reading.before \ reading.seen
        PROVE  ~reading.done /\ Rank(c)' >= reading.skip
    <3>1. Rank(c) >= reading.skip /\ ~reading.done /\ reading.skip \in Nat /\ Rank(c) \in Nat
          /\ Rank(c)' >= Rank(c)
      BY <1>1, <1>2, <2>3
    <3>2. Rank(c)' \in Nat
      BY <1>1, <2>3, RanksGrow
    <3> QED
      BY <3>1, <3>2
  <2> QED
    BY <1>3, <2>2, <2>3 DEF ReadingInv
<1>4. CASE ReadPage
  <2>1. PICK filter \in Filters : PageRead(filter)
    BY <1>4, Zenon DEF ReadPage, PageRead, Asked
  <2> DEFINE now == Asked(filter)
             page == List(now.skip, Page, now.filter)
  <2>2. /\ now \in [skip : Nat, filter : BOOLEAN \cup {None}, seen : SUBSET Rows,
                    before : SUBSET Rows, done : BOOLEAN]
        /\ now.filter = None => \A c \in now.before \ now.seen : Rank(c) >= now.skip
    <3>1. filter \in BOOLEAN \cup {None}
      BY CustomersAssumption
    <3> QED
      BY <1>1, <1>2, <3>1 DEF Asked
  <2> HIDE DEF now
  <2>3. /\ ToSet(page) \subseteq Rows
        /\ now.filter = None =>
             \A c \in Rows \ ToSet(page) :
               Rank(c) >= now.skip => Rank(c) >= now.skip + Page /\ Len(page) = Page
    BY <2>2, PageOf
  <2>4. Rows' = Rows /\ \A c : Rank(c)' = Rank(c)
    BY <2>1 DEF PageRead, Rows, Rank, Below, Before
  <2> HIDE DEF page
  <2>5. reading' = [skip |-> now.skip + Page, filter |-> now.filter,
                    seen |-> now.seen \cup ToSet(page), before |-> now.before,
                    done |-> Len(page) < Page]
    <3>1. reading' = [now EXCEPT !.skip = @ + Page, !.seen = @ \cup ToSet(page),
                                 !.done = Len(page) < Page]
      BY <2>1 DEF PageRead, now, page
    <3> QED
      BY <2>2, <3>1
  <2>6. Page \in Nat \ {0}
    BY CustomersAssumption
  <2>7. reading' \in [skip : Nat, filter : BOOLEAN \cup {None}, seen : SUBSET Rows,
                      before : SUBSET Rows, done : BOOLEAN]
    BY <2>2, <2>3, <2>5, <2>6
  <2>8. ASSUME now.filter = None, NEW c \in now.before \ (now.seen \cup ToSet(page))
        PROVE  ~(Len(page) < Page) /\ Rank(c) >= now.skip + Page
    BY <2>2, <2>3, <2>6, <2>8
  <2> QED
    BY <2>4, <2>5, <2>7, <2>8 DEF ReadingInv
<1>5. ReadPage \/ reading' = reading
  BY DEF Next, vars, Begin, FindCode, FindTaxId, Insert, Load, Update, AppendAudit,
         DeadlockVictim, Commit, Refresh, Deliver, CutOff, OnlySession
<1> QED
  BY <1>3, <1>4, <1>5

(* A listing has still to show whom it has not shown yet.                  *)
THEOREM ReadingInvariant == Spec => []ReadingInv
<1>1. Init => ReadingInv
  BY DEF Init, ReadingInv
<1>2. CustomersInv /\ ReadingInv /\ [Next]_vars => ReadingInv'
  BY ReadingStep
<1> QED
  BY <1>1, <1>2, CustomersInvariant, PTL DEF Spec

(* The customers and the sessions have their types, and no two customers   *)
(* one code or one tax id, however creates and updates interleave.         *)
THEOREM CustomersTypeOK == Spec => []TypeOK
<1>1. CustomersInv /\ ReadingInv => TypeOK
  <2> SUFFICES ASSUME CustomersInv, ReadingInv PROVE TypeOK
    OBVIOUS
  <2>1. \A c \in Rows : customer[c] \in CustomerRow
    BY DEF CustomersInv, Tables, Rows
  <2>2. \A c, d \in Rows : c # d => ~Has(c, customer[d].code, customer[d].tax)
    BY DEF CustomersInv, RowsApart
  <2>3. ASSUME NEW w \in Worker
        PROVE  /\ tx[w].stage \in Stage /\ tx[w].call \in Calls \cup {None}
               /\ tx[w].loaded \in CustomerRow \cup {None}
               /\ tx[w].written \in CustomerRow \cup {None}
               /\ tx[w].stage = "idle" <=> tx[w] = Idle
    BY Knows DEF TxType, SessionKnows, Busy, Idle
  <2>4. reading.seen \cup reading.before \subseteq Rows
    BY DEF ReadingInv
  <2> QED
    BY <2>1, <2>2, <2>3, <2>4 DEF TypeOK
<1> QED
  BY <1>1, CustomersInvariant, ReadingInvariant, PTL

(* A client that lists all customers page by page misses none of those     *)
(* there were when it began, however many are created or changed between   *)
(* two pages.                                                              *)
THEOREM PagesShowAll == Spec => []PagesMissNobody
<1>1. ReadingInv => PagesMissNobody
  BY DEF ReadingInv, PagesMissNobody
<1> QED
  BY <1>1, ReadingInvariant, PTL

=============================================================================
