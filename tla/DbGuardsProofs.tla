---------------------------- MODULE DbGuardsProofs ----------------------------
(***************************************************************************)
(* What holds of DbGuards for every set of sessions and rows.  RowsInv     *)
(* says which locks stand behind what a session has written, and that each *)
(* session sees tables whose references hold; it needs nothing of which    *)
(* statements are executed.  GuardedInv adds what the triggers keep while  *)
(* only the statements in Guarded are.                                     *)
(***************************************************************************)
EXTENDS DbGuards, TLAPS

----------------------------------------------------------------------------
(* The inductive invariants                                                *)

View(s) == [t \in Tables |-> Sees(s, t)]

Mode == {"share", "change", "all"}
Lock == [row : Entry \cup Line \cup Period, mode : Mode]

Locked(s, x) == \E k \in locks[s] : k.row = x
Alters(s, x) == \E k \in locks[s] : k.row = x /\ k.mode \in {"change", "all"}
Owns(s, x) == \E k \in locks[s] : k.row = x /\ k.mode = "all"

(* Rows of a table, or None for a row that is deleted.                     *)
Part(f, keys, rows) == DOMAIN f \subseteq keys /\ \A x \in DOMAIN f : f[x] \in rows \cup {None}

Whole(tables) ==
  /\ DOMAIN tables = Tables
  /\ tables.period \in [Period -> {"OPEN", "CLOSED"}]
  /\ tables.entry \in [Entry -> EntryRow \cup {None}]
  /\ tables.line \in [Line -> LineRow \cup {None}]
  /\ tables.posting \in [Entry \X Line -> PostingRow \cup {None}]

Parts(tables) ==
  /\ DOMAIN tables = Tables
  /\ DOMAIN tables.period \subseteq Period
  /\ \A p \in DOMAIN tables.period : tables.period[p] \in {"OPEN", "CLOSED"}
  /\ Part(tables.entry, Entry, EntryRow)
  /\ Part(tables.line, Line, LineRow)
  /\ Part(tables.posting, Entry \X Line, PostingRow)

Types ==
  /\ Whole(db)
  /\ DOMAIN work = Session
  /\ \A s \in Session : Parts(work[s])
  /\ locks \in [Session -> SUBSET Lock]
  /\ DOMAIN fired = Session
  /\ done \in [Session -> Nat]

LocksApart ==
  \A s, t \in Session : s # t => \A k \in locks[s], m \in locks[t] : ~Conflict(k, m)

(* A row is changed under a lock, and deleted or inserted under one that   *)
(* nobody shares; a new line is protected by being new.                    *)
WritesLocked(s) ==
  /\ \A e \in DOMAIN work[s].entry :
       /\ Alters(s, e)
       /\ (work[s].entry[e] = None \/ db.entry[e] = None) => Owns(s, e)
  /\ \A l \in DOMAIN work[s].line :
       db.line[l] # None => Alters(s, l) /\ (work[s].line[l] = None => Owns(s, l))
  /\ \A x \in DOMAIN work[s].posting : db.posting[x] = None /\ work[s].posting[x] # None
  /\ \A p \in DOMAIN work[s].period : Alters(s, p)

(* No two sessions write one row.                                          *)
WritesApart(s, t) ==
  \A table \in Tables : DOMAIN work[s][table] \cap DOMAIN work[t][table] = {}

(* Every reference of a row has its row.                                   *)
References(tables) ==
  /\ \A l \in RowsOf(tables.line) : tables.entry[tables.line[l].entry] # None
  /\ \A e \in RowsOf(tables.entry) :
       tables.entry[e].reversalOf # None => tables.entry[tables.entry[e].reversalOf] # None
  /\ \A x \in RowsOf(tables.posting) : tables.entry[x[1]] # None /\ tables.line[x[2]] # None

(* What a row that is written refers to is locked, unless the row referred *)
(* to it before.                                                           *)
RefersTo(s, e, of) ==
  Locked(s, of) \/ (db.entry[e] # None /\ db.entry[e].reversalOf = of)

ReferencesLocked(s) ==
  /\ \A l \in RowsOf(work[s].line) : Locked(s, work[s].line[l].entry)
  /\ \A e \in RowsOf(work[s].entry) :
       work[s].entry[e].reversalOf # None => RefersTo(s, e, work[s].entry[e].reversalOf)
  /\ \A x \in RowsOf(work[s].posting) : Locked(s, x[1]) /\ Locked(s, x[2])

RowsInv ==
  /\ Types
  /\ LocksApart
  /\ References(db)
  /\ \A s \in Session : WritesLocked(s) /\ References(View(s)) /\ ReferencesLocked(s)
  /\ \A s, t \in Session : s # t => WritesApart(s, t)

(* The statements whose triggers keep what is posted.                      *)
Guarded == {"insert", "post", "reverse", "assign", "sign", "move", "amount", "erase",
            "compose", "delete", "ledger", "close", "reopen"}

(* The lines of posted entries balance, and each ledger posting agrees     *)
(* with its line and its entry.                                            *)
KeptBalance(tables) ==
  \A e \in RowsOf(tables.entry) : Kept(tables.entry[e]) => Balanced(tables.line, e)

Agree(tables) ==
  \A x \in RowsOf(tables.posting) :
    /\ tables.line[x[2]] = [entry |-> x[1], amount |-> tables.posting[x].amount]
    /\ Kept(tables.entry[x[1]])
    /\ tables.entry[x[1]].period = tables.posting[x].period

(* A line of e.                                                            *)
Of(row, e) == row # None /\ row.entry = e

(* The lines of an entry are written by who owns the entry.                *)
LinesOwned(s) ==
  \A l \in DOMAIN work[s].line, e \in Entry :
    Of(work[s].line[l], e) \/ Of(db.line[l], e) => Owns(s, e)

(* A posted entry stays posted, and in its period.                         *)
KeptStays(s) ==
  \A e \in DOMAIN work[s].entry :
    (db.entry[e] # None /\ Kept(db.entry[e])) =>
      /\ work[s].entry[e] # None /\ Kept(work[s].entry[e])
      /\ work[s].entry[e].period = db.entry[e].period

GuardedInv ==
  /\ KeptBalance(db) /\ Agree(db)
  /\ \A s \in Session : /\ KeptBalance(View(s)) /\ Agree(View(s))
                        /\ LinesOwned(s) /\ KeptStays(s)

----------------------------------------------------------------------------
(* What a session sees                                                     *)

(* Nobody has written anything.                                            *)
LEMMA NoRows ==
  /\ DOMAIN Nothing = Tables
  /\ \A table \in Tables : DOMAIN Nothing[table] = {} /\ Nothing[table] = <<>>
<1>1. DOMAIN <<>> = {}
  OBVIOUS
<1> QED
  BY <1>1 DEF Nothing

(* Rows of a transaction, over all there are.                              *)
LaidOn(d, w) == [table \in Tables |-> Overlay(d[table], w[table])]

(* A row is the one laid over, or the one below.                           *)
LEMMA LaidOver ==
  ASSUME NEW d, NEW w, Whole(d), Parts(w)
  PROVE  /\ DOMAIN LaidOn(d, w) = Tables
         /\ LaidOn(d, w).entry \in [Entry -> EntryRow \cup {None}]
         /\ LaidOn(d, w).line \in [Line -> LineRow \cup {None}]
         /\ LaidOn(d, w).posting \in [Entry \X Line -> PostingRow \cup {None}]
         /\ LaidOn(d, w).period \in [Period -> {"OPEN", "CLOSED"}]
         /\ \A e \in Entry :
              LaidOn(d, w).entry[e]
                = IF e \in DOMAIN w.entry THEN w.entry[e] ELSE d.entry[e]
         /\ \A l \in Line :
              LaidOn(d, w).line[l]
                = IF l \in DOMAIN w.line THEN w.line[l] ELSE d.line[l]
         /\ \A x \in Entry \X Line :
              LaidOn(d, w).posting[x]
                = IF x \in DOMAIN w.posting THEN w.posting[x] ELSE d.posting[x]
         /\ \A p \in Period :
              LaidOn(d, w).period[p]
                = IF p \in DOMAIN w.period THEN w.period[p] ELSE d.period[p]
<1>1. /\ DOMAIN LaidOn(d, w) = Tables
      /\ \A table \in Tables : LaidOn(d, w)[table] = Overlay(d[table], w[table])
  BY DEF LaidOn
<1>2. /\ LaidOn(d, w).entry = Overlay(d.entry, w.entry)
      /\ LaidOn(d, w).line = Overlay(d.line, w.line)
      /\ LaidOn(d, w).posting = Overlay(d.posting, w.posting)
      /\ LaidOn(d, w).period = Overlay(d.period, w.period)
  BY DEF LaidOn, Tables
<1>3. /\ LaidOn(d, w).entry \in [Entry -> EntryRow \cup {None}]
      /\ \A e \in Entry :
           LaidOn(d, w).entry[e]
             = IF e \in DOMAIN w.entry THEN w.entry[e] ELSE d.entry[e]
  <2>1. Part(w.entry, Entry, EntryRow) /\ d.entry \in [Entry -> EntryRow \cup {None}]
    BY DEF Parts, Whole
  <2> QED
    BY <1>2, <2>1 DEF Overlay, Part
<1>4. /\ LaidOn(d, w).line \in [Line -> LineRow \cup {None}]
      /\ \A l \in Line :
           LaidOn(d, w).line[l]
             = IF l \in DOMAIN w.line THEN w.line[l] ELSE d.line[l]
  <2>1. Part(w.line, Line, LineRow) /\ d.line \in [Line -> LineRow \cup {None}]
    BY DEF Parts, Whole
  <2> QED
    BY <1>2, <2>1 DEF Overlay, Part
<1>5. /\ LaidOn(d, w).posting \in [Entry \X Line -> PostingRow \cup {None}]
      /\ \A x \in Entry \X Line :
           LaidOn(d, w).posting[x]
             = IF x \in DOMAIN w.posting THEN w.posting[x] ELSE d.posting[x]
  <2>1. /\ Part(w.posting, Entry \X Line, PostingRow)
        /\ d.posting \in [Entry \X Line -> PostingRow \cup {None}]
    BY DEF Parts, Whole
  <2> QED
    BY <1>2, <2>1 DEF Overlay, Part
<1>6. /\ LaidOn(d, w).period \in [Period -> {"OPEN", "CLOSED"}]
      /\ \A p \in Period :
           LaidOn(d, w).period[p]
             = IF p \in DOMAIN w.period THEN w.period[p] ELSE d.period[p]
  <2>1. /\ DOMAIN w.period \subseteq Period
        /\ \A p \in DOMAIN w.period : w.period[p] \in {"OPEN", "CLOSED"}
        /\ d.period \in [Period -> {"OPEN", "CLOSED"}]
    BY DEF Parts, Whole
  <2> QED
    BY <1>2, <2>1 DEF Overlay
<1> QED
  BY <1>1, <1>3, <1>4, <1>5, <1>6 DEF Tables

(* Its own rows over the committed ones.                                   *)
LEMMA Seen ==
  ASSUME Types, NEW s \in Session
  PROVE  /\ DOMAIN View(s) = Tables
         /\ \A table \in Tables : View(s)[table] = Sees(s, table)
         /\ View(s).entry = Sees(s, "entry") /\ View(s).line = Sees(s, "line")
         /\ View(s).posting = Sees(s, "posting") /\ View(s).period = Sees(s, "period")
         /\ View(s).entry \in [Entry -> EntryRow \cup {None}]
         /\ View(s).line \in [Line -> LineRow \cup {None}]
         /\ View(s).posting \in [Entry \X Line -> PostingRow \cup {None}]
         /\ View(s).period \in [Period -> {"OPEN", "CLOSED"}]
         /\ \A e \in Entry :
              View(s).entry[e]
                = IF e \in DOMAIN work[s].entry THEN work[s].entry[e] ELSE db.entry[e]
         /\ \A l \in Line :
              View(s).line[l]
                = IF l \in DOMAIN work[s].line THEN work[s].line[l] ELSE db.line[l]
         /\ \A x \in Entry \X Line :
              View(s).posting[x]
                = IF x \in DOMAIN work[s].posting THEN work[s].posting[x] ELSE db.posting[x]
         /\ \A p \in Period :
              View(s).period[p]
                = IF p \in DOMAIN work[s].period THEN work[s].period[p] ELSE db.period[p]
<1>1. View(s) = LaidOn(db, work[s])
  BY DEF View, Sees, LaidOn
<1>2. Whole(db) /\ Parts(work[s])
  BY DEF Types
<1>3. /\ View(s).entry = Sees(s, "entry") /\ View(s).line = Sees(s, "line")
      /\ View(s).posting = Sees(s, "posting") /\ View(s).period = Sees(s, "period")
  BY DEF View, Tables
<1>4. DOMAIN View(s) = Tables /\ \A table \in Tables : View(s)[table] = Sees(s, table)
  BY DEF View
<1>5. PICK d, w : d = db /\ w = work[s]
  OBVIOUS
<1>6. View(s) = LaidOn(d, w) /\ Whole(d) /\ Parts(w)
  BY <1>1, <1>2, <1>5
<1>7. /\ View(s).entry \in [Entry -> EntryRow \cup {None}]
      /\ View(s).line \in [Line -> LineRow \cup {None}]
      /\ View(s).posting \in [Entry \X Line -> PostingRow \cup {None}]
      /\ View(s).period \in [Period -> {"OPEN", "CLOSED"}]
  <2>1. /\ LaidOn(d, w).entry \in [Entry -> EntryRow \cup {None}]
        /\ LaidOn(d, w).line \in [Line -> LineRow \cup {None}]
        /\ LaidOn(d, w).posting \in [Entry \X Line -> PostingRow \cup {None}]
        /\ LaidOn(d, w).period \in [Period -> {"OPEN", "CLOSED"}]
    BY <1>6, LaidOver
  <2> QED
    BY <1>6, <2>1
<1>8. /\ \A e \in Entry :
           View(s).entry[e] = IF e \in DOMAIN w.entry THEN w.entry[e] ELSE d.entry[e]
      /\ \A l \in Line :
           View(s).line[l] = IF l \in DOMAIN w.line THEN w.line[l] ELSE d.line[l]
  BY <1>6, LaidOver
<1>9. /\ \A x \in Entry \X Line :
           View(s).posting[x] = IF x \in DOMAIN w.posting THEN w.posting[x] ELSE d.posting[x]
      /\ \A p \in Period :
           View(s).period[p] = IF p \in DOMAIN w.period THEN w.period[p] ELSE d.period[p]
  BY <1>6, LaidOver
<1> QED
  BY <1>3, <1>4, <1>5, <1>7, <1>8, <1>9

----------------------------------------------------------------------------
(* A statement                                                             *)

(* It holds the locks it wants, besides those its transaction held.        *)
Gets(s, wants) ==
  /\ locks' = [locks EXCEPT ![s] = @ \cup wants]
  /\ \A t \in Session \ {s} : \A k \in wants, m \in locks[t] : ~Conflict(k, m)

(* The rows it writes go over those its transaction wrote.                 *)
Puts(s, rows) ==
  /\ DOMAIN work' = Session
  /\ \A t \in Session \ {s} : work'[t] = work[t]
  /\ DOMAIN work'[s] = Tables
  /\ \A table \in Tables :
       /\ DOMAIN work'[s][table] = DOMAIN work[s][table] \cup DOMAIN rows[table]
       /\ \A x \in DOMAIN work'[s][table] :
            work'[s][table][x] = IF x \in DOMAIN rows[table] THEN rows[table][x]
                                                             ELSE work[s][table][x]

Rows(entry, line, posting, period) ==
  [table \in Tables |-> CASE table = "entry"   -> entry
                          [] table = "line"    -> line
                          [] table = "posting" -> posting
                          [] table = "period"  -> period]

(* The rows for each table.                                                *)
LEMMA RowsGiven ==
  ASSUME NEW entry, NEW line, NEW posting, NEW period
  PROVE  LET rows == Rows(entry, line, posting, period) IN
           /\ rows.entry = entry /\ rows.line = line
           /\ rows.posting = posting /\ rows.period = period
BY DEF Rows, Tables

(* What a statement has in common with every other.                        *)
LEMMA Executed ==
  ASSUME NEW s \in Session, NEW kind, NEW wants, Execute(s, kind, wants)
  PROVE  /\ kind \in Kinds
         /\ db' = db /\ done' = [done EXCEPT ![s] = @ + 1]
         /\ Gets(s, wants)
BY DEF Execute, Gets

(* Locks keep apart, and nobody loses one.                                 *)
LEMMA LocksTaken ==
  ASSUME Types, LocksApart, NEW s \in Session, NEW wants \in SUBSET Lock, Gets(s, wants)
  PROVE  /\ locks' \in [Session -> SUBSET Lock]
         /\ LocksApart'
         /\ locks'[s] = locks[s] \cup wants
         /\ \A t \in Session \ {s} : locks'[t] = locks[t]
         /\ \A t \in Session : \A x :
              /\ Locked(t, x) => Locked(t, x)'
              /\ Alters(t, x) => Alters(t, x)'
              /\ Owns(t, x) => Owns(t, x)'
         /\ \A m \in wants : /\ Locked(s, m.row)'
                             /\ m.mode \in {"change", "all"} => Alters(s, m.row)'
                             /\ m.mode = "all" => Owns(s, m.row)'
<1>1. locks \in [Session -> SUBSET Lock]
  BY DEF Types
<1>2. /\ locks'[s] = locks[s] \cup wants
      /\ \A t \in Session \ {s} : locks'[t] = locks[t]
      /\ locks' \in [Session -> SUBSET Lock]
  BY <1>1 DEF Gets
<1>3. \A k, m \in Lock : Conflict(k, m) <=> Conflict(m, k)
  BY DEF Conflict
<1>4. ASSUME NEW t \in Session, NEW u \in Session, t # u,
             NEW k \in locks'[t], NEW m \in locks'[u]
      PROVE  ~Conflict(k, m)
  <2>1. k \in Lock /\ m \in Lock
    BY <1>2
  <2>2. CASE k \in locks[t] /\ m \in locks[u]
    BY <1>4, <2>2 DEF LocksApart
  <2>3. CASE ~(k \in locks[t]) /\ m \in locks[u]
    <3>1. t = s /\ k \in wants /\ u \in Session \ {s}
      BY <1>2, <1>4, <2>3
    <3> QED
      BY <2>3, <3>1 DEF Gets
  <2>4. CASE k \in locks[t] /\ ~(m \in locks[u])
    <3>1. u = s /\ m \in wants /\ t \in Session \ {s}
      BY <1>2, <1>4, <2>4
    <3> QED
      BY <1>3, <2>1, <2>4, <3>1 DEF Gets
  <2> QED
    BY <1>2, <1>4, <2>2, <2>3, <2>4
<1>5. LocksApart'
  BY <1>4 DEF LocksApart, Conflict
<1>6. \A t \in Session : locks[t] \subseteq locks'[t]
  BY <1>2
<1>7. \A t \in Session : \A x :
        /\ Locked(t, x) => Locked(t, x)'
        /\ Alters(t, x) => Alters(t, x)'
        /\ Owns(t, x) => Owns(t, x)'
  BY <1>6 DEF Locked, Alters, Owns
<1>8. \A m \in wants : /\ Locked(s, m.row)'
                       /\ m.mode \in {"change", "all"} => Alters(s, m.row)'
                       /\ m.mode = "all" => Owns(s, m.row)'
  BY <1>2 DEF Locked, Alters, Owns
<1> QED
  BY <1>2, <1>5, <1>7, <1>8

(* What locks keep two sessions from.                                      *)
LEMMA Excluded ==
  ASSUME LocksApart, NEW s \in Session, NEW t \in Session, s # t, NEW x
  PROVE  /\ Owns(s, x) => ~Locked(t, x)
         /\ Alters(s, x) => ~Alters(t, x)
         /\ Alters(s, x) => Locked(s, x)
         /\ Owns(s, x) => Alters(s, x)
<1>1. \A k \in locks[s], m \in locks[t] : ~Conflict(k, m)
  BY DEF LocksApart
<1> QED
  BY <1>1 DEF Owns, Alters, Locked, Conflict

(* A statement takes locks and puts rows into the four tables.             *)
Statement(s, wants, entry, line, posting, period) ==
  /\ wants \in SUBSET Lock /\ Gets(s, wants)
  /\ db' = db /\ DOMAIN fired' = Session /\ done' = [done EXCEPT ![s] = @ + 1]
  /\ Puts(s, Rows(entry, line, posting, period))
  /\ Part(entry, Entry, EntryRow) /\ Part(line, Line, LineRow)
  /\ Part(posting, Entry \X Line, PostingRow)
  /\ DOMAIN period \subseteq Period
  /\ \A p \in DOMAIN period : period[p] \in {"OPEN", "CLOSED"}

(* The rows a session has written, with those of one more statement.       *)
LEMMA Written ==
  ASSUME Types, NEW s \in Session, NEW wants,
         NEW entry, NEW line, NEW posting, NEW period,
         Statement(s, wants, entry, line, posting, period)
  PROVE  /\ DOMAIN work'[s].entry = DOMAIN work[s].entry \cup DOMAIN entry
         /\ \A e \in DOMAIN work'[s].entry :
              work'[s].entry[e] = IF e \in DOMAIN entry THEN entry[e] ELSE work[s].entry[e]
         /\ DOMAIN work'[s].line = DOMAIN work[s].line \cup DOMAIN line
         /\ \A l \in DOMAIN work'[s].line :
              work'[s].line[l] = IF l \in DOMAIN line THEN line[l] ELSE work[s].line[l]
         /\ DOMAIN work'[s].posting = DOMAIN work[s].posting \cup DOMAIN posting
         /\ \A x \in DOMAIN work'[s].posting :
              work'[s].posting[x] = IF x \in DOMAIN posting THEN posting[x]
                                                            ELSE work[s].posting[x]
         /\ DOMAIN work'[s].period = DOMAIN work[s].period \cup DOMAIN period
         /\ \A p \in DOMAIN work'[s].period :
              work'[s].period[p] = IF p \in DOMAIN period THEN period[p] ELSE work[s].period[p]
         /\ \A t \in Session \ {s} : work'[t] = work[t]
BY RowsGiven DEF Statement, Puts, Tables

(* The tables stay well formed, and the session sees what it has put.      *)
LEMMA StatementTypes ==
  ASSUME Types, LocksApart, NEW s \in Session, NEW wants,
         NEW entry, NEW line, NEW posting, NEW period,
         Statement(s, wants, entry, line, posting, period)
  PROVE  /\ Types' /\ LocksApart'
         /\ \A t \in Session \ {s} : View(t)' = View(t)
         /\ \A e \in Entry :
              View(s)'.entry[e] = IF e \in DOMAIN entry THEN entry[e] ELSE View(s).entry[e]
         /\ \A l \in Line :
              View(s)'.line[l] = IF l \in DOMAIN line THEN line[l] ELSE View(s).line[l]
         /\ \A x \in Entry \X Line :
              View(s)'.posting[x]
                = IF x \in DOMAIN posting THEN posting[x] ELSE View(s).posting[x]
         /\ DOMAIN View(s)'.entry = Entry /\ DOMAIN View(s)'.line = Line
         /\ DOMAIN View(s)'.posting = Entry \X Line
<1>2. locks' \in [Session -> SUBSET Lock] /\ LocksApart'
  BY LocksTaken DEF Statement
<1>3. /\ DOMAIN work'[s].entry = DOMAIN work[s].entry \cup DOMAIN entry
      /\ \A e \in DOMAIN work'[s].entry :
           work'[s].entry[e] = IF e \in DOMAIN entry THEN entry[e] ELSE work[s].entry[e]
      /\ DOMAIN work'[s].line = DOMAIN work[s].line \cup DOMAIN line
      /\ \A l \in DOMAIN work'[s].line :
           work'[s].line[l] = IF l \in DOMAIN line THEN line[l] ELSE work[s].line[l]
      /\ DOMAIN work'[s].posting = DOMAIN work[s].posting \cup DOMAIN posting
      /\ \A x \in DOMAIN work'[s].posting :
           work'[s].posting[x] = IF x \in DOMAIN posting THEN posting[x] ELSE work[s].posting[x]
      /\ DOMAIN work'[s].period = DOMAIN work[s].period \cup DOMAIN period
      /\ \A p \in DOMAIN work'[s].period :
           work'[s].period[p] = IF p \in DOMAIN period THEN period[p] ELSE work[s].period[p]
      /\ \A t \in Session \ {s} : work'[t] = work[t]
  BY Written
<1>4. Types'
  <2>1. ASSUME NEW t \in Session
        PROVE  Parts(work'[t])
    <3>1. Parts(work[t])
      BY DEF Types
    <3>2. CASE t = s
      <4>1. DOMAIN work'[s] = Tables
        BY DEF Statement, Puts
      <4>2. Part(work'[s].entry, Entry, EntryRow)
        BY <1>3, <3>1, <3>2 DEF Statement, Parts, Part
      <4>3. Part(work'[s].line, Line, LineRow)
        BY <1>3, <3>1, <3>2 DEF Statement, Parts, Part
      <4>4. Part(work'[s].posting, Entry \X Line, PostingRow)
        BY <1>3, <3>1, <3>2 DEF Statement, Parts, Part
      <4>5. /\ DOMAIN work'[s].period \subseteq Period
            /\ \A p \in DOMAIN work'[s].period : work'[s].period[p] \in {"OPEN", "CLOSED"}
        BY <1>3, <3>1, <3>2 DEF Statement, Parts
      <4> QED
        BY <3>2, <4>1, <4>2, <4>3, <4>4, <4>5 DEF Parts
    <3>3. CASE t # s
      BY <1>3, <3>1, <3>3
    <3> QED
      BY <3>2, <3>3
  <2>2. done' \in [Session -> Nat]
    BY DEF Statement, Types
  <2>3. DOMAIN work' = Session
    BY DEF Statement, Puts
  <2> QED
    BY <1>2, <2>1, <2>2, <2>3 DEF Statement, Types
<1>5. \A t \in Session \ {s} : View(t)' = View(t)
  BY <1>3 DEF Statement, View, Sees
<1>6. db' = db
  BY DEF Statement
<1>7. View(s)' = LaidOn(db', work'[s]) /\ Whole(db') /\ Parts(work'[s])
  BY <1>4 DEF Types, View, Sees, LaidOn
<1>8. ASSUME NEW e \in Entry
      PROVE  View(s)'.entry[e] = IF e \in DOMAIN entry THEN entry[e] ELSE View(s).entry[e]
  <2>1. View(s)'.entry[e]
          = IF e \in DOMAIN work'[s].entry THEN work'[s].entry[e] ELSE db'.entry[e]
    BY <1>7, LaidOver
  <2>2. View(s).entry[e] = IF e \in DOMAIN work[s].entry THEN work[s].entry[e] ELSE db.entry[e]
    BY Seen
  <2> QED
    BY <1>3, <1>6, <2>1, <2>2
<1>9. ASSUME NEW l \in Line
      PROVE  View(s)'.line[l] = IF l \in DOMAIN line THEN line[l] ELSE View(s).line[l]
  <2>1. View(s)'.line[l]
          = IF l \in DOMAIN work'[s].line THEN work'[s].line[l] ELSE db'.line[l]
    BY <1>7, LaidOver
  <2>2. View(s).line[l] = IF l \in DOMAIN work[s].line THEN work[s].line[l] ELSE db.line[l]
    BY Seen
  <2> QED
    BY <1>3, <1>6, <2>1, <2>2
<1>10. ASSUME NEW x \in Entry \X Line
      PROVE  View(s)'.posting[x]
               = IF x \in DOMAIN posting THEN posting[x] ELSE View(s).posting[x]
  <2>1. View(s)'.posting[x]
          = IF x \in DOMAIN work'[s].posting THEN work'[s].posting[x] ELSE db'.posting[x]
    BY <1>7, LaidOver
  <2>2. View(s).posting[x]
          = IF x \in DOMAIN work[s].posting THEN work[s].posting[x] ELSE db.posting[x]
    BY Seen
  <2> QED
    BY <1>3, <1>6, <2>1, <2>2
<1>11. /\ DOMAIN View(s)'.entry = Entry /\ DOMAIN View(s)'.line = Line
       /\ DOMAIN View(s)'.posting = Entry \X Line
  <2>1. /\ View(s)'.entry \in [Entry -> EntryRow \cup {None}]
        /\ View(s)'.line \in [Line -> LineRow \cup {None}]
        /\ View(s)'.posting \in [Entry \X Line -> PostingRow \cup {None}]
    <3>1. \A d, w : Whole(d) /\ Parts(w) =>
            /\ LaidOn(d, w).entry \in [Entry -> EntryRow \cup {None}]
            /\ LaidOn(d, w).line \in [Line -> LineRow \cup {None}]
            /\ LaidOn(d, w).posting \in [Entry \X Line -> PostingRow \cup {None}]
      BY LaidOver
    <3> QED
      BY <1>7, <3>1
  <2> QED
    BY <2>1
<1> QED
  BY <1>2, <1>4, <1>5, <1>8, <1>9, <1>10, <1>11

(* A statement keeps the invariant that writes under locks, and leaves its *)
(* session with tables whose references hold.                              *)
LEMMA StatementStep ==
  ASSUME RowsInv, NEW s \in Session, NEW wants,
         NEW entry, NEW line, NEW posting, NEW period,
         Statement(s, wants, entry, line, posting, period),
         \A p \in DOMAIN period : Alters(s, p)',
         \A e \in DOMAIN entry :
           /\ Alters(s, e)'
           /\ (entry[e] = None \/ db.entry[e] = None) => Owns(s, e)'
           /\ (entry[e] # None /\ entry[e].reversalOf # None) =>
                \/ RefersTo(s, e, entry[e].reversalOf)'
                \/ e \in DOMAIN work[s].entry /\ work[s].entry[e] # None
                     /\ work[s].entry[e].reversalOf = entry[e].reversalOf,
         \A l \in DOMAIN line :
           /\ \A t \in Session \ {s} : l \notin DOMAIN work[t].line
           /\ db.line[l] # None => Alters(s, l)' /\ (line[l] = None => Owns(s, l)')
           /\ line[l] # None => Locked(s, line[l].entry)',
         \A x \in DOMAIN posting :
           /\ \A t \in Session \ {s} : x \notin DOMAIN work[t].posting
           /\ db.posting[x] = None /\ posting[x] # None
           /\ Locked(s, x[1])' /\ Locked(s, x[2])',
         References(View(s)')
  PROVE  RowsInv'
<1>1. Types /\ LocksApart /\ db' = db
  BY DEF RowsInv, Statement
<1>2. /\ Types' /\ LocksApart'
      /\ \A t \in Session \ {s} : View(t)' = View(t)
      /\ \A t \in Session : \A x :
           /\ Locked(t, x) => Locked(t, x)'
           /\ Alters(t, x) => Alters(t, x)'
           /\ Owns(t, x) => Owns(t, x)'
  <2>1. wants \in SUBSET Lock /\ Gets(s, wants)
    BY DEF Statement
  <2>2. /\ Types' /\ LocksApart'
        /\ \A t \in Session \ {s} : View(t)' = View(t)
    BY <1>1, StatementTypes
  <2> QED
    BY <1>1, <2>1, <2>2, LocksTaken
<1>3. /\ DOMAIN work'[s].entry = DOMAIN work[s].entry \cup DOMAIN entry
      /\ \A e \in DOMAIN work'[s].entry :
           work'[s].entry[e] = IF e \in DOMAIN entry THEN entry[e] ELSE work[s].entry[e]
      /\ DOMAIN work'[s].line = DOMAIN work[s].line \cup DOMAIN line
      /\ \A l \in DOMAIN work'[s].line :
           work'[s].line[l] = IF l \in DOMAIN line THEN line[l] ELSE work[s].line[l]
      /\ DOMAIN work'[s].posting = DOMAIN work[s].posting \cup DOMAIN posting
      /\ \A x \in DOMAIN work'[s].posting :
           work'[s].posting[x] = IF x \in DOMAIN posting THEN posting[x] ELSE work[s].posting[x]
      /\ DOMAIN work'[s].period = DOMAIN work[s].period \cup DOMAIN period
      /\ \A p \in DOMAIN work'[s].period :
           work'[s].period[p] = IF p \in DOMAIN period THEN period[p] ELSE work[s].period[p]
      /\ \A t \in Session \ {s} : work'[t] = work[t]
  BY <1>1, Written
<1>4. \A t \in Session \ {s} : work'[t] = work[t]
  BY <1>3
<1>6. ASSUME NEW t \in Session
      PROVE  WritesLocked(t)'
  <2>1. WritesLocked(t)
    BY DEF RowsInv
  <2>2. CASE t = s
    <3>1. \A e \in DOMAIN work'[s].entry :
            /\ Alters(s, e)'
            /\ (work'[s].entry[e] = None \/ db'.entry[e] = None) => Owns(s, e)'
      BY <1>1, <1>2, <1>3, <2>1, <2>2 DEF WritesLocked
    <3>2. \A l \in DOMAIN work'[s].line :
            db'.line[l] # None => Alters(s, l)' /\ (work'[s].line[l] = None => Owns(s, l)')
      BY <1>1, <1>2, <1>3, <2>1, <2>2 DEF WritesLocked
    <3>3. \A x \in DOMAIN work'[s].posting :
            db'.posting[x] = None /\ work'[s].posting[x] # None
      BY <1>1, <1>3, <2>1, <2>2 DEF WritesLocked
    <3>4. \A p \in DOMAIN work'[s].period : Alters(s, p)'
      BY <1>1, <1>2, <1>3, <2>1, <2>2 DEF WritesLocked
    <3> QED
      BY <2>2, <3>1, <3>2, <3>3, <3>4 DEF WritesLocked
  <2>3. CASE t # s
    BY <1>1, <1>2, <1>4, <2>1, <2>3 DEF WritesLocked
  <2> QED
    BY <2>2, <2>3
<1>7. ASSUME NEW t \in Session \ {s}
      PROVE  WritesApart(s, t)' /\ WritesApart(t, s)'
  <2>1. WritesApart(s, t) /\ WritesLocked(t) /\ work'[t] = work[t]
    BY <1>4 DEF RowsInv
  <2>2. \A x : Alters(s, x)' => ~Alters(t, x)'
    <3>1. ASSUME NEW x, Alters(s, x)', Alters(t, x)'
          PROVE  FALSE
      BY <1>2, <3>1 DEF LocksApart, Alters, Conflict
    <3> QED
      BY <3>1
  <2>3. DOMAIN work'[s].entry \cap DOMAIN work'[t].entry = {}
    BY <1>2, <1>3, <2>1, <2>2 DEF WritesApart, WritesLocked, Tables
  <2>4. DOMAIN work'[s].line \cap DOMAIN work'[t].line = {}
    BY <1>3, <2>1 DEF WritesApart, Tables
  <2>5. DOMAIN work'[s].posting \cap DOMAIN work'[t].posting = {}
    BY <1>3, <2>1 DEF WritesApart, Tables
  <2>6. DOMAIN work'[s].period \cap DOMAIN work'[t].period = {}
    BY <1>2, <1>3, <2>1, <2>2 DEF WritesApart, WritesLocked, Tables
  <2> QED
    BY <2>3, <2>4, <2>5, <2>6 DEF WritesApart, Tables
<1>8. ASSUME NEW t \in Session, NEW u \in Session, t # u
      PROVE  WritesApart(t, u)'
  <2>1. CASE t = s \/ u = s
    BY <1>7, <1>8, <2>1
  <2>2. CASE t # s /\ u # s
    <3>1. WritesApart(t, u) /\ work'[t] = work[t] /\ work'[u] = work[u]
      BY <1>4, <1>8, <2>2 DEF RowsInv
    <3> QED
      BY <3>1 DEF WritesApart
  <2> QED
    BY <2>1, <2>2
<1>9. ASSUME NEW t \in Session
      PROVE  References(View(t))'
  <2>1. CASE t = s
    BY <2>1
  <2>2. CASE t # s
    <3>1. View(t)' = View(t)
      BY <1>2, <2>2
    <3> QED
      BY <3>1 DEF RowsInv
  <2> QED
    BY <2>1, <2>2
<1>10. ASSUME NEW t \in Session
       PROVE  ReferencesLocked(t)'
  <2>1. ReferencesLocked(t)
    BY DEF RowsInv
  <2>2. CASE t = s
    <3>1. ASSUME NEW l \in RowsOf(work'[s].line), NEW of, of = work'[s].line[l].entry
          PROVE  Locked(s, of)'
      <4>1. l \in DOMAIN work'[s].line /\ work'[s].line[l] # None
        BY DEF RowsOf
      <4>2. CASE l \in DOMAIN line
        BY <1>3, <3>1, <4>1, <4>2
      <4>3. CASE l \notin DOMAIN line
        <5>1. l \in RowsOf(work[s].line) /\ of = work[s].line[l].entry
          BY <1>3, <3>1, <4>1, <4>3 DEF RowsOf
        <5>2. Locked(s, of)
          BY <2>1, <2>2, <5>1 DEF ReferencesLocked
        <5> QED
          BY <1>2, <5>2
      <4> QED
        BY <4>2, <4>3
    <3>2. ASSUME NEW e \in RowsOf(work'[s].entry), NEW of,
                 of = work'[s].entry[e].reversalOf, of # None
          PROVE  RefersTo(s, e, of)'
      <4>1. ASSUME e \in DOMAIN work[s].entry, work[s].entry[e] # None,
                   work[s].entry[e].reversalOf = of
            PROVE  RefersTo(s, e, of)'
        <5>1. RefersTo(s, e, of)
          BY <2>1, <2>2, <3>2, <4>1 DEF ReferencesLocked, RowsOf
        <5> QED
          BY <1>1, <1>2, <5>1 DEF RefersTo
      <4>2. e \in DOMAIN work'[s].entry /\ work'[s].entry[e] # None
        BY DEF RowsOf
      <4>3. CASE e \in DOMAIN entry
        <5>1. entry[e] # None /\ entry[e].reversalOf = of
          BY <1>3, <3>2, <4>2, <4>3
        <5> QED
          BY <3>2, <4>1, <4>3, <5>1
      <4>4. CASE e \notin DOMAIN entry
        BY <1>3, <3>2, <4>1, <4>2, <4>4
      <4> QED
        BY <4>3, <4>4
    <3>3. \A x \in RowsOf(work'[s].posting) : Locked(s, x[1])' /\ Locked(s, x[2])'
      BY <1>2, <1>3, <2>1, <2>2 DEF ReferencesLocked, RowsOf
    <3> QED
      BY <2>2, <3>1, <3>2, <3>3 DEF ReferencesLocked
  <2>3. CASE t # s
    <3>1. work'[t] = work[t]
      BY <1>4, <2>3
    <3> QED
      BY <1>1, <1>2, <2>1, <3>1 DEF ReferencesLocked, RefersTo
  <2> QED
    BY <2>2, <2>3
<1>11. References(db')
  BY <1>1 DEF RowsInv
<1> QED
  BY <1>2, <1>6, <1>8, <1>9, <1>10, <1>11 DEF RowsInv

(* Write puts rows into one table.                                         *)
LEMMA WritePuts ==
  ASSUME Types, NEW s \in Session, NEW rows
  PROVE  /\ Write(s, "entry", rows) => Puts(s, Rows(rows, <<>>, <<>>, <<>>))
         /\ Write(s, "line", rows) => Puts(s, Rows(<<>>, rows, <<>>, <<>>))
         /\ Write(s, "posting", rows) => Puts(s, Rows(<<>>, <<>>, rows, <<>>))
         /\ Write(s, "period", rows) => Puts(s, Rows(<<>>, <<>>, <<>>, rows))
<1>1. DOMAIN work = Session /\ DOMAIN work[s] = Tables
  BY DEF Types, Parts
<1>2. ASSUME NEW table \in Tables, Write(s, table, rows), NEW all,
             all[table] = rows, \A u \in Tables \ {table} : DOMAIN all[u] = {}
      PROVE  Puts(s, all)
  <2> DEFINE old == work[s]
             new == [old EXCEPT ![table] = Overlay(old[table], rows)]
  <2>1. work' = [work EXCEPT ![s] = new]
    BY <1>2 DEF Write
  <2>2. work'[s] = new /\ DOMAIN work' = Session /\ \A t \in Session \ {s} : work'[t] = work[t]
    BY <1>1, <2>1
  <2>3. /\ DOMAIN new = Tables /\ new[table] = Overlay(work[s][table], rows)
        /\ \A u \in Tables \ {table} : new[u] = work[s][u]
    BY <1>1
  <2> HIDE DEF new
  <2>4. ASSUME NEW u \in Tables
        PROVE  /\ DOMAIN work'[s][u] = DOMAIN work[s][u] \cup DOMAIN all[u]
               /\ \A x \in DOMAIN work'[s][u] :
                    work'[s][u][x] = IF x \in DOMAIN all[u] THEN all[u][x] ELSE work[s][u][x]
    <3>1. CASE u = table
      BY <1>2, <2>2, <2>3, <3>1 DEF Overlay
    <3>2. CASE u # table
      BY <1>2, <2>2, <2>3, <3>2
    <3> QED
      BY <3>1, <3>2
  <2> QED
    BY <2>2, <2>3, <2>4 DEF Puts
<1>3. DOMAIN <<>> = {}
  OBVIOUS
<1>4. /\ \A u \in Tables \ {"entry"} : DOMAIN Rows(rows, <<>>, <<>>, <<>>)[u] = {}
      /\ \A u \in Tables \ {"line"} : DOMAIN Rows(<<>>, rows, <<>>, <<>>)[u] = {}
      /\ \A u \in Tables \ {"posting"} : DOMAIN Rows(<<>>, <<>>, rows, <<>>)[u] = {}
      /\ \A u \in Tables \ {"period"} : DOMAIN Rows(<<>>, <<>>, <<>>, rows)[u] = {}
  BY <1>3, RowsGiven DEF Tables
<1>5. /\ Rows(rows, <<>>, <<>>, <<>>)["entry"] = rows
      /\ Rows(<<>>, rows, <<>>, <<>>)["line"] = rows
      /\ Rows(<<>>, <<>>, rows, <<>>)["posting"] = rows
      /\ Rows(<<>>, <<>>, <<>>, rows)["period"] = rows
  BY RowsGiven
<1> QED
  BY <1>2, <1>4, <1>5 DEF Tables

(* Nothing is put into a table.                                            *)
LEMMA NonePut ==
  /\ Part(<<>>, Entry, EntryRow) /\ Part(<<>>, Line, LineRow)
  /\ Part(<<>>, Entry \X Line, PostingRow) /\ DOMAIN <<>> = {}
<1>1. DOMAIN <<>> = {}
  OBVIOUS
<1> QED
  BY <1>1 DEF Part

----------------------------------------------------------------------------
(* References, statement by statement                                      *)

(* Changing the status or the period of an entry.                          *)
LEMMA EntryChanged ==
  ASSUME RowsInv, NEW s \in Session, NEW e \in Entry, View(s).entry[e] # None,
         NEW row \in EntryRow, row.reversalOf = View(s).entry[e].reversalOf,
         NEW kind, NEW wants \in SUBSET Lock, On(e, "change") \in wants,
         Execute(s, kind, wants), Write(s, "entry", [x \in {e} |-> row]),
         DOMAIN fired' = Session
  PROVE  /\ RowsInv'
         /\ Statement(s, wants, [x \in {e} |-> row], <<>>, <<>>, <<>>)
<1> DEFINE old == View(s).entry[e]
           entry == [x \in {e} |-> row]
<1>1. Types /\ LocksApart /\ WritesLocked(s) /\ References(View(s))
  BY DEF RowsInv
<1>2. old \in EntryRow
  BY <1>1, Seen
<1>3. row # None
  BY GuardsAssumption
<1>4. DOMAIN entry = {e} /\ entry[e] = row
  OBVIOUS
<1>5. Statement(s, wants, entry, <<>>, <<>>, <<>>)
  <2>1. Part(entry, Entry, EntryRow)
    BY <1>4 DEF Part
  <2> HIDE DEF entry
  <2>2. Puts(s, Rows(entry, <<>>, <<>>, <<>>))
    BY <1>1, WritePuts DEF entry
  <2>3. Gets(s, wants) /\ db' = db /\ done' = [done EXCEPT ![s] = @ + 1]
    BY Executed
  <2> QED
    BY <2>1, <2>2, <2>3, NonePut DEF Statement
<1> HIDE DEF entry
<1>6. db' = db /\ Gets(s, wants)
  BY Executed
<1>7. Alters(s, e)' /\ (db.entry[e] = None => Owns(s, e)')
  <2>1. Alters(s, e)'
    BY <1>1, <1>6, LocksTaken DEF On
  <2>2. CASE db.entry[e] = None
    <3>1. e \in DOMAIN work[s].entry
      BY <1>1, <2>2, Seen
    <3>2. Owns(s, e)
      BY <1>1, <2>2, <3>1 DEF WritesLocked
    <3> QED
      BY <1>1, <1>6, <2>1, <3>2, LocksTaken
  <2> QED
    BY <2>1, <2>2
<1>8. row.reversalOf # None =>
        \/ RefersTo(s, e, row.reversalOf)'
        \/ e \in DOMAIN work[s].entry /\ work[s].entry[e] # None
             /\ work[s].entry[e].reversalOf = row.reversalOf
  <2>1. old = IF e \in DOMAIN work[s].entry THEN work[s].entry[e] ELSE db.entry[e]
    BY <1>1, Seen
  <2>2. CASE e \in DOMAIN work[s].entry
    BY <2>1, <2>2
  <2>3. CASE e \notin DOMAIN work[s].entry
    BY <1>6, <2>1, <2>3 DEF RefersTo
  <2> QED
    BY <2>2, <2>3
<1>9. References(View(s)')
  <2>1. /\ \A d \in Entry : View(s)'.entry[d] = IF d = e THEN row ELSE View(s).entry[d]
        /\ \A l \in Line : View(s)'.line[l] = View(s).line[l]
        /\ \A x \in Entry \X Line : View(s)'.posting[x] = View(s).posting[x]
        /\ DOMAIN View(s)'.entry = Entry /\ DOMAIN View(s)'.line = Line
        /\ DOMAIN View(s)'.posting = Entry \X Line
    BY <1>1, <1>4, <1>5, StatementTypes, NonePut
  <2>2. /\ View(s).entry \in [Entry -> EntryRow \cup {None}]
        /\ View(s).line \in [Line -> LineRow \cup {None}]
        /\ View(s).posting \in [Entry \X Line -> PostingRow \cup {None}]
    BY <1>1, Seen
  <2> QED
    BY <1>1, <1>2, <1>3, <2>1, <2>2 DEF References, RowsOf, EntryRow, LineRow
<1>10. RowsInv'
  BY <1>3, <1>4, <1>5, <1>7, <1>8, <1>9, NonePut, StatementStep
<1> QED
  BY <1>5, <1>10 DEF entry

(* A line a session sees, and locks to change it, is not written by others.*)
LEMMA LineTaken ==
  ASSUME RowsInv, NEW s \in Session, NEW l \in Line, View(s).line[l] # None,
         NEW wants \in SUBSET Lock, NEW m \in wants, m.row = l, m.mode \in {"change", "all"},
         Gets(s, wants), NEW t \in Session \ {s}
  PROVE  l \notin DOMAIN work[t].line
<1>1. Types /\ LocksApart /\ WritesLocked(t) /\ WritesApart(s, t)
  BY DEF RowsInv
<1> SUFFICES ASSUME l \in DOMAIN work[t].line
             PROVE  FALSE
  OBVIOUS
<1>2. l \notin DOMAIN work[s].line
  BY <1>1 DEF WritesApart, Tables
<1>3. db.line[l] # None
  BY <1>1, <1>2, Seen
<1>4. PICK k \in locks[t] : k.row = l /\ k.mode \in {"change", "all"}
  BY <1>1, <1>3 DEF WritesLocked, Alters
<1>5. ~Conflict(m, k)
  BY DEF Gets
<1> QED
  BY <1>4, <1>5 DEF Conflict

(* Changing, adding or deleting a line.                                    *)
LEMMA LineChanged ==
  ASSUME RowsInv, NEW s \in Session, NEW l \in Line, NEW row \in LineRow \cup {None},
         NEW kind, NEW wants \in SUBSET Lock,
         Execute(s, kind, wants), Write(s, "line", [x \in {l} |-> row]),
         UNCHANGED fired,
         \/ Unused("line", l)
         \/ /\ View(s).line[l] # None
            /\ (On(l, "change") \in wants /\ row # None) \/ On(l, "all") \in wants,
         row # None => /\ View(s).entry[row.entry] # None
                       /\ \E m \in wants : m.row = row.entry,
         row = None => \A x \in RowsOf(View(s).posting) : x[2] # l
  PROVE  /\ RowsInv'
         /\ Statement(s, wants, <<>>, [x \in {l} |-> row], <<>>, <<>>)
<1> DEFINE line == [x \in {l} |-> row]
<1>1. Types /\ LocksApart /\ WritesLocked(s) /\ References(View(s))
  BY DEF RowsInv
<1>2. DOMAIN line = {l} /\ line[l] = row
  OBVIOUS
<1>3. db' = db /\ Gets(s, wants)
  BY Executed
<1>4. Statement(s, wants, <<>>, line, <<>>, <<>>)
  <2>1. Part(line, Line, LineRow)
    BY <1>2 DEF Part
  <2> HIDE DEF line
  <2>2. Puts(s, Rows(<<>>, line, <<>>, <<>>))
    BY <1>1, WritePuts DEF line
  <2>3. Gets(s, wants) /\ db' = db /\ done' = [done EXCEPT ![s] = @ + 1]
    BY Executed
  <2>4. DOMAIN fired' = Session
    BY <1>1 DEF Types
  <2> QED
    BY <2>1, <2>2, <2>3, <2>4, NonePut DEF Statement
<1> HIDE DEF line
<1>5. \A t \in Session \ {s} : l \notin DOMAIN work[t].line
  <2>1. CASE Unused("line", l)
    BY <2>1 DEF Unused
  <2>2. CASE View(s).line[l] # None /\ (On(l, "change") \in wants \/ On(l, "all") \in wants)
    <3>1. PICK m \in wants : m.row = l /\ m.mode \in {"change", "all"}
      BY <2>2 DEF On
    <3> QED
      BY <1>3, <2>2, <3>1, LineTaken
  <2> QED
    BY <2>1, <2>2
<1>6. db.line[l] # None => Alters(s, l)' /\ (row = None => Owns(s, l)')
  <2>1. CASE Unused("line", l)
    BY <2>1 DEF Unused
  <2>2. CASE On(l, "change") \in wants /\ row # None
    BY <1>1, <1>3, <2>2, LocksTaken DEF On
  <2>3. CASE On(l, "all") \in wants
    BY <1>1, <1>3, <2>3, LocksTaken DEF On
  <2> QED
    BY <2>1, <2>2, <2>3
<1>7. row # None => Locked(s, row.entry)'
  BY <1>1, <1>3, LocksTaken
<1>8. References(View(s)')
  <2>1. /\ \A d \in Entry : View(s)'.entry[d] = View(s).entry[d]
        /\ \A k \in Line : View(s)'.line[k] = IF k = l THEN row ELSE View(s).line[k]
        /\ \A x \in Entry \X Line : View(s)'.posting[x] = View(s).posting[x]
        /\ DOMAIN View(s)'.entry = Entry /\ DOMAIN View(s)'.line = Line
        /\ DOMAIN View(s)'.posting = Entry \X Line
    BY <1>1, <1>2, <1>4, StatementTypes, NonePut
  <2>2. /\ View(s).entry \in [Entry -> EntryRow \cup {None}]
        /\ View(s).line \in [Line -> LineRow \cup {None}]
        /\ View(s).posting \in [Entry \X Line -> PostingRow \cup {None}]
    BY <1>1, Seen
  <2>3. \A k \in RowsOf(View(s)'.line) : View(s)'.entry[View(s)'.line[k].entry] # None
    BY <1>1, <2>1, <2>2 DEF References, RowsOf, EntryRow, LineRow
  <2>4. \A d \in RowsOf(View(s)'.entry) :
          View(s)'.entry[d].reversalOf # None
            => View(s)'.entry[View(s)'.entry[d].reversalOf] # None
    BY <1>1, <2>1, <2>2 DEF References, RowsOf, EntryRow
  <2>5. \A x \in RowsOf(View(s)'.posting) :
          View(s)'.entry[x[1]] # None /\ View(s)'.line[x[2]] # None
    BY <1>1, <2>1, <2>2 DEF References, RowsOf
  <2> QED
    BY <2>3, <2>4, <2>5 DEF References
<1>9. RowsInv'
  <2>1. DOMAIN fired' = Session
    BY <1>1 DEF Types
  <2> QED
    BY <1>2, <1>4, <1>5, <1>6, <1>7, <1>8, NonePut, StatementStep
<1> QED
  BY <1>4, <1>9 DEF line

(* Writing into two tables at once.                                        *)
LEMMA TwoPuts ==
  ASSUME Types, NEW s \in Session, NEW entry, NEW line,
         work' = [work EXCEPT ![s].entry = Overlay(@, entry), ![s].line = Overlay(@, line)]
  PROVE  Puts(s, Rows(entry, line, <<>>, <<>>))
<1>1. DOMAIN work = Session /\ DOMAIN work[s] = Tables
  BY DEF Types, Parts
<1> DEFINE mine == work[s]
           one == [mine EXCEPT !.entry = Overlay(mine.entry, entry)]
           half == [work EXCEPT ![s] = one]
<1>2. /\ DOMAIN one = Tables /\ one.entry = Overlay(work[s].entry, entry)
      /\ \A u \in Tables \ {"entry"} : one[u] = work[s][u]
  BY <1>1 DEF Tables
<1>3. DOMAIN half = Session /\ half[s] = one /\ \A t \in Session \ {s} : half[t] = work[t]
  BY <1>1
<1>4. work' = [half EXCEPT ![s].line = Overlay(@, line)]
  OBVIOUS
<1> HIDE DEF half, one
<1> DEFINE two == [one EXCEPT !.line = Overlay(one.line, line)]
<1>5. work' = [half EXCEPT ![s] = two]
  BY <1>3, <1>4
<1>6. /\ DOMAIN two = Tables /\ two.entry = Overlay(work[s].entry, entry)
      /\ two.line = Overlay(work[s].line, line)
      /\ two.posting = work[s].posting /\ two.period = work[s].period
  BY <1>2 DEF Tables
<1> HIDE DEF two
<1>7. work'[s] = two /\ DOMAIN work' = Session /\ \A t \in Session \ {s} : work'[t] = work[t]
  BY <1>3, <1>5
<1> DEFINE rows == Rows(entry, line, <<>>, <<>>)
<1>8. /\ rows.entry = entry /\ rows.line = line
      /\ DOMAIN rows.posting = {} /\ DOMAIN rows.period = {}
  BY RowsGiven, NonePut
<1> HIDE DEF rows
<1>9. ASSUME NEW u \in Tables
      PROVE  /\ DOMAIN work'[s][u] = DOMAIN work[s][u] \cup DOMAIN rows[u]
             /\ \A x \in DOMAIN work'[s][u] :
                  work'[s][u][x] = IF x \in DOMAIN rows[u] THEN rows[u][x] ELSE work[s][u][x]
  <2>1. CASE u = "entry"
    BY <1>6, <1>7, <1>8, <2>1 DEF Overlay
  <2>2. CASE u = "line"
    BY <1>6, <1>7, <1>8, <2>2 DEF Overlay
  <2>3. CASE u = "posting"
    BY <1>6, <1>7, <1>8, <2>3
  <2>4. CASE u = "period"
    BY <1>6, <1>7, <1>8, <2>4
  <2> QED
    BY <2>1, <2>2, <2>3, <2>4 DEF Tables
<1>10. Puts(s, rows)
  BY <1>6, <1>7, <1>9 DEF Puts
<1> QED
  BY <1>10 DEF rows

(* Nobody has written a row nobody sees.                                   *)
LEMMA NotSeen ==
  ASSUME RowsInv, NEW s \in Session
  PROVE  /\ \A e \in Entry : Unused("entry", e) => View(s).entry[e] = None
         /\ \A l \in Line : Unused("line", l) => View(s).line[l] = None
         /\ \A x \in Entry \X Line : Unused("posting", x) => View(s).posting[x] = None
BY Seen DEF RowsInv, Unused

(* The draft of an insert, and its lines.                                  *)
NewLines(e, l, m) ==
  [x \in {l, m} |-> [entry |-> e, amount |-> IF x = l THEN 1 ELSE -1]]

InsertWants(e, row) ==
  {On(e, "all"), On(row.period, "share")} \cup {On(x, "share") : x \in {row.reversalOf} \ {None}}

(* A draft with its two lines, under the locks their references take.      *)
LEMMA EntryInserted ==
  ASSUME RowsInv, NEW s \in Session, NEW e \in Entry, NEW l \in Line, NEW m \in Line,
         NEW p \in Period, NEW a \in Actor, NEW of \in Entry \cup {None},
         InsertEntry(s, e, Draft(p, a, of), l, m)
  PROVE  /\ RowsInv'
         /\ Statement(s, InsertWants(e, Draft(p, a, of)), [x \in {e} |-> Draft(p, a, of)],
                      NewLines(e, l, m), <<>>, <<>>)
<1> DEFINE row == Draft(p, a, of)
           entry == [x \in {e} |-> row]
           line == NewLines(e, l, m)
           wants == InsertWants(e, row)
<1>1. Types /\ LocksApart /\ References(View(s))
  BY DEF RowsInv
<1>2. /\ row \in EntryRow /\ row # None /\ row.reversalOf = of /\ row.period = p
      /\ row.status = "DRAFT"
  BY GuardsAssumption DEF Draft, EntryRow
<1>3. wants \in SUBSET Lock /\ On(e, "all") \in wants /\ (of # None => On(of, "share") \in wants)
  BY <1>2 DEF InsertWants, On, Lock, Mode
<1>4. /\ Unused("entry", e) /\ Unused("line", l) /\ Unused("line", m)
      /\ Execute(s, "insert", wants)
      /\ work' = [work EXCEPT ![s].entry = Overlay(@, entry), ![s].line = Overlay(@, line)]
      /\ Fire(s, e, row)
      /\ of # None => of \in RowsOf(View(s).entry)
  <2>1. View(s).entry = Sees(s, "entry")
    BY <1>1, Seen
  <2> QED
    BY <1>2, <2>1 DEF InsertEntry, InsertWants, NewLines
<1>5. /\ DOMAIN entry = {e} /\ entry[e] = row
      /\ DOMAIN line = {l, m}
      /\ \A k \in {l, m} : line[k] \in LineRow /\ line[k].entry = e
  BY DEF NewLines, LineRow, Amount
<1>6. db' = db /\ Gets(s, wants) /\ done' = [done EXCEPT ![s] = @ + 1]
  BY <1>4, Executed
<1> HIDE DEF row, entry, line, wants
<1>7. Statement(s, wants, entry, line, <<>>, <<>>)
  <2>1. Part(entry, Entry, EntryRow) /\ Part(line, Line, LineRow)
    BY <1>2, <1>5 DEF Part
  <2>2. Puts(s, Rows(entry, line, <<>>, <<>>))
    BY <1>1, <1>4, TwoPuts
  <2>3. DOMAIN fired' = Session
    BY <1>1, <1>4 DEF Types, Fire
  <2> QED
    BY <1>3, <1>6, <2>1, <2>2, <2>3, NonePut DEF Statement
<1>8. Owns(s, e)' /\ Alters(s, e)' /\ Locked(s, e)' /\ (of # None => Locked(s, of)')
  BY <1>1, <1>3, <1>6, LocksTaken DEF On
<1>9. \A k \in {l, m} : db.line[k] = None /\ \A t \in Session : k \notin DOMAIN work[t].line
  BY <1>4 DEF Unused
<1>10. References(View(s)')
  <2>1. /\ \A d \in Entry : View(s)'.entry[d] = IF d = e THEN row ELSE View(s).entry[d]
        /\ \A k \in Line : View(s)'.line[k] = IF k \in {l, m} THEN line[k] ELSE View(s).line[k]
        /\ \A x \in Entry \X Line : View(s)'.posting[x] = View(s).posting[x]
        /\ DOMAIN View(s)'.entry = Entry /\ DOMAIN View(s)'.line = Line
        /\ DOMAIN View(s)'.posting = Entry \X Line
    BY <1>1, <1>5, <1>7, StatementTypes, NonePut
  <2>2. /\ View(s).entry \in [Entry -> EntryRow \cup {None}]
        /\ View(s).line \in [Line -> LineRow \cup {None}]
        /\ View(s).posting \in [Entry \X Line -> PostingRow \cup {None}]
    BY <1>1, Seen
  <2>3. View(s).entry[e] = None /\ View(s).line[l] = None /\ View(s).line[m] = None
    BY <1>4, NotSeen
  <2>4. \A k \in RowsOf(View(s)'.line) : View(s)'.entry[View(s)'.line[k].entry] # None
    <3>1. ASSUME NEW k \in RowsOf(View(s)'.line)
          PROVE  View(s)'.entry[View(s)'.line[k].entry] # None
      <4>1. k \in Line /\ View(s)'.line[k] # None
        BY <2>1 DEF RowsOf
      <4>2. CASE k \in {l, m}
        BY <1>2, <1>5, <2>1, <4>1, <4>2
      <4>3. CASE k \notin {l, m}
        <5>1. k \in RowsOf(View(s).line) /\ View(s)'.line[k] = View(s).line[k]
          BY <2>1, <2>2, <4>1, <4>3 DEF RowsOf
        <5>2. View(s).line[k].entry \in Entry
          BY <2>2, <5>1 DEF RowsOf, LineRow
        <5> QED
          BY <1>1, <1>2, <2>1, <5>1, <5>2 DEF References
      <4> QED
        BY <4>2, <4>3
    <3> QED
      BY <3>1
  <2>5. \A d \in RowsOf(View(s)'.entry) :
          View(s)'.entry[d].reversalOf # None
            => View(s)'.entry[View(s)'.entry[d].reversalOf] # None
    BY <1>1, <1>2, <1>4, <2>1, <2>2 DEF References, RowsOf, EntryRow
  <2>6. \A x \in RowsOf(View(s)'.posting) :
          View(s)'.entry[x[1]] # None /\ View(s)'.line[x[2]] # None
    <3>1. ASSUME NEW x \in RowsOf(View(s)'.posting)
          PROVE  View(s)'.entry[x[1]] # None /\ View(s)'.line[x[2]] # None
      <4>1. /\ x \in Entry \X Line /\ x[1] \in Entry /\ x[2] \in Line
            /\ View(s).entry[x[1]] # None /\ View(s).line[x[2]] # None
        BY <1>1, <2>1, <2>2 DEF References, RowsOf
      <4> QED
        BY <2>1, <2>3, <4>1
    <3> QED
      BY <3>1
  <2> QED
    BY <2>4, <2>5, <2>6 DEF References
<1>11. RowsInv'
  <2>1. \A k \in DOMAIN line : line[k] # None => Locked(s, line[k].entry)'
    <3>1. ASSUME NEW k \in DOMAIN line
          PROVE  Locked(s, line[k].entry)'
      <4>1. line[k].entry = e
        BY <1>5
      <4> QED
        BY <1>8, <4>1
    <3> QED
      BY <3>1
  <2>2. row.reversalOf # None => RefersTo(s, e, row.reversalOf)'
    BY <1>2, <1>8 DEF RefersTo
  <2> QED
    BY <1>2, <1>5, <1>7, <1>8, <1>9, <1>10, <2>1, <2>2, NonePut, StatementStep
<1> QED
  BY <1>7, <1>11 DEF row, entry, line, wants

(* The lines an entry is deleted with.                                     *)
LEMMA EntryDeleted ==
  ASSUME RowsInv, NEW s \in Session, NEW e \in Entry, DeleteEntry(s, e)
  PROVE  LET lines == LinesOf(View(s).line, e) IN
         /\ RowsInv'
         /\ Statement(s, {On(x, "all") : x \in lines \cup {e}}, [x \in {e} |-> None],
                      [x \in lines |-> None], <<>>, <<>>)
<1> DEFINE lines == LinesOf(View(s).line, e)
           entry == [x \in {e} |-> None]
           line == [x \in lines |-> None]
           wants == {On(x, "all") : x \in lines \cup {e}}
<1>1. Types /\ LocksApart /\ References(View(s))
  BY DEF RowsInv
<1>2. /\ View(s).entry \in [Entry -> EntryRow \cup {None}]
      /\ View(s).line \in [Line -> LineRow \cup {None}]
      /\ View(s).posting \in [Entry \X Line -> PostingRow \cup {None}]
      /\ View(s).entry = Sees(s, "entry") /\ View(s).line = Sees(s, "line")
      /\ View(s).posting = Sees(s, "posting")
  BY <1>1, Seen
<1>3. lines \subseteq Line /\ \A l \in lines : View(s).line[l] # None /\ View(s).line[l].entry = e
  BY <1>2 DEF LinesOf, RowsOf
<1>4. /\ View(s).entry[e] # None
      /\ \A o \in RowsOf(View(s).entry) : View(s).entry[o].reversalOf # e
      /\ \A x \in RowsOf(View(s).posting) : x[1] # e /\ x[2] \notin lines
      /\ Execute(s, "delete", wants)
      /\ work' = [work EXCEPT ![s].entry = Overlay(@, entry), ![s].line = Overlay(@, line)]
      /\ UNCHANGED fired
  BY <1>2 DEF DeleteEntry
<1>5. /\ wants \in SUBSET Lock
      /\ \A x \in lines \cup {e} : On(x, "all") \in wants
  BY <1>3 DEF On, Lock, Mode
<1>6. /\ DOMAIN entry = {e} /\ entry[e] = None
      /\ DOMAIN line = lines /\ \A l \in lines : line[l] = None
  OBVIOUS
<1>7. db' = db /\ Gets(s, wants) /\ done' = [done EXCEPT ![s] = @ + 1]
  BY <1>4, Executed
<1> HIDE DEF entry, line, wants, lines
<1>8. Statement(s, wants, entry, line, <<>>, <<>>)
  <2>1. Part(entry, Entry, EntryRow) /\ Part(line, Line, LineRow)
    BY <1>3, <1>6 DEF Part
  <2>2. Puts(s, Rows(entry, line, <<>>, <<>>))
    BY <1>1, <1>4, TwoPuts
  <2>3. DOMAIN fired' = Session
    BY <1>1, <1>4 DEF Types
  <2> QED
    BY <1>5, <1>7, <2>1, <2>2, <2>3, NonePut DEF Statement
<1>9. \A x \in lines \cup {e} : Owns(s, x)' /\ Alters(s, x)'
  BY <1>1, <1>5, <1>7, LocksTaken DEF On
<1>10. ASSUME NEW l \in lines, NEW t \in Session \ {s}
       PROVE  l \notin DOMAIN work[t].line
  <2>1. PICK m \in wants : m.row = l /\ m.mode \in {"change", "all"}
    <3>1. On(l, "all") \in wants
      BY <1>5
    <3>2. On(l, "all").row = l /\ On(l, "all").mode = "all"
      BY DEF On
    <3> QED
      BY <3>1, <3>2
  <2>2. l \in Line /\ View(s).line[l] # None
    BY <1>3
  <2> QED
    BY <1>5, <1>7, <2>1, <2>2, LineTaken
<1>11. References(View(s)')
  <2>1. /\ \A d \in Entry : View(s)'.entry[d] = IF d = e THEN None ELSE View(s).entry[d]
        /\ \A k \in Line : View(s)'.line[k] = IF k \in lines THEN None ELSE View(s).line[k]
        /\ \A x \in Entry \X Line : View(s)'.posting[x] = View(s).posting[x]
        /\ DOMAIN View(s)'.entry = Entry /\ DOMAIN View(s)'.line = Line
        /\ DOMAIN View(s)'.posting = Entry \X Line
    BY <1>1, <1>6, <1>8, StatementTypes, NonePut
  <2>2. ASSUME NEW k \in RowsOf(View(s)'.line)
        PROVE  View(s)'.entry[View(s)'.line[k].entry] # None
    <3>1. /\ k \in Line /\ k \notin lines /\ View(s)'.line[k] = View(s).line[k]
          /\ k \in RowsOf(View(s).line)
      BY <1>2, <2>1 DEF RowsOf
    <3>2. View(s).line[k].entry \in Entry /\ View(s).line[k].entry # e
      BY <1>2, <3>1 DEF RowsOf, LineRow, LinesOf, lines
    <3> QED
      BY <1>1, <2>1, <3>1, <3>2 DEF References
  <2>3. \A d \in RowsOf(View(s)'.entry) :
          View(s)'.entry[d].reversalOf # None
            => View(s)'.entry[View(s)'.entry[d].reversalOf] # None
    BY <1>1, <1>2, <1>4, <2>1 DEF References, RowsOf, EntryRow
  <2>4. ASSUME NEW x \in RowsOf(View(s)'.posting)
        PROVE  View(s)'.entry[x[1]] # None /\ View(s)'.line[x[2]] # None
    <3>1. /\ x \in RowsOf(View(s).posting) /\ x[1] \in Entry /\ x[2] \in Line
          /\ View(s).entry[x[1]] # None /\ View(s).line[x[2]] # None
      BY <1>1, <1>2, <2>1 DEF References, RowsOf
    <3> QED
      BY <1>4, <2>1, <3>1
  <2> QED
    BY <2>2, <2>3, <2>4 DEF References
<1>12. RowsInv'
  <2>1. \A d \in DOMAIN entry : entry[d] = None /\ Owns(s, d)' /\ Alters(s, d)'
    BY <1>6, <1>9
  <2>2. \A l \in DOMAIN line :
          /\ line[l] = None /\ Owns(s, l)' /\ Alters(s, l)'
          /\ \A t \in Session \ {s} : l \notin DOMAIN work[t].line
    BY <1>6, <1>9, <1>10
  <2> QED
    BY <1>8, <1>11, <2>1, <2>2, NonePut, StatementStep
<1> QED
  BY <1>8, <1>12 DEF entry, line, wants, lines

(* A posting in the ledger.                                                *)
LEMMA PostingInserted ==
  ASSUME RowsInv, NEW s \in Session, NEW e \in Entry, NEW l \in Line, NEW row \in PostingRow,
         InsertPosting(s, e, l, row)
  PROVE  /\ RowsInv'
         /\ Statement(s, {On(x, "share") : x \in {e, l, row.period}},
                      <<>>, <<>>, [x \in {<<e, l>>} |-> row], <<>>)
<1> DEFINE posting == [x \in {<<e, l>>} |-> row]
           wants == {On(x, "share") : x \in {e, l, row.period}}
           at == <<e, l>>
<1>1. Types /\ LocksApart /\ References(View(s))
  BY DEF RowsInv
<1>2. /\ View(s).entry \in [Entry -> EntryRow \cup {None}]
      /\ View(s).line \in [Line -> LineRow \cup {None}]
      /\ View(s).posting \in [Entry \X Line -> PostingRow \cup {None}]
      /\ View(s).entry = Sees(s, "entry") /\ View(s).line = Sees(s, "line")
  BY <1>1, Seen
<1>3. /\ Unused("posting", at)
      /\ View(s).entry[e] # None /\ View(s).line[l] # None
      /\ Execute(s, "ledger", wants)
      /\ Write(s, "posting", posting)
      /\ UNCHANGED fired
  BY <1>2 DEF InsertPosting, Proven
<1>4. row # None /\ row.period \in Period /\ at \in Entry \X Line /\ at[1] = e /\ at[2] = l
  BY GuardsAssumption DEF PostingRow
<1>5. wants \in SUBSET Lock /\ On(e, "share") \in wants /\ On(l, "share") \in wants
  BY <1>4 DEF On, Lock, Mode
<1>6. DOMAIN posting = {at} /\ posting[at] = row
  OBVIOUS
<1>7. db' = db /\ Gets(s, wants) /\ done' = [done EXCEPT ![s] = @ + 1]
  BY <1>3, Executed
<1> HIDE DEF posting, wants, at
<1>8. Statement(s, wants, <<>>, <<>>, posting, <<>>)
  <2>1. Part(posting, Entry \X Line, PostingRow)
    BY <1>4, <1>6 DEF Part
  <2>2. Puts(s, Rows(<<>>, <<>>, posting, <<>>))
    BY <1>1, <1>3, WritePuts
  <2>3. DOMAIN fired' = Session
    BY <1>1, <1>3 DEF Types
  <2> QED
    BY <1>5, <1>7, <2>1, <2>2, <2>3, NonePut DEF Statement
<1>9. Locked(s, e)' /\ Locked(s, l)'
  BY <1>1, <1>5, <1>7, LocksTaken DEF On
<1>10. References(View(s)')
  <2>1. /\ \A d \in Entry : View(s)'.entry[d] = View(s).entry[d]
        /\ \A k \in Line : View(s)'.line[k] = View(s).line[k]
        /\ \A x \in Entry \X Line :
             View(s)'.posting[x] = IF x = at THEN row ELSE View(s).posting[x]
        /\ DOMAIN View(s)'.entry = Entry /\ DOMAIN View(s)'.line = Line
        /\ DOMAIN View(s)'.posting = Entry \X Line
    BY <1>1, <1>6, <1>8, StatementTypes, NonePut
  <2>2. \A k \in RowsOf(View(s)'.line) : View(s)'.entry[View(s)'.line[k].entry] # None
    BY <1>1, <1>2, <2>1 DEF References, RowsOf, LineRow
  <2>3. \A d \in RowsOf(View(s)'.entry) :
          View(s)'.entry[d].reversalOf # None
            => View(s)'.entry[View(s)'.entry[d].reversalOf] # None
    BY <1>1, <1>2, <2>1 DEF References, RowsOf, EntryRow
  <2>4. ASSUME NEW x \in RowsOf(View(s)'.posting)
        PROVE  View(s)'.entry[x[1]] # None /\ View(s)'.line[x[2]] # None
    <3>1. x \in Entry \X Line /\ x[1] \in Entry /\ x[2] \in Line /\ View(s)'.posting[x] # None
      BY <2>1 DEF RowsOf
    <3>2. CASE x = at
      BY <1>3, <1>4, <2>1, <3>2
    <3>3. CASE x # at
      <4>1. x \in RowsOf(View(s).posting)
        BY <1>2, <2>1, <3>1, <3>3 DEF RowsOf
      <4> QED
        BY <1>1, <2>1, <3>1, <4>1 DEF References
    <3> QED
      BY <3>2, <3>3
  <2> QED
    BY <2>2, <2>3, <2>4 DEF References
<1>11. RowsInv'
  <2>1. \A x \in DOMAIN posting :
          /\ \A t \in Session \ {s} : x \notin DOMAIN work[t].posting
          /\ db.posting[x] = None /\ posting[x] # None
          /\ Locked(s, x[1])' /\ Locked(s, x[2])'
    BY <1>3, <1>4, <1>6, <1>9 DEF Unused
  <2> QED
    BY <1>8, <1>10, <2>1, NonePut, StatementStep
<1> QED
  BY <1>8, <1>11 DEF posting, wants, at

(* A period closed or opened.                                              *)
LEMMA PeriodSet ==
  ASSUME RowsInv, NEW s \in Session, NEW p \in Period, NEW status \in {"OPEN", "CLOSED"},
         SetPeriod(s, p, status)
  PROVE  /\ RowsInv'
         /\ Statement(s, {On(p, "change")}, <<>>, <<>>, <<>>, [x \in {p} |-> status])
<1> DEFINE period == [x \in {p} |-> status]
           wants == {On(p, "change")}
<1>1. Types /\ LocksApart /\ References(View(s))
  BY DEF RowsInv
<1>2. PICK kind : Execute(s, kind, wants)
  BY DEF SetPeriod
<1>3. Write(s, "period", period) /\ UNCHANGED fired
  BY DEF SetPeriod
<1>4. wants \in SUBSET Lock /\ On(p, "change") \in wants
  BY DEF On, Lock, Mode
<1>5. DOMAIN period = {p} /\ period[p] = status
  OBVIOUS
<1>6. db' = db /\ Gets(s, wants) /\ done' = [done EXCEPT ![s] = @ + 1]
  BY <1>2, Executed
<1> HIDE DEF period, wants
<1>7. Statement(s, wants, <<>>, <<>>, <<>>, period)
  <2>1. DOMAIN period \subseteq Period /\ \A x \in DOMAIN period : period[x] \in {"OPEN", "CLOSED"}
    BY <1>5
  <2>2. Puts(s, Rows(<<>>, <<>>, <<>>, period))
    BY <1>1, <1>3, WritePuts
  <2>3. DOMAIN fired' = Session
    BY <1>1, <1>3 DEF Types
  <2> QED
    BY <1>4, <1>6, <2>1, <2>2, <2>3, NonePut DEF Statement
<1>8. \A x \in DOMAIN period : Alters(s, x)'
  BY <1>1, <1>4, <1>5, <1>6, LocksTaken DEF On
<1>9. References(View(s)')
  <2>1. /\ \A d \in Entry : View(s)'.entry[d] = View(s).entry[d]
        /\ \A k \in Line : View(s)'.line[k] = View(s).line[k]
        /\ \A x \in Entry \X Line : View(s)'.posting[x] = View(s).posting[x]
        /\ DOMAIN View(s)'.entry = Entry /\ DOMAIN View(s)'.line = Line
        /\ DOMAIN View(s)'.posting = Entry \X Line
    BY <1>1, <1>7, StatementTypes, NonePut
  <2>2. /\ View(s).entry \in [Entry -> EntryRow \cup {None}]
        /\ View(s).line \in [Line -> LineRow \cup {None}]
        /\ View(s).posting \in [Entry \X Line -> PostingRow \cup {None}]
    BY <1>1, Seen
  <2> QED
    BY <1>1, <2>1, <2>2 DEF References, RowsOf, EntryRow, LineRow
<1>10. RowsInv'
  BY <1>7, <1>8, <1>9, NonePut, StatementStep
<1> QED
  BY <1>7, <1>10 DEF period, wants

----------------------------------------------------------------------------
(* The end of a transaction                                                *)

(* A transaction that ends forgets its rows and lets go of its locks.      *)
LEMMA Ended ==
  ASSUME Types, NEW s \in Session, End(s)
  PROVE  /\ work'[s] = Nothing /\ locks'[s] = {} /\ fired'[s] = {} /\ done'[s] = 0
         /\ \A t \in Session \ {s} : /\ work'[t] = work[t] /\ locks'[t] = locks[t]
                                     /\ fired'[t] = fired[t] /\ done'[t] = done[t]
         /\ DOMAIN work' = Session /\ DOMAIN fired' = Session
         /\ locks' \in [Session -> SUBSET Lock] /\ done' \in [Session -> Nat]
         /\ Parts(Nothing)
<1>1. Parts(Nothing)
  BY NoRows DEF Parts, Part, Tables
<1> QED
  BY <1>1 DEF Types, End

(* The types, and what s sees when it has ended.                           *)
LEMMA EndTypes ==
  ASSUME RowsInv, NEW s \in Session, End(s), Whole(db')
  PROVE  /\ Types' /\ LocksApart'
         /\ View(s)'.entry = db'.entry /\ View(s)'.line = db'.line
         /\ View(s)'.posting = db'.posting /\ View(s)'.period = db'.period
         /\ WritesLocked(s)' /\ ReferencesLocked(s)'
         /\ \A t \in Session \ {s} : WritesApart(s, t)' /\ WritesApart(t, s)'
<1>1. Types
  BY DEF RowsInv
<1>2. /\ work'[s] = Nothing /\ locks'[s] = {}
      /\ \A t \in Session \ {s} : work'[t] = work[t] /\ locks'[t] = locks[t]
      /\ DOMAIN work' = Session /\ DOMAIN fired' = Session
      /\ locks' \in [Session -> SUBSET Lock] /\ done' \in [Session -> Nat]
      /\ Parts(Nothing)
  BY <1>1, Ended
<1>3. \A t \in Session : Parts(work'[t])
  BY <1>1, <1>2 DEF Types
<1>4. Types'
  BY <1>2, <1>3 DEF Types
<1>5. LocksApart'
  BY <1>2 DEF RowsInv, LocksApart, Conflict
<1>6. View(s)' = LaidOn(db', work'[s])
  BY DEF View, Sees, LaidOn
<1>7. /\ DOMAIN work'[s].entry = {} /\ DOMAIN work'[s].line = {}
      /\ DOMAIN work'[s].posting = {} /\ DOMAIN work'[s].period = {}
  BY <1>2, NoRows DEF Tables
<1>8. View(s)'.entry = db'.entry
  <2>1. LaidOn(db', work'[s]).entry \in [Entry -> EntryRow \cup {None}]
    BY <1>3, LaidOver
  <2>2. \A e \in Entry : LaidOn(db', work'[s]).entry[e] = db'.entry[e]
    BY <1>3, <1>7, LaidOver
  <2> QED
    BY <1>6, <2>1, <2>2 DEF Whole
<1>9. View(s)'.line = db'.line
  <2>1. LaidOn(db', work'[s]).line \in [Line -> LineRow \cup {None}]
    BY <1>3, LaidOver
  <2>2. \A l \in Line : LaidOn(db', work'[s]).line[l] = db'.line[l]
    BY <1>3, <1>7, LaidOver
  <2> QED
    BY <1>6, <2>1, <2>2 DEF Whole
<1>10. View(s)'.posting = db'.posting
  <2>1. LaidOn(db', work'[s]).posting \in [Entry \X Line -> PostingRow \cup {None}]
    BY <1>3, LaidOver
  <2>2. \A x \in Entry \X Line : LaidOn(db', work'[s]).posting[x] = db'.posting[x]
    BY <1>3, <1>7, LaidOver
  <2> QED
    BY <1>6, <2>1, <2>2 DEF Whole
<1>11. View(s)'.period = db'.period
  <2>1. LaidOn(db', work'[s]).period \in [Period -> {"OPEN", "CLOSED"}]
    BY <1>3, LaidOver
  <2>2. \A p \in Period : LaidOn(db', work'[s]).period[p] = db'.period[p]
    BY <1>3, <1>7, LaidOver
  <2> QED
    BY <1>6, <2>1, <2>2 DEF Whole
<1>12. WritesLocked(s)' /\ ReferencesLocked(s)'
  BY <1>7 DEF WritesLocked, ReferencesLocked, RowsOf
<1>13. \A t \in Session \ {s} : WritesApart(s, t)' /\ WritesApart(t, s)'
  BY <1>2, <1>7 DEF WritesApart, Tables
<1> QED
  BY <1>4, <1>5, <1>8, <1>9, <1>10, <1>11, <1>12, <1>13

(* Nothing is left of a transaction that is rolled back.                   *)
LEMMA RollbackRows ==
  ASSUME RowsInv, NEW s \in Session, Rollback(s)
  PROVE  /\ RowsInv' /\ \A t \in Session \ {s} : View(t)' = View(t)
         /\ View(s)'.entry = db.entry /\ View(s)'.line = db.line
         /\ View(s)'.posting = db.posting
<1>1. Types /\ End(s) /\ db' = db
  BY DEF RowsInv, Rollback
<1>2. Whole(db')
  BY <1>1 DEF Types
<1>3. /\ Types' /\ LocksApart'
      /\ View(s)'.entry = db'.entry /\ View(s)'.line = db'.line
      /\ View(s)'.posting = db'.posting
      /\ WritesLocked(s)' /\ ReferencesLocked(s)'
      /\ \A t \in Session \ {s} : WritesApart(s, t)' /\ WritesApart(t, s)'
  BY <1>1, <1>2, EndTypes
<1>4. \A t \in Session \ {s} : work'[t] = work[t] /\ locks'[t] = locks[t]
  BY <1>1, Ended
<1>5. References(db') /\ References(View(s)')
  BY <1>1, <1>3 DEF RowsInv, References
<1>6. \A t \in Session \ {s} : View(t)' = View(t)
  BY <1>1, <1>4 DEF View, Sees
<1>7. ASSUME NEW t \in Session \ {s}
      PROVE  WritesLocked(t)' /\ References(View(t)') /\ ReferencesLocked(t)'
  <2>1. WritesLocked(t) /\ References(View(t)) /\ ReferencesLocked(t)
    BY DEF RowsInv
  <2>2. WritesLocked(t)'
    BY <1>1, <1>4, <2>1 DEF WritesLocked, Alters, Owns
  <2>3. ReferencesLocked(t)'
    BY <1>1, <1>4, <2>1 DEF ReferencesLocked, RefersTo, Locked
  <2> QED
    BY <1>6, <2>1, <2>2, <2>3
<1>8. ASSUME NEW t \in Session, NEW u \in Session, t # u
      PROVE  WritesApart(t, u)'
  <2>1. CASE t = s \/ u = s
    BY <1>3, <1>8, <2>1
  <2>2. CASE t # s /\ u # s
    BY <1>4, <1>8, <2>2 DEF RowsInv, WritesApart
  <2> QED
    BY <2>1, <2>2
<1> QED
  BY <1>1, <1>3, <1>5, <1>6, <1>7, <1>8 DEF RowsInv

(* What t sees once s has committed: its own rows, or those s saw.         *)
LEMMA CommitSeen ==
  ASSUME RowsInv, NEW s \in Session, Commit(s)
  PROVE  /\ Types' /\ LocksApart' /\ db' = View(s)
         /\ View(s)'.entry = db'.entry /\ View(s)'.line = db'.line
         /\ View(s)'.posting = db'.posting
         /\ WritesLocked(s)' /\ ReferencesLocked(s)'
         /\ \A t \in Session \ {s} :
              /\ WritesApart(s, t)' /\ WritesApart(t, s)'
              /\ work'[t] = work[t] /\ locks'[t] = locks[t]
              /\ DOMAIN View(t)'.entry = Entry /\ DOMAIN View(t)'.line = Line
              /\ DOMAIN View(t)'.posting = Entry \X Line
              /\ \A e \in Entry :
                   View(t)'.entry[e] = IF e \in DOMAIN work[t].entry THEN work[t].entry[e]
                                                                     ELSE View(s).entry[e]
              /\ \A l \in Line :
                   View(t)'.line[l] = IF l \in DOMAIN work[t].line THEN work[t].line[l]
                                                                   ELSE View(s).line[l]
              /\ \A x \in Entry \X Line :
                   View(t)'.posting[x] = IF x \in DOMAIN work[t].posting THEN work[t].posting[x]
                                                                         ELSE View(s).posting[x]
<1>1. Types /\ End(s)
  BY DEF RowsInv, Commit
<1>2. db' = View(s)
  BY DEF Commit, View
<1>3. Whole(db')
  BY <1>1, <1>2, Seen DEF Whole
<1>4. /\ Types' /\ LocksApart'
      /\ View(s)'.entry = db'.entry /\ View(s)'.line = db'.line
      /\ View(s)'.posting = db'.posting
      /\ WritesLocked(s)' /\ ReferencesLocked(s)'
      /\ \A t \in Session \ {s} : WritesApart(s, t)' /\ WritesApart(t, s)'
  BY <1>1, <1>3, EndTypes
<1>5. \A t \in Session \ {s} : work'[t] = work[t] /\ locks'[t] = locks[t]
  BY <1>1, Ended
<1>6. ASSUME NEW t \in Session \ {s}
      PROVE  /\ DOMAIN View(t)'.entry = Entry /\ DOMAIN View(t)'.line = Line
             /\ DOMAIN View(t)'.posting = Entry \X Line
             /\ \A e \in Entry :
                  View(t)'.entry[e] = IF e \in DOMAIN work[t].entry THEN work[t].entry[e]
                                                                    ELSE View(s).entry[e]
             /\ \A l \in Line :
                  View(t)'.line[l] = IF l \in DOMAIN work[t].line THEN work[t].line[l]
                                                                  ELSE View(s).line[l]
             /\ \A x \in Entry \X Line :
                  View(t)'.posting[x] = IF x \in DOMAIN work[t].posting THEN work[t].posting[x]
                                                                        ELSE View(s).posting[x]
  <2>1. View(t)' = LaidOn(db', work[t]) /\ Parts(work[t])
    BY <1>1, <1>5 DEF Types, View, Sees, LaidOn
  <2>2. /\ LaidOn(db', work[t]).entry \in [Entry -> EntryRow \cup {None}]
        /\ LaidOn(db', work[t]).line \in [Line -> LineRow \cup {None}]
        /\ LaidOn(db', work[t]).posting \in [Entry \X Line -> PostingRow \cup {None}]
    BY <1>3, <2>1, LaidOver
  <2>3. /\ \A e \in Entry :
             LaidOn(db', work[t]).entry[e]
               = IF e \in DOMAIN work[t].entry THEN work[t].entry[e] ELSE db'.entry[e]
        /\ \A l \in Line :
             LaidOn(db', work[t]).line[l]
               = IF l \in DOMAIN work[t].line THEN work[t].line[l] ELSE db'.line[l]
        /\ \A x \in Entry \X Line :
             LaidOn(db', work[t]).posting[x]
               = IF x \in DOMAIN work[t].posting THEN work[t].posting[x] ELSE db'.posting[x]
    BY <1>3, <2>1, LaidOver
  <2> QED
    BY <1>2, <2>1, <2>2, <2>3
<1> QED
  BY <1>2, <1>4, <1>5, <1>6

(* A row that t or s holds a lock on, and sees, is there when s has        *)
(* committed; so is one that both see.                                     *)
LEMMA StillThere ==
  ASSUME RowsInv, NEW s \in Session, Commit(s), NEW t \in Session \ {s}
  PROVE  /\ \A e \in Entry :
              \/ Locked(t, e) /\ View(t).entry[e] # None
              \/ Locked(s, e) /\ View(s).entry[e] # None
              \/ View(t).entry[e] # None /\ View(s).entry[e] # None
              => View(t)'.entry[e] # None
         /\ \A l \in Line :
              \/ Locked(t, l) /\ View(t).line[l] # None
              \/ Locked(s, l) /\ View(s).line[l] # None
              \/ View(t).line[l] # None /\ View(s).line[l] # None
              => View(t)'.line[l] # None
<1>1. /\ Types /\ LocksApart /\ WritesLocked(s) /\ WritesLocked(t)
      /\ WritesApart(s, t) /\ s # t
  BY DEF RowsInv
<1>2. /\ \A x : Owns(s, x) => ~Locked(t, x)
      /\ \A x : Owns(t, x) => ~Locked(s, x)
  BY <1>1, Excluded
<1>3. ASSUME NEW e \in Entry,
             \/ Locked(t, e) /\ View(t).entry[e] # None
             \/ Locked(s, e) /\ View(s).entry[e] # None
             \/ View(t).entry[e] # None /\ View(s).entry[e] # None
      PROVE  View(t)'.entry[e] # None
  <2>1. /\ View(t)'.entry[e] = IF e \in DOMAIN work[t].entry THEN work[t].entry[e]
                                                             ELSE View(s).entry[e]
        /\ View(t).entry[e] = IF e \in DOMAIN work[t].entry THEN work[t].entry[e] ELSE db.entry[e]
        /\ View(s).entry[e] = IF e \in DOMAIN work[s].entry THEN work[s].entry[e] ELSE db.entry[e]
    BY <1>1, Seen, CommitSeen
  <2>2. /\ e \in DOMAIN work[t].entry /\ work[t].entry[e] = None => Owns(t, e)
        /\ e \in DOMAIN work[s].entry /\ work[s].entry[e] = None => Owns(s, e)
        /\ ~(e \in DOMAIN work[t].entry /\ e \in DOMAIN work[s].entry)
    BY <1>1 DEF WritesLocked, WritesApart, Tables
  <2>3. db.entry[e] = None =>
          /\ e \in DOMAIN work[t].entry => Owns(t, e)
          /\ e \in DOMAIN work[s].entry => Owns(s, e)
    BY <1>1 DEF WritesLocked
  <2> QED
    BY <1>2, <1>3, <2>1, <2>2, <2>3
<1>4. ASSUME NEW l \in Line,
             \/ Locked(t, l) /\ View(t).line[l] # None
             \/ Locked(s, l) /\ View(s).line[l] # None
             \/ View(t).line[l] # None /\ View(s).line[l] # None
      PROVE  View(t)'.line[l] # None
  <2>1. /\ View(t)'.line[l] = IF l \in DOMAIN work[t].line THEN work[t].line[l]
                                                           ELSE View(s).line[l]
        /\ View(t).line[l] = IF l \in DOMAIN work[t].line THEN work[t].line[l] ELSE db.line[l]
        /\ View(s).line[l] = IF l \in DOMAIN work[s].line THEN work[s].line[l] ELSE db.line[l]
    BY <1>1, Seen, CommitSeen
  <2>2. db.line[l] # None =>
          /\ l \in DOMAIN work[t].line /\ work[t].line[l] = None => Owns(t, l)
          /\ l \in DOMAIN work[s].line /\ work[s].line[l] = None => Owns(s, l)
    BY <1>1 DEF WritesLocked
  <2>3. ~(l \in DOMAIN work[t].line /\ l \in DOMAIN work[s].line)
    BY <1>1 DEF WritesApart, Tables
  <2> QED
    BY <1>2, <1>4, <2>1, <2>2, <2>3
<1> QED
  BY <1>3, <1>4

(* What s has committed keeps the references that t sees.                  *)
LEMMA CommitReferences ==
  ASSUME RowsInv, NEW s \in Session, Commit(s), NEW t \in Session \ {s}
  PROVE  References(View(t)')
<1>1. /\ Types /\ References(View(s)) /\ References(View(t))
      /\ ReferencesLocked(s) /\ ReferencesLocked(t) /\ WritesApart(s, t)
  BY DEF RowsInv
<1>2. /\ View(s).entry \in [Entry -> EntryRow \cup {None}]
      /\ View(s).line \in [Line -> LineRow \cup {None}]
      /\ View(s).posting \in [Entry \X Line -> PostingRow \cup {None}]
      /\ View(t).entry \in [Entry -> EntryRow \cup {None}]
      /\ View(t).line \in [Line -> LineRow \cup {None}]
      /\ View(t).posting \in [Entry \X Line -> PostingRow \cup {None}]
  BY <1>1, Seen
<1>3. /\ DOMAIN View(t)'.entry = Entry /\ DOMAIN View(t)'.line = Line
      /\ DOMAIN View(t)'.posting = Entry \X Line
  BY CommitSeen
<1>4. ASSUME NEW l \in RowsOf(View(t)'.line)
      PROVE  View(t)'.entry[View(t)'.line[l].entry] # None
  <2>1. l \in Line /\ View(t)'.line[l] # None
    BY <1>3 DEF RowsOf
  <2>2. /\ View(t)'.line[l] = IF l \in DOMAIN work[t].line THEN work[t].line[l]
                                                           ELSE View(s).line[l]
        /\ View(t).line[l] = IF l \in DOMAIN work[t].line THEN work[t].line[l] ELSE db.line[l]
        /\ View(s).line[l] = IF l \in DOMAIN work[s].line THEN work[s].line[l] ELSE db.line[l]
    BY <1>1, <2>1, Seen, CommitSeen
  <2>3. CASE l \in DOMAIN work[t].line
    <3>1. /\ View(t)'.line[l] = View(t).line[l]
          /\ View(t).line[l].entry \in Entry /\ View(t).entry[View(t).line[l].entry] # None
          /\ Locked(t, View(t).line[l].entry)
      BY <1>1, <1>2, <2>1, <2>2, <2>3 DEF References, RowsOf, LineRow, ReferencesLocked
    <3> QED
      BY <3>1, StillThere
  <2>4. CASE l \notin DOMAIN work[t].line
    <3>1. /\ View(t)'.line[l] = View(s).line[l]
          /\ View(s).line[l].entry \in Entry /\ View(s).entry[View(s).line[l].entry] # None
      BY <1>1, <1>2, <2>1, <2>2, <2>4 DEF References, RowsOf, LineRow
    <3>2. CASE l \in DOMAIN work[s].line
      <4>1. Locked(s, View(s).line[l].entry)
        BY <1>1, <2>1, <2>2, <2>4, <3>2 DEF RowsOf, ReferencesLocked
      <4> QED
        BY <3>1, <4>1, StillThere
    <3>3. CASE l \notin DOMAIN work[s].line
      <4>1. View(t).line[l] = View(s).line[l] /\ View(t).entry[View(s).line[l].entry] # None
        BY <1>1, <1>2, <2>1, <2>2, <2>4, <3>3 DEF References, RowsOf
      <4> QED
        BY <3>1, <4>1, StillThere
    <3> QED
      BY <3>2, <3>3
  <2> QED
    BY <2>3, <2>4
<1>5. ASSUME NEW e \in RowsOf(View(t)'.entry), View(t)'.entry[e].reversalOf # None
      PROVE  View(t)'.entry[View(t)'.entry[e].reversalOf] # None
  <2>1. e \in Entry /\ View(t)'.entry[e] # None
    BY <1>3 DEF RowsOf
  <2>2. /\ View(t)'.entry[e] = IF e \in DOMAIN work[t].entry THEN work[t].entry[e]
                                                             ELSE View(s).entry[e]
        /\ View(t).entry[e] = IF e \in DOMAIN work[t].entry THEN work[t].entry[e] ELSE db.entry[e]
        /\ View(s).entry[e] = IF e \in DOMAIN work[s].entry THEN work[s].entry[e] ELSE db.entry[e]
    BY <1>1, <2>1, Seen, CommitSeen
  <2>3. ~(e \in DOMAIN work[t].entry /\ e \in DOMAIN work[s].entry)
    BY <1>1 DEF WritesApart, Tables
  <2>4. PICK of : of = View(t)'.entry[e].reversalOf
    OBVIOUS
  <2>5. of # None
    BY <1>5, <2>4
  <2>6. /\ View(t).entry[e] # None /\ View(t).entry[e].reversalOf = of
             => of \in Entry /\ View(t).entry[of] # None
        /\ View(s).entry[e] # None /\ View(s).entry[e].reversalOf = of
             => of \in Entry /\ View(s).entry[of] # None
    BY <1>1, <1>2, <2>1, <2>5 DEF References, RowsOf, EntryRow
  <2>7. CASE e \in DOMAIN work[t].entry
    <3>1. /\ View(t).entry[e] # None /\ View(t).entry[e].reversalOf = of
          /\ work[t].entry[e] # None /\ work[t].entry[e].reversalOf = of
          /\ View(s).entry[e] = db.entry[e]
      BY <2>1, <2>2, <2>3, <2>4, <2>7
    <3>2. RefersTo(t, e, of)
      BY <1>1, <2>5, <2>7, <3>1 DEF ReferencesLocked, RowsOf
    <3>3. CASE Locked(t, of)
      BY <2>4, <2>6, <3>1, <3>3, StillThere
    <3>4. CASE db.entry[e] # None /\ db.entry[e].reversalOf = of
      BY <2>4, <2>6, <3>1, <3>4, StillThere
    <3> QED
      BY <3>2, <3>3, <3>4 DEF RefersTo
  <2>8. CASE e \in DOMAIN work[s].entry
    <3>1. /\ View(s).entry[e] # None /\ View(s).entry[e].reversalOf = of
          /\ work[s].entry[e] # None /\ work[s].entry[e].reversalOf = of
          /\ View(t).entry[e] = db.entry[e]
      BY <2>1, <2>2, <2>3, <2>4, <2>8
    <3>2. RefersTo(s, e, of)
      BY <1>1, <2>5, <2>8, <3>1 DEF ReferencesLocked, RowsOf
    <3>3. CASE Locked(s, of)
      BY <2>4, <2>6, <3>1, <3>3, StillThere
    <3>4. CASE db.entry[e] # None /\ db.entry[e].reversalOf = of
      BY <2>4, <2>6, <3>1, <3>4, StillThere
    <3> QED
      BY <3>2, <3>3, <3>4 DEF RefersTo
  <2>9. CASE e \notin DOMAIN work[t].entry /\ e \notin DOMAIN work[s].entry
    <3>1. /\ View(s).entry[e] = db.entry[e] /\ View(t).entry[e] = db.entry[e]
          /\ db.entry[e] # None /\ db.entry[e].reversalOf = of
      BY <2>1, <2>2, <2>4, <2>9
    <3> QED
      BY <2>4, <2>6, <3>1, StillThere
  <2> QED
    BY <2>7, <2>8, <2>9
<1>6. ASSUME NEW x \in RowsOf(View(t)'.posting)
      PROVE  View(t)'.entry[x[1]] # None /\ View(t)'.line[x[2]] # None
  <2>1. /\ x \in Entry \X Line /\ x[1] \in Entry /\ x[2] \in Line
        /\ View(t)'.posting[x] # None
    BY <1>3 DEF RowsOf
  <2>2. /\ View(t)'.posting[x] = IF x \in DOMAIN work[t].posting THEN work[t].posting[x]
                                                                 ELSE View(s).posting[x]
        /\ View(t).posting[x] = IF x \in DOMAIN work[t].posting THEN work[t].posting[x]
                                                                ELSE db.posting[x]
        /\ View(s).posting[x] = IF x \in DOMAIN work[s].posting THEN work[s].posting[x]
                                                                ELSE db.posting[x]
    BY <1>1, <2>1, Seen, CommitSeen
  <2>3. /\ View(t).posting[x] # None => View(t).entry[x[1]] # None /\ View(t).line[x[2]] # None
        /\ View(s).posting[x] # None => View(s).entry[x[1]] # None /\ View(s).line[x[2]] # None
    BY <1>1, <1>2, <2>1 DEF References, RowsOf
  <2>4. CASE x \in DOMAIN work[t].posting
    <3>1. Locked(t, x[1]) /\ Locked(t, x[2]) /\ View(t).posting[x] # None
      BY <1>1, <2>1, <2>2, <2>4 DEF ReferencesLocked, RowsOf
    <3> QED
      BY <2>1, <2>3, <3>1, StillThere
  <2>5. CASE x \notin DOMAIN work[t].posting /\ x \in DOMAIN work[s].posting
    <3>1. Locked(s, x[1]) /\ Locked(s, x[2]) /\ View(s).posting[x] # None
      BY <1>1, <2>1, <2>2, <2>5 DEF ReferencesLocked, RowsOf
    <3> QED
      BY <2>1, <2>3, <3>1, StillThere
  <2>6. CASE x \notin DOMAIN work[t].posting /\ x \notin DOMAIN work[s].posting
    <3>1. View(t).posting[x] # None /\ View(s).posting[x] # None
      BY <2>1, <2>2, <2>6
    <3> QED
      BY <2>1, <2>3, <3>1, StillThere
  <2> QED
    BY <2>4, <2>5, <2>6
<1> QED
  BY <1>4, <1>5, <1>6 DEF References

(* What a session has locked and written stays apart from what another     *)
(* has, when that one commits.                                             *)
LEMMA CommitRows ==
  ASSUME RowsInv, NEW s \in Session, Commit(s)
  PROVE  RowsInv'
<1>1. /\ Types' /\ LocksApart' /\ db' = View(s)
      /\ View(s)'.entry = db'.entry /\ View(s)'.line = db'.line
      /\ View(s)'.posting = db'.posting
      /\ WritesLocked(s)' /\ ReferencesLocked(s)'
      /\ \A t \in Session \ {s} : /\ WritesApart(s, t)' /\ WritesApart(t, s)'
                                  /\ work'[t] = work[t] /\ locks'[t] = locks[t]
  BY CommitSeen
<1>2. References(db') /\ References(View(s)')
  <2>1. References(View(s))
    BY DEF RowsInv
  <2>2. References(db')
    BY <1>1, <2>1
  <2>3. References(View(s)')
    BY <1>1, <2>2 DEF References
  <2> QED
    BY <2>2, <2>3
<1>3. ASSUME NEW t \in Session \ {s}
      PROVE  WritesLocked(t)' /\ ReferencesLocked(t)'
  <2>1. Types /\ WritesLocked(t) /\ ReferencesLocked(t) /\ WritesApart(s, t)
    BY DEF RowsInv
  <2>2. Parts(work[t])
    BY <2>1 DEF Types
  <2>3. /\ \A e \in DOMAIN work[t].entry : e \in Entry /\ db'.entry[e] = db.entry[e]
        /\ \A l \in DOMAIN work[t].line : l \in Line /\ db'.line[l] = db.line[l]
        /\ \A x \in DOMAIN work[t].posting : db'.posting[x] = db.posting[x]
    <3>1. /\ DOMAIN work[t].entry \subseteq Entry /\ DOMAIN work[t].line \subseteq Line
          /\ DOMAIN work[t].posting \subseteq Entry \X Line
      BY <2>2 DEF Parts, Part
    <3>2. /\ DOMAIN work[t].entry \cap DOMAIN work[s].entry = {}
          /\ DOMAIN work[t].line \cap DOMAIN work[s].line = {}
          /\ DOMAIN work[t].posting \cap DOMAIN work[s].posting = {}
      BY <2>1 DEF WritesApart, Tables
    <3> QED
      BY <1>1, <2>1, <3>1, <3>2, Seen
  <2>4. WritesLocked(t)'
    BY <1>1, <2>1, <2>3 DEF WritesLocked, Alters, Owns
  <2>5. ReferencesLocked(t)'
    <3>1. RowsOf(work[t].entry) \subseteq DOMAIN work[t].entry
      BY DEF RowsOf
    <3> QED
      BY <1>1, <2>1, <2>3, <3>1 DEF ReferencesLocked, RefersTo, Locked
  <2> QED
    BY <2>4, <2>5
<1>4. ASSUME NEW t \in Session, NEW u \in Session, t # u
      PROVE  WritesApart(t, u)'
  <2>1. CASE t = s \/ u = s
    BY <1>1, <1>4, <2>1
  <2>2. CASE t # s /\ u # s
    BY <1>1, <1>4, <2>2 DEF RowsInv, WritesApart
  <2> QED
    BY <2>1, <2>2
<1> QED
  BY <1>1, <1>2, <1>3, <1>4, CommitReferences DEF RowsInv

----------------------------------------------------------------------------
(* The other statements, one by one                                        *)

(* The row that SetStatus writes, and what the triggers have asked of it.  *)
StatusWritten(s, e, status, a, row) ==
  /\ Statement(s, {On(e, "change")}, [x \in {e} |-> row], <<>>, <<>>, <<>>)
  /\ View(s).entry[e] \in EntryRow
  /\ row.status = status /\ row.poster = a
  /\ row.creator = View(s).entry[e].creator
  /\ row.period = View(s).entry[e].period
  /\ row.reversalOf = View(s).entry[e].reversalOf
  /\ \/ "restate" \in Kinds
     \/ View(s).entry[e].status = "DRAFT" /\ status = "POSTED"
     \/ View(s).entry[e].status = "POSTED" /\ status = "REVERSED"
  /\ View(s).period[row.period] = "OPEN"
  /\ Kept(row) => Balanced(View(s).line, e)
  /\ Segregated(row)

(* SetStatus keeps the references, and writes such a row.                  *)
LEMMA StatusSet ==
  ASSUME RowsInv, NEW s \in Session, NEW e \in Entry,
         NEW status \in {"DRAFT", "POSTED", "REVERSED"}, NEW a \in Actor,
         SetStatus(s, e, status, a)
  PROVE  RowsInv' /\ \E row \in EntryRow : StatusWritten(s, e, status, a, row)
<1> DEFINE old == View(s).entry[e]
           row == [old EXCEPT !.status = status, !.poster = a]
           kind == CASE <<old.status, status>> = <<"DRAFT", "POSTED">>    -> "post"
                     [] <<old.status, status>> = <<"POSTED", "REVERSED">> -> "reverse"
                     [] OTHER                                             -> "restate"
<1>1. Types
  BY DEF RowsInv
<1>2. View(s).entry = Sees(s, "entry") /\ View(s).line = Sees(s, "line")
      /\ View(s).period = Sees(s, "period") /\ old \in EntryRow \cup {None}
  BY <1>1, Seen
<1>3. /\ old # None /\ Execute(s, kind, {On(e, "change")})
      /\ OpenPeriod(s, row) /\ RequireBalance(s, e, row) /\ Segregated(row)
      /\ Write(s, "entry", [x \in {e} |-> row]) /\ Fire(s, e, row)
  BY <1>2 DEF SetStatus
<1>4. old \in EntryRow
  BY <1>2, <1>3
<1>5. /\ row \in EntryRow /\ row.status = status /\ row.poster = a
      /\ row.reversalOf = old.reversalOf /\ row.period = old.period
      /\ row.creator = old.creator
  <2>1. PICK was \in EntryRow : was = old
    BY <1>4
  <2>2. PICK mid : mid = [was EXCEPT !.status = status]
    OBVIOUS
  <2>3. /\ mid \in EntryRow /\ mid.status = status
        /\ mid.reversalOf = was.reversalOf /\ mid.period = was.period
        /\ mid.creator = was.creator
    BY <2>1, <2>2 DEF EntryRow
  <2>4. row = [mid EXCEPT !.poster = a]
    BY <2>1, <2>2
  <2> HIDE DEF row, old
  <2> QED
    BY <2>1, <2>3, <2>4 DEF EntryRow
<1>6. \/ kind = "restate"
      \/ old.status = "DRAFT" /\ status = "POSTED"
      \/ old.status = "POSTED" /\ status = "REVERSED"
  <2>1. CASE <<old.status, status>> = <<"DRAFT", "POSTED">>
    BY <2>1
  <2>2. CASE <<old.status, status>> = <<"POSTED", "REVERSED">>
    BY <2>2
  <2>3. CASE <<old.status, status>> # <<"DRAFT", "POSTED">>
             /\ <<old.status, status>> # <<"POSTED", "REVERSED">>
    BY <2>3
  <2> QED
    BY <2>1, <2>2, <2>3
<1> HIDE DEF row, kind, old
<1>7. {On(e, "change")} \in SUBSET Lock /\ On(e, "change") \in {On(e, "change")}
  BY DEF On, Lock, Mode
<1>8. fired' = [fired EXCEPT ![s] = @ \cup {<<e, row>>}] /\ DOMAIN fired' = Session
  BY <1>1, <1>3 DEF Fire, Types
<1>9. RowsInv' /\ Statement(s, {On(e, "change")}, [x \in {e} |-> row], <<>>, <<>>, <<>>)
  BY <1>3, <1>5, <1>7, <1>8, EntryChanged DEF old
<1>10. \/ "restate" \in Kinds
       \/ old.status = "DRAFT" /\ status = "POSTED"
       \/ old.status = "POSTED" /\ status = "REVERSED"
  BY <1>3, <1>6, Executed
<1>11. /\ View(s).period[row.period] = "OPEN"
       /\ Kept(row) => Balanced(View(s).line, e)
  BY <1>2, <1>3 DEF OpenPeriod, RequireBalance
<1> QED
  BY <1>4, <1>5, <1>3, <1>9, <1>10, <1>11 DEF old, StatusWritten

(* The row that MoveEntry writes.                                          *)
MoveWritten(s, e, p, row) ==
  /\ Statement(s, {On(e, "change"), On(p, "share")}, [x \in {e} |-> row], <<>>, <<>>, <<>>)
  /\ View(s).entry[e] \in EntryRow
  /\ row.status = View(s).entry[e].status
  /\ row.poster = View(s).entry[e].poster
  /\ row.creator = View(s).entry[e].creator
  /\ row.period = p
  /\ row.reversalOf = View(s).entry[e].reversalOf
  /\ View(s).period[p] = "OPEN"
  /\ Kept(row) => "transfer" \in Kinds

(* MoveEntry keeps the references, and writes such a row.                  *)
LEMMA EntryMoved ==
  ASSUME RowsInv, NEW s \in Session, NEW e \in Entry, NEW p \in Period, MoveEntry(s, e, p)
  PROVE  RowsInv' /\ \E row \in EntryRow : MoveWritten(s, e, p, row)
<1> DEFINE old == View(s).entry[e]
           row == [old EXCEPT !.period = p]
           wants == {On(e, "change"), On(p, "share")}
           kind == IF Kept(old) THEN "transfer" ELSE "move"
<1>1. Types
  BY DEF RowsInv
<1>2. View(s).entry = Sees(s, "entry") /\ View(s).period = Sees(s, "period")
      /\ old \in EntryRow \cup {None}
  BY <1>1, Seen
<1>3. /\ old # None /\ Execute(s, kind, wants) /\ OpenPeriod(s, row)
      /\ Write(s, "entry", [x \in {e} |-> row]) /\ UNCHANGED fired
  BY <1>2 DEF MoveEntry
<1>4. old \in EntryRow
  BY <1>2, <1>3
<1>5. /\ row \in EntryRow /\ row.status = old.status /\ row.poster = old.poster
      /\ row.reversalOf = old.reversalOf /\ row.period = p
      /\ row.creator = old.creator /\ row = [old EXCEPT !.period = p]
  <2>1. PICK was \in EntryRow : was = old
    BY <1>4
  <2>2. row = [was EXCEPT !.period = p]
    BY <2>1
  <2> QED
    BY <2>1, <2>2 DEF EntryRow
<1> HIDE DEF row
<1>6. wants \in SUBSET Lock /\ On(e, "change") \in wants
  BY DEF On, Lock, Mode
<1> HIDE DEF wants
<1>7. RowsInv' /\ Statement(s, wants, [x \in {e} |-> row], <<>>, <<>>, <<>>)
  BY <1>1, <1>3, <1>5, <1>6, EntryChanged DEF Types
<1>8. Kept(row) => "transfer" \in Kinds
  BY <1>3, <1>5, Executed DEF Kept
<1>9. View(s).period[p] = "OPEN"
  BY <1>2, <1>3, <1>5 DEF OpenPeriod
<1> QED
  BY <1>4, <1>5, <1>7, <1>8, <1>9 DEF wants, MoveWritten

(* The row that SetPoster writes.                                          *)
SignWritten(s, e, a, row) ==
  /\ Statement(s, {On(e, "change")}, [x \in {e} |-> row], <<>>, <<>>, <<>>)
  /\ View(s).entry[e] \in EntryRow
  /\ row = [View(s).entry[e] EXCEPT !.poster = a]
  /\ row.status = View(s).entry[e].status /\ row.period = View(s).entry[e].period
  /\ row.creator = View(s).entry[e].creator
  /\ row.reversalOf = View(s).entry[e].reversalOf
  /\ Segregated(row)

(* SetPoster keeps the references, and writes such a row.                  *)
LEMMA PosterSet ==
  ASSUME RowsInv, NEW s \in Session, NEW e \in Entry, NEW a \in Actor \cup {None},
         SetPoster(s, e, a)
  PROVE  RowsInv' /\ \E row \in EntryRow : SignWritten(s, e, a, row)
<1> DEFINE old == View(s).entry[e]
           row == [old EXCEPT !.poster = a]
           wants == {On(e, "change")}
           kind == IF Kept(old) THEN "sign" ELSE "assign"
<1>1. Types
  BY DEF RowsInv
<1>2. View(s).entry = Sees(s, "entry") /\ old \in EntryRow \cup {None}
  BY <1>1, Seen
<1>3. /\ old # None /\ Execute(s, kind, wants) /\ Segregated(row)
      /\ Write(s, "entry", [x \in {e} |-> row]) /\ UNCHANGED fired
  BY <1>2 DEF SetPoster
<1>4. old \in EntryRow
  BY <1>2, <1>3
<1>5. /\ row \in EntryRow /\ row.status = old.status /\ row.period = old.period
      /\ row.creator = old.creator /\ row.reversalOf = old.reversalOf
      /\ row = [old EXCEPT !.poster = a]
  <2>1. PICK was \in EntryRow : was = old
    BY <1>4
  <2>2. row = [was EXCEPT !.poster = a]
    BY <2>1
  <2> QED
    BY <2>1, <2>2 DEF EntryRow
<1> HIDE DEF row
<1>6. wants \in SUBSET Lock /\ On(e, "change") \in wants
  BY DEF On, Lock, Mode
<1> HIDE DEF wants
<1>7. RowsInv' /\ Statement(s, wants, [x \in {e} |-> row], <<>>, <<>>, <<>>)
  BY <1>1, <1>3, <1>5, <1>6, EntryChanged DEF Types
<1> QED
  BY <1>3, <1>4, <1>5, <1>7 DEF wants, SignWritten

(* The line that UpdateLine writes; the entry it leaves is not looked at.  *)
LEMMA LineUpdated ==
  ASSUME RowsInv, NEW s \in Session, NEW l \in Line, NEW row \in LineRow,
         UpdateLine(s, l, row)
  PROVE  \E wants :
           /\ RowsInv'
           /\ Statement(s, wants, <<>>, [x \in {l} |-> row], <<>>, <<>>)
           /\ On(row.entry, "all") \in wants
           /\ View(s).line[l] # None
           /\ View(s).entry[row.entry] # None /\ ~Kept(View(s).entry[row.entry])
           /\ View(s).line[l].entry # row.entry => "reparent" \in Kinds
           /\ UNCHANGED fired
<1> DEFINE old == View(s).line[l]
           of == row.entry
           stays == of = old.entry
           mode == IF stays THEN "change" ELSE "all"
           kind == IF stays THEN "amount" ELSE "reparent"
           wants == {On(l, mode), On(of, "all")}
<1>1. Types
  BY DEF RowsInv
<1>2. View(s).entry = Sees(s, "entry") /\ View(s).line = Sees(s, "line")
      /\ View(s).line \in [Line -> LineRow \cup {None}]
  BY <1>1, Seen
<1>3. /\ old # None /\ View(s).entry[of] # None /\ Execute(s, kind, wants)
      /\ Mutable(s, of) /\ Write(s, "line", [x \in {l} |-> row]) /\ UNCHANGED fired
  <2>1. {On(l, mode)} \cup LockParent(of) = wants
    BY DEF LockParent
  <2> QED
    BY <1>2, <2>1 DEF UpdateLine
<1>4. old \in LineRow /\ of \in Entry /\ row # None
  BY <1>2, <1>3, GuardsAssumption DEF LineRow
<1>5. ~Kept(View(s).entry[of])
  BY <1>2, <1>3 DEF Mutable
<1>6. mode \in {"change", "all"} /\ (of # old.entry => kind = "reparent")
  OBVIOUS
<1>7. kind \in Kinds
  BY <1>3, Executed
<1> HIDE DEF mode, kind, stays
<1>8. /\ wants \in SUBSET Lock /\ On(l, mode) \in wants /\ On(of, "all") \in wants
      /\ On(of, "all").row = of
  BY <1>4, <1>6 DEF On, Lock, Mode
<1> HIDE DEF wants, of
<1>9. RowsInv' /\ Statement(s, wants, <<>>, [x \in {l} |-> row], <<>>, <<>>)
  BY <1>3, <1>4, <1>6, <1>8, LineChanged DEF of
<1> QED
  BY <1>3, <1>5, <1>6, <1>7, <1>8, <1>9 DEF of

(* A line is deleted.                                                      *)
LEMMA LineDeleted ==
  ASSUME RowsInv, NEW s \in Session, NEW l \in Line, DeleteLine(s, l)
  PROVE  \E of \in Entry :
           /\ RowsInv'
           /\ Statement(s, {On(l, "all"), On(of, "all")}, <<>>, [x \in {l} |-> None],
                        <<>>, <<>>)
           /\ View(s).line[l] # None /\ View(s).line[l].entry = of
           /\ View(s).entry[of] # None /\ ~Kept(View(s).entry[of])
           /\ UNCHANGED fired
<1> DEFINE old == View(s).line[l]
           of == old.entry
           wants == {On(l, "all"), On(of, "all")}
<1>1. Types /\ References(View(s))
  BY DEF RowsInv
<1>2. View(s).entry = Sees(s, "entry") /\ View(s).line = Sees(s, "line")
      /\ View(s).posting = Sees(s, "posting")
      /\ View(s).line \in [Line -> LineRow \cup {None}]
  BY <1>1, Seen
<1>3. /\ old # None /\ Execute(s, "erase", wants) /\ Mutable(s, of)
      /\ \A x \in RowsOf(View(s).posting) : x[2] # l
      /\ Write(s, "line", [x \in {l} |-> None]) /\ UNCHANGED fired
  <2>1. {On(l, "all")} \cup LockParent(of) = wants
    BY DEF LockParent
  <2> QED
    BY <1>2, <2>1 DEF DeleteLine
<1>4. old \in LineRow /\ of \in Entry
  BY <1>2, <1>3 DEF LineRow
<1>5. View(s).entry[of] # None /\ ~Kept(View(s).entry[of])
  BY <1>1, <1>2, <1>3, <1>4 DEF References, RowsOf, Mutable
<1>6. wants \in SUBSET Lock /\ On(l, "all") \in wants
  BY <1>4 DEF On, Lock, Mode
<1> HIDE DEF wants
<1>7. RowsInv' /\ Statement(s, wants, <<>>, [x \in {l} |-> None], <<>>, <<>>)
  BY <1>3, <1>6, LineChanged
<1> QED
  BY <1>3, <1>4, <1>5, <1>7 DEF wants

(* A line is inserted; for a draft of its own transaction, or "append".    *)
LEMMA LineInserted ==
  ASSUME RowsInv, NEW s \in Session, NEW l \in Line, NEW row \in LineRow,
         InsertLine(s, l, row)
  PROVE  \E wants :
           /\ RowsInv'
           /\ Statement(s, wants, <<>>, [x \in {l} |-> row], <<>>, <<>>)
           /\ Unused("line", l) /\ View(s).entry[row.entry] # None
           /\ \/ "append" \in Kinds
              \/ /\ db.entry[row.entry] = None
                 /\ ~Kept(View(s).entry[row.entry])
           /\ UNCHANGED fired
<1> DEFINE of == row.entry
           own == db.entry[of] = None /\ ~Kept(View(s).entry[of])
           kind == IF own THEN "compose" ELSE "append"
           wants == {On(l, "all"), On(of, "share")}
<1>1. Types
  BY DEF RowsInv
<1>2. View(s).entry = Sees(s, "entry")
  BY <1>1, Seen
<1>3. /\ Unused("line", l) /\ Execute(s, kind, wants) /\ View(s).entry[of] # None
      /\ Write(s, "line", [x \in {l} |-> row]) /\ UNCHANGED fired
  BY <1>2 DEF InsertLine
<1>4. of \in Entry /\ row # None
  BY GuardsAssumption DEF LineRow
<1>5. wants \in SUBSET Lock /\ On(of, "share") \in wants /\ On(of, "share").row = of
  BY <1>4 DEF On, Lock, Mode
<1>6. kind \in Kinds
  BY <1>3, Executed
<1>7. own \/ "append" \in Kinds
  BY <1>6
<1> HIDE DEF wants, kind, of
<1>8. RowsInv' /\ Statement(s, wants, <<>>, [x \in {l} |-> row], <<>>, <<>>)
  BY <1>3, <1>4, <1>5, LineChanged DEF of
<1> QED
  BY <1>3, <1>7, <1>8 DEF of

----------------------------------------------------------------------------
(* RowsInv is invariant                                                    *)

(* Nobody has written anything, and the tables are empty.                  *)
LEMMA RowsInit ==
  ASSUME Init
  PROVE  /\ RowsInv
         /\ \A s \in Session : /\ View(s).entry = db.entry /\ View(s).line = db.line
                               /\ View(s).posting = db.posting /\ View(s).period = db.period
<1>1. Whole(db)
  BY DEF Init, Whole, Tables
<1>2. Parts(Nothing)
  BY NoRows DEF Parts, Part, Tables
<1>3. Types
  BY <1>1, <1>2 DEF Init, Types
<1>4. LocksApart
  BY DEF Init, LocksApart
<1>5. /\ \A e \in Entry : db.entry[e] = None
      /\ \A l \in Line : db.line[l] = None
      /\ \A x \in Entry \X Line : db.posting[x] = None
  BY DEF Init
<1>6. RowsOf(db.entry) = {} /\ RowsOf(db.line) = {} /\ RowsOf(db.posting) = {}
  BY <1>1, <1>5 DEF RowsOf, Whole
<1>7. \A s \in Session : /\ DOMAIN work[s].entry = {} /\ DOMAIN work[s].line = {}
                         /\ DOMAIN work[s].posting = {} /\ DOMAIN work[s].period = {}
  BY NoRows DEF Init, Tables
<1>8. ASSUME NEW s \in Session
      PROVE  /\ View(s).entry = db.entry /\ View(s).line = db.line
             /\ View(s).posting = db.posting /\ View(s).period = db.period
  <2>1. /\ View(s).entry \in [Entry -> EntryRow \cup {None}]
        /\ View(s).line \in [Line -> LineRow \cup {None}]
        /\ View(s).posting \in [Entry \X Line -> PostingRow \cup {None}]
        /\ View(s).period \in [Period -> {"OPEN", "CLOSED"}]
    BY <1>3, Seen
  <2>2. /\ \A e \in Entry : View(s).entry[e] = db.entry[e]
        /\ \A l \in Line : View(s).line[l] = db.line[l]
        /\ \A x \in Entry \X Line : View(s).posting[x] = db.posting[x]
        /\ \A p \in Period : View(s).period[p] = db.period[p]
    BY <1>3, <1>7, Seen
  <2> QED
    BY <1>1, <2>1, <2>2 DEF Whole
<1>9. References(db) /\ \A s \in Session : References(View(s))
  BY <1>6, <1>8 DEF References
<1>10. \A s \in Session : WritesLocked(s) /\ ReferencesLocked(s)
  BY <1>7 DEF WritesLocked, ReferencesLocked, RowsOf
<1>11. \A s, t \in Session : WritesApart(s, t)
  BY <1>7 DEF WritesApart, Tables
<1> QED
  BY <1>3, <1>4, <1>8, <1>9, <1>10, <1>11 DEF RowsInv

(* One step per statement, and the end of a transaction.                   *)
LEMMA RowsStep == RowsInv /\ [Next]_vars => RowsInv'
<1> SUFFICES ASSUME RowsInv, [Next]_vars
             PROVE  RowsInv'
  OBVIOUS
<1>1. CASE UNCHANGED vars
  <2>1. \A s \in Session : View(s)' = View(s)
    BY <1>1 DEF vars, View, Sees
  <2>2. Types' /\ LocksApart' /\ References(db')
    BY <1>1 DEF vars, RowsInv, Types, LocksApart, Conflict
  <2>3. \A s \in Session : /\ WritesLocked(s)' /\ References(View(s)')
                           /\ ReferencesLocked(s)'
    BY <1>1, <2>1 DEF vars, RowsInv, WritesLocked, ReferencesLocked, Alters, Owns, Locked, RefersTo
  <2>4. \A s, t \in Session : s # t => WritesApart(s, t)'
    BY <1>1 DEF vars, RowsInv, WritesApart
  <2> QED
    BY <2>2, <2>3, <2>4 DEF RowsInv
<1>2. ASSUME NEW s \in Session, NEW e \in Entry, NEW p \in Period, NEW a \in Actor,
             NEW of \in Entry \cup {None}, NEW l \in Line, NEW m \in Line,
             InsertEntry(s, e, Draft(p, a, of), l, m)
      PROVE  RowsInv'
  BY <1>2, EntryInserted
<1>3. ASSUME NEW s \in Session, NEW e \in Entry,
             NEW status \in {"DRAFT", "POSTED", "REVERSED"}, NEW a \in Actor,
             SetStatus(s, e, status, a)
      PROVE  RowsInv'
  BY <1>3, StatusSet
<1>4. ASSUME NEW s \in Session, NEW e \in Entry, NEW p \in Period, MoveEntry(s, e, p)
      PROVE  RowsInv'
  BY <1>4, EntryMoved
<1>5. ASSUME NEW s \in Session, NEW e \in Entry, DeleteEntry(s, e)
      PROVE  RowsInv'
  BY <1>5, EntryDeleted
<1>6. ASSUME NEW s \in Session, NEW l \in Line, NEW row \in LineRow, UpdateLine(s, l, row)
      PROVE  RowsInv'
  BY <1>6, LineUpdated
<1>7. ASSUME NEW s \in Session, NEW e \in Entry, NEW a \in Actor \cup {None},
             SetPoster(s, e, a)
      PROVE  RowsInv'
  BY <1>7, PosterSet
<1>8. ASSUME NEW s \in Session, NEW l \in Line, DeleteLine(s, l)
      PROVE  RowsInv'
  BY <1>8, LineDeleted
<1>9. ASSUME NEW s \in Session, NEW l \in Line, NEW row \in LineRow, InsertLine(s, l, row)
      PROVE  RowsInv'
  BY <1>9, LineInserted
<1>10. ASSUME NEW s \in Session, NEW e \in Entry, NEW l \in Line, NEW row \in PostingRow,
              InsertPosting(s, e, l, row)
       PROVE  RowsInv'
  BY <1>10, PostingInserted
<1>11. ASSUME NEW s \in Session, NEW p \in Period, NEW status \in {"OPEN", "CLOSED"},
              SetPeriod(s, p, status)
       PROVE  RowsInv'
  BY <1>11, PeriodSet
<1>12. ASSUME NEW s \in Session, Commit(s) \/ Rollback(s)
       PROVE  RowsInv'
  BY <1>12, CommitRows, RollbackRows
<1> QED
  BY <1>1, <1>2, <1>3, <1>4, <1>5, <1>6, <1>7, <1>8, <1>9, <1>10, <1>11, <1>12 DEF Next

(* Locks stand behind every row that is written, two sessions never write  *)
(* one row, and what each session sees has no reference without its row:   *)
(* with any statements of any number of sessions.                          *)
THEOREM RowsInvariant == Spec => []RowsInv
<1>1. Init => RowsInv
  BY RowsInit
<1> QED
  BY <1>1, RowsStep, PTL DEF Spec

(* The committed rows are of their types and refer to rows that are there. *)
THEOREM GuardsTypeOK == Spec => []TypeOK
<1>1. RowsInv => TypeOK
  BY DEF RowsInv, Types, Whole, References, TypeOK
<1> QED
  BY <1>1, RowsInvariant, PTL

----------------------------------------------------------------------------
(* What the triggers keep                                                  *)

(* Only the lines of an entry matter to its balance.                       *)
LEMMA SameLines ==
  ASSUME NEW line, NEW other, NEW e, DOMAIN line = Line, DOMAIN other = Line,
         \A l \in Line : line[l] = other[l] \/ (~Of(line[l], e) /\ ~Of(other[l], e))
  PROVE  Balanced(line, e) <=> Balanced(other, e)
<1>1. LinesOf(line, e) = LinesOf(other, e)
  BY DEF LinesOf, RowsOf, Of
<1>2. \A l \in LinesOf(line, e) : line[l] = other[l]
  BY DEF LinesOf, RowsOf, Of
<1>3. AmountsOf(line, e) = AmountsOf(other, e)
  BY <1>1, <1>2 DEF AmountsOf
<1> QED
  BY <1>1, <1>3 DEF Balanced

(* What a statement has to see to, for the lines of posted entries to      *)
(* balance still.                                                          *)
LEMMA BalanceKept ==
  ASSUME Types, LocksApart, NEW s \in Session, NEW wants,
         NEW entry, NEW line, NEW posting, NEW period,
         Statement(s, wants, entry, line, posting, period),
         KeptBalance(View(s)),
         \A e \in DOMAIN entry :
           (entry[e] # None /\ Kept(entry[e])) => Balanced(View(s).line, e),
         \A e \in Entry : (View(s)'.entry[e] # None /\ Kept(View(s)'.entry[e])) =>
           \A l \in DOMAIN line : ~Of(View(s).line[l], e) /\ ~Of(line[l], e)
  PROVE  KeptBalance(View(s)')
<1>1. /\ \A e \in Entry :
           View(s)'.entry[e] = IF e \in DOMAIN entry THEN entry[e] ELSE View(s).entry[e]
      /\ \A l \in Line :
           View(s)'.line[l] = IF l \in DOMAIN line THEN line[l] ELSE View(s).line[l]
      /\ DOMAIN View(s)'.entry = Entry /\ DOMAIN View(s)'.line = Line
  BY StatementTypes
<1>2. DOMAIN View(s).entry = Entry /\ DOMAIN View(s).line = Line
  BY Seen
<1>3. ASSUME NEW e \in RowsOf(View(s)'.entry), Kept(View(s)'.entry[e])
      PROVE  Balanced(View(s)'.line, e)
  <2>1. e \in Entry /\ View(s)'.entry[e] # None
    BY <1>1 DEF RowsOf
  <2>2. Balanced(View(s).line, e)
    BY <1>1, <1>2, <1>3, <2>1 DEF KeptBalance, RowsOf
  <2>3. \A l \in Line : \/ View(s)'.line[l] = View(s).line[l]
                        \/ ~Of(View(s)'.line[l], e) /\ ~Of(View(s).line[l], e)
    BY <1>1, <1>3, <2>1
  <2> QED
    BY <1>1, <1>2, <2>2, <2>3, SameLines
<1> QED
  BY <1>3 DEF KeptBalance

(* What a statement has to see to, for the postings to agree still.        *)
LEMMA AgreeKept ==
  ASSUME Types, LocksApart, NEW s \in Session, NEW wants,
         NEW entry, NEW line, NEW posting, NEW period,
         Statement(s, wants, entry, line, posting, period),
         Agree(View(s)),
         \A e \in DOMAIN entry : (View(s).entry[e] # None /\ Kept(View(s).entry[e])) =>
           Kept(entry[e]) /\ entry[e].period = View(s).entry[e].period,
         \A l \in DOMAIN line : \A e \in Entry :
           Of(View(s).line[l], e) => ~Kept(View(s).entry[e]),
         \A x \in DOMAIN posting :
           /\ View(s).line[x[2]] # None /\ View(s).entry[x[1]] # None
           /\ View(s).line[x[2]] = [entry |-> x[1], amount |-> posting[x].amount]
           /\ Kept(View(s).entry[x[1]])
           /\ View(s).entry[x[1]].period = posting[x].period,
         References(View(s))
  PROVE  Agree(View(s)')
<1>1. /\ \A e \in Entry :
           View(s)'.entry[e] = IF e \in DOMAIN entry THEN entry[e] ELSE View(s).entry[e]
      /\ \A l \in Line :
           View(s)'.line[l] = IF l \in DOMAIN line THEN line[l] ELSE View(s).line[l]
      /\ \A x \in Entry \X Line :
           View(s)'.posting[x] = IF x \in DOMAIN posting THEN posting[x] ELSE View(s).posting[x]
      /\ DOMAIN View(s)'.entry = Entry /\ DOMAIN View(s)'.line = Line
      /\ DOMAIN View(s)'.posting = Entry \X Line
  BY StatementTypes
<1>2. /\ DOMAIN View(s).posting = Entry \X Line
      /\ View(s).line \in [Line -> LineRow \cup {None}]
  BY Seen
<1>3. ASSUME NEW x \in RowsOf(View(s)'.posting)
      PROVE  /\ View(s)'.line[x[2]] = [entry |-> x[1], amount |-> View(s)'.posting[x].amount]
             /\ Kept(View(s)'.entry[x[1]])
             /\ View(s)'.entry[x[1]].period = View(s)'.posting[x].period
  <2>1. /\ x \in Entry \X Line /\ x[1] \in Entry /\ x[2] \in Line
        /\ View(s)'.posting[x] # None
    BY <1>1 DEF RowsOf
  <2>2. /\ View(s).line[x[2]] # None /\ View(s).entry[x[1]] # None
        /\ View(s).line[x[2]] = [entry |-> x[1], amount |-> View(s)'.posting[x].amount]
        /\ Kept(View(s).entry[x[1]])
        /\ View(s).entry[x[1]].period = View(s)'.posting[x].period
    <3>1. CASE x \in DOMAIN posting
      BY <1>1, <2>1, <3>1
    <3>2. CASE x \notin DOMAIN posting
      <4>1. x \in RowsOf(View(s).posting) /\ View(s)'.posting[x] = View(s).posting[x]
        BY <1>1, <1>2, <2>1, <3>2 DEF RowsOf
      <4> QED
        BY <4>1 DEF Agree, References
    <3> QED
      BY <3>1, <3>2
  <2>3. Of(View(s).line[x[2]], x[1])
    BY <2>2 DEF Of
  <2>4. x[2] \notin DOMAIN line
    BY <2>1, <2>2, <2>3
  <2>5. View(s)'.line[x[2]] = View(s).line[x[2]]
    BY <1>1, <2>1, <2>4
  <2>6. Kept(View(s)'.entry[x[1]]) /\ View(s)'.entry[x[1]].period = View(s).entry[x[1]].period
    <3>1. CASE x[1] \in DOMAIN entry
      BY <1>1, <2>1, <2>2, <3>1
    <3>2. CASE x[1] \notin DOMAIN entry
      BY <1>1, <2>1, <2>2, <3>2
    <3> QED
      BY <3>1, <3>2
  <2> QED
    BY <2>2, <2>5, <2>6
<1> QED
  BY <1>3 DEF Agree

(* What a statement has to see to, for GuardedInv to hold still.           *)
LEMMA GuardedStatement ==
  ASSUME RowsInv, GuardedInv, NEW s \in Session, NEW wants,
         NEW entry, NEW line, NEW posting, NEW period,
         Statement(s, wants, entry, line, posting, period),
         \A e \in DOMAIN entry :
           /\ View(s).entry[e] = None => db.entry[e] = None
           /\ (View(s).entry[e] # None /\ Kept(View(s).entry[e])) =>
                /\ entry[e] # None /\ Kept(entry[e])
                /\ entry[e].period = View(s).entry[e].period,
         \A l \in DOMAIN line :
           /\ View(s).line[l] = None => db.line[l] = None
           /\ \A e \in Entry : Of(line[l], e) \/ Of(View(s).line[l], e) => Owns(s, e)',
         KeptBalance(View(s)'), Agree(View(s)')
  PROVE  GuardedInv'
<1>1. Types /\ LocksApart /\ db' = db
  BY DEF RowsInv, Statement
<1>2. /\ DOMAIN work'[s].entry = DOMAIN work[s].entry \cup DOMAIN entry
      /\ \A e \in DOMAIN work'[s].entry :
           work'[s].entry[e] = IF e \in DOMAIN entry THEN entry[e] ELSE work[s].entry[e]
      /\ DOMAIN work'[s].line = DOMAIN work[s].line \cup DOMAIN line
      /\ \A l \in DOMAIN work'[s].line :
           work'[s].line[l] = IF l \in DOMAIN line THEN line[l] ELSE work[s].line[l]
      /\ \A t \in Session \ {s} : work'[t] = work[t]
  BY <1>1, Written
<1>3. \A t \in Session \ {s} : View(t)' = View(t)
  BY <1>1, StatementTypes
<1>4. \A t \in Session : \A x : Owns(t, x) => Owns(t, x)'
  BY <1>1, LocksTaken DEF Statement
<1>5. /\ DOMAIN entry \subseteq Entry /\ DOMAIN line \subseteq Line
      /\ DOMAIN work[s].entry \subseteq Entry /\ DOMAIN work[s].line \subseteq Line
  BY <1>1 DEF Statement, Part, Types, Parts
<1>6. ASSUME NEW t \in Session \ {s}
      PROVE  /\ KeptBalance(View(t)') /\ Agree(View(t)')
             /\ LinesOwned(t)' /\ KeptStays(t)'
  <2>1. /\ KeptBalance(View(t)) /\ Agree(View(t))
        /\ LinesOwned(t) /\ KeptStays(t)
    BY DEF GuardedInv
  <2>2. work'[t] = work[t] /\ View(t)' = View(t)
    BY <1>2, <1>3
  <2>3. LinesOwned(t)'
    <3>1. \A l \in DOMAIN work[t].line, e \in Entry :
            Of(work[t].line[l], e) \/ Of(db.line[l], e) => Owns(t, e)'
      BY <1>4, <2>1 DEF LinesOwned
    <3> QED
      BY <1>1, <2>2, <3>1 DEF LinesOwned, Of, Owns
  <2>4. KeptStays(t)'
    BY <1>1, <2>1, <2>2 DEF KeptStays
  <2> QED
    BY <2>1, <2>2, <2>3, <2>4
<1>7. /\ LinesOwned(s) /\ KeptStays(s)
  BY DEF GuardedInv
<1>8. LinesOwned(s)'
  <2>1. ASSUME NEW l \in DOMAIN work'[s].line, NEW e \in Entry,
               Of(work'[s].line[l], e) \/ Of(db.line[l], e)
        PROVE  Owns(s, e)'
    <3>1. CASE l \in DOMAIN work[s].line /\ (Of(work[s].line[l], e) \/ Of(db.line[l], e))
      BY <1>4, <1>7, <3>1 DEF LinesOwned
    <3>2. CASE l \in DOMAIN line /\ Of(line[l], e)
      BY <3>2
    <3>3. CASE l \notin DOMAIN work[s].line /\ Of(db.line[l], e)
      <4>1. l \in DOMAIN line /\ l \in Line
        BY <1>2, <1>5, <2>1, <3>3
      <4>2. View(s).line[l] = db.line[l]
        BY <1>1, <3>3, <4>1, Seen
      <4> QED
        BY <3>3, <4>1, <4>2
    <3> QED
      BY <1>2, <2>1, <3>1, <3>2, <3>3
  <2> QED
    BY <1>1, <2>1 DEF LinesOwned, Of, Owns
<1>9. KeptStays(s)'
  <2>1. ASSUME NEW e \in DOMAIN work'[s].entry, db.entry[e] # None, Kept(db.entry[e])
        PROVE  /\ work'[s].entry[e] # None /\ Kept(work'[s].entry[e])
               /\ work'[s].entry[e].period = db.entry[e].period
    <3>1. e \in Entry
      BY <1>2, <1>5, <2>1
    <3>2. View(s).entry[e] = IF e \in DOMAIN work[s].entry THEN work[s].entry[e] ELSE db.entry[e]
      BY <1>1, <3>1, Seen
    <3>3. /\ View(s).entry[e] # None /\ Kept(View(s).entry[e])
          /\ View(s).entry[e].period = db.entry[e].period
      BY <1>7, <2>1, <3>2 DEF KeptStays
    <3>4. CASE e \in DOMAIN entry
      BY <1>2, <2>1, <3>3, <3>4
    <3>5. CASE e \notin DOMAIN entry
      BY <1>2, <2>1, <3>2, <3>3, <3>5
    <3> QED
      BY <3>4, <3>5
  <2> QED
    BY <1>1, <2>1 DEF KeptStays
<1>10. KeptBalance(db') /\ Agree(db')
  BY <1>1 DEF GuardedInv
<1> QED
  BY <1>6, <1>8, <1>9, <1>10 DEF GuardedInv

(* A draft and its lines are new.                                          *)
LEMMA InsertGuarded ==
  ASSUME RowsInv, GuardedInv, NEW s \in Session, NEW e \in Entry, NEW l \in Line, NEW m \in Line,
         NEW p \in Period, NEW a \in Actor, NEW of \in Entry \cup {None},
         InsertEntry(s, e, Draft(p, a, of), l, m)
  PROVE  GuardedInv'
<1> DEFINE row == Draft(p, a, of)
           entry == [x \in {e} |-> row]
           line == NewLines(e, l, m)
           wants == InsertWants(e, row)
<1>1. Types /\ LocksApart /\ References(View(s))
  BY DEF RowsInv
<1>2. Statement(s, wants, entry, line, <<>>, <<>>)
  BY EntryInserted
<1>3. /\ DOMAIN entry = {e} /\ entry[e] = row /\ row.status = "DRAFT" /\ ~Kept(row)
      /\ DOMAIN line = {l, m}
      /\ \A k \in {l, m} : line[k] # None /\ line[k].entry = e
  <2>1. \A k \in {l, m} : line[k] \in LineRow /\ line[k].entry = e
    BY DEF NewLines, LineRow, Amount
  <2> QED
    BY <2>1, GuardsAssumption DEF Draft, Kept, NewLines
<1>4. Unused("entry", e) /\ Unused("line", l) /\ Unused("line", m)
  BY DEF InsertEntry
<1>5. /\ View(s).entry[e] = None /\ View(s).line[l] = None /\ View(s).line[m] = None
      /\ db.entry[e] = None /\ db.line[l] = None /\ db.line[m] = None
  BY <1>4, NotSeen DEF Unused
<1>7. Owns(s, e)'
  <2>1. On(e, "all") \in wants /\ On(e, "all").row = e /\ On(e, "all").mode = "all"
    BY DEF InsertWants, On
  <2>2. wants \in SUBSET Lock /\ Gets(s, wants)
    BY <1>2 DEF Statement
  <2> HIDE DEF wants
  <2> QED
    BY <1>1, <2>1, <2>2, LocksTaken
<1> HIDE DEF row, entry, line, wants
<1>8. KeptBalance(View(s)')
  <2>1. \A d \in Entry : View(s)'.entry[d] = IF d = e THEN row ELSE View(s).entry[d]
    BY <1>1, <1>2, <1>3, StatementTypes
  <2>2. \A d \in Entry : (View(s)'.entry[d] # None /\ Kept(View(s)'.entry[d])) =>
          \A k \in DOMAIN line : ~Of(View(s).line[k], d) /\ ~Of(line[k], d)
    BY <1>3, <1>5, <2>1 DEF Of
  <2>3. KeptBalance(View(s))
    BY DEF GuardedInv
  <2> QED
    BY <1>1, <1>2, <1>3, <2>2, <2>3, BalanceKept
<1>9. Agree(View(s)')
  <2>1. \A k \in DOMAIN line : \A d \in Entry :
          Of(View(s).line[k], d) => ~Kept(View(s).entry[d])
    BY <1>3, <1>5 DEF Of
  <2>2. Agree(View(s))
    BY DEF GuardedInv
  <2> QED
    BY <1>1, <1>2, <1>3, <1>5, <2>1, <2>2, NonePut, AgreeKept
<1>10. \A k \in DOMAIN line :
         /\ View(s).line[k] = None => db.line[k] = None
         /\ \A d \in Entry : Of(line[k], d) \/ Of(View(s).line[k], d) => Owns(s, d)'
  BY <1>3, <1>5, <1>7 DEF Of
<1> QED
  BY <1>2, <1>3, <1>5, <1>8, <1>9, <1>10, GuardedStatement

(* An update of an entry keeps what is posted posted, in its period and    *)
(* over lines that balance.                                                *)
LEMMA EntryGuarded ==
  ASSUME RowsInv, GuardedInv, NEW s \in Session, NEW e \in Entry, NEW wants, NEW row \in EntryRow,
         Statement(s, wants, [x \in {e} |-> row], <<>>, <<>>, <<>>),
         View(s).entry[e] \in EntryRow,
         Kept(View(s).entry[e]) => Kept(row) /\ row.period = View(s).entry[e].period,
         Kept(row) => Balanced(View(s).line, e)
  PROVE  GuardedInv'
<1> DEFINE entry == [x \in {e} |-> row]
<1>1. Types /\ LocksApart /\ References(View(s))
  BY DEF RowsInv
<1>2. DOMAIN entry = {e} /\ entry[e] = row /\ row # None /\ View(s).entry[e] # None
  BY GuardsAssumption
<1>3. Statement(s, wants, entry, <<>>, <<>>, <<>>)
  OBVIOUS
<1> HIDE DEF entry
<1>4. KeptBalance(View(s)) /\ Agree(View(s))
  BY DEF GuardedInv
<1>5. KeptBalance(View(s)')
  BY <1>1, <1>2, <1>3, <1>4, NonePut, BalanceKept
<1>6. Agree(View(s)')
  BY <1>1, <1>2, <1>3, <1>4, NonePut, AgreeKept
<1> QED
  BY <1>2, <1>3, <1>5, <1>6, NonePut, GuardedStatement

(* An entry is posted, reversed or signed; a draft is moved.               *)
LEMMA UpdateGuarded ==
  ASSUME Kinds \subseteq Guarded, RowsInv, GuardedInv, NEW s \in Session, NEW e \in Entry,
         \/ \E status \in {"DRAFT", "POSTED", "REVERSED"}, a \in Actor : SetStatus(s, e, status, a)
         \/ \E a \in Actor \cup {None} : SetPoster(s, e, a)
         \/ \E p \in Period : MoveEntry(s, e, p)
  PROVE  GuardedInv'
<1>1. "restate" \notin Kinds /\ "transfer" \notin Kinds
  BY DEF Guarded
<1>2. ASSUME NEW status \in {"DRAFT", "POSTED", "REVERSED"}, NEW a \in Actor,
             SetStatus(s, e, status, a)
      PROVE  GuardedInv'
  <2>1. PICK row \in EntryRow : StatusWritten(s, e, status, a, row)
    BY <1>2, StatusSet
  <2>2. Kept(row)
    BY <1>1, <2>1 DEF Kept, StatusWritten
  <2> QED
    BY <2>1, <2>2, EntryGuarded DEF StatusWritten
<1>3. ASSUME NEW a \in Actor \cup {None}, SetPoster(s, e, a)
      PROVE  GuardedInv'
  <2>1. PICK row \in EntryRow : SignWritten(s, e, a, row)
    BY <1>3, PosterSet
  <2>2. Kept(row) <=> Kept(View(s).entry[e])
    BY <2>1 DEF Kept, SignWritten
  <2>3. Kept(View(s).entry[e]) => Balanced(View(s).line, e)
    <3>1. /\ KeptBalance(View(s)) /\ DOMAIN View(s).entry = Entry /\ View(s).entry[e] # None
      BY <2>1, Seen, GuardsAssumption DEF GuardedInv, RowsInv, SignWritten
    <3> QED
      BY <3>1 DEF KeptBalance, RowsOf
  <2> QED
    BY <2>1, <2>2, <2>3, EntryGuarded DEF SignWritten
<1>4. ASSUME NEW p \in Period, MoveEntry(s, e, p)
      PROVE  GuardedInv'
  <2>1. PICK row \in EntryRow : MoveWritten(s, e, p, row)
    BY <1>4, EntryMoved
  <2>2. ~Kept(row) /\ ~Kept(View(s).entry[e])
    BY <1>1, <2>1 DEF Kept, MoveWritten
  <2> QED
    BY <2>1, <2>2, EntryGuarded DEF MoveWritten
<1> QED
  BY <1>2, <1>3, <1>4

(* The draft is deleted with its lines.                                    *)
LEMMA DeleteGuarded ==
  ASSUME RowsInv, GuardedInv, NEW s \in Session, NEW e \in Entry, DeleteEntry(s, e)
  PROVE  GuardedInv'
<1> DEFINE lines == LinesOf(View(s).line, e)
           entry == [x \in {e} |-> None]
           line == [x \in lines |-> None]
           wants == {On(x, "all") : x \in lines \cup {e}}
<1>1. Types /\ LocksApart /\ References(View(s))
  BY DEF RowsInv
<1>2. Statement(s, wants, entry, line, <<>>, <<>>)
  BY EntryDeleted
<1>3. /\ DOMAIN entry = {e} /\ entry[e] = None
      /\ DOMAIN line = lines /\ \A k \in lines : line[k] = None
      /\ \A k \in lines : Of(View(s).line[k], e)
  BY DEF LinesOf, RowsOf, Of
<1>4. View(s).entry[e] # None /\ ~Kept(View(s).entry[e])
  BY <1>1, Seen DEF DeleteEntry
<1>5. Owns(s, e)'
  <2>1. On(e, "all") \in wants /\ On(e, "all").row = e /\ On(e, "all").mode = "all"
    BY DEF On
  <2>2. wants \in SUBSET Lock /\ Gets(s, wants)
    BY <1>2 DEF Statement
  <2> HIDE DEF wants
  <2> QED
    BY <1>1, <2>1, <2>2, LocksTaken
<1> HIDE DEF lines, entry, line, wants
<1>6. KeptBalance(View(s)) /\ Agree(View(s))
  BY DEF GuardedInv
<1>7. KeptBalance(View(s)')
  <2>1. View(s)'.entry[e] = None
    BY <1>1, <1>2, <1>3, StatementTypes
  <2>2. \A d \in Entry : (View(s)'.entry[d] # None /\ Kept(View(s)'.entry[d])) =>
          \A k \in DOMAIN line : ~Of(View(s).line[k], d) /\ ~Of(line[k], d)
    BY <1>3, <2>1 DEF Of
  <2> QED
    BY <1>1, <1>2, <1>3, <1>6, <2>2, BalanceKept
<1>8. Agree(View(s)')
  <2>1. \A k \in DOMAIN line : \A d \in Entry :
          Of(View(s).line[k], d) => ~Kept(View(s).entry[d])
    BY <1>3, <1>4 DEF Of
  <2> QED
    BY <1>1, <1>2, <1>3, <1>4, <1>6, <2>1, NonePut, AgreeKept
<1>9. \A k \in DOMAIN line :
        /\ View(s).line[k] = None => db.line[k] = None
        /\ \A d \in Entry : Of(line[k], d) \/ Of(View(s).line[k], d) => Owns(s, d)'
  BY <1>3, <1>5 DEF Of
<1> QED
  BY <1>2, <1>3, <1>4, <1>7, <1>8, <1>9, GuardedStatement

(* A line of a draft is changed, deleted or added, by who owns the draft.  *)
LEMMA LineGuarded ==
  ASSUME RowsInv, GuardedInv, NEW s \in Session, NEW l \in Line, NEW of \in Entry,
         NEW row \in LineRow \cup {None}, NEW wants,
         On(of, "all") \in wants \/ Owns(s, of),
         Statement(s, wants, <<>>, [x \in {l} |-> row], <<>>, <<>>),
         View(s).line[l] # None => View(s).line[l].entry = of,
         View(s).line[l] = None => db.line[l] = None,
         row # None => row.entry = of,
         View(s).entry[of] # None, ~Kept(View(s).entry[of])
  PROVE  GuardedInv'
<1> DEFINE line == [x \in {l} |-> row]
<1>1. Types /\ LocksApart /\ References(View(s))
  BY DEF RowsInv
<1>2. DOMAIN line = {l} /\ line[l] = row
  OBVIOUS
<1> HIDE DEF line
<1>3. Statement(s, wants, <<>>, line, <<>>, <<>>)
  BY DEF line
<1>4. Owns(s, of)'
  <2>1. wants \in SUBSET Lock /\ Gets(s, wants)
    BY <1>3 DEF Statement
  <2>2. On(of, "all").row = of /\ On(of, "all").mode = "all"
    BY DEF On
  <2> QED
    BY <1>1, <2>1, <2>2, LocksTaken
<1>5. KeptBalance(View(s)) /\ Agree(View(s))
  BY DEF GuardedInv
<1>6. \A d \in Entry : Of(line[l], d) \/ Of(View(s).line[l], d) => d = of
  BY <1>2 DEF Of
<1>7. KeptBalance(View(s)')
  <2>1. View(s)'.entry[of] = View(s).entry[of]
    BY <1>1, <1>3, NonePut, StatementTypes
  <2>2. \A d \in Entry : (View(s)'.entry[d] # None /\ Kept(View(s)'.entry[d])) =>
          \A k \in DOMAIN line : ~Of(View(s).line[k], d) /\ ~Of(line[k], d)
    BY <1>2, <1>6, <2>1
  <2> QED
    BY <1>1, <1>3, <1>5, <2>2, NonePut, BalanceKept
<1>8. Agree(View(s)')
  <2>1. \A k \in DOMAIN line : \A d \in Entry :
          Of(View(s).line[k], d) => ~Kept(View(s).entry[d])
    BY <1>2, <1>6
  <2> QED
    BY <1>1, <1>3, <1>5, <2>1, NonePut, AgreeKept
<1>9. \A k \in DOMAIN line :
        /\ View(s).line[k] = None => db.line[k] = None
        /\ \A d \in Entry : Of(line[k], d) \/ Of(View(s).line[k], d) => Owns(s, d)'
  BY <1>2, <1>4, <1>6
<1> QED
  BY <1>3, <1>7, <1>8, <1>9, NonePut, GuardedStatement

(* A posting is made of a line of a posted entry, and agrees with it.      *)
LEMMA PostingGuarded ==
  ASSUME RowsInv, GuardedInv, NEW s \in Session, NEW e \in Entry, NEW l \in Line,
         NEW row \in PostingRow, InsertPosting(s, e, l, row)
  PROVE  GuardedInv'
<1> DEFINE posting == [x \in {<<e, l>>} |-> row]
           wants == {On(x, "share") : x \in {e, l, row.period}}
           at == <<e, l>>
<1>1. Types /\ LocksApart /\ References(View(s))
  BY DEF RowsInv
<1>2. Statement(s, wants, <<>>, <<>>, posting, <<>>)
  BY PostingInserted
<1>3. DOMAIN posting = {at} /\ posting[at] = row /\ at[1] = e /\ at[2] = l
  OBVIOUS
<1>4. /\ View(s).entry = Sees(s, "entry") /\ View(s).line = Sees(s, "line")
      /\ View(s).line \in [Line -> LineRow \cup {None}]
  BY <1>1, Seen
<1>5. View(s).entry[e] # None /\ Proven(s, e, l, row)
  BY <1>4 DEF InsertPosting
<1>6. /\ View(s).line[l] # None /\ View(s).line[l].entry = e
      /\ View(s).line[l].amount = row.amount
      /\ Kept(View(s).entry[e]) /\ View(s).entry[e].period = row.period
  BY <1>4, <1>5 DEF Proven, Kept
<1>7. View(s).line[l] = [entry |-> e, amount |-> row.amount]
  BY <1>4, <1>6 DEF LineRow
<1> HIDE DEF posting, wants, at
<1>8. KeptBalance(View(s)) /\ Agree(View(s))
  BY DEF GuardedInv
<1>9. KeptBalance(View(s)')
  BY <1>1, <1>2, <1>8, NonePut, BalanceKept
<1>10. Agree(View(s)')
  BY <1>1, <1>2, <1>3, <1>5, <1>6, <1>7, <1>8, NonePut, AgreeKept
<1> QED
  BY <1>2, <1>5, <1>9, <1>10, NonePut, GuardedStatement

----------------------------------------------------------------------------
(* What a commit does to what the other sessions see                       *)

(* About one entry, t sees what it saw or what s saw, whichever of the two *)
(* has written it or a line of it: the other has not.                      *)
LEMMA CommitAbout ==
  ASSUME RowsInv, GuardedInv, NEW s \in Session, Commit(s), NEW t \in Session \ {s},
         NEW e \in Entry
  PROVE  \E u \in {s, t} :
           /\ View(t)'.entry[e] = View(u).entry[e]
           /\ \A l \in Line : \/ View(t)'.line[l] = View(u).line[l]
                              \/ ~Of(View(t)'.line[l], e) /\ ~Of(View(u).line[l], e)
<1>1. /\ Types /\ LocksApart /\ WritesLocked(s) /\ WritesLocked(t)
      /\ WritesApart(s, t) /\ s # t /\ LinesOwned(s) /\ LinesOwned(t)
  BY DEF RowsInv, GuardedInv
<1>2. /\ View(t)'.entry[e] = IF e \in DOMAIN work[t].entry THEN work[t].entry[e]
                                                           ELSE View(s).entry[e]
      /\ View(t).entry[e] = IF e \in DOMAIN work[t].entry THEN work[t].entry[e] ELSE db.entry[e]
      /\ View(s).entry[e] = IF e \in DOMAIN work[s].entry THEN work[s].entry[e] ELSE db.entry[e]
  BY <1>1, Seen, CommitSeen
<1>3. \A l \in Line :
        /\ View(t)'.line[l] = IF l \in DOMAIN work[t].line THEN work[t].line[l]
                                                           ELSE View(s).line[l]
        /\ View(t).line[l] = IF l \in DOMAIN work[t].line THEN work[t].line[l] ELSE db.line[l]
        /\ View(s).line[l] = IF l \in DOMAIN work[s].line THEN work[s].line[l] ELSE db.line[l]
  BY <1>1, Seen, CommitSeen
<1>4. \A l \in Line : ~(l \in DOMAIN work[s].line /\ l \in DOMAIN work[t].line)
  BY <1>1 DEF WritesApart, Tables
<1> DEFINE Touches(u) ==
             \/ e \in DOMAIN work[u].entry
             \/ \E l \in DOMAIN work[u].line : Of(work[u].line[l], e) \/ Of(db.line[l], e)
<1>5. CASE ~Touches(s)
  <2>1. View(t)'.entry[e] = View(t).entry[e]
    BY <1>2, <1>5
  <2>2. \A l \in Line : \/ View(t)'.line[l] = View(t).line[l]
                        \/ ~Of(View(t)'.line[l], e) /\ ~Of(View(t).line[l], e)
    BY <1>3, <1>5
  <2> QED
    BY <2>1, <2>2
<1>6. CASE ~Touches(t)
  <2>1. View(t)'.entry[e] = View(s).entry[e]
    BY <1>2, <1>6
  <2>2. \A l \in Line : \/ View(t)'.line[l] = View(s).line[l]
                        \/ ~Of(View(t)'.line[l], e) /\ ~Of(View(s).line[l], e)
    BY <1>3, <1>4, <1>6
  <2> QED
    BY <2>1, <2>2
<1>7. ~(Touches(s) /\ Touches(t))
  <2>1. /\ e \in DOMAIN work[s].entry => Alters(s, e)
        /\ e \in DOMAIN work[t].entry => Alters(t, e)
    BY <1>1 DEF WritesLocked
  <2>2. /\ (\E l \in DOMAIN work[s].line : Of(work[s].line[l], e) \/ Of(db.line[l], e))
             => Owns(s, e)
        /\ (\E l \in DOMAIN work[t].line : Of(work[t].line[l], e) \/ Of(db.line[l], e))
             => Owns(t, e)
    BY <1>1 DEF LinesOwned
  <2>3. /\ Alters(s, e) => ~Alters(t, e)
        /\ Owns(s, e) => Alters(s, e)
    BY <1>1, Excluded
  <2>4. Owns(t, e) => Alters(t, e)
    BY <1>1, Excluded
  <2> QED
    BY <2>1, <2>2, <2>3, <2>4
<1> QED
  BY <1>5, <1>6, <1>7

(* The lines of posted entries balance still, in what t sees.              *)
LEMMA CommitBalance ==
  ASSUME RowsInv, GuardedInv, NEW s \in Session, Commit(s), NEW t \in Session \ {s}
  PROVE  KeptBalance(View(t)')
<1>1. /\ Types /\ KeptBalance(View(s)) /\ KeptBalance(View(t))
      /\ DOMAIN View(t)'.entry = Entry /\ DOMAIN View(t)'.line = Line
  BY CommitSeen DEF RowsInv, GuardedInv
<1>2. ASSUME NEW e \in RowsOf(View(t)'.entry), Kept(View(t)'.entry[e])
      PROVE  Balanced(View(t)'.line, e)
  <2>1. e \in Entry /\ View(t)'.entry[e] # None
    BY <1>1 DEF RowsOf
  <2>2. PICK u \in {s, t} :
          /\ View(t)'.entry[e] = View(u).entry[e]
          /\ \A l \in Line : \/ View(t)'.line[l] = View(u).line[l]
                             \/ ~Of(View(t)'.line[l], e) /\ ~Of(View(u).line[l], e)
    BY <2>1, CommitAbout
  <2>3. KeptBalance(View(u)) /\ DOMAIN View(u).entry = Entry /\ DOMAIN View(u).line = Line
    BY <1>1, Seen
  <2>4. Balanced(View(u).line, e)
    BY <1>2, <2>1, <2>2, <2>3 DEF KeptBalance, RowsOf
  <2> QED
    BY <1>1, <2>2, <2>3, <2>4, SameLines
<1> QED
  BY <1>2 DEF KeptBalance

(* A posting stays in agreement: who wrote it has its entry locked, so     *)
(* that nobody else writes a line of the entry.                            *)
LEMMA CommitAgree ==
  ASSUME RowsInv, GuardedInv, NEW s \in Session, Commit(s), NEW t \in Session \ {s}
  PROVE  Agree(View(t)')
<1>1. /\ Types /\ LocksApart /\ WritesApart(s, t) /\ s # t
      /\ ReferencesLocked(s) /\ ReferencesLocked(t)
      /\ LinesOwned(s) /\ LinesOwned(t) /\ KeptStays(s) /\ KeptStays(t)
      /\ Agree(View(s)) /\ Agree(View(t)) /\ References(View(s)) /\ References(View(t))
  BY DEF RowsInv, GuardedInv
<1>2. DOMAIN View(t)'.posting = Entry \X Line
  BY CommitSeen
<1>3. ASSUME NEW x \in RowsOf(View(t)'.posting)
      PROVE  /\ View(t)'.line[x[2]] = [entry |-> x[1], amount |-> View(t)'.posting[x].amount]
             /\ Kept(View(t)'.entry[x[1]])
             /\ View(t)'.entry[x[1]].period = View(t)'.posting[x].period
  <2>1. /\ x \in Entry \X Line /\ x[1] \in Entry /\ x[2] \in Line
        /\ View(t)'.posting[x] # None
    BY <1>2 DEF RowsOf
  <2>2. PICK e, l : e = x[1] /\ l = x[2]
    OBVIOUS
  <2>3. /\ View(t)'.posting[x] = IF x \in DOMAIN work[t].posting THEN work[t].posting[x]
                                                                 ELSE View(s).posting[x]
        /\ View(t).posting[x] = IF x \in DOMAIN work[t].posting THEN work[t].posting[x]
                                                                ELSE db.posting[x]
        /\ View(s).posting[x] = IF x \in DOMAIN work[s].posting THEN work[s].posting[x]
                                                                ELSE db.posting[x]
    BY <1>1, <2>1, Seen, CommitSeen
  <2>4. /\ View(t)'.entry[e] = IF e \in DOMAIN work[t].entry THEN work[t].entry[e]
                                                             ELSE View(s).entry[e]
        /\ View(t).entry[e] = IF e \in DOMAIN work[t].entry THEN work[t].entry[e] ELSE db.entry[e]
        /\ View(s).entry[e] = IF e \in DOMAIN work[s].entry THEN work[s].entry[e] ELSE db.entry[e]
        /\ View(t)'.line[l] = IF l \in DOMAIN work[t].line THEN work[t].line[l]
                                                           ELSE View(s).line[l]
        /\ View(t).line[l] = IF l \in DOMAIN work[t].line THEN work[t].line[l] ELSE db.line[l]
        /\ View(s).line[l] = IF l \in DOMAIN work[s].line THEN work[s].line[l] ELSE db.line[l]
    BY <1>1, <2>1, <2>2, Seen, CommitSeen
  <2>5. /\ ~(l \in DOMAIN work[s].line /\ l \in DOMAIN work[t].line)
        /\ ~(e \in DOMAIN work[s].entry /\ e \in DOMAIN work[t].entry)
    BY <1>1 DEF WritesApart, Tables
  <2>6. /\ x \in DOMAIN work[t].posting => Locked(t, e)
        /\ x \notin DOMAIN work[t].posting /\ x \in DOMAIN work[s].posting => Locked(s, e)
    BY <1>1, <2>1, <2>2, <2>3 DEF ReferencesLocked, RowsOf
  <2>7. /\ Owns(s, e) => ~Locked(t, e)
        /\ Owns(t, e) => ~Locked(s, e)
    BY <1>1, Excluded
  <2>8. \A u \in {s, t} : View(u).posting[x] # None =>
          /\ View(u).line[l] = [entry |-> e, amount |-> View(u).posting[x].amount]
          /\ View(u).line[l] # None /\ View(u).entry[e] # None
          /\ Kept(View(u).entry[e])
          /\ View(u).entry[e].period = View(u).posting[x].period
    <3>1. \A u \in {s, t} : DOMAIN View(u).posting = Entry \X Line
      BY <1>1, Seen
    <3> QED
      BY <1>1, <2>1, <2>2, <3>1 DEF Agree, References, RowsOf
  <2>9. \A u \in {s, t} : View(u).posting[x] # None => Of(View(u).line[l], e)
    BY <2>8 DEF Of
  <2>10. CASE x \in DOMAIN work[t].posting
    <3>1. View(t).posting[x] = View(t)'.posting[x] /\ Locked(t, e) /\ Of(View(t).line[l], e)
      BY <2>1, <2>3, <2>6, <2>9, <2>10
    <3>2. View(t)'.line[l] = View(t).line[l]
      <4>1. CASE l \notin DOMAIN work[t].line /\ l \in DOMAIN work[s].line
        <5>1. Of(db.line[l], e)
          BY <2>4, <3>1, <4>1
        <5>2. Owns(s, e)
          BY <1>1, <2>1, <2>2, <4>1, <5>1 DEF LinesOwned
        <5> QED
          BY <2>7, <3>1, <5>2
      <4> QED
        BY <2>4, <4>1
    <3>3. Kept(View(t)'.entry[e]) /\ View(t)'.entry[e].period = View(t).entry[e].period
      <4>1. CASE e \notin DOMAIN work[t].entry /\ e \in DOMAIN work[s].entry
        BY <1>1, <2>1, <2>3, <2>4, <2>8, <2>10, <4>1 DEF KeptStays
      <4> QED
        BY <2>1, <2>3, <2>4, <2>8, <2>10, <4>1
    <3> QED
      BY <2>1, <2>2, <2>8, <3>1, <3>2, <3>3
  <2>11. CASE x \notin DOMAIN work[t].posting /\ x \in DOMAIN work[s].posting
    <3>1. View(s).posting[x] = View(t)'.posting[x] /\ Locked(s, e) /\ Of(View(s).line[l], e)
      BY <2>1, <2>3, <2>6, <2>9, <2>11
    <3>2. View(t)'.line[l] = View(s).line[l]
      <4>1. CASE l \in DOMAIN work[t].line
        <5>1. Of(db.line[l], e)
          BY <2>4, <2>5, <3>1, <4>1
        <5>2. Owns(t, e)
          BY <1>1, <2>1, <2>2, <4>1, <5>1 DEF LinesOwned
        <5> QED
          BY <2>7, <3>1, <5>2
      <4> QED
        BY <2>4, <4>1
    <3>3. Kept(View(t)'.entry[e]) /\ View(t)'.entry[e].period = View(s).entry[e].period
      <4>1. CASE e \in DOMAIN work[t].entry
        BY <1>1, <2>1, <2>4, <2>5, <2>8, <3>1, <4>1 DEF KeptStays
      <4> QED
        BY <2>1, <2>4, <2>8, <3>1, <4>1
    <3> QED
      BY <2>1, <2>2, <2>8, <3>1, <3>2, <3>3
  <2>12. CASE x \notin DOMAIN work[t].posting /\ x \notin DOMAIN work[s].posting
    <3>1. View(s).posting[x] = View(t)'.posting[x] /\ View(t).posting[x] = View(t)'.posting[x]
      BY <2>3, <2>12
    <3>2. View(t)'.line[l] = View(t).line[l] \/ View(t)'.line[l] = View(s).line[l]
      BY <2>4
    <3>3. View(t)'.entry[e] = View(t).entry[e] \/ View(t)'.entry[e] = View(s).entry[e]
      BY <2>4
    <3> QED
      BY <2>1, <2>2, <2>8, <3>1, <3>2, <3>3
  <2> QED
    BY <2>10, <2>11, <2>12
<1> QED
  BY <1>3 DEF Agree

(* Both ends of a transaction.                                             *)
LEMMA EndGuarded ==
  ASSUME RowsInv, GuardedInv, NEW s \in Session, Commit(s) \/ Rollback(s)
  PROVE  GuardedInv'
<1>1. Types /\ End(s)
  BY DEF RowsInv, Commit, Rollback
<1>2. /\ work'[s] = Nothing
      /\ \A t \in Session \ {s} : /\ work'[t] = work[t] /\ locks'[t] = locks[t]
  BY <1>1, Ended
<1>3. LinesOwned(s)' /\ KeptStays(s)'
  BY <1>2, NoRows DEF LinesOwned, KeptStays, Tables
<1>4. CASE Rollback(s)
  <2>1. /\ db' = db /\ \A t \in Session \ {s} : View(t)' = View(t)
        /\ View(s)'.entry = db.entry /\ View(s)'.line = db.line
        /\ View(s)'.posting = db.posting
    BY <1>4, RollbackRows DEF Rollback
  <2>2. KeptBalance(db) /\ Agree(db)
    BY DEF GuardedInv
  <2>3. KeptBalance(View(s)') /\ Agree(View(s)')
    BY <2>1, <2>2 DEF KeptBalance, Agree
  <2>4. ASSUME NEW t \in Session \ {s}
        PROVE  /\ KeptBalance(View(t)') /\ Agree(View(t)')
               /\ LinesOwned(t)' /\ KeptStays(t)'
    <3>1. /\ KeptBalance(View(t)) /\ Agree(View(t))
          /\ LinesOwned(t) /\ KeptStays(t)
      BY DEF GuardedInv
    <3>2. LinesOwned(t)' /\ KeptStays(t)'
      BY <1>2, <2>1, <3>1 DEF LinesOwned, KeptStays, Owns
    <3> QED
      BY <2>1, <3>1, <3>2
  <2>5. KeptBalance(db') /\ Agree(db')
    BY <2>1, <2>2
  <2> QED
    BY <1>3, <2>3, <2>4, <2>5 DEF GuardedInv
<1>5. CASE Commit(s)
  <2>1. /\ db' = View(s) /\ View(s)'.entry = db'.entry /\ View(s)'.line = db'.line
        /\ View(s)'.posting = db'.posting
    BY <1>5, CommitSeen
  <2>2. KeptBalance(View(s)) /\ Agree(View(s))
    BY DEF GuardedInv
  <2>3. KeptBalance(db') /\ Agree(db')
    BY <2>1, <2>2
  <2>4. KeptBalance(View(s)') /\ Agree(View(s)')
    BY <2>1, <2>3 DEF KeptBalance, Agree
  <2>5. ASSUME NEW t \in Session \ {s}
        PROVE  /\ KeptBalance(View(t)') /\ Agree(View(t)')
               /\ LinesOwned(t)' /\ KeptStays(t)'
    <3>1. /\ LinesOwned(t) /\ KeptStays(t)
          /\ WritesApart(s, t) /\ Parts(work[t])
      BY <1>1 DEF GuardedInv, RowsInv, Types
    <3>2. /\ \A e \in DOMAIN work[t].entry : e \in Entry /\ db'.entry[e] = db.entry[e]
          /\ \A l \in DOMAIN work[t].line : l \in Line /\ db'.line[l] = db.line[l]
      <4>1. DOMAIN work[t].entry \subseteq Entry /\ DOMAIN work[t].line \subseteq Line
        BY <3>1 DEF Parts, Part
      <4>2. /\ DOMAIN work[t].entry \cap DOMAIN work[s].entry = {}
            /\ DOMAIN work[t].line \cap DOMAIN work[s].line = {}
        BY <3>1 DEF WritesApart, Tables
      <4> QED
        BY <1>1, <2>1, <4>1, <4>2, Seen
    <3>3. LinesOwned(t)' /\ KeptStays(t)'
      BY <1>2, <3>1, <3>2 DEF LinesOwned, KeptStays, Owns
    <3> QED
      BY <1>5, <3>3, CommitBalance, CommitAgree
  <2> QED
    BY <1>3, <2>3, <2>4, <2>5 DEF GuardedInv
<1> QED
  BY <1>4, <1>5

----------------------------------------------------------------------------
(* GuardedInv is invariant while the statements are guarded ones           *)

(* Nothing is posted yet.                                                  *)
LEMMA GuardedInit ==
  ASSUME Init
  PROVE  GuardedInv
<1>1. /\ DOMAIN db.entry = Entry /\ DOMAIN db.line = Line /\ DOMAIN db.posting = Entry \X Line
      /\ \A e \in Entry : db.entry[e] = None
      /\ \A x \in Entry \X Line : db.posting[x] = None
  BY DEF Init
<1>2. RowsOf(db.entry) = {} /\ RowsOf(db.posting) = {}
  BY <1>1 DEF RowsOf
<1>3. KeptBalance(db) /\ Agree(db)
  BY <1>2 DEF KeptBalance, Agree
<1>4. \A s \in Session : KeptBalance(View(s)) /\ Agree(View(s))
  BY <1>2, RowsInit DEF KeptBalance, Agree
<1>5. \A s \in Session : LinesOwned(s) /\ KeptStays(s)
  BY NoRows DEF Init, LinesOwned, KeptStays, Tables
<1> QED
  BY <1>3, <1>4, <1>5 DEF GuardedInv

(* The statements that no trigger was written for are not executed.        *)
LEMMA GuardedStep ==
  ASSUME Kinds \subseteq Guarded, RowsInv, GuardedInv, [Next]_vars
  PROVE  GuardedInv'
<1>1. CASE UNCHANGED vars
  <2>1. \A s \in Session : View(s)' = View(s)
    BY <1>1 DEF vars, View, Sees
  <2>2. KeptBalance(db') /\ Agree(db')
    BY <1>1 DEF vars, GuardedInv
  <2>3. \A s \in Session : /\ KeptBalance(View(s)') /\ Agree(View(s)')
                           /\ LinesOwned(s)' /\ KeptStays(s)'
    BY <1>1, <2>1 DEF vars, GuardedInv, LinesOwned, KeptStays, Owns
  <2> QED
    BY <2>2, <2>3 DEF GuardedInv
<1>2. ASSUME NEW s \in Session, NEW e \in Entry, NEW p \in Period, NEW a \in Actor,
             NEW of \in Entry \cup {None}, NEW l \in Line, NEW m \in Line,
             InsertEntry(s, e, Draft(p, a, of), l, m)
      PROVE  GuardedInv'
  BY <1>2, InsertGuarded
<1>3. ASSUME NEW s \in Session, NEW e \in Entry,
             NEW status \in {"DRAFT", "POSTED", "REVERSED"}, NEW a \in Actor,
             SetStatus(s, e, status, a)
      PROVE  GuardedInv'
  BY <1>3, UpdateGuarded
<1>4. ASSUME NEW s \in Session, NEW e \in Entry,
             \/ \E a \in Actor \cup {None} : SetPoster(s, e, a)
             \/ \E p \in Period : MoveEntry(s, e, p)
      PROVE  GuardedInv'
  BY <1>4, UpdateGuarded
<1>5. ASSUME NEW s \in Session, NEW e \in Entry, DeleteEntry(s, e)
      PROVE  GuardedInv'
  BY <1>5, DeleteGuarded
<1>6. ASSUME NEW s \in Session, NEW l \in Line, NEW row \in LineRow, UpdateLine(s, l, row)
      PROVE  GuardedInv'
  <2>1. PICK wants :
          /\ Statement(s, wants, <<>>, [x \in {l} |-> row], <<>>, <<>>)
          /\ On(row.entry, "all") \in wants
          /\ View(s).line[l] # None
          /\ View(s).entry[row.entry] # None /\ ~Kept(View(s).entry[row.entry])
          /\ View(s).line[l].entry # row.entry => "reparent" \in Kinds
    BY <1>6, LineUpdated
  <2>2. View(s).line[l].entry = row.entry /\ row.entry \in Entry
    BY <2>1 DEF Guarded, LineRow
  <2> QED
    BY <2>1, <2>2, LineGuarded
<1>8. ASSUME NEW s \in Session, NEW l \in Line, DeleteLine(s, l)
      PROVE  GuardedInv'
  <2>1. PICK of \in Entry :
          /\ Statement(s, {On(l, "all"), On(of, "all")}, <<>>, [x \in {l} |-> None],
                       <<>>, <<>>)
          /\ View(s).line[l] # None /\ View(s).line[l].entry = of
          /\ View(s).entry[of] # None /\ ~Kept(View(s).entry[of])
    BY <1>8, LineDeleted
  <2>2. On(of, "all") \in {On(l, "all"), On(of, "all")}
    OBVIOUS
  <2> QED
    BY <2>1, <2>2, LineGuarded
<1>9. ASSUME NEW s \in Session, NEW l \in Line, NEW row \in LineRow, InsertLine(s, l, row)
      PROVE  GuardedInv'
  <2>1. PICK wants :
          /\ Statement(s, wants, <<>>, [x \in {l} |-> row], <<>>, <<>>)
          /\ Unused("line", l) /\ View(s).entry[row.entry] # None
          /\ "append" \in Kinds \/ ( /\ db.entry[row.entry] = None
                                   /\ ~Kept(View(s).entry[row.entry]))
    BY <1>9, LineInserted
  <2>2. /\ db.entry[row.entry] = None /\ ~Kept(View(s).entry[row.entry])
        /\ row.entry \in Entry
    BY <2>1 DEF Guarded, LineRow
  <2>3. View(s).line[l] = None /\ db.line[l] = None
    BY <2>1, NotSeen DEF Unused
  <2>4. Owns(s, row.entry)
    <3>1. Types /\ WritesLocked(s)
      BY DEF RowsInv
    <3>2. row.entry \in DOMAIN work[s].entry
      BY <2>1, <2>2, <3>1, Seen
    <3> QED
      BY <2>2, <3>1, <3>2 DEF WritesLocked
  <2> QED
    BY <2>1, <2>2, <2>3, <2>4, LineGuarded
<1>10. ASSUME NEW s \in Session, NEW e \in Entry, NEW l \in Line, NEW row \in PostingRow,
              InsertPosting(s, e, l, row)
       PROVE  GuardedInv'
  BY <1>10, PostingGuarded
<1>11. ASSUME NEW s \in Session, NEW p \in Period, NEW status \in {"OPEN", "CLOSED"},
              SetPeriod(s, p, status)
       PROVE  GuardedInv'
  <2>1. PICK wants, period : Statement(s, wants, <<>>, <<>>, <<>>, period)
    BY <1>11, PeriodSet
  <2>2. /\ KeptBalance(View(s)) /\ Agree(View(s)) /\ Types /\ LocksApart /\ References(View(s))
    BY DEF GuardedInv, RowsInv
  <2>3. KeptBalance(View(s)') /\ Agree(View(s)')
    BY <2>1, <2>2, NonePut, BalanceKept, AgreeKept
  <2> QED
    BY <2>1, <2>3, NonePut, GuardedStatement
<1>12. ASSUME NEW s \in Session, Commit(s) \/ Rollback(s)
       PROVE  GuardedInv'
  BY <1>12, EndGuarded
<1> QED
  BY <1>1, <1>2, <1>3, <1>4, <1>5, <1>6, <1>8, <1>9, <1>10, <1>11, <1>12 DEF Next

(* While no statement is executed but those the triggers were written for, *)
(* every session sees posted entries that balance and postings that agree  *)
(* with them, whatever the others have written and not committed.          *)
THEOREM GuardedInvariant ==
  ASSUME Kinds \subseteq Guarded
  PROVE  Spec => []GuardedInv
<1>1. Init => GuardedInv
  BY GuardedInit
<1>2. RowsInv /\ GuardedInv /\ [Next]_vars => GuardedInv'
  BY GuardedStep
<1> QED
  BY <1>1, <1>2, RowsInvariant, PTL DEF Spec

(* The lines of a posted or reversed entry balance, though they are        *)
(* changed by statements beside the one that posts it.                     *)
THEOREM GuardedBalance ==
  ASSUME Kinds \subseteq Guarded
  PROVE  Spec => []PostedBalanced
<1>1. GuardedInv => PostedBalanced
  BY DEF GuardedInv, KeptBalance, PostedBalanced
<1> QED
  BY <1>1, GuardedInvariant, PTL

(* Each ledger posting agrees with its line and its entry for ever.        *)
THEOREM GuardedLedger ==
  ASSUME Kinds \subseteq Guarded
  PROVE  Spec => []LedgerMatchesJournal
<1>1. GuardedInv => LedgerMatchesJournal
  BY DEF GuardedInv, Agree, LedgerMatchesJournal
<1> QED
  BY <1>1, GuardedInvariant, PTL

----------------------------------------------------------------------------
(* Who creates an entry does not post it                                   *)

SegregatedRows(tables) == \A e \in Entry : tables.entry[e] # None => Segregated(tables.entry[e])

SegregatedInv == SegregatedRows(db) /\ \A s \in Session : SegregatedRows(View(s))

(* A statement keeps it with the rows it writes.                           *)
LEMMA SegregatedStatement ==
  ASSUME RowsInv, SegregatedInv, NEW s \in Session, NEW wants,
         NEW entry, NEW line, NEW posting, NEW period,
         Statement(s, wants, entry, line, posting, period),
         \A e \in DOMAIN entry : entry[e] # None => Segregated(entry[e])
  PROVE  SegregatedInv'
<1>1. Types /\ LocksApart /\ db' = db
  BY DEF RowsInv, Statement
<1>2. /\ \A t \in Session \ {s} : View(t)' = View(t)
      /\ \A e \in Entry :
           View(s)'.entry[e] = IF e \in DOMAIN entry THEN entry[e] ELSE View(s).entry[e]
  BY <1>1, StatementTypes
<1>3. SegregatedRows(View(s)')
  BY <1>2 DEF SegregatedInv, SegregatedRows
<1> QED
  BY <1>1, <1>2, <1>3 DEF SegregatedInv, SegregatedRows

(* A commit shows the others rows that s saw.                              *)
LEMMA SegregatedEnd ==
  ASSUME RowsInv, SegregatedInv, NEW s \in Session, Commit(s) \/ Rollback(s)
  PROVE  SegregatedInv'
<1>1. Types
  BY DEF RowsInv
<1>2. CASE Rollback(s)
  BY <1>2, RollbackRows DEF Rollback, SegregatedInv, SegregatedRows
<1>3. CASE Commit(s)
  <2>1. db' = View(s) /\ View(s)'.entry = db'.entry
    BY <1>3, CommitSeen
  <2>2. ASSUME NEW t \in Session \ {s}
        PROVE  SegregatedRows(View(t)')
    <3>1. \A e \in Entry : \/ View(t)'.entry[e] = View(t).entry[e]
                           \/ View(t)'.entry[e] = View(s).entry[e]
      BY <1>1, <1>3, Seen, CommitSeen
    <3> QED
      BY <3>1 DEF SegregatedInv, SegregatedRows
  <2>3. SegregatedRows(db')
    BY <2>1 DEF SegregatedInv
  <2>4. SegregatedRows(View(s)')
    BY <2>1, <2>3 DEF SegregatedRows
  <2> QED
    BY <2>2, <2>3, <2>4 DEF SegregatedInv
<1> QED
  BY <1>2, <1>3

(* One step per statement, and the end of a transaction.                   *)
LEMMA SegregatedStep ==
  ASSUME RowsInv, SegregatedInv, [Next]_vars
  PROVE  SegregatedInv'
<1>1. CASE UNCHANGED vars
  BY <1>1 DEF vars, View, Sees, SegregatedInv, SegregatedRows
<1>2. ASSUME NEW s \in Session, NEW e \in Entry, NEW p \in Period, NEW a \in Actor,
             NEW of \in Entry \cup {None}, NEW l \in Line, NEW m \in Line,
             InsertEntry(s, e, Draft(p, a, of), l, m)
      PROVE  SegregatedInv'
  <2>1. Segregated(Draft(p, a, of))
    BY DEF Segregated, Kept, Draft
  <2>2. \A d \in DOMAIN [x \in {e} |-> Draft(p, a, of)] :
          [x \in {e} |-> Draft(p, a, of)][d] = Draft(p, a, of)
    OBVIOUS
  <2>3. Statement(s, InsertWants(e, Draft(p, a, of)), [x \in {e} |-> Draft(p, a, of)],
                  NewLines(e, l, m), <<>>, <<>>)
    BY <1>2, EntryInserted
  <2> QED
    BY <2>1, <2>2, <2>3, SegregatedStatement
<1>3. ASSUME NEW s \in Session, NEW e \in Entry,
             NEW status \in {"DRAFT", "POSTED", "REVERSED"}, NEW a \in Actor,
             SetStatus(s, e, status, a)
      PROVE  SegregatedInv'
  <2>1. PICK row \in EntryRow : StatusWritten(s, e, status, a, row)
    BY <1>3, StatusSet
  <2>2. /\ Statement(s, {On(e, "change")}, [x \in {e} |-> row], <<>>, <<>>, <<>>)
        /\ Segregated(row)
    BY <2>1 DEF StatusWritten
  <2>3. \A d \in DOMAIN [x \in {e} |-> row] : [x \in {e} |-> row][d] = row
    OBVIOUS
  <2> QED
    BY <2>2, <2>3, SegregatedStatement
<1>4. ASSUME NEW s \in Session, NEW e \in Entry, NEW p \in Period, MoveEntry(s, e, p)
      PROVE  SegregatedInv'
  <2>1. PICK row \in EntryRow : MoveWritten(s, e, p, row)
    BY <1>4, EntryMoved
  <2>2. View(s).entry[e] # None
    BY <2>1, GuardsAssumption DEF MoveWritten
  <2>3. Segregated(row)
    BY <2>1, <2>2 DEF SegregatedInv, SegregatedRows, Segregated, Kept, MoveWritten
  <2>4. \A d \in DOMAIN [x \in {e} |-> row] : [x \in {e} |-> row][d] = row
    OBVIOUS
  <2>5. Statement(s, {On(e, "change"), On(p, "share")}, [x \in {e} |-> row], <<>>, <<>>, <<>>)
    BY <2>1 DEF MoveWritten
  <2> QED
    BY <2>3, <2>4, <2>5, SegregatedStatement
<1>5. ASSUME NEW s \in Session, NEW e \in Entry, DeleteEntry(s, e)
      PROVE  SegregatedInv'
  <2>1. PICK line, wants : Statement(s, wants, [x \in {e} |-> None], line, <<>>, <<>>)
    BY <1>5, EntryDeleted
  <2>2. \A d \in DOMAIN [x \in {e} |-> None] : [x \in {e} |-> None][d] = None
    OBVIOUS
  <2> QED
    BY <2>1, <2>2, SegregatedStatement
<1>6. ASSUME NEW s \in Session, NEW wants, NEW line, NEW posting, NEW period,
             Statement(s, wants, <<>>, line, posting, period)
      PROVE  SegregatedInv'
  BY <1>6, NonePut, SegregatedStatement
<1>7. ASSUME NEW s \in Session, NEW l \in Line,
             \/ \E row \in LineRow : UpdateLine(s, l, row) \/ InsertLine(s, l, row)
             \/ DeleteLine(s, l)
      PROVE  SegregatedInv'
  <2>1. PICK wants, line : Statement(s, wants, <<>>, line, <<>>, <<>>)
    BY <1>7, LineUpdated, LineDeleted, LineInserted
  <2> QED
    BY <1>6, <2>1
<1>8. ASSUME NEW s \in Session, NEW e \in Entry, NEW l \in Line, NEW row \in PostingRow,
             InsertPosting(s, e, l, row)
      PROVE  SegregatedInv'
  BY <1>6, <1>8, PostingInserted
<1>9. ASSUME NEW s \in Session, NEW p \in Period, NEW status \in {"OPEN", "CLOSED"},
             SetPeriod(s, p, status)
      PROVE  SegregatedInv'
  BY <1>6, <1>9, PeriodSet
<1>10. ASSUME NEW s \in Session, Commit(s) \/ Rollback(s)
       PROVE  SegregatedInv'
  BY <1>10, SegregatedEnd
<1>11. ASSUME NEW s \in Session, NEW e \in Entry, NEW a \in Actor \cup {None},
              SetPoster(s, e, a)
       PROVE  SegregatedInv'
  <2>1. PICK row \in EntryRow : SignWritten(s, e, a, row)
    BY <1>11, PosterSet
  <2>2. /\ Statement(s, {On(e, "change")}, [x \in {e} |-> row], <<>>, <<>>, <<>>)
        /\ Segregated(row)
    BY <2>1 DEF SignWritten
  <2>3. \A d \in DOMAIN [x \in {e} |-> row] : [x \in {e} |-> row][d] = row
    OBVIOUS
  <2> QED
    BY <2>2, <2>3, SegregatedStatement
<1> QED
  BY <1>1, <1>2, <1>3, <1>4, <1>5, <1>7, <1>8, <1>9, <1>10, <1>11 DEF Next

(* Whichever statements lead there, and in whichever transactions: who     *)
(* posted an entry that is no reversal is not who created it.              *)
THEOREM CreatorsNeverPost == Spec => []CreatorNeverPosts
<1>1. Init => SegregatedInv
  BY RowsInit DEF Init, SegregatedInv, SegregatedRows
<1>2. RowsInv /\ SegregatedInv /\ [Next]_vars => SegregatedInv'
  BY SegregatedStep
<1>3. RowsInv /\ SegregatedInv => CreatorNeverPosts
  BY DEF RowsInv, Types, Whole, RowsOf, SegregatedInv, SegregatedRows, Segregated,
         CreatorNeverPosts
<1> QED
  BY <1>1, <1>2, <1>3, RowsInvariant, PTL DEF Spec

----------------------------------------------------------------------------
(* One session: what a closed period is spared                             *)

(* The row is as it was, but for who posted the entry.                     *)
SameButPoster(old, row) ==
  /\ old # None
  /\ row.status = old.status /\ row.period = old.period
  /\ row.creator = old.creator /\ row.reversalOf = old.reversalOf

(* What a transaction has written is in periods whose status it has set,   *)
(* in open ones, or was there before and differs in the poster alone.      *)
OpenInv ==
  \A s \in Session : \A e \in RowsOf(work[s].entry) :
    \/ work[s].entry[e].period \in DOMAIN work[s].period
    \/ db.period[work[s].entry[e].period] = "OPEN"
    \/ SameButPoster(db.entry[e], work[s].entry[e])

(* A statement keeps it with rows in periods that it sees open, and with   *)
(* rows that it gives another poster.                                      *)
LEMMA OpenStatement ==
  ASSUME RowsInv, OpenInv, NEW s \in Session, NEW wants,
         NEW entry, NEW line, NEW posting, NEW period,
         Statement(s, wants, entry, line, posting, period),
         \A e \in DOMAIN entry : entry[e] # None =>
           \/ View(s).period[entry[e].period] = "OPEN"
           \/ SameButPoster(View(s).entry[e], entry[e])
  PROVE  OpenInv'
<1>1. Types /\ db' = db
  BY DEF RowsInv, Statement
<1>2. /\ DOMAIN work'[s].entry = DOMAIN work[s].entry \cup DOMAIN entry
      /\ \A e \in DOMAIN work'[s].entry :
           work'[s].entry[e] = IF e \in DOMAIN entry THEN entry[e] ELSE work[s].entry[e]
      /\ DOMAIN work[s].period \subseteq DOMAIN work'[s].period
      /\ \A t \in Session \ {s} : work'[t] = work[t]
  BY <1>1, Written
<1>3. ASSUME NEW e \in RowsOf(work'[s].entry)
      PROVE  \/ work'[s].entry[e].period \in DOMAIN work'[s].period
             \/ db.period[work'[s].entry[e].period] = "OPEN"
             \/ SameButPoster(db.entry[e], work'[s].entry[e])
  <2>1. e \in DOMAIN work'[s].entry /\ work'[s].entry[e] # None
    BY DEF RowsOf
  <2>2. CASE e \in DOMAIN entry
    <3>1. work'[s].entry[e] = entry[e] /\ entry[e] # None
      BY <1>2, <2>1, <2>2
    <3>2. entry[e] \in EntryRow /\ entry[e].period \in Period /\ e \in Entry
      BY <2>2, <3>1 DEF Statement, Part, EntryRow
    <3>3. CASE View(s).period[entry[e].period] = "OPEN"
      BY <1>1, <1>2, <3>1, <3>2, <3>3, Seen
    <3>4. CASE SameButPoster(View(s).entry[e], entry[e])
      <4>1. View(s).entry[e] = IF e \in DOMAIN work[s].entry THEN work[s].entry[e]
                                                             ELSE db.entry[e]
        BY <1>1, <3>2, Seen
      <4>2. CASE e \in DOMAIN work[s].entry
        <5>1. /\ SameButPoster(work[s].entry[e], entry[e])
              /\ e \in RowsOf(work[s].entry)
          BY <3>4, <4>1, <4>2 DEF SameButPoster, RowsOf
        <5> QED
          BY <1>2, <3>1, <5>1 DEF OpenInv, SameButPoster
      <4> QED
        BY <3>1, <3>4, <4>1, <4>2
    <3> QED
      BY <2>2, <3>1, <3>3, <3>4
  <2>3. CASE e \notin DOMAIN entry
    <3>1. work'[s].entry[e] = work[s].entry[e] /\ e \in RowsOf(work[s].entry)
      BY <1>2, <2>1, <2>3 DEF RowsOf
    <3> QED
      BY <1>2, <3>1 DEF OpenInv
  <2> QED
    BY <2>2, <2>3
<1> QED
  BY <1>1, <1>2, <1>3 DEF OpenInv

(* The same for one entry.                                                 *)
LEMMA OpenEntry ==
  ASSUME RowsInv, OpenInv, NEW s \in Session, NEW e \in Entry, NEW row \in EntryRow,
         NEW wants, NEW line,
         Statement(s, wants, [x \in {e} |-> row], line, <<>>, <<>>),
         \/ View(s).period[row.period] = "OPEN"
         \/ SameButPoster(View(s).entry[e], row)
  PROVE  OpenInv'
<1>1. \A d \in DOMAIN [x \in {e} |-> row] : d = e /\ [x \in {e} |-> row][d] = row
  OBVIOUS
<1> QED
  BY <1>1, OpenStatement

(* Nobody else changes the periods meanwhile.                              *)
LEMMA OpenStep ==
  ASSUME \A s, t \in Session : s = t, RowsInv, OpenInv, [Next]_vars
  PROVE  OpenInv'
<1>1. CASE UNCHANGED vars
  BY <1>1 DEF vars, OpenInv
<1>2. ASSUME NEW s \in Session, NEW e \in Entry, NEW p \in Period, NEW a \in Actor,
             NEW of \in Entry \cup {None}, NEW l \in Line, NEW m \in Line,
             InsertEntry(s, e, Draft(p, a, of), l, m)
      PROVE  OpenInv'
  <2>1. View(s).period = Sees(s, "period")
    BY Seen DEF RowsInv
  <2>2. View(s).period[Draft(p, a, of).period] = "OPEN"
    BY <1>2, <2>1 DEF InsertEntry, OpenPeriod
  <2>3. Statement(s, InsertWants(e, Draft(p, a, of)), [x \in {e} |-> Draft(p, a, of)],
                  NewLines(e, l, m), <<>>, <<>>)
    BY <1>2, EntryInserted
  <2>4. Draft(p, a, of) \in EntryRow
    BY DEF Draft, EntryRow
  <2> QED
    BY <2>2, <2>3, <2>4, OpenEntry
<1>3. ASSUME NEW s \in Session, NEW e \in Entry,
             NEW status \in {"DRAFT", "POSTED", "REVERSED"}, NEW a \in Actor,
             SetStatus(s, e, status, a)
      PROVE  OpenInv'
  <2>1. PICK row \in EntryRow : StatusWritten(s, e, status, a, row)
    BY <1>3, StatusSet
  <2>2. /\ Statement(s, {On(e, "change")}, [x \in {e} |-> row], <<>>, <<>>, <<>>)
        /\ View(s).period[row.period] = "OPEN"
    BY <2>1 DEF StatusWritten
  <2> QED
    BY <2>2, OpenEntry
<1>4. ASSUME NEW s \in Session, NEW e \in Entry, NEW p \in Period, MoveEntry(s, e, p)
      PROVE  OpenInv'
  <2>1. PICK row \in EntryRow : MoveWritten(s, e, p, row)
    BY <1>4, EntryMoved
  <2>2. /\ Statement(s, {On(e, "change"), On(p, "share")}, [x \in {e} |-> row], <<>>, <<>>, <<>>)
        /\ View(s).period[row.period] = "OPEN"
    BY <2>1 DEF MoveWritten
  <2> QED
    BY <2>2, OpenEntry
<1>5. ASSUME NEW s \in Session, NEW e \in Entry, NEW a \in Actor \cup {None},
             SetPoster(s, e, a)
      PROVE  OpenInv'
  <2>1. PICK row \in EntryRow : SignWritten(s, e, a, row)
    BY <1>5, PosterSet
  <2>2. /\ Statement(s, {On(e, "change")}, [x \in {e} |-> row], <<>>, <<>>, <<>>)
        /\ SameButPoster(View(s).entry[e], row)
    BY <2>1, GuardsAssumption DEF SignWritten, SameButPoster
  <2> QED
    BY <2>2, OpenEntry
<1>6. ASSUME NEW s \in Session, NEW e \in Entry, DeleteEntry(s, e)
      PROVE  OpenInv'
  <2>1. PICK line, wants : Statement(s, wants, [x \in {e} |-> None], line, <<>>, <<>>)
    BY <1>6, EntryDeleted
  <2>2. \A d \in DOMAIN [x \in {e} |-> None] : [x \in {e} |-> None][d] = None
    OBVIOUS
  <2> QED
    BY <2>1, <2>2, OpenStatement
<1>7. ASSUME NEW s \in Session, NEW wants, NEW line, NEW posting, NEW period,
             Statement(s, wants, <<>>, line, posting, period)
      PROVE  OpenInv'
  BY <1>7, NonePut, OpenStatement
<1>8. ASSUME NEW s \in Session, NEW l \in Line,
             \/ \E row \in LineRow : UpdateLine(s, l, row) \/ InsertLine(s, l, row)
             \/ DeleteLine(s, l)
      PROVE  OpenInv'
  <2>1. PICK wants, line : Statement(s, wants, <<>>, line, <<>>, <<>>)
    BY <1>8, LineUpdated, LineDeleted, LineInserted
  <2> QED
    BY <1>7, <2>1
<1>9. ASSUME NEW s \in Session, NEW e \in Entry, NEW l \in Line, NEW row \in PostingRow,
             InsertPosting(s, e, l, row)
      PROVE  OpenInv'
  BY <1>7, <1>9, PostingInserted
<1>10. ASSUME NEW s \in Session, NEW p \in Period, NEW status \in {"OPEN", "CLOSED"},
              SetPeriod(s, p, status)
       PROVE  OpenInv'
  BY <1>7, <1>10, PeriodSet
<1>11. ASSUME NEW s \in Session, Commit(s) \/ Rollback(s)
       PROVE  OpenInv'
  <2>1. work'[s] = Nothing
    BY <1>11, Ended DEF RowsInv, Commit, Rollback
  <2>2. \A t \in Session : work'[t] = Nothing
    BY <2>1
  <2> QED
    BY <2>2, NoRows DEF OpenInv, RowsOf, Tables
<1> QED
  BY <1>1, <1>2, <1>3, <1>4, <1>5, <1>6, <1>8, <1>9, <1>10, <1>11 DEF Next

(* Only a commit changes what is committed.                                *)
LEMMA CommitChanges ==
  ASSUME Next
  PROVE  db' = db \/ \E s \in Session : Commit(s)
<1>1. \A s, kind, wants : Execute(s, kind, wants) => db' = db
  BY DEF Execute
<1>2. /\ \A s, e, row, l, m : InsertEntry(s, e, row, l, m) => db' = db
      /\ \A s, e, p : MoveEntry(s, e, p) => db' = db
      /\ \A s, e : DeleteEntry(s, e) => db' = db
  <2>1. \A s, e, row, l, m : InsertEntry(s, e, row, l, m) => db' = db
    BY <1>1 DEF InsertEntry
  <2>2. \A s, e, p : MoveEntry(s, e, p) => db' = db
    BY <1>1 DEF MoveEntry
  <2>3. \A s, e : DeleteEntry(s, e) => db' = db
    BY <1>1 DEF DeleteEntry
  <2> QED
    BY <2>1, <2>2, <2>3
<1>3. \A s, e, status, a : SetStatus(s, e, status, a) => db' = db
  BY <1>1 DEF SetStatus
<1>4. \A s, e, a : SetPoster(s, e, a) => db' = db
  BY <1>1 DEF SetPoster
<1>5. /\ \A s, l, row : UpdateLine(s, l, row) => db' = db
      /\ \A s, l : DeleteLine(s, l) => db' = db
      /\ \A s, l, row : InsertLine(s, l, row) => db' = db
  BY <1>1 DEF UpdateLine, DeleteLine, InsertLine
<1>6. /\ \A s, e, l, row : InsertPosting(s, e, l, row) => db' = db
      /\ \A s, p, status : SetPeriod(s, p, status) => db' = db
      /\ \A s : Rollback(s) => db' = db
  BY <1>1 DEF InsertPosting, SetPeriod, Rollback
<1> QED
  BY <1>2, <1>3, <1>4, <1>5, <1>6 DEF Next

(* With nobody beside it, whichever statements a transaction executes: one *)
(* that leaves the status of a closed period alone brings no entry into    *)
(* the period, and changes none that stays there but in who posted it.     *)
THEOREM ClosedPeriodsGainNothing ==
  ASSUME \A s, t \in Session : s = t
  PROVE  Spec => ClosedPeriodGainsNothing
<1> DEFINE Gains ==
      \A p \in Period :
        (db.period[p] = "CLOSED" /\ \A s \in Session : p \notin DOMAIN work[s].period) =>
          \A e \in RowsOf(db.entry') : db'.entry[e].period = p =>
            /\ db.entry[e] # None
            /\ db.entry[e] = [db'.entry[e] EXCEPT !.poster = db.entry[e].poster]
<1>1. Init => OpenInv
  BY NoRows DEF Init, OpenInv, RowsOf, Tables
<1>2. RowsInv /\ OpenInv /\ [Next]_vars => OpenInv'
  BY OpenStep
<1>3. ASSUME NEW old \in EntryRow, NEW row \in EntryRow, SameButPoster(old, row)
      PROVE  old = [row EXCEPT !.poster = old.poster]
  BY <1>3 DEF EntryRow, SameButPoster
<1>4. RowsInv /\ OpenInv /\ [Next]_vars => [Gains]_vars
  <2> SUFFICES ASSUME RowsInv, OpenInv, Next
               PROVE  Gains
    OBVIOUS
  <2>1. Types /\ db.entry \in [Entry -> EntryRow \cup {None}]
    BY DEF RowsInv, Types, Whole
  <2>2. \A row \in EntryRow : SameButPoster(row, row)
    BY GuardsAssumption DEF SameButPoster
  <2>3. ASSUME NEW p \in Period, db.period[p] = "CLOSED",
               \A s \in Session : p \notin DOMAIN work[s].period,
               NEW e \in RowsOf(db.entry'), db'.entry[e].period = p
        PROVE  /\ db.entry[e] # None
               /\ db.entry[e] = [db'.entry[e] EXCEPT !.poster = db.entry[e].poster]
    <3>1. CASE db' = db
      <4>1. db.entry[e] \in EntryRow /\ db'.entry[e] = db.entry[e]
        BY <2>1, <2>3, <3>1 DEF RowsOf
      <4> QED
        BY <1>3, <2>2, <4>1, GuardsAssumption
    <3>2. ASSUME NEW s \in Session, Commit(s)
          PROVE  /\ db.entry[e] # None
                 /\ db.entry[e] = [db'.entry[e] EXCEPT !.poster = db.entry[e].poster]
      <4>1. db' = View(s)
        BY <2>1, <3>2, CommitSeen DEF RowsInv
      <4>2. e \in Entry /\ View(s).entry[e] \in EntryRow
        BY <2>1, <2>3, <4>1, Seen DEF RowsOf
      <4>3. View(s).entry[e] = IF e \in DOMAIN work[s].entry THEN work[s].entry[e]
                                                             ELSE db.entry[e]
        BY <2>1, <4>2, Seen
      <4>4. SameButPoster(db.entry[e], View(s).entry[e])
        <5>1. CASE e \in DOMAIN work[s].entry
          <6>1. e \in RowsOf(work[s].entry) /\ work[s].entry[e].period = p
            BY <2>3, <4>1, <4>2, <4>3, <5>1, GuardsAssumption DEF RowsOf
          <6> QED
            BY <2>3, <4>3, <5>1, <6>1 DEF OpenInv
        <5>2. CASE e \notin DOMAIN work[s].entry
          BY <2>2, <4>2, <4>3, <5>2
        <5> QED
          BY <5>1, <5>2
      <4>5. db.entry[e] \in EntryRow
        BY <2>1, <4>2, <4>4 DEF SameButPoster
      <4> QED
        BY <1>3, <4>1, <4>2, <4>4, <4>5, GuardsAssumption
    <3> QED
      BY <3>1, <3>2, CommitChanges
  <2> QED
    BY <2>3
<1> QED
  BY <1>1, <1>2, <1>4, RowsInvariant, PTL DEF Spec, ClosedPeriodGainsNothing

==============================================================================
