--------------------------- MODULE JournalTxProofs ---------------------------
(***************************************************************************)
(* What holds of JournalTx for every set of workers, calls, periods,       *)
(* entries, actors, keys and lines: what a transaction has checked under   *)
(* its locks is still true when it commits, so that every commit is one    *)
(* call of Books.                                                          *)
(***************************************************************************)
EXTENDS JournalTx, SequenceTheorems, TLAPS

----------------------------------------------------------------------------
(* The rows the services write are well formed                             *)

(* A row of the journal, as a draft and once it is posted.                 *)
LEMMA DraftRowType ==
  ASSUME NEW p \in Period, NEW l \in Lines, NEW k \in Key, NEW h \in Hash,
         NEW a \in Actor, NEW of \in Entry \cup {None}
  PROVE  /\ DraftRow(p, l, k, h, a, of) \in EntryRow
         /\ DraftRow(p, l, k, h, a, of) =
              [status |-> "DRAFT", period |-> p, lines |-> l, key |-> k, hash |-> h,
               creator |-> a, poster |-> None, reversalOf |-> of]
BY DEF DraftRow, EntryRow, EntryStatus

(* Posting a row sets its status and its poster.                            *)
LEMMA PostedRowType ==
  ASSUME NEW r \in EntryRow, NEW a \in Actor
  PROVE  /\ PostedRow(r, a) \in EntryRow
         /\ PostedRow(r, a) =
              [status |-> "POSTED", period |-> r.period, lines |-> r.lines,
               key |-> r.key, hash |-> r.hash, creator |-> r.creator,
               poster |-> a, reversalOf |-> r.reversalOf]
<1> DEFINE marked == [r EXCEPT !.status = "POSTED"]
<1>1. /\ marked \in EntryRow
      /\ marked = [status |-> "POSTED", period |-> r.period, lines |-> r.lines,
                   key |-> r.key, hash |-> r.hash, creator |-> r.creator,
                   poster |-> r.poster, reversalOf |-> r.reversalOf]
  BY DEF EntryRow, EntryStatus
<1>2. PostedRow(r, a) = [marked EXCEPT !.poster = a]
  BY DEF PostedRow
<1> HIDE DEF marked
<1>3. /\ [marked EXCEPT !.poster = a] \in EntryRow
      /\ [marked EXCEPT !.poster = a] =
           [status |-> marked.status, period |-> marked.period, lines |-> marked.lines,
            key |-> marked.key, hash |-> marked.hash, creator |-> marked.creator,
            poster |-> a, reversalOf |-> marked.reversalOf]
  BY <1>1 DEF EntryRow, EntryStatus
<1> QED
  BY <1>1, <1>2, <1>3

(* Marking a row sets its status.                                           *)
LEMMA ReversedRowType ==
  ASSUME NEW r \in EntryRow
  PROVE  /\ ReversedRow(r) \in EntryRow
         /\ ReversedRow(r) =
              [status |-> "REVERSED", period |-> r.period, lines |-> r.lines,
               key |-> r.key, hash |-> r.hash, creator |-> r.creator,
               poster |-> r.poster, reversalOf |-> r.reversalOf]
BY DEF ReversedRow, EntryRow, EntryStatus

(* The posting of an entry.                                                *)
LEMMA PostingOfType ==
  ASSUME NEW e \in Entry, NEW r \in EntryRow
  PROVE  PostingOf(e, r) \in Posting
BY DEF PostingOf, Posting, EntryRow

----------------------------------------------------------------------------
(* The inductive invariant                                                 *)

(* The stages of an operation, in its own order.                           *)
StagesOf(op) ==
  {"reply", "organization", "append", "commit"} \cup
  CASE op = "create"  -> {"key", "period", "accounts", "insert", "replay"}
    [] op = "post"    -> {"find", "period", "entry", "post"}
    [] op = "reverse" -> {"find", "period", "entry", "check", "insert", "reverse"}
    [] op = "close"   -> {"period", "drafts", "reconcile"}
    [] op = "reopen"  -> {"period", "reopen"}

Names(w) == call[w].op \in {"post", "reverse"}

(* w holds the lock of its period, and what it read under it.              *)
Working(w) ==
  stage[w] \notin {"idle", "key", "find", "period", "replay", "reply"}

(* w holds the lock of the entry it names.                                 *)
Loaded(w) == Working(w) /\ Names(w) /\ stage[w] # "entry"

(* The rows w is going to commit are all there but the audit record.       *)
Written(w) == stage[w] \in {"organization", "append", "commit"}

(* w has flushed a row under a new identity.                               *)
Inserted(w) == (Written(w) \/ stage[w] = "reverse") /\ Inserts(call[w].op)

Found(w) ==
  (Names(w) /\ stage[w] \notin {"find", "reply"}) => call[w].target \in Rows(entry)

PeriodLoaded(w) ==
  Working(w) =>
    /\ OnRow(PeriodOf(w), "update") \in locks[w]
    /\ open[w] <=> period[PeriodOf(w)] = "OPEN"

EntryLoaded(w) ==
  Loaded(w) =>
    /\ OnRow(call[w].target, "update") \in locks[w]
    /\ row[w] = entry[call[w].target]

TrailLocked(w) ==
  stage[w] \in {"append", "commit"} => OnRow(Org, "update") \in locks[w]

(* What w has checked under its locks and does not check again.            *)
Checked(w) ==
  /\ (call[w].op = "create" /\ (stage[w] = "insert" \/ Inserted(w))) =>
       open[w] /\ Validated(call[w].lines)
  /\ (call[w].op = "reverse" /\ (stage[w] = "insert" \/ Inserted(w))) =>
       open[w] /\ MayReverse(w)
  /\ (call[w].op = "close" /\ (stage[w] = "reconcile" \/ Written(w))) =>
       open[w] /\ Drafts(entry, call[w].period) = {}
  /\ (call[w].op = "close" /\ Written(w)) =>
       /\ Reconciled(entry, ledger, call[w].period)
       /\ TrialBalanced(ledger, call[w].period)
  /\ (call[w].op = "reopen" /\ Written(w)) => ~open[w]

(* The unique indexes let the new row in.                                  *)
NewFits(w) ==
  Inserted(w) =>
    /\ new[w] \in Entry \ Rows(entry)
    /\ ~Refused(w)

(* The uncommitted rows of w.                                              *)
WritesKnown(w) ==
  /\ ~(Written(w) \/ Inserted(w)) => writes[w] = NoWrites
  /\ stage[w] = "reverse" =>
       /\ writes[w].entry = [x \in {new[w]} |-> NewRow(w)]
       /\ writes[w].period = <<>> /\ writes[w].ledger = <<>>
  /\ (call[w].op = "create" /\ Written(w)) =>
       /\ writes[w].entry = [x \in {new[w]} |-> NewRow(w)]
       /\ writes[w].period = <<>> /\ writes[w].ledger = <<>>
  /\ (call[w].op = "post" /\ Written(w)) =>
       /\ writes[w].period = <<>>
       /\ \/ /\ Postable(w)
             /\ writes[w].entry =
                  [x \in {call[w].target} |-> PostedRow(row[w], call[w].actor)]
             /\ writes[w].ledger = <<PostingOf(call[w].target, row[w])>>
          \/ /\ AlreadyPosted(w)
             /\ writes[w].entry = <<>> /\ writes[w].ledger = <<>>
  /\ (call[w].op = "reverse" /\ Written(w)) =>
       /\ writes[w].entry =
            [x \in {new[w], call[w].target} |->
               IF x = new[w] THEN PostedRow(NewRow(w), call[w].actor)
                             ELSE ReversedRow(row[w])]
       /\ writes[w].period = <<>>
       /\ writes[w].ledger = <<PostingOf(new[w], NewRow(w))>>
  /\ (call[w].op \in {"close", "reopen"} /\ Written(w)) =>
       /\ writes[w].period = [x \in {call[w].period} |->
                                IF call[w].op = "close" THEN "CLOSED" ELSE "OPEN"]
       /\ writes[w].entry = <<>> /\ writes[w].ledger = <<>>
  /\ writes[w].audit =
       IF stage[w] = "commit"
         THEN <<AuditRecord(audit, call[w].actor, ActionOf(call[w].op), Subject(w))>>
         ELSE <<>>

WorkerInv(w) ==
  stage[w] # "idle" =>
    /\ stage[w] \in StagesOf(call[w].op)
    /\ Found(w)
    /\ PeriodLoaded(w)
    /\ EntryLoaded(w)
    /\ TrailLocked(w)
    /\ Checked(w)
    /\ NewFits(w)
    /\ WritesKnown(w)

(* No two workers hold locks that exclude each other.                      *)
LocksApart ==
  \A v, w \in Worker : v # w =>
    \A l \in locks[v], m \in locks[w] : ~Conflict(l, m)

(* No two workers insert one identity, or under one key.                   *)
InsertsApart ==
  \A v, w \in Worker : (v # w /\ Inserted(v) /\ Inserted(w)) =>
    new[v] # new[w] /\ call[v].key # call[w].key

(* What the committed rows say of each other: a reversal is not a draft,   *)
(* its original is marked, and the digest of a reversal is that of no other*)
(* entry.                                                                  *)
RowsLinked ==
  \A e \in Rows(entry) :
    /\ entry[e].reversalOf # None =>
         /\ entry[e].status # "DRAFT"
         /\ entry[e].reversalOf \in Rows(entry)
         /\ entry[entry[e].reversalOf].status = "REVERSED"
    /\ entry[e].hash = ReverseHash => entry[e].reversalOf # None

(* Every worker has a session, and a session four kinds of uncommitted     *)
(* rows.                                                                   *)
Sessions ==
  /\ stage = [w \in Worker |-> stage[w]] /\ call = [w \in Worker |-> call[w]]
  /\ open = [w \in Worker |-> open[w]] /\ row = [w \in Worker |-> row[w]]
  /\ new = [w \in Worker |-> new[w]] /\ answer = [w \in Worker |-> answer[w]]
  /\ locks = [w \in Worker |-> locks[w]]
  /\ writes = [w \in Worker |->
       [period |-> writes[w].period, entry |-> writes[w].entry,
        ledger |-> writes[w].ledger, audit |-> writes[w].audit]]

TxInv ==
  /\ TypeOK
  /\ Sessions
  /\ LocksApart
  /\ InsertsApart
  /\ RowsLinked
  /\ \A w \in Worker : WorkerInv(w)
  /\ AnswersTrue

----------------------------------------------------------------------------
(* Books asks the same questions of the same rows                          *)

(* The questions about rows.                                                *)
LEMMA SameRows ==
  ASSUME NEW rows, NEW e, NEW k
  PROVE  /\ Books!Rows(rows) = Rows(rows)
         /\ Books!KeyHolders(rows, k) = KeyHolders(rows, k)
         /\ Books!ReversalsOf(rows, e) = ReversalsOf(rows, e)
         /\ Books!Drafts(rows, e) = Drafts(rows, e)
BY DEF Books!Rows, Books!KeyHolders, Books!ReversalsOf, Books!Drafts,
       Rows, KeyHolders, ReversalsOf, Drafts

(* The questions about postings.                                            *)
LEMMA SamePostings ==
  ASSUME NEW rows, NEW posted, NEW p, NEW e
  PROVE  /\ Books!HasPostings(posted, e) = HasPostings(posted, e)
         /\ Books!Reconciled(rows, posted, p) = Reconciled(rows, posted, p)
         /\ Books!TrialBalanced(posted, p) = TrialBalanced(posted, p)
<1>1. \A amount : Books!Total(amount) = Total(amount)
  BY DEF Total, Books!Total, MapThenFoldSet, Books!MapThenFoldSet
<1>2. Books!HasPostings(posted, e) = HasPostings(posted, e)
  BY DEF Books!HasPostings, HasPostings
<1>3. Books!Reconciled(rows, posted, p) = Reconciled(rows, posted, p)
  BY DEF Books!Reconciled, Books!Missing, Books!Orphans, Books!Mismatched,
         Books!Expected, Books!PostingsIn, Books!Rows,
         Reconciled, Missing, Orphans, Mismatched, Expected, PostingsIn, Rows
<1>4. Books!TrialBalanced(posted, p) = TrialBalanced(posted, p)
  BY <1>1 DEF Books!TrialBalanced, Books!Imbalance, Books!PostingsIn,
              TrialBalanced, Imbalance, PostingsIn
<1> QED
  BY <1>2, <1>3, <1>4

(* The rows and records written.                                            *)
LEMMA SameRecords ==
  ASSUME NEW r, NEW e, NEW a, NEW p, NEW l, NEW k, NEW h, NEW s
  PROVE  /\ Books!DraftRow(p, l, k, h, a, e) = DraftRow(p, l, k, h, a, e)
         /\ Books!PostedRow(r, a) = PostedRow(r, a)
         /\ Books!ReversedRow(r) = ReversedRow(r)
         /\ Books!PostingOf(e, r) = PostingOf(e, r)
         /\ Books!AuditRecord(s, a, k, e) = AuditRecord(s, a, k, e)
         /\ Books!CreateHash(p, l) = CreateHash(p, l)
         /\ Books!ReverseHash = ReverseHash
         /\ Books!Validated(l) = Validated(l)
BY DEF Books!DraftRow, Books!PostedRow, Books!ReversedRow, Books!PostingOf,
       Books!AuditRecord, Books!CreateHash, Books!ReverseHash, Books!Validated,
       DraftRow, PostedRow, ReversedRow, PostingOf, AuditRecord, CreateHash,
       ReverseHash, Validated

CommittedTypes ==
  /\ period \in [Period -> PeriodStatus]
  /\ entry \in [Entry -> EntryRow \cup {None}]
  /\ ledger \in Seq(Posting)
  /\ audit \in Seq(AuditRow)

(* The types of the committed rows.                                         *)
LEMMA SameTypes == Books!TypeOK <=> CommittedTypes
BY DEF CommittedTypes, Books!TypeOK, Books!PeriodStatus, Books!EntryRow, Books!Posting,
       Books!AuditRow, Books!EntryStatus, Books!Hash, Books!AuditAction,
       PeriodStatus, EntryRow, Posting, AuditRow, EntryStatus, Hash, AuditAction

----------------------------------------------------------------------------
(* Types, worker by worker                                                 *)

WritesTyped(p, e, g, t) ==
  /\ DOMAIN p \subseteq Period /\ \A x \in DOMAIN p : p[x] \in PeriodStatus
  /\ DOMAIN e \subseteq Entry /\ \A x \in DOMAIN e : e[x] \in EntryRow
  /\ g \in Seq(Posting)
  /\ t \in Seq(AuditRow)

SessionTyped(w) ==
  /\ stage[w] \in Stage
  /\ call[w] \in Calls \cup {None}
  /\ open[w] \in BOOLEAN
  /\ row[w] \in EntryRow \cup {None}
  /\ new[w] \in Entry \cup {None}
  /\ answer[w] \in Entry \cup {None}
  /\ locks[w] \subseteq Lock
  /\ WritesTyped(writes[w].period, writes[w].entry, writes[w].ledger, writes[w].audit)
  /\ stage[w] = "idle" <=> call[w] = None
  /\ stage[w] \in {"idle", "reply"} => writes[w] = NoWrites /\ locks[w] = {}

(* TypeOK is a statement about each worker.                                 *)
LEMMA TypesByWorker ==
  Sessions =>
    (TypeOK <=> /\ CommittedTypes
                /\ active \subseteq Account
                /\ \A w \in Worker : SessionTyped(w))
<1> SUFFICES ASSUME Sessions
             PROVE  TypeOK <=> /\ CommittedTypes
                               /\ active \subseteq Account
                               /\ \A w \in Worker : SessionTyped(w)
  OBVIOUS
<1>1. ASSUME TypeOK
      PROVE  CommittedTypes /\ active \subseteq Account /\ \A w \in Worker : SessionTyped(w)
  BY <1>1, SameTypes DEF TypeOK, SessionTyped, WritesTyped, Books!PeriodStatus,
                         PeriodStatus
<1>2. ASSUME CommittedTypes, active \subseteq Account, \A w \in Worker : SessionTyped(w)
      PROVE  TypeOK
  <2>1. /\ stage \in [Worker -> Stage] /\ call \in [Worker -> Calls \cup {None}]
        /\ open \in [Worker -> BOOLEAN]
    BY <1>2 DEF SessionTyped, Sessions
  <2>2. /\ row \in [Worker -> EntryRow \cup {None}] /\ new \in [Worker -> Entry \cup {None}]
        /\ answer \in [Worker -> Entry \cup {None}] /\ locks \in [Worker -> SUBSET Lock]
    BY <1>2 DEF SessionTyped, Sessions
  <2> QED
    BY <1>2, <2>1, <2>2, SameTypes DEF TypeOK, SessionTyped, WritesTyped
<1> QED
  BY <1>1, <1>2

(* After a step as before it.                                               *)
LEMMA NextTypesByWorker ==
  (Sessions =>
    (TypeOK <=> /\ CommittedTypes
                /\ active \subseteq Account
                /\ \A w \in Worker : SessionTyped(w)))'
BY TypesByWorker, PTL

(* What a call carries, by its operation.                                  *)
LEMMA CallType ==
  ASSUME NEW c \in Calls
  PROVE  /\ c # None /\ c.op \in Op /\ c.actor \in Actor
         /\ c.op = "create" => c.period \in Period /\ c.lines \in Lines /\ c.key \in Key
         /\ c.op \in {"post", "reverse"} => c.target \in Entry
         /\ c.op = "reverse" => c.key \in Key
         /\ c.op \in {"close", "reopen"} => c.period \in Period
BY CallsAssumption DEF Call

(* A worker that is not idle serves one of the calls.                      *)
LEMMA ServedCall ==
  ASSUME TypeOK, NEW w \in Worker, stage[w] # "idle"
  PROVE  call[w] \in Calls
BY DEF TypeOK

(* The operations that come to a stage.                                    *)
LEMMA AtStage ==
  ASSUME TypeOK, NEW w \in Worker, stage[w] # "idle", stage[w] \in StagesOf(call[w].op)
  PROVE  /\ stage[w] = "key" => call[w].op = "create"
         /\ stage[w] = "replay" => call[w].op = "create"
         /\ stage[w] = "accounts" => call[w].op = "create"
         /\ stage[w] = "find" => call[w].op \in {"post", "reverse"}
         /\ stage[w] = "entry" => call[w].op \in {"post", "reverse"}
         /\ stage[w] = "insert" => call[w].op \in {"create", "reverse"}
         /\ stage[w] = "post" => call[w].op = "post"
         /\ stage[w] = "check" => call[w].op = "reverse"
         /\ stage[w] = "reverse" => call[w].op = "reverse"
         /\ stage[w] = "drafts" => call[w].op = "close"
         /\ stage[w] = "reconcile" => call[w].op = "close"
         /\ stage[w] = "reopen" => call[w].op = "reopen"
<1>1. call[w] \in Calls
  BY ServedCall
<1>2. call[w].op \in Op
  BY <1>1, CallType
<1> QED
  BY <1>2 DEF StagesOf, Op

(* The statement after each statement belongs to the same operation.       *)
LEMMA NextStage ==
  /\ After("create", "key") = "period" /\ After("create", "period") = "accounts"
  /\ After("create", "accounts") = "insert" /\ After("create", "insert") = "organization"
  /\ After("post", "find") = "period" /\ After("post", "period") = "entry"
  /\ After("post", "entry") = "post" /\ After("post", "post") = "organization"
  /\ After("reverse", "find") = "period" /\ After("reverse", "period") = "entry"
  /\ After("reverse", "entry") = "check" /\ After("reverse", "check") = "insert"
  /\ After("reverse", "insert") = "reverse" /\ After("reverse", "reverse") = "organization"
  /\ After("close", "period") = "drafts" /\ After("close", "drafts") = "reconcile"
  /\ After("close", "reconcile") = "organization"
  /\ After("reopen", "period") = "reopen" /\ After("reopen", "reopen") = "organization"
  /\ \A op \in Op : /\ After(op, "organization") = "append"
                    /\ After(op, "append") = "commit"
BY DEF After

----------------------------------------------------------------------------
(* Statements                                                              *)

(* Nothing of v's session changes.                                         *)
Kept(v) ==
  /\ stage'[v] = stage[v] /\ call'[v] = call[v] /\ open'[v] = open[v]
  /\ row'[v] = row[v] /\ new'[v] = new[v] /\ writes'[v] = writes[v]
  /\ locks'[v] = locks[v] /\ answer'[v] = answer[v]

(* What a worker knows it knows until it or a committed row changes.       *)
LEMMA Undisturbed ==
  ASSUME NEW v \in Worker, WorkerInv(v), Kept(v), UNCHANGED committed
  PROVE  WorkerInv(v)'
<1>1. CASE stage[v] = "idle"
  BY <1>1 DEF WorkerInv, Kept
<1>2. CASE stage[v] # "idle"
  <2>1. (stage[v] \in StagesOf(call[v].op))' /\ Found(v)'
    BY <1>2 DEF WorkerInv, Found, StagesOf, Kept, committed, Names
  <2>2. PeriodOf(v)' = PeriodOf(v)
    BY DEF PeriodOf, Kept, committed
  <2>3. PeriodLoaded(v)' /\ EntryLoaded(v)' /\ TrailLocked(v)'
    BY <1>2, <2>2 DEF WorkerInv, PeriodLoaded, EntryLoaded, TrailLocked, Loaded,
                      Kept, committed, Working, Names
  <2>4. Checked(v)'
    BY <1>2 DEF WorkerInv, Checked, MayReverse, Kept, committed, Written, Inserted
  <2>5. NewFits(v)'
    BY <1>2 DEF WorkerInv, NewFits, Refused, Kept, committed, Written, Inserted
  <2>6. WritesKnown(v)'
    <3>1. NewRow(v)' = NewRow(v) /\ Subject(v)' = Subject(v)
      BY DEF NewRow, Subject, Kept
    <3>2. (Postable(v)' <=> Postable(v)) /\ (AlreadyPosted(v)' <=> AlreadyPosted(v))
      BY DEF Postable, AlreadyPosted, Kept, committed
    <3> QED
      BY <1>2, <3>1, <3>2 DEF WorkerInv, WritesKnown, Kept, committed, Written, Inserted
  <2> QED
    BY <2>1, <2>3, <2>4, <2>5, <2>6 DEF WorkerInv
<1> QED
  BY <1>1, <1>2

(* The session of w after a statement.                                     *)
Turn(w, s, o, r, n, L, p, e, g, t) ==
  /\ stage' = [stage EXCEPT ![w] = s]
  /\ open' = [open EXCEPT ![w] = o]
  /\ row' = [row EXCEPT ![w] = r]
  /\ new' = [new EXCEPT ![w] = n]
  /\ locks' = [locks EXCEPT ![w] = L]
  /\ writes' = [writes EXCEPT ![w] = [period |-> p, entry |-> e, ledger |-> g, audit |-> t]]
  /\ UNCHANGED <<call, answer>>

(* A statement changes its own session and no other.                        *)
LEMMA TurnEffect ==
  ASSUME Sessions, NEW w \in Worker, NEW s, NEW o, NEW r, NEW n, NEW L,
         NEW p, NEW e, NEW g, NEW t, Turn(w, s, o, r, n, L, p, e, g, t)
  PROVE  /\ Sessions'
         /\ \A v \in Worker \ {w} : Kept(v)
         /\ stage'[w] = s /\ open'[w] = o /\ row'[w] = r /\ new'[w] = n /\ locks'[w] = L
         /\ writes'[w].period = p /\ writes'[w].entry = e
         /\ writes'[w].ledger = g /\ writes'[w].audit = t
         /\ call'[w] = call[w] /\ answer'[w] = answer[w]
<1>1. \A v \in Worker \ {w} : Kept(v)
  BY DEF Turn, Sessions, Kept
<1>2. /\ stage'[w] = s /\ open'[w] = o /\ row'[w] = r /\ new'[w] = n /\ locks'[w] = L
      /\ writes'[w] = [period |-> p, entry |-> e, ledger |-> g, audit |-> t]
      /\ call'[w] = call[w] /\ answer'[w] = answer[w]
  BY DEF Turn, Sessions
<1>3. /\ stage' = [v \in Worker |-> stage'[v]] /\ call' = [v \in Worker |-> call'[v]]
      /\ open' = [v \in Worker |-> open'[v]] /\ row' = [v \in Worker |-> row'[v]]
      /\ new' = [v \in Worker |-> new'[v]] /\ answer' = [v \in Worker |-> answer'[v]]
      /\ locks' = [v \in Worker |-> locks'[v]]
  BY DEF Turn, Sessions
<1>4. \A v \in Worker :
        writes'[v] = [period |-> writes'[v].period, entry |-> writes'[v].entry,
                      ledger |-> writes'[v].ledger, audit |-> writes'[v].audit]
  BY <1>1, <1>2 DEF Sessions, Kept
<1>5. DOMAIN writes' = Worker /\ writes' = [v \in Worker |-> writes'[v]]
  BY DEF Turn, Sessions
<1> QED
  BY <1>1, <1>2, <1>3, <1>4, <1>5 DEF Sessions

(* A statement keeps the invariant if its worker knows what the next       *)
(* statement counts on, no lock it took is in the way of another, and no   *)
(* row it inserted is.                                                     *)
LEMMA StatementKeeps ==
  ASSUME TxInv, UNCHANGED <<committed, active>>,
         NEW w \in Worker, stage[w] # "idle",
         NEW s \in Stage \ {"idle", "reply"}, NEW o \in BOOLEAN,
         NEW r \in EntryRow \cup {None}, NEW n \in Entry \cup {None},
         NEW L \in SUBSET Lock, NEW p, NEW e, NEW g, NEW t,
         Turn(w, s, o, r, n, L, p, e, g, t),
         WritesTyped(p, e, g, t),
         \A v \in Worker \ {w} : \A l \in locks[v], m \in L : ~Conflict(l, m),
         Inserted(w)' => \A v \in Worker \ {w} :
           Inserted(v) => new[v] # n /\ call[v].key # call[w].key,
         WorkerInv(w)'
  PROVE  TxInv'
<1>1. /\ Sessions'
      /\ \A v \in Worker \ {w} : Kept(v)
      /\ stage'[w] = s /\ open'[w] = o /\ row'[w] = r /\ new'[w] = n /\ locks'[w] = L
      /\ writes'[w].period = p /\ writes'[w].entry = e
      /\ writes'[w].ledger = g /\ writes'[w].audit = t
      /\ call'[w] = call[w] /\ answer'[w] = answer[w]
  BY TurnEffect DEF TxInv
<1>2. \A v \in Worker : SessionTyped(v)
  BY TypesByWorker DEF TxInv
<1>3. call[w] # None
  BY <1>2 DEF SessionTyped
<1>4. SessionTyped(w)'
  BY <1>1, <1>2, <1>3 DEF SessionTyped
<1>5. \A v \in Worker \ {w} : SessionTyped(v)'
  BY <1>1, <1>2 DEF SessionTyped, Kept
<1>6. TypeOK'
  <2>1. CommittedTypes /\ active \subseteq Account
    BY TypesByWorker DEF TxInv
  <2>2. CommittedTypes' /\ (active \subseteq Account)'
    BY <2>1 DEF CommittedTypes, committed
  <2>3. \A v \in Worker : SessionTyped(v)'
    BY <1>4, <1>5
  <2> QED
    BY <1>1, <2>2, <2>3, NextTypesByWorker
<1>7. LocksApart'
  <2> SUFFICES ASSUME NEW u \in Worker, NEW v \in Worker, u # v,
                      NEW l \in locks'[u], NEW m \in locks'[v]
               PROVE  ~Conflict(l, m)
    BY DEF LocksApart
  <2>1. CASE u = w
    <3>1. m \in locks[v] /\ l \in L
      BY <1>1, <2>1 DEF Kept
    <3> QED
      BY <2>1, <3>1 DEF Conflict
  <2>2. CASE v = w
    <3>1. l \in locks[u] /\ m \in L
      BY <1>1, <2>2 DEF Kept
    <3> QED
      BY <2>2, <3>1
  <2>3. CASE u # w /\ v # w
    BY <1>1, <2>3 DEF Kept, TxInv, LocksApart
  <2> QED
    BY <2>1, <2>2, <2>3
<1>8. InsertsApart'
  <2>1. \A v \in Worker \ {w} : Inserted(v)' <=> Inserted(v)
    BY <1>1 DEF Kept, Inserted, Written
  <2> QED
    BY <1>1, <2>1 DEF Kept, TxInv, InsertsApart
<1>9. RowsLinked'
  BY DEF TxInv, RowsLinked, committed, Rows
<1>10. \A v \in Worker : WorkerInv(v)'
  BY <1>1, Undisturbed DEF TxInv
<1>11. AnswersTrue'
  <2>1. \A v \in Worker : stage'[v] = "reply" =>
          v # w /\ stage[v] = "reply" /\ call'[v] = call[v] /\ answer'[v] = answer[v]
    BY <1>1 DEF Kept
  <2> QED
    BY <2>1 DEF TxInv, AnswersTrue, committed, Rows
<1> QED
  BY <1>1, <1>6, <1>7, <1>8, <1>9, <1>10, <1>11 DEF TxInv

(* What the invariant says of a worker that serves a call.                 *)
LEMMA Knows ==
  ASSUME TxInv, NEW w \in Worker, stage[w] # "idle"
  PROVE  /\ call[w] \in Calls /\ call[w].op \in Op
         /\ SessionTyped(w) /\ CommittedTypes /\ Sessions
         /\ stage[w] \in StagesOf(call[w].op)
         /\ Found(w) /\ PeriodLoaded(w) /\ EntryLoaded(w) /\ TrailLocked(w)
         /\ Checked(w) /\ NewFits(w) /\ WritesKnown(w)
<1>1. call[w] \in Calls
  BY ServedCall DEF TxInv
<1> QED
  BY <1>1, CallType, TypesByWorker DEF TxInv, WorkerInv

(* Going on to a later statement with the session as it is.                *)
LEMMA GoesOn ==
  ASSUME TxInv, NEW w \in Worker, stage[w] # "idle", NEW s, Goto(w, s),
         UNCHANGED <<call, open, row, new, writes, locks, answer>>
  PROVE  /\ Turn(w, s, open[w], row[w], new[w], locks[w], writes[w].period,
                 writes[w].entry, writes[w].ledger, writes[w].audit)
         /\ stage'[w] = s
<1>1. Sessions
  BY DEF TxInv
<1>2. stage' = [stage EXCEPT ![w] = s] /\ stage'[w] = s /\ call' = call /\ answer' = answer
  BY <1>1 DEF Goto, Sessions
<1>3. /\ open' = [open EXCEPT ![w] = open[w]] /\ row' = [row EXCEPT ![w] = row[w]]
      /\ new' = [new EXCEPT ![w] = new[w]] /\ locks' = [locks EXCEPT ![w] = locks[w]]
  BY <1>1 DEF Sessions
<1>4. writes' = [writes EXCEPT ![w] =
        [period |-> writes[w].period, entry |-> writes[w].entry,
         ledger |-> writes[w].ledger, audit |-> writes[w].audit]]
  BY <1>1 DEF Sessions
<1> QED
  BY <1>2, <1>3, <1>4 DEF Turn

(* The locks a worker holds are in nobody's way.                            *)
LEMMA OwnLocksApart ==
  ASSUME TxInv, NEW w \in Worker
  PROVE  \A v \in Worker \ {w} : \A l \in locks[v], m \in locks[w] : ~Conflict(l, m)
BY DEF TxInv, LocksApart

(* A statement that changes nothing but the stage.                          *)
LEMMA QuietKeeps ==
  ASSUME TxInv, UNCHANGED <<committed, active>>, NEW w \in Worker, stage[w] # "idle",
         NEW s \in Stage \ {"idle", "reply"}, Goto(w, s),
         UNCHANGED <<call, open, row, new, writes, locks, answer>>,
         Inserted(w)' => Inserted(w),
         WorkerInv(w)'
  PROVE  TxInv'
<1> DEFINE o == open[w]
           r == row[w]
           n == new[w]
           L == locks[w]
           p == writes[w].period
           e == writes[w].entry
           g == writes[w].ledger
           t == writes[w].audit
<1>1. SessionTyped(w)
  BY Knows
<1>2. /\ o \in BOOLEAN /\ r \in EntryRow \cup {None} /\ n \in Entry \cup {None}
      /\ L \in SUBSET Lock
      /\ WritesTyped(p, e, g, t)
  BY <1>1 DEF SessionTyped
<1>3. Turn(w, s, o, r, n, L, p, e, g, t)
  BY GoesOn
<1>4. Inserted(w)' => \A v \in Worker \ {w} :
        Inserted(v) => new[v] # n /\ call[v].key # call[w].key
  BY DEF TxInv, InsertsApart
<1>5. \A v \in Worker \ {w} : \A l \in locks[v], m \in L : ~Conflict(l, m)
  BY OwnLocksApart
<1> HIDE DEF o, r, n, L, p, e, g, t
<1> QED
  BY <1>2, <1>3, <1>4, <1>5, StatementKeeps

(* A query, after which nothing is written yet.                            *)
LEMMA ReadKeeps ==
  ASSUME TxInv, UNCHANGED <<committed, active>>, NEW w \in Worker, stage[w] # "idle",
         NEW s \in StagesOf(call[w].op), Goto(w, s),
         UNCHANGED <<call, open, row, new, writes, locks, answer>>,
         {stage[w], s} \cap {"reverse", "organization", "append", "commit"} = {},
         s \notin {"find", "reply"},
         Names(w) => call[w].target \in Rows(entry),
         Working(w)' => Working(w), Loaded(w)' => Loaded(w),
         Checked(w)'
  PROVE  TxInv'
<1>1. stage'[w] = s
  BY GoesOn
<1>2. s \in Stage \ {"idle", "reply"}
  <2>1. call[w].op \in Op
    BY Knows
  <2> QED
    BY <2>1 DEF Stage, StagesOf, Op
<1>3. Found(w)' /\ TrailLocked(w)' /\ NewFits(w)'
  BY <1>1 DEF Found, Names, committed, TrailLocked, NewFits, Inserted, Written
<1>4. PeriodLoaded(w)' /\ EntryLoaded(w)'
  <2>1. PeriodLoaded(w) /\ EntryLoaded(w)
    BY Knows
  <2>2. PeriodOf(w)' = PeriodOf(w)
    BY DEF PeriodOf, committed
  <2> QED
    BY <2>1, <2>2 DEF PeriodLoaded, EntryLoaded, committed
<1>5. WritesKnown(w)'
  <2>1. writes[w] = NoWrites
    BY Knows DEF WritesKnown, Written, Inserted
  <2>2. ~Written(w)' /\ ~Inserted(w)' /\ stage'[w] # "reverse" /\ stage'[w] # "commit"
    BY <1>1 DEF Written, Inserted
  <2>3. writes'[w] = NoWrites /\ writes'[w].audit = <<>>
    BY <2>1 DEF NoWrites
  <2> QED
    BY <2>2, <2>3 DEF WritesKnown
<1>6. WorkerInv(w)'
  BY <1>1, <1>3, <1>4, <1>5 DEF WorkerInv
<1>7. Inserted(w)' => Inserted(w)
  BY <1>1 DEF Inserted, Written
<1> QED
  BY <1>2, <1>6, <1>7, QuietKeeps

----------------------------------------------------------------------------
(* The end of a call                                                       *)

(* The session of w after the end of a transaction: it waits to deliver an *)
(* answer, or for the next call.                                           *)
Ended(w, s, c, a) ==
  /\ stage' = [stage EXCEPT ![w] = s]
  /\ call' = [call EXCEPT ![w] = c]
  /\ answer' = [answer EXCEPT ![w] = a]
  /\ Release(w) /\ Forget(w)

(* The end of a transaction changes its own session and no other.           *)
LEMMA EndEffect ==
  ASSUME Sessions, NEW w \in Worker, NEW s, NEW c, NEW a, Ended(w, s, c, a)
  PROVE  /\ Sessions'
         /\ \A v \in Worker \ {w} : Kept(v)
         /\ stage'[w] = s /\ call'[w] = c /\ answer'[w] = a
         /\ open'[w] = FALSE /\ row'[w] = None /\ new'[w] = None
         /\ locks'[w] = {} /\ writes'[w] = NoWrites
<1>1. \A v \in Worker \ {w} : Kept(v)
  BY DEF Ended, Release, Forget, Sessions, Kept
<1>2. /\ stage'[w] = s /\ call'[w] = c /\ answer'[w] = a
      /\ open'[w] = FALSE /\ row'[w] = None /\ new'[w] = None
      /\ locks'[w] = {} /\ writes'[w] = NoWrites
  BY DEF Ended, Release, Forget, Sessions
<1>3. /\ stage' = [v \in Worker |-> stage'[v]] /\ call' = [v \in Worker |-> call'[v]]
      /\ open' = [v \in Worker |-> open'[v]] /\ row' = [v \in Worker |-> row'[v]]
      /\ new' = [v \in Worker |-> new'[v]] /\ answer' = [v \in Worker |-> answer'[v]]
      /\ locks' = [v \in Worker |-> locks'[v]]
  BY DEF Ended, Release, Forget, Sessions
<1>4. \A v \in Worker :
        writes'[v] = [period |-> writes'[v].period, entry |-> writes'[v].entry,
                      ledger |-> writes'[v].ledger, audit |-> writes'[v].audit]
  BY <1>1, <1>2 DEF Sessions, Kept, NoWrites
<1>5. writes' = [v \in Worker |-> writes'[v]]
  BY DEF Ended, Release, Forget, Sessions
<1> QED
  BY <1>1, <1>2, <1>3, <1>4, <1>5 DEF Sessions

(* Whatever the transaction did to the committed rows, its session gives   *)
(* up its locks and identity, and has nothing more to know.                *)
LEMMA EndFrees ==
  ASSUME TxInv, NEW w \in Worker, stage[w] # "idle",
         NEW s \in {"idle", "reply"}, NEW c, NEW a \in Entry \cup {None},
         c = IF s = "idle" THEN None ELSE call[w],
         Ended(w, s, c, a)
  PROVE  /\ \A v \in Worker : SessionTyped(v)'
         /\ LocksApart' /\ InsertsApart' /\ WorkerInv(w)'
<1>1. /\ \A v \in Worker \ {w} : Kept(v)
      /\ stage'[w] = s /\ call'[w] = c /\ answer'[w] = a
      /\ open'[w] = FALSE /\ row'[w] = None /\ new'[w] = None
      /\ locks'[w] = {} /\ writes'[w] = NoWrites
  BY EndEffect DEF TxInv
<1>2. \A v \in Worker : SessionTyped(v)
  BY TypesByWorker DEF TxInv
<1>3. call[w] \in Calls /\ call[w] # None
  BY Knows, <1>2 DEF SessionTyped
<1>4. \A v \in Worker \ {w} : SessionTyped(v)'
  BY <1>1, <1>2 DEF SessionTyped, Kept
<1>5. SessionTyped(w)'
  <2>1. WritesTyped(<<>>, <<>>, <<>>, <<>>)
    BY DEF WritesTyped
  <2>2. WritesTyped(writes[w].period, writes[w].entry, writes[w].ledger, writes[w].audit)'
    BY <1>1, <2>1 DEF NoWrites
  <2> QED
    BY <1>1, <1>3, <2>2 DEF SessionTyped, Stage
<1>6. LocksApart'
  BY <1>1 DEF TxInv, LocksApart, Kept
<1>7. InsertsApart'
  <2>1. ~Inserted(w)'
    BY <1>1 DEF Inserted, Written
  <2>2. \A v \in Worker \ {w} : Inserted(v)' <=> Inserted(v)
    BY <1>1 DEF Kept, Inserted, Written
  <2> QED
    BY <1>1, <2>1, <2>2 DEF Kept, TxInv, InsertsApart
<1>8. WorkerInv(w)'
  <2>1. CASE s = "idle"
    BY <1>1, <2>1 DEF WorkerInv
  <2>2. CASE s = "reply"
    <3>1. stage'[w] = "reply"
      BY <1>1, <2>2
    <3>2. /\ (stage[w] \in StagesOf(call[w].op))' /\ Found(w)' /\ PeriodLoaded(w)'
          /\ EntryLoaded(w)' /\ TrailLocked(w)' /\ Checked(w)' /\ NewFits(w)'
      BY <3>1 DEF StagesOf, Found, PeriodLoaded, EntryLoaded, TrailLocked, Checked, NewFits,
                  Working, Loaded, Inserted, Written
    <3>3. WritesKnown(w)'
      <4>1. ~Written(w)' /\ ~Inserted(w)' /\ stage'[w] # "reverse" /\ stage'[w] # "commit"
        BY <3>1 DEF Written, Inserted
      <4>2. writes'[w] = NoWrites /\ writes'[w].audit = <<>>
        BY <1>1 DEF NoWrites
      <4> QED
        BY <4>1, <4>2 DEF WritesKnown
    <3> QED
      BY <3>2, <3>3 DEF WorkerInv
  <2> QED
    BY <2>1, <2>2
<1> QED
  BY <1>4, <1>5, <1>6, <1>7, <1>8

(* What AnswersTrue says of one worker.                                    *)
AnswerTrue(w) ==
  (stage[w] = "reply" /\ call[w].op \in {"create", "post", "reverse"}) =>
    LET e == answer[w] IN
      /\ e \in Rows(entry)
      /\ call[w].op = "reverse" =>
           /\ entry[e].key = call[w].key
           /\ entry[e].status # "DRAFT"
           /\ entry[e].reversalOf \in Rows(entry)
           /\ entry[entry[e].reversalOf].status = "REVERSED"
      /\ call[w].op = "create" =>
           /\ entry[e].key = call[w].key
           /\ entry[e].hash = CreateHash(call[w].period, call[w].lines)
      /\ call[w].op = "post" =>
           /\ e = call[w].target
           /\ entry[e].status # "DRAFT"
           /\ \E i \in DOMAIN audit :
                /\ audit[i].action = "JOURNAL_ENTRY_POSTED"
                /\ audit[i].subject = e
                /\ audit[i].actor = call[w].actor

(* AnswersTrue is a statement about each worker.                            *)
LEMMA AnswersByWorker == AnswersTrue <=> \A w \in Worker : AnswerTrue(w)
BY DEF AnswersTrue, AnswerTrue

(* A call that ends without a commit, and answers only what is true.       *)
LEMMA EndKeeps ==
  ASSUME TxInv, UNCHANGED <<committed, active>>, NEW w \in Worker, stage[w] # "idle",
         NEW s \in {"idle", "reply"}, NEW c, NEW a \in Entry \cup {None},
         c = IF s = "idle" THEN None ELSE call[w],
         Ended(w, s, c, a),
         AnswerTrue(w)'
  PROVE  TxInv'
<1>1. Sessions' /\ \A v \in Worker \ {w} : Kept(v)
  BY EndEffect DEF TxInv
<1>2. /\ \A v \in Worker : SessionTyped(v)'
      /\ LocksApart' /\ InsertsApart' /\ WorkerInv(w)'
  BY EndFrees
<1>3. TypeOK'
  <2>1. CommittedTypes /\ active \subseteq Account
    BY TypesByWorker DEF TxInv
  <2>2. CommittedTypes' /\ (active \subseteq Account)'
    BY <2>1 DEF CommittedTypes, committed
  <2> QED
    BY <1>1, <1>2, <2>2, NextTypesByWorker
<1>4. RowsLinked'
  BY DEF TxInv, RowsLinked, committed, Rows
<1>5. \A v \in Worker : WorkerInv(v)'
  BY <1>1, <1>2, Undisturbed DEF TxInv
<1>6. AnswersTrue'
  <2>1. \A v \in Worker \ {w} : AnswerTrue(v)'
    BY <1>1, AnswersByWorker DEF TxInv, AnswerTrue, Kept, committed, Rows
  <2> QED
    BY <2>1 DEF AnswersTrue, AnswerTrue
<1> QED
  BY <1>1, <1>2, <1>3, <1>4, <1>5, <1>6 DEF TxInv

(* An error, a failure, a delivered answer.                                *)
LEMMA AbortKeeps ==
  ASSUME TxInv, UNCHANGED <<committed, active>>, NEW w \in Worker, stage[w] # "idle",
         Abort(w)
  PROVE  TxInv'
<1>1. Ended(w, "idle", None, None)
  BY DEF Abort, Ended, Goto
<1>2. stage'[w] = "idle"
  BY <1>1, EndEffect DEF TxInv
<1>3. AnswerTrue(w)'
  BY <1>2 DEF AnswerTrue
<1> QED
  BY <1>1, <1>3, EndKeeps

(* A replayed answer, if it is true.                                        *)
LEMMA AnswerKeeps ==
  ASSUME TxInv, UNCHANGED <<committed, active>>, NEW w \in Worker, stage[w] # "idle",
         NEW e \in Entry \cup {None}, Answer(w, e), AnswerTrue(w)'
  PROVE  TxInv'
<1>1. call' = [call EXCEPT ![w] = call[w]]
  BY DEF Answer, TxInv, Sessions
<1>2. Ended(w, "reply", call[w], e)
  BY <1>1 DEF Answer, Ended, Goto
<1> QED
  BY <1>2, EndKeeps

----------------------------------------------------------------------------
(* The statements, one by one                                              *)

(* post and reverse look for the entry they name.                           *)
LEMMA FindEntryKeeps ==
  ASSUME TxInv, NEW w \in Worker, FindEntry(w)
  PROVE  TxInv'
<1>1. stage[w] = "find" /\ UNCHANGED <<committed, active>>
  BY DEF FindEntry
<1>2. CASE Abort(w)
  BY <1>1, <1>2, AbortKeeps
<1>3. CASE /\ call[w].target \in Rows(entry)
           /\ Advance(w)
           /\ UNCHANGED <<call, open, row, new, writes, locks, answer>>
  <2>1. call[w].op \in {"post", "reverse"}
    BY <1>1, Knows, AtStage DEF TxInv
  <2>2. Goto(w, "period") /\ stage'[w] = "period"
    BY <1>1, <1>3, <2>1, NextStage, GoesOn DEF Advance
  <2>3. "period" \in StagesOf(call[w].op)
    BY <2>1 DEF StagesOf
  <2>4. ~Working(w)' /\ ~Loaded(w)' /\ Checked(w)'
    BY <2>2 DEF Working, Loaded, Checked, Inserted, Written
  <2> QED
    BY <1>1, <1>3, <2>2, <2>3, <2>4, ReadKeeps
<1> QED
  BY <1>2, <1>3 DEF FindEntry

(* A key that is found has the row of one entry.                           *)
LEMMA HolderAnswers ==
  ASSUME TxInv, UNCHANGED <<committed, active>>, NEW w \in Worker, stage[w] # "idle",
         call[w].op = "create", NEW e \in KeyHolders(entry, call[w].key),
         IF SameRequest(w, e) THEN Answer(w, e) ELSE Abort(w)
  PROVE  TxInv'
<1>1. e \in Rows(entry) /\ e \in Entry /\ entry[e].key = call[w].key
  BY DEF KeyHolders, Rows
<1>2. CASE ~SameRequest(w, e)
  BY <1>2, AbortKeeps
<1>3. CASE SameRequest(w, e)
  <2>1. Answer(w, e)
    BY <1>3
  <2>2. answer'[w] = e /\ call'[w] = call[w]
    BY <2>1 DEF Answer, TxInv, Sessions
  <2>3. AnswerTrue(w)'
    BY <1>1, <1>3, <2>2 DEF AnswerTrue, SameRequest, committed, Rows
  <2> QED
    BY <1>1, <2>1, <2>3, AnswerKeeps
<1> QED
  BY <1>2, <1>3

(* create looks for its key.                                                *)
LEMMA FindKeyKeeps ==
  ASSUME TxInv, NEW w \in Worker, FindKey(w)
  PROVE  TxInv'
<1>1. stage[w] = "key" /\ UNCHANGED <<committed, active>>
  BY DEF FindKey
<1>2. call[w].op = "create"
  BY <1>1, Knows, AtStage DEF TxInv
<1>3. CASE Advance(w) /\ UNCHANGED <<call, open, row, new, writes, locks, answer>>
  <2>1. Goto(w, "period") /\ stage'[w] = "period"
    BY <1>1, <1>2, <1>3, NextStage, GoesOn DEF Advance
  <2>2. "period" \in StagesOf(call[w].op)
    BY <1>2 DEF StagesOf
  <2>3. ~Working(w)' /\ ~Loaded(w)' /\ Checked(w)' /\ ~Names(w)
    BY <1>2, <2>1 DEF Working, Loaded, Checked, Inserted, Written, Names
  <2> QED
    BY <1>1, <1>3, <2>1, <2>2, <2>3, ReadKeeps
<1>4. CASE \E e \in KeyHolders(entry, call[w].key) :
             IF SameRequest(w, e) THEN Answer(w, e) ELSE Abort(w)
  BY <1>1, <1>2, <1>4, HolderAnswers
<1> QED
  BY <1>3, <1>4 DEF FindKey

(* So it does after its insert was refused.                                 *)
LEMMA ReplayKeeps ==
  ASSUME TxInv, NEW w \in Worker, Replay(w)
  PROVE  TxInv'
<1>1. stage[w] = "replay" /\ UNCHANGED <<committed, active>>
  BY DEF Replay
<1>2. call[w].op = "create"
  BY <1>1, Knows, AtStage DEF TxInv
<1> QED
  BY <1>1, <1>2, HolderAnswers DEF Replay

(* create checks the period, the accounts and the lines.                    *)
LEMMA CheckAccountsKeeps ==
  ASSUME TxInv, NEW w \in Worker, CheckAccounts(w)
  PROVE  TxInv'
<1>1. stage[w] = "accounts" /\ UNCHANGED <<committed, active>>
  BY DEF CheckAccounts
<1>2. call[w].op = "create"
  BY <1>1, Knows, AtStage DEF TxInv
<1>3. CASE Abort(w)
  BY <1>1, <1>3, AbortKeeps
<1>4. CASE /\ Creatable(w)
           /\ Advance(w)
           /\ UNCHANGED <<call, open, row, new, writes, locks, answer>>
  <2>1. Goto(w, "insert") /\ stage'[w] = "insert"
    BY <1>1, <1>2, <1>4, NextStage, GoesOn DEF Advance
  <2>2. "insert" \in StagesOf(call[w].op)
    BY <1>2 DEF StagesOf
  <2>3. Working(w) /\ ~Loaded(w)' /\ ~Names(w)
    BY <1>1, <1>2, <1>4 DEF Working, Loaded, Names
  <2>4. Checked(w)'
    BY <1>2, <1>4, <2>1 DEF Checked, Inserted, Written, Creatable
  <2> QED
    BY <1>1, <1>4, <2>1, <2>2, <2>3, <2>4, ReadKeeps
<1> QED
  BY <1>3, <1>4 DEF CheckAccounts

(* reverse checks the key and the original it has locked.                   *)
LEMMA CheckReversalKeeps ==
  ASSUME TxInv, NEW w \in Worker, CheckReversal(w)
  PROVE  TxInv'
<1>1. stage[w] = "check" /\ UNCHANGED <<committed, active>>
  BY DEF CheckReversal
<1>2. call[w].op = "reverse"
  BY <1>1, Knows, AtStage DEF TxInv
<1>3. CASE Abort(w)
  BY <1>1, <1>3, AbortKeeps
<1>4. CASE /\ MayReverse(w) /\ Reversible(w)
           /\ Advance(w)
           /\ UNCHANGED <<call, open, row, new, writes, locks, answer>>
  <2>1. Goto(w, "insert") /\ stage'[w] = "insert"
    BY <1>1, <1>2, <1>4, NextStage, GoesOn DEF Advance
  <2>2. "insert" \in StagesOf(call[w].op)
    BY <1>2 DEF StagesOf
  <2>3. Working(w) /\ Loaded(w)
    BY <1>1, <1>2 DEF Working, Loaded, Names
  <2>4. call[w].target \in Rows(entry)
    BY <1>1, <1>2, Knows DEF Found, Names
  <2>5. Checked(w)'
    BY <1>2, <1>4, <2>1 DEF Checked, Inserted, Written, Reversible, MayReverse
  <2> QED
    BY <1>1, <1>4, <2>1, <2>2, <2>3, <2>4, <2>5, ReadKeeps
<1>5. CASE \E e \in KeyHolders(entry, call[w].key) :
             entry[e].hash = ReverseHash /\ Answer(w, e)
  <2>1. PICK e \in KeyHolders(entry, call[w].key) :
          entry[e].hash = ReverseHash /\ Answer(w, e)
    BY <1>5
  <2>2. e \in Rows(entry) /\ e \in Entry /\ entry[e].key = call[w].key
    BY DEF KeyHolders, Rows
  <2>3. /\ entry[e].status # "DRAFT" /\ entry[e].reversalOf \in Rows(entry)
        /\ entry[entry[e].reversalOf].status = "REVERSED"
    BY <2>1, <2>2 DEF TxInv, RowsLinked
  <2>4. answer'[w] = e /\ call'[w] = call[w]
    BY <2>1 DEF Answer, TxInv, Sessions
  <2>5. AnswerTrue(w)'
    BY <1>1, <1>2, <2>2, <2>3, <2>4 DEF AnswerTrue, committed, Rows
  <2> QED
    BY <1>1, <2>1, <2>2, <2>5, AnswerKeeps
<1> QED
  BY <1>3, <1>4, <1>5 DEF CheckReversal

(* close counts the drafts of its locked period.                            *)
LEMMA CountDraftsKeeps ==
  ASSUME TxInv, NEW w \in Worker, CountDrafts(w)
  PROVE  TxInv'
<1>1. stage[w] = "drafts" /\ UNCHANGED <<committed, active>>
  BY DEF CountDrafts
<1>2. call[w].op = "close"
  BY <1>1, Knows, AtStage DEF TxInv
<1>3. CASE Abort(w)
  BY <1>1, <1>3, AbortKeeps
<1>4. CASE /\ open[w] /\ Drafts(entry, call[w].period) = {}
           /\ Advance(w)
           /\ UNCHANGED <<call, open, row, new, writes, locks, answer>>
  <2>1. Goto(w, "reconcile") /\ stage'[w] = "reconcile"
    BY <1>1, <1>2, <1>4, NextStage, GoesOn DEF Advance
  <2>2. "reconcile" \in StagesOf(call[w].op)
    BY <1>2 DEF StagesOf
  <2>3. Working(w) /\ ~Loaded(w)' /\ ~Names(w)
    BY <1>1, <1>2, <1>4 DEF Working, Loaded, Names
  <2>4. Checked(w)'
    BY <1>1, <1>2, <1>4, <2>1 DEF Checked, Inserted, Written, committed
  <2> QED
    BY <1>1, <1>4, <2>1, <2>2, <2>3, <2>4, ReadKeeps
<1> QED
  BY <1>3, <1>4 DEF CountDrafts

(* The period a worker works in exists, and so does the entry it names.    *)
LEMMA PeriodKnown ==
  ASSUME TxInv, NEW w \in Worker, stage[w] \notin {"idle", "find", "reply"}
  PROVE  /\ PeriodOf(w) \in Period
         /\ Names(w) => /\ call[w].target \in Rows(entry) /\ call[w].target \in Entry
                        /\ entry[call[w].target] \in EntryRow
                        /\ PeriodOf(w) = entry[call[w].target].period
         /\ ~Names(w) => PeriodOf(w) = call[w].period
<1>1. call[w] \in Calls /\ Found(w) /\ CommittedTypes
  BY Knows
<1>2. Names(w) => /\ call[w].target \in Rows(entry) /\ call[w].target \in Entry
                  /\ entry[call[w].target] \in EntryRow
  BY <1>1 DEF Found, Rows, CommittedTypes
<1> QED
  BY <1>1, <1>2, CallType DEF PeriodOf, Names, EntryRow, Op

(* The locks a statement waits for are free when it takes them.             *)
LEMMA Acquires ==
  ASSUME TxInv, NEW w \in Worker, Acquire(w)
  PROVE  /\ locks' = [locks EXCEPT ![w] = locks[w] \cup Wants(w)]
         /\ \A v \in Worker \ {w} : \A l \in locks[v], m \in locks[w] \cup Wants(w) :
              ~Conflict(l, m)
<1>1. Holders(w) = {} /\ locks' = [locks EXCEPT ![w] = locks[w] \cup Wants(w)]
  BY DEF Acquire, Rivals
<1>2. \A v \in Worker \ {w} : \A l \in locks[v], m \in Wants(w) : ~Conflict(l, m)
  BY <1>1 DEF Holders, Conflict
<1> QED
  BY <1>1, <1>2, OwnLocksApart

(* The lock statements.                                                    *)
LEMMA LockKeeps ==
  ASSUME TxInv, UNCHANGED <<committed, active>>, NEW w \in Worker, stage[w] # "idle",
         NEW s \in Stage \ {"idle", "reply"}, Goto(w, s),
         NEW o \in BOOLEAN, open' = [open EXCEPT ![w] = o],
         NEW r \in EntryRow \cup {None}, row' = [row EXCEPT ![w] = r],
         UNCHANGED <<call, new, writes, answer>>,
         Acquire(w), Wants(w) \subseteq Lock,
         Inserted(w)' => Inserted(w),
         WorkerInv(w)'
  PROVE  TxInv'
<1> DEFINE n == new[w]
           L == locks[w] \cup Wants(w)
           p == writes[w].period
           e == writes[w].entry
           g == writes[w].ledger
           t == writes[w].audit
<1>1. SessionTyped(w)
  BY Knows
<1>2. n \in Entry \cup {None} /\ L \in SUBSET Lock /\ WritesTyped(p, e, g, t)
  BY <1>1 DEF SessionTyped
<1>3. Turn(w, s, o, r, n, L, p, e, g, t)
  <2>1. Sessions /\ locks' = [locks EXCEPT ![w] = L]
    BY Acquires DEF TxInv
  <2>2. new' = [new EXCEPT ![w] = n]
    BY <2>1 DEF Sessions
  <2>3. writes' = [writes EXCEPT ![w] = [period |-> p, entry |-> e, ledger |-> g, audit |-> t]]
    BY <2>1 DEF Sessions
  <2> QED
    BY <2>1, <2>2, <2>3 DEF Turn, Goto
<1>4. Inserted(w)' => \A v \in Worker \ {w} :
        Inserted(v) => new[v] # n /\ call[v].key # call[w].key
  BY DEF TxInv, InsertsApart
<1>5. \A v \in Worker \ {w} : \A l \in locks[v], m \in L : ~Conflict(l, m)
  BY Acquires
<1> HIDE DEF n, L, p, e, g, t
<1> QED
  BY <1>2, <1>3, <1>4, <1>5, StatementKeeps

(* What has not been written is not known to be, before and after a        *)
(* statement that only reads.                                              *)
LEMMA NothingWritten ==
  ASSUME TxInv, NEW w \in Worker, stage[w] # "idle", ~Written(w), ~Inserted(w),
         writes'[w] = writes[w],
         ~Written(w)', ~Inserted(w)', stage'[w] # "reverse"
  PROVE  NewFits(w)' /\ WritesKnown(w)' /\ TrailLocked(w)'
<1>1. writes[w] = NoWrites
  <2>1. WritesKnown(w)
    BY Knows
  <2> QED
    BY <2>1 DEF WritesKnown
<1>2. writes'[w] = NoWrites /\ writes'[w].audit = <<>>
  BY <1>1 DEF NoWrites
<1> QED
  BY <1>2 DEF NewFits, WritesKnown, TrailLocked, Written

(* The lock of the period, and its status under the lock.                   *)
LEMMA LockPeriodKeeps ==
  ASSUME TxInv, NEW w \in Worker, LockPeriod(w)
  PROVE  TxInv'
<1> DEFINE o == period[PeriodOf(w)] = "OPEN"
           s == After(call[w].op, stage[w])
<1>1. /\ stage[w] = "period" /\ UNCHANGED <<committed, active, call, row, new, writes, answer>>
      /\ Acquire(w) /\ open' = [open EXCEPT ![w] = o] /\ Goto(w, s)
  BY DEF LockPeriod, Advance
<1>2. call[w].op \in Op /\ CommittedTypes /\ Sessions /\ Found(w) /\ SessionTyped(w)
  BY <1>1, Knows
<1>3. PeriodOf(w) \in Period
  BY <1>1, PeriodKnown
<1>4. Wants(w) = {OnRow(PeriodOf(w), "update")} /\ Wants(w) \subseteq Lock
  BY <1>1, <1>3 DEF Wants, OnRow, Lock
<1>5. s \in {"accounts", "entry", "drafts", "reopen"} /\ s \in StagesOf(call[w].op)
  BY <1>1, <1>2, NextStage DEF Op, StagesOf
<1>6. s = "entry" \/ ~Names(w)
  BY <1>1, <1>2, NextStage DEF Op, Names
<1>7. /\ stage'[w] = s /\ open'[w] = o /\ locks'[w] = locks[w] \cup Wants(w)
      /\ row' = [row EXCEPT ![w] = row[w]]
  BY <1>1, <1>2, Acquires DEF Goto, Sessions
<1> HIDE DEF s
<1>8. Found(w)' /\ PeriodLoaded(w)' /\ EntryLoaded(w)' /\ Checked(w)'
  <2>1. PeriodOf(w)' = PeriodOf(w)
    BY <1>1 DEF PeriodOf, committed
  <2>2. Found(w)'
    BY <1>1, <1>2, <1>5, <1>7 DEF Found, Names, committed
  <2>3. PeriodLoaded(w)'
    BY <1>1, <1>4, <1>7, <2>1 DEF PeriodLoaded, committed
  <2>4. EntryLoaded(w)' /\ Checked(w)'
    BY <1>1, <1>5, <1>6, <1>7 DEF EntryLoaded, Loaded, Names, Checked, Inserted, Written
  <2> QED
    BY <2>2, <2>3, <2>4
<1>9. ~Inserted(w) /\ ~Written(w) /\ ~Inserted(w)' /\ ~Written(w)' /\ stage'[w] # "reverse"
  BY <1>1, <1>5, <1>7 DEF Inserted, Written
<1>10. WorkerInv(w)'
  <2>1. NewFits(w)' /\ WritesKnown(w)' /\ TrailLocked(w)'
    BY <1>1, <1>9, NothingWritten
  <2>2. (stage[w] \in StagesOf(call[w].op))'
    BY <1>1, <1>5, <1>7 DEF StagesOf
  <2> QED
    BY <1>8, <2>1, <2>2 DEF WorkerInv
<1>11. s \in Stage \ {"idle", "reply"} /\ row[w] \in EntryRow \cup {None} /\ o \in BOOLEAN
  BY <1>2, <1>5 DEF Stage, SessionTyped
<1> HIDE DEF o
<1> QED
  BY <1>1, <1>4, <1>7, <1>9, <1>10, <1>11, LockKeeps

(* The lock of the entry, and the row under the lock.                       *)
LEMMA LockEntryKeeps ==
  ASSUME TxInv, NEW w \in Worker, LockEntry(w)
  PROVE  TxInv'
<1> DEFINE r == entry[call[w].target]
           s == After(call[w].op, stage[w])
<1>1. /\ stage[w] = "entry" /\ UNCHANGED <<committed, active, call, open, new, writes, answer>>
      /\ Acquire(w) /\ row' = [row EXCEPT ![w] = r] /\ Goto(w, s)
  BY DEF LockEntry, Advance
<1>2. CommittedTypes /\ Sessions /\ Found(w) /\ PeriodLoaded(w) /\ SessionTyped(w)
  BY <1>1, Knows
<1>3. call[w].op \in {"post", "reverse"}
  BY <1>1, Knows, AtStage DEF TxInv
<1>4. call[w].target \in Entry /\ r \in EntryRow
  BY <1>1, <1>3, PeriodKnown DEF Names
<1>5. Wants(w) = {OnRow(call[w].target, "update")} /\ Wants(w) \subseteq Lock
  BY <1>1, <1>4 DEF Wants, OnRow, Lock
<1>6. s \in {"post", "check"} /\ s \in StagesOf(call[w].op)
  BY <1>1, <1>3, NextStage DEF StagesOf
<1>7. /\ stage'[w] = s /\ row'[w] = r /\ locks'[w] = locks[w] \cup Wants(w)
      /\ open' = [open EXCEPT ![w] = open[w]]
  BY <1>1, <1>2, Acquires DEF Goto, Sessions
<1> HIDE DEF s
<1>8. Found(w)' /\ PeriodLoaded(w)' /\ EntryLoaded(w)' /\ Checked(w)'
  <2>1. PeriodOf(w)' = PeriodOf(w)
    BY <1>1 DEF PeriodOf, committed
  <2>2. Found(w)'
    BY <1>1, <1>2, <1>6, <1>7 DEF Found, Names, committed
  <2>3. PeriodLoaded(w)'
    BY <1>1, <1>2, <1>7, <2>1 DEF PeriodLoaded, committed, Working
  <2>4. EntryLoaded(w)'
    BY <1>1, <1>5, <1>7 DEF EntryLoaded, committed
  <2>5. Checked(w)'
    BY <1>6, <1>7 DEF Checked, Inserted, Written
  <2> QED
    BY <2>2, <2>3, <2>4, <2>5
<1>9. ~Inserted(w) /\ ~Written(w) /\ ~Inserted(w)' /\ ~Written(w)' /\ stage'[w] # "reverse"
  BY <1>1, <1>6, <1>7 DEF Inserted, Written
<1>10. WorkerInv(w)'
  <2>1. NewFits(w)' /\ WritesKnown(w)' /\ TrailLocked(w)'
    BY <1>1, <1>9, NothingWritten
  <2>2. (stage[w] \in StagesOf(call[w].op))'
    BY <1>1, <1>6, <1>7 DEF StagesOf
  <2> QED
    BY <1>8, <2>1, <2>2 DEF WorkerInv
<1>11. s \in Stage \ {"idle", "reply"} /\ open[w] \in BOOLEAN
  BY <1>2, <1>6 DEF Stage, SessionTyped
<1> QED
  BY <1>1, <1>4, <1>5, <1>7, <1>9, <1>10, <1>11, LockKeeps

(* Between the last flush and the commit a worker takes the organization's *)
(* lock and writes its record, and nothing else.                           *)
LEMMA StillWritten ==
  ASSUME TxInv, UNCHANGED committed, NEW w \in Worker, Written(w),
         stage'[w] \in {"append", "commit"},
         call'[w] = call[w], open'[w] = open[w], row'[w] = row[w], new'[w] = new[w],
         writes'[w].period = writes[w].period, writes'[w].entry = writes[w].entry,
         writes'[w].ledger = writes[w].ledger,
         locks[w] \subseteq locks'[w], OnRow(Org, "update") \in locks'[w],
         writes'[w].audit =
           IF stage'[w] = "commit"
             THEN <<AuditRecord(audit, call[w].actor, ActionOf(call[w].op), Subject(w))>>
             ELSE <<>>
  PROVE  WorkerInv(w)'
<1>1. stage[w] # "idle" /\ stage[w] \notin {"find", "reply", "reverse"}
  BY DEF Written
<1>2. /\ Found(w) /\ PeriodLoaded(w) /\ EntryLoaded(w)
      /\ Checked(w) /\ NewFits(w) /\ WritesKnown(w)
  BY <1>1, Knows
<1>3. /\ Written(w)' /\ (Inserted(w)' <=> Inserted(w))
      /\ (Working(w) /\ Working(w)') /\ (Loaded(w)' <=> Loaded(w))
  BY DEF Written, Inserted, Working, Loaded, Names
<1>4. PeriodOf(w)' = PeriodOf(w) /\ NewRow(w)' = NewRow(w) /\ Subject(w)' = Subject(w)
  BY DEF PeriodOf, NewRow, Subject, committed
<1>5. /\ Postable(w)' <=> Postable(w)
      /\ AlreadyPosted(w)' <=> AlreadyPosted(w)
      /\ MayReverse(w)' <=> MayReverse(w)
      /\ Refused(w)' <=> Refused(w)
  BY DEF Postable, AlreadyPosted, MayReverse, Refused, committed
<1>6. (stage[w] \in StagesOf(call[w].op))'
  BY DEF StagesOf
<1>7. Found(w)'
  BY <1>1, <1>2 DEF Found, Names, committed
<1>8. PeriodLoaded(w)' /\ EntryLoaded(w)' /\ TrailLocked(w)'
  BY <1>2, <1>3, <1>4 DEF PeriodLoaded, EntryLoaded, TrailLocked, committed
<1>9. Checked(w)'
  BY <1>2, <1>3, <1>5 DEF Checked, Written, committed
<1>10. NewFits(w)'
  BY <1>2, <1>3, <1>5 DEF NewFits, committed
<1>11. WritesKnown(w)'
  <2>1. writes'[w].audit = (IF stage[w] = "commit"
          THEN <<AuditRecord(audit, call[w].actor, ActionOf(call[w].op), Subject(w))>>
          ELSE <<>>)'
    BY <1>4 DEF committed
  <2> QED
    BY <1>1, <1>2, <1>3, <1>4, <1>5, <2>1 DEF WritesKnown
<1> QED
  BY <1>6, <1>7, <1>8, <1>9, <1>10, <1>11 DEF WorkerInv

(* The lock of the organization, with which the trail is read.              *)
LEMMA LockOrganizationKeeps ==
  ASSUME TxInv, NEW w \in Worker, LockOrganization(w)
  PROVE  TxInv'
<1>1. /\ stage[w] = "organization"
      /\ UNCHANGED <<committed, active, call, open, row, new, writes, answer>>
      /\ Acquire(w)
  BY DEF LockOrganization
<1>2. call[w].op \in Op /\ Sessions /\ SessionTyped(w) /\ WritesKnown(w)
  BY <1>1, Knows
<1>3. Goto(w, "append") /\ stage'[w] = "append"
  BY <1>1, <1>2, NextStage DEF LockOrganization, Advance, Goto, Sessions
<1>4. Wants(w) = {OnRow(Org, "update")} /\ Wants(w) \subseteq Lock
  BY <1>1 DEF Wants, OnRow, Lock
<1>5. /\ locks'[w] = locks[w] \cup Wants(w)
      /\ row' = [row EXCEPT ![w] = row[w]] /\ open' = [open EXCEPT ![w] = open[w]]
  BY <1>1, <1>2, Acquires DEF Sessions
<1>6. writes[w].audit = <<>>
  BY <1>1, <1>2 DEF WritesKnown
<1>7. Written(w)
  BY <1>1 DEF Written
<1>8. WorkerInv(w)'
  BY <1>1, <1>3, <1>4, <1>5, <1>6, <1>7, StillWritten
<1>9. Inserted(w)' => Inserted(w)
  BY <1>1, <1>7 DEF Inserted
<1> DEFINE o == open[w]
           r == row[w]
<1>10. "append" \in Stage \ {"idle", "reply"} /\ r \in EntryRow \cup {None} /\ o \in BOOLEAN
  BY <1>2 DEF Stage, SessionTyped
<1>11. open' = [open EXCEPT ![w] = o] /\ row' = [row EXCEPT ![w] = r]
  BY <1>5
<1> HIDE DEF o, r
<1> QED
  BY <1>1, <1>3, <1>4, <1>8, <1>9, <1>10, <1>11, LockKeeps

(* One kind of uncommitted rows replaced, or two.                          *)
LEMMA PeriodExcept ==
  ASSUME Sessions, NEW w \in Worker, NEW p
  PROVE  [writes EXCEPT ![w].period = p] = [writes EXCEPT ![w] =
           [period |-> p, entry |-> writes[w].entry,
            ledger |-> writes[w].ledger, audit |-> writes[w].audit]]
<1> DEFINE wr == writes[w]
<1>1. [writes EXCEPT ![w].period = p] = [writes EXCEPT ![w] = [wr EXCEPT !.period = p]]
  OBVIOUS
<1>2. wr = [period |-> wr.period, entry |-> wr.entry, ledger |-> wr.ledger,
            audit |-> wr.audit]
  BY DEF Sessions
<1> HIDE DEF wr
<1>3. [wr EXCEPT !.period = p] =
        [period |-> p, entry |-> wr.entry, ledger |-> wr.ledger,
         audit |-> wr.audit]
  BY <1>2
<1> QED
  BY <1>1, <1>3 DEF wr

(* The same for the rows of the journal.                                    *)
LEMMA EntryExcept ==
  ASSUME Sessions, NEW w \in Worker, NEW e
  PROVE  [writes EXCEPT ![w].entry = e] = [writes EXCEPT ![w] =
           [period |-> writes[w].period, entry |-> e,
            ledger |-> writes[w].ledger, audit |-> writes[w].audit]]
<1> DEFINE wr == writes[w]
<1>1. [writes EXCEPT ![w].entry = e] = [writes EXCEPT ![w] = [wr EXCEPT !.entry = e]]
  OBVIOUS
<1>2. wr = [period |-> wr.period, entry |-> wr.entry, ledger |-> wr.ledger,
            audit |-> wr.audit]
  BY DEF Sessions
<1> HIDE DEF wr
<1>3. [wr EXCEPT !.entry = e] =
        [period |-> wr.period, entry |-> e, ledger |-> wr.ledger,
         audit |-> wr.audit]
  BY <1>2
<1> QED
  BY <1>1, <1>3 DEF wr

(* The same for the records of the trail.                                   *)
LEMMA AuditExcept ==
  ASSUME Sessions, NEW w \in Worker, NEW t
  PROVE  [writes EXCEPT ![w].audit = t] = [writes EXCEPT ![w] =
           [period |-> writes[w].period, entry |-> writes[w].entry,
            ledger |-> writes[w].ledger, audit |-> t]]
<1> DEFINE wr == writes[w]
<1>1. [writes EXCEPT ![w].audit = t] = [writes EXCEPT ![w] = [wr EXCEPT !.audit = t]]
  OBVIOUS
<1>2. wr = [period |-> wr.period, entry |-> wr.entry, ledger |-> wr.ledger,
            audit |-> wr.audit]
  BY DEF Sessions
<1> HIDE DEF wr
<1>3. [wr EXCEPT !.audit = t] =
        [period |-> wr.period, entry |-> wr.entry, ledger |-> wr.ledger,
         audit |-> t]
  BY <1>2
<1> QED
  BY <1>1, <1>3 DEF wr

(* A statement that writes rows and takes the lock it wants, if any.       *)
LEMMA WriteKeeps ==
  ASSUME TxInv, UNCHANGED <<committed, active>>, NEW w \in Worker, stage[w] # "idle",
         NEW s \in Stage \ {"idle", "reply"}, Goto(w, s),
         UNCHANGED <<call, open, row, answer>>,
         NEW n \in Entry \cup {None}, new' = [new EXCEPT ![w] = n],
         NEW L \in SUBSET Lock, locks' = [locks EXCEPT ![w] = L],
         \A v \in Worker \ {w} : \A l \in locks[v], m \in L : ~Conflict(l, m),
         NEW p, NEW e, NEW g, NEW t, WritesTyped(p, e, g, t),
         writes' = [writes EXCEPT ![w] = [period |-> p, entry |-> e, ledger |-> g, audit |-> t]],
         Inserted(w)' => \A v \in Worker \ {w} :
           Inserted(v) => new[v] # n /\ call[v].key # call[w].key,
         WorkerInv(w)'
  PROVE  TxInv'
<1> DEFINE o == open[w]
           r == row[w]
<1>1. Sessions /\ SessionTyped(w)
  BY Knows
<1>2. o \in BOOLEAN /\ r \in EntryRow \cup {None}
  BY <1>1 DEF SessionTyped
<1>3. Turn(w, s, o, r, n, L, p, e, g, t)
  <2>1. open' = [open EXCEPT ![w] = o] /\ row' = [row EXCEPT ![w] = r]
    BY <1>1 DEF Sessions
  <2> QED
    BY <2>1 DEF Turn, Goto
<1> HIDE DEF o, r
<1> QED
  BY <1>2, <1>3, StatementKeeps

(* What a record says is well formed.                                      *)
LEMMA RecordTyped ==
  ASSUME TxInv, NEW w \in Worker, Written(w)
  PROVE  AuditRecord(audit, call[w].actor, ActionOf(call[w].op), Subject(w)) \in AuditRow
<1>1. stage[w] # "idle" /\ stage[w] \notin {"find", "reply"}
  BY DEF Written
<1>2. call[w] \in Calls /\ call[w].op \in Op /\ CommittedTypes /\ NewFits(w)
  BY <1>1, Knows
<1>3. Subject(w) \in Entry \cup Period
  <2>1. CASE call[w].op \in {"create", "reverse"}
    BY <1>2, <2>1 DEF Subject, NewFits, Inserted, Inserts
  <2>2. CASE call[w].op = "post"
    BY <1>2, <2>2, CallType DEF Subject
  <2>3. CASE call[w].op \in {"close", "reopen"}
    BY <1>2, <2>3, CallType DEF Subject
  <2> QED
    BY <1>2, <2>1, <2>2, <2>3 DEF Op
<1>4. ActionOf(call[w].op) \in AuditAction
  BY <1>2 DEF ActionOf, AuditAction, Op
<1>5. Len(audit) + 1 \in Nat \ {0}
  BY <1>2 DEF CommittedTypes
<1> QED
  BY <1>2, <1>3, <1>4, <1>5, CallType DEF AuditRecord, AuditRow

(* The record is written after those committed.                             *)
LEMMA AppendAuditKeeps ==
  ASSUME TxInv, NEW w \in Worker, AppendAudit(w)
  PROVE  TxInv'
<1> DEFINE rec == AuditRecord(audit, call[w].actor, ActionOf(call[w].op), Subject(w))
           n == new[w]
           L == locks[w]
           p == writes[w].period
           e == writes[w].entry
           g == writes[w].ledger
           t == <<rec>>
<1>1. /\ stage[w] = "append" /\ UNCHANGED <<committed, active, call, open, row, new, locks, answer>>
      /\ writes' = [writes EXCEPT ![w].audit = t]
  BY DEF AppendAudit
<1>2. call[w].op \in Op /\ Sessions /\ SessionTyped(w) /\ TrailLocked(w)
  BY <1>1, Knows
<1>3. Goto(w, "commit") /\ stage'[w] = "commit"
  BY <1>1, <1>2, NextStage DEF AppendAudit, Advance, Goto, Sessions
<1>4. Written(w)
  BY <1>1 DEF Written
<1>5. rec \in AuditRow
  BY <1>4, RecordTyped
<1> HIDE DEF rec
<1>6. writes' = [writes EXCEPT ![w] = [period |-> p, entry |-> e, ledger |-> g, audit |-> t]]
  BY <1>1, <1>2, AuditExcept
<1>7. /\ n \in Entry \cup {None} /\ L \in SUBSET Lock /\ WritesTyped(p, e, g, t)
      /\ new' = [new EXCEPT ![w] = n] /\ locks' = [locks EXCEPT ![w] = L]
  <2>1. t \in Seq(AuditRow)
    BY <1>5
  <2>2. WritesTyped(p, e, g, t)
    BY <1>2, <2>1 DEF SessionTyped, WritesTyped
  <2> QED
    BY <1>1, <1>2, <2>2 DEF SessionTyped, Sessions
<1>8. WorkerInv(w)'
  <2>1. /\ writes'[w].period = writes[w].period /\ writes'[w].entry = writes[w].entry
        /\ writes'[w].ledger = writes[w].ledger /\ writes'[w].audit = t
    BY <1>2, <1>6 DEF Sessions
  <2>2. OnRow(Org, "update") \in locks'[w]
    BY <1>1, <1>2 DEF TrailLocked
  <2>3. writes'[w].audit =
          IF stage'[w] = "commit"
            THEN <<AuditRecord(audit, call[w].actor, ActionOf(call[w].op), Subject(w))>>
            ELSE <<>>
    BY <1>3, <2>1 DEF rec
  <2> QED
    BY <1>1, <1>3, <1>4, <2>1, <2>2, <2>3, StillWritten
<1>9. Inserted(w)' => \A v \in Worker \ {w} :
        Inserted(v) => new[v] # n /\ call[v].key # call[w].key
  <2>1. Inserted(w)' => Inserted(w)
    BY <1>1, <1>4 DEF Inserted
  <2> QED
    BY <2>1 DEF TxInv, InsertsApart
<1>10. \A v \in Worker \ {w} : \A l \in locks[v], m \in L : ~Conflict(l, m)
  BY OwnLocksApart
<1>11. "commit" \in Stage \ {"idle", "reply"} /\ stage[w] # "idle"
  BY <1>1 DEF Stage
<1> HIDE DEF n, L, p, e, g, t
<1> QED
  BY <1>1, <1>3, <1>6, <1>7, <1>8, <1>9, <1>10, <1>11, WriteKeeps

(* The row w inserts, or has inserted.                                     *)
LEMMA NewRowTyped ==
  ASSUME TxInv, NEW w \in Worker, stage[w] = "insert" \/ Inserted(w)
  PROVE  /\ NewRow(w) \in EntryRow
         /\ NewRow(w).status = "DRAFT" /\ NewRow(w).period = PeriodOf(w)
         /\ NewRow(w).key = call[w].key
         /\ call[w].op = "create" =>
              NewRow(w) = [status |-> "DRAFT", period |-> call[w].period,
                           lines |-> call[w].lines, key |-> call[w].key,
                           hash |-> CreateHash(call[w].period, call[w].lines),
                           creator |-> call[w].actor, poster |-> None, reversalOf |-> None]
         /\ call[w].op = "reverse" =>
              NewRow(w) = [status |-> "DRAFT", period |-> row[w].period,
                           lines |-> Swap[row[w].lines], key |-> call[w].key,
                           hash |-> ReverseHash, creator |-> call[w].actor,
                           poster |-> None, reversalOf |-> call[w].target]
<1>1. stage[w] \notin {"idle", "find", "reply"}
  BY DEF Inserted, Written
<1>2. call[w] \in Calls /\ EntryLoaded(w)
  BY <1>1, Knows
<1>3. call[w].op \in {"create", "reverse"}
  BY <1>1, Knows, AtStage DEF TxInv, Inserted, Inserts
<1>4. CASE call[w].op = "create"
  <2>1. CreateHash(call[w].period, call[w].lines) \in Hash
    BY <1>2, <1>4, CallType DEF CreateHash, Hash
  <2>2. NewRow(w) = DraftRow(call[w].period, call[w].lines, call[w].key,
                             CreateHash(call[w].period, call[w].lines), call[w].actor, None)
    BY <1>4 DEF NewRow
  <2>3. PeriodOf(w) = call[w].period
    BY <1>4 DEF PeriodOf
  <2> QED
    BY <1>2, <1>4, <2>1, <2>2, <2>3, CallType, DraftRowType
<1>5. CASE call[w].op = "reverse"
  <2>1. row[w] = entry[call[w].target] /\ row[w] \in EntryRow /\ PeriodOf(w) = row[w].period
        /\ call[w].target \in Entry
    BY <1>1, <1>2, <1>5, PeriodKnown DEF EntryLoaded, Loaded, Working, Names, Inserted, Written
  <2>2. row[w].period \in Period /\ Swap[row[w].lines] \in Lines /\ ReverseHash \in Hash
    BY <2>1, LinesAssumption DEF EntryRow, ReverseHash, Hash
  <2>3. NewRow(w) = DraftRow(row[w].period, Swap[row[w].lines], call[w].key, ReverseHash,
                             call[w].actor, call[w].target)
    BY <1>5 DEF NewRow
  <2> QED
    BY <1>2, <1>5, <2>1, <2>2, <2>3, CallType, DraftRowType
<1> QED
  BY <1>3, <1>4, <1>5

(* A flushed row is there to be waited for.                                *)
LEMMA InsertedRow ==
  ASSUME TxInv, NEW v \in Worker, Inserted(v)
  PROVE  /\ new[v] \in DOMAIN writes[v].entry
         /\ writes[v].entry[new[v]].key = call[v].key
<1>1. stage[v] # "idle" /\ call[v].op \in {"create", "reverse"}
  BY DEF Inserted, Written, Inserts
<1>2. /\ NewRow(v) \in EntryRow /\ NewRow(v).key = call[v].key /\ WritesKnown(v)
      /\ call[v] \in Calls
  BY <1>1, Knows, NewRowTyped
<1>3. stage[v] = "reverse" => call[v].op = "reverse"
  BY <1>1, Knows, AtStage DEF TxInv
<1>4. CASE writes[v].entry = [x \in {new[v]} |-> NewRow(v)]
  BY <1>2, <1>4
<1>5. CASE writes[v].entry =
             [x \in {new[v], call[v].target} |->
                IF x = new[v] THEN PostedRow(NewRow(v), call[v].actor)
                              ELSE ReversedRow(row[v])]
  <2>1. PostedRow(NewRow(v), call[v].actor).key = call[v].key
    BY <1>2, CallType, PostedRowType
  <2> QED
    BY <1>5, <2>1
<1> QED
  BY <1>1, <1>2, <1>3, <1>4, <1>5 DEF WritesKnown, Inserted, Written

(* The flush of a new row: no key and no identity of another worker.        *)
LEMMA InsertEntryKeeps ==
  ASSUME TxInv, NEW w \in Worker, InsertEntry(w)
  PROVE  TxInv'
<1> DEFINE s == After(call[w].op, stage[w])
           L == locks[w] \cup Wants(w)
<1>1. /\ stage[w] = "insert" /\ ~Refused(w) /\ Acquire(w) /\ Goto(w, s)
      /\ UNCHANGED <<committed, active, call, open, row, answer>>
  BY DEF InsertEntry, Advance
<1>2. PICK n \in Fresh :
        /\ new' = [new EXCEPT ![w] = n]
        /\ writes' = [writes EXCEPT ![w].entry = [x \in {n} |-> NewRow(w)]]
  BY DEF InsertEntry
<1>3. call[w].op \in {"create", "reverse"}
  BY <1>1, Knows, AtStage DEF TxInv
<1>4. /\ Sessions /\ SessionTyped(w) /\ Found(w) /\ PeriodLoaded(w) /\ EntryLoaded(w)
      /\ Checked(w) /\ WritesKnown(w)
  BY <1>1, Knows
<1>5. /\ s = IF call[w].op = "create" THEN "organization" ELSE "reverse"
      /\ s \in StagesOf(call[w].op)
  BY <1>1, <1>3, NextStage DEF StagesOf
<1>6. Wants(w) = {OnRow(Org, "share")} /\ Wants(w) \subseteq Lock
  BY <1>1 DEF Wants, OnRow, Lock
<1>7. writes[w] = NoWrites
  BY <1>1, <1>4 DEF WritesKnown, Written, Inserted
<1> DEFINE e == [x \in {n} |-> NewRow(w)]
<1>8. /\ writes' = [writes EXCEPT ![w] =
             [period |-> <<>>, entry |-> e, ledger |-> <<>>, audit |-> <<>>]]
      /\ WritesTyped(<<>>, e, <<>>, <<>>)
      /\ n \in Entry
  <2>1. n \in Entry /\ NewRow(w) \in EntryRow
    BY <1>1, NewRowTyped DEF Fresh
  <2>2. WritesTyped(<<>>, e, <<>>, <<>>)
    BY <2>1 DEF WritesTyped
  <2>3. writes' = [writes EXCEPT ![w].entry = e]
    BY <1>2
  <2>4. /\ writes[w].period = <<>> /\ writes[w].ledger = <<>> /\ writes[w].audit = <<>>
    BY <1>7 DEF NoWrites
  <2> HIDE DEF e
  <2>5. writes' = [writes EXCEPT ![w] =
          [period |-> writes[w].period, entry |-> e,
           ledger |-> writes[w].ledger, audit |-> writes[w].audit]]
    BY <1>4, <2>3, EntryExcept
  <2> QED
    BY <2>1, <2>2, <2>4, <2>5
<1> HIDE DEF e
<1>9. /\ stage'[w] = s /\ new'[w] = n /\ locks'[w] = L /\ locks' = [locks EXCEPT ![w] = L]
      /\ writes'[w] = [period |-> <<>>, entry |-> e, ledger |-> <<>>, audit |-> <<>>]
  <2>1. locks' = [locks EXCEPT ![w] = L]
    BY <1>1, Acquires
  <2> HIDE DEF s, L
  <2> QED
    BY <1>1, <1>2, <1>4, <1>8, <2>1 DEF Goto, Sessions
<1> HIDE DEF s
<1>10. WorkerInv(w)'
  <2>1. PeriodOf(w)' = PeriodOf(w) /\ NewRow(w)' = NewRow(w)
    BY <1>1 DEF PeriodOf, NewRow, committed
  <2>2. Found(w)' /\ PeriodLoaded(w)' /\ EntryLoaded(w)' /\ TrailLocked(w)'
    BY <1>1, <1>4, <1>5, <1>9, <2>1 DEF Found, PeriodLoaded, EntryLoaded, TrailLocked, Names,
                                         Working, Loaded, committed
  <2>3. Checked(w)'
    BY <1>1, <1>3, <1>4, <1>5, <1>9 DEF Checked, MayReverse
  <2>4. NewFits(w)'
    BY <1>1, <1>2, <1>9 DEF NewFits, Refused, Fresh, committed
  <2>5. WritesKnown(w)'
    <3>1. /\ writes'[w].entry = [x \in {new'[w]} |-> NewRow(w)']
          /\ writes'[w].period = <<>> /\ writes'[w].ledger = <<>> /\ writes'[w].audit = <<>>
      BY <1>9, <2>1 DEF e
    <3>2. Inserted(w)' /\ stage'[w] # "commit" /\ (call[w].op = "reverse" => ~Written(w)')
      BY <1>1, <1>3, <1>5, <1>9 DEF Inserted, Written, Inserts
    <3> QED
      BY <1>1, <1>3, <3>1, <3>2 DEF WritesKnown
  <2>6. (stage[w] \in StagesOf(call[w].op))'
    BY <1>1, <1>5, <1>9 DEF StagesOf
  <2> QED
    BY <2>2, <2>3, <2>4, <2>5, <2>6 DEF WorkerInv
<1>11. \A v \in Worker \ {w} :
         Inserted(v) => new[v] # n /\ call[v].key # call[w].key
  <2> SUFFICES ASSUME NEW v \in Worker \ {w}, Inserted(v)
               PROVE  new[v] # n /\ call[v].key # call[w].key
    OBVIOUS
  <2>1. new[v] \in DOMAIN writes[v].entry /\ writes[v].entry[new[v]].key = call[v].key
    BY InsertedRow
  <2>2. n \notin DOMAIN writes[v].entry
    BY <1>2 DEF Fresh
  <2>3. v \notin KeyRivals(w)
    BY <1>1 DEF Acquire, Rivals
  <2> QED
    BY <2>1, <2>2, <2>3 DEF KeyRivals
<1>12. s \in Stage \ {"idle", "reply"} /\ stage[w] # "idle" /\ L \in SUBSET Lock
  BY <1>1, <1>4, <1>5, <1>6 DEF Stage, SessionTyped
<1>13. \A v \in Worker \ {w} : \A l \in locks[v], m \in L : ~Conflict(l, m)
  BY <1>1, Acquires
<1> HIDE DEF L
<1> QED
  BY <1>1, <1>2, <1>8, <1>9, <1>10, <1>11, <1>12, <1>13, WriteKeeps

(* A create whose key was taken in between starts over with the key.       *)
LEMMA InsertRefusedKeeps ==
  ASSUME TxInv, NEW w \in Worker, InsertRefused(w)
  PROVE  TxInv'
<1>1. stage[w] = "insert" /\ UNCHANGED <<committed, active>>
  BY DEF InsertRefused
<1>2. CASE call[w].op # "create"
  BY <1>1, <1>2, AbortKeeps DEF InsertRefused
<1>3. CASE call[w].op = "create"
  <2> DEFINE o == FALSE
             r == None
             n == None
             L == {}
  <2>1. Goto(w, "replay") /\ Release(w) /\ Forget(w) /\ UNCHANGED <<call, answer>>
    BY <1>3 DEF InsertRefused
  <2>2. Turn(w, "replay", FALSE, None, None, {}, <<>>, <<>>, <<>>, <<>>)
    BY <2>1 DEF Turn, Goto, Release, Forget, NoWrites
  <2>3. stage'[w] = "replay" /\ writes'[w] = NoWrites /\ call'[w] = call[w]
    BY <2>1 DEF Goto, Release, TxInv, Sessions
  <2>4. WorkerInv(w)'
    <3>1. /\ (stage[w] \in StagesOf(call[w].op))' /\ Found(w)' /\ PeriodLoaded(w)'
          /\ EntryLoaded(w)' /\ TrailLocked(w)' /\ Checked(w)' /\ NewFits(w)'
      BY <1>3, <2>3 DEF StagesOf, Found, PeriodLoaded, EntryLoaded, TrailLocked, Checked,
                        NewFits, Working, Loaded, Inserted, Written, Names
    <3>2. WritesKnown(w)'
      <4>1. ~Written(w)' /\ ~Inserted(w)' /\ stage'[w] # "reverse" /\ stage'[w] # "commit"
        BY <2>3 DEF Written, Inserted
      <4>2. writes'[w].audit = <<>>
        BY <2>3 DEF NoWrites
      <4> QED
        BY <2>3, <4>1, <4>2 DEF WritesKnown
    <3> QED
      BY <3>1, <3>2 DEF WorkerInv
  <2>5. "replay" \in Stage \ {"idle", "reply"} /\ WritesTyped(<<>>, <<>>, <<>>, <<>>)
        /\ ~Inserted(w)' /\ {} \in SUBSET Lock
    BY <2>3 DEF Stage, WritesTyped, Inserted, Written
  <2> QED
    BY <1>1, <2>2, <2>4, <2>5, StatementKeeps
<1> QED
  BY <1>2, <1>3

(* What a worker has locked and loaded stays so while it writes.           *)
LEMMA HeldStays ==
  ASSUME TxInv, UNCHANGED committed, NEW w \in Worker, Working(w), stage[w] # "entry",
         stage'[w] \in {"reverse", "organization"},
         call'[w] = call[w], open'[w] = open[w], row'[w] = row[w],
         locks[w] \subseteq locks'[w]
  PROVE  Found(w)' /\ PeriodLoaded(w)' /\ EntryLoaded(w)' /\ TrailLocked(w)'
<1>1. stage[w] \notin {"idle", "find", "reply"}
  BY DEF Working
<1>2. Found(w) /\ PeriodLoaded(w) /\ EntryLoaded(w)
  BY <1>1, Knows
<1>3. PeriodOf(w)' = PeriodOf(w)
  BY DEF PeriodOf, committed
<1>4. Found(w)' /\ TrailLocked(w)'
  BY <1>1, <1>2 DEF Found, TrailLocked, Names, committed
<1>5. PeriodLoaded(w)'
  BY <1>2, <1>3 DEF PeriodLoaded, committed
<1>6. EntryLoaded(w)'
  BY <1>2 DEF EntryLoaded, Loaded, Names, committed
<1> QED
  BY <1>4, <1>5, <1>6

(* The flush of a post.                                                     *)
LEMMA PostEntryKeeps ==
  ASSUME TxInv, NEW w \in Worker, PostEntry(w)
  PROVE  TxInv'
<1> DEFINE L == locks[w] \cup Wants(w)
           x == call[w].target
           n == new[w]
           e == [y \in {x} |-> PostedRow(row[w], call[w].actor)]
           g == <<PostingOf(x, row[w])>>
<1>1. /\ stage[w] = "post" /\ Postable(w) /\ Acquire(w)
      /\ UNCHANGED <<committed, active, call, open, row, new, answer>>
      /\ writes' = [writes EXCEPT ![w].entry = e, ![w].ledger = g]
  BY DEF PostEntry
<1>2. call[w].op = "post"
  BY <1>1, Knows, AtStage DEF TxInv
<1>3. /\ Sessions /\ SessionTyped(w) /\ EntryLoaded(w) /\ WritesKnown(w) /\ call[w] \in Calls
  BY <1>1, Knows
<1>4. Goto(w, "organization") /\ stage'[w] = "organization"
  BY <1>1, <1>2, <1>3, NextStage DEF PostEntry, Advance, Goto, Sessions
<1>5. Wants(w) \subseteq Lock
  BY <1>1 DEF Wants, OnRow, Lock
<1>6. writes[w].period = <<>> /\ writes[w].audit = <<>>
  BY <1>1, <1>2, <1>3 DEF WritesKnown, Written, Inserted, NoWrites, Inserts
<1>7. WritesTyped(<<>>, e, g, <<>>)
  <2>1. x \in Entry /\ row[w] \in EntryRow /\ call[w].actor \in Actor
    BY <1>1, <1>2, <1>3, PeriodKnown, CallType DEF EntryLoaded, Loaded, Working, Names
  <2>2. PostedRow(row[w], call[w].actor) \in EntryRow /\ PostingOf(x, row[w]) \in Posting
    BY <2>1, PostedRowType, PostingOfType
  <2> QED
    BY <2>1, <2>2 DEF WritesTyped
<1> HIDE DEF e, g
<1>8. writes' = [writes EXCEPT ![w] =
        [period |-> <<>>, entry |-> e, ledger |-> g, audit |-> <<>>]]
  <2> DEFINE one == [period |-> <<>>, entry |-> e, ledger |-> writes[w].ledger, audit |-> <<>>]
  <2>1. [writes EXCEPT ![w].entry = e] = [writes EXCEPT ![w] = one]
    BY <1>3, <1>6, EntryExcept
  <2>2. writes' = [[writes EXCEPT ![w] = one] EXCEPT ![w].ledger = g]
    BY <1>1, <2>1
  <2>3. [one EXCEPT !.ledger = g] = [period |-> <<>>, entry |-> e, ledger |-> g, audit |-> <<>>]
    OBVIOUS
  <2> HIDE DEF one
  <2>4. [[writes EXCEPT ![w] = one] EXCEPT ![w].ledger = g] =
          [writes EXCEPT ![w] = [one EXCEPT !.ledger = g]]
    BY <1>3 DEF Sessions
  <2> QED
    BY <2>2, <2>3, <2>4
<1>9. /\ locks' = [locks EXCEPT ![w] = L] /\ new' = [new EXCEPT ![w] = n]
      /\ \A v \in Worker \ {w} : \A l \in locks[v], m \in L : ~Conflict(l, m)
  BY <1>1, <1>3, Acquires DEF Sessions
<1>10. /\ locks'[w] = L
       /\ writes'[w] = [period |-> <<>>, entry |-> e, ledger |-> g, audit |-> <<>>]
  <2> HIDE DEF L
  <2> QED
    BY <1>3, <1>8, <1>9 DEF Sessions
<1>11. WorkerInv(w)'
  <2>1. Found(w)' /\ PeriodLoaded(w)' /\ EntryLoaded(w)' /\ TrailLocked(w)'
    BY <1>1, <1>4, <1>10, HeldStays DEF Working
  <2>2. Checked(w)' /\ NewFits(w)'
    BY <1>1, <1>2, <1>4 DEF Checked, NewFits, Inserted, Inserts
  <2>3. WritesKnown(w)'
    <3>1. Postable(w)'
      BY <1>1 DEF Postable, committed
    <3>2. /\ writes'[w].period = <<>> /\ writes'[w].audit = <<>>
          /\ writes'[w].entry =
               [y \in {call'[w].target} |-> PostedRow(row'[w], call'[w].actor)]
          /\ writes'[w].ledger = <<PostingOf(call'[w].target, row'[w])>>
      <4>1. /\ writes'[w].period = <<>> /\ writes'[w].audit = <<>>
            /\ writes'[w].entry = e /\ writes'[w].ledger = g
        BY <1>10
      <4> QED
        BY <1>1, <4>1 DEF e, g
    <3> QED
      BY <1>1, <1>2, <1>4, <3>1, <3>2 DEF WritesKnown, Written
  <2>4. (stage[w] \in StagesOf(call[w].op))'
    BY <1>4 DEF StagesOf
  <2> QED
    BY <2>1, <2>2, <2>3, <2>4 DEF WorkerInv
<1>12. /\ n \in Entry \cup {None} /\ L \in SUBSET Lock /\ ~Inserted(w)'
       /\ "organization" \in Stage \ {"idle", "reply"} /\ stage[w] # "idle"
  BY <1>1, <1>2, <1>3, <1>5 DEF SessionTyped, Inserted, Inserts, Stage
<1> HIDE DEF n, L
<1> QED
  BY <1>1, <1>4, <1>7, <1>8, <1>9, <1>11, <1>12, WriteKeeps

(* A post that finds nothing to write, or a reason to refuse.               *)
LEMMA PostNothingKeeps ==
  ASSUME TxInv, NEW w \in Worker, PostNothing(w)
  PROVE  TxInv'
<1>1. stage[w] = "post" /\ UNCHANGED <<committed, active>>
  BY DEF PostNothing
<1>2. call[w].op = "post"
  BY <1>1, Knows, AtStage DEF TxInv
<1>3. CASE Abort(w)
  BY <1>1, <1>3, AbortKeeps
<1>4. CASE /\ AlreadyPosted(w)
           /\ Advance(w)
           /\ UNCHANGED <<call, open, row, new, writes, locks, answer>>
  <2>1. Goto(w, "organization") /\ stage'[w] = "organization"
    BY <1>1, <1>2, <1>4, NextStage, GoesOn DEF Advance
  <2>2. writes[w] = NoWrites
    BY <1>1, <1>2, Knows DEF WritesKnown, Written, Inserted, Inserts
  <2>3. Found(w)' /\ PeriodLoaded(w)' /\ EntryLoaded(w)' /\ TrailLocked(w)'
    BY <1>1, <1>4, <2>1, HeldStays DEF Working
  <2>4. Checked(w)' /\ NewFits(w)' /\ ~Inserted(w)'
    BY <1>2, <1>4, <2>1 DEF Checked, NewFits, Inserted, Inserts
  <2>5. WritesKnown(w)'
    <3>1. AlreadyPosted(w)'
      BY <1>1, <1>4 DEF AlreadyPosted, committed
    <3>2. /\ writes'[w].period = <<>> /\ writes'[w].audit = <<>>
          /\ writes'[w].entry = <<>> /\ writes'[w].ledger = <<>>
      BY <1>4, <2>2 DEF NoWrites
    <3> QED
      BY <1>2, <1>4, <2>1, <3>1, <3>2 DEF WritesKnown, Written
  <2>6. (stage[w] \in StagesOf(call[w].op))'
    BY <2>1 DEF StagesOf
  <2>7. WorkerInv(w)'
    BY <2>3, <2>4, <2>5, <2>6 DEF WorkerInv
  <2>8. "organization" \in Stage \ {"idle", "reply"}
    BY DEF Stage
  <2> QED
    BY <1>1, <1>4, <2>1, <2>4, <2>7, <2>8, QuietKeeps
<1> QED
  BY <1>3, <1>4 DEF PostNothing

(* The flush of a reversal and of the mark of its original.                 *)
LEMMA PostReversalKeeps ==
  ASSUME TxInv, NEW w \in Worker, PostReversal(w)
  PROVE  TxInv'
<1> DEFINE L == locks[w]
           x == call[w].target
           n == new[w]
           draft == writes[w].entry[new[w]]
           e == [y \in {n, x} |-> IF y = n THEN PostedRow(draft, call[w].actor)
                                           ELSE ReversedRow(row[w])]
           g == <<PostingOf(n, draft)>>
<1>1. /\ stage[w] = "reverse"
      /\ UNCHANGED <<committed, active, call, open, row, new, locks, answer>>
      /\ writes' = [writes EXCEPT ![w].entry = e, ![w].ledger = g]
  BY DEF PostReversal
<1>2. call[w].op = "reverse"
  BY <1>1, Knows, AtStage DEF TxInv
<1>3. /\ Sessions /\ SessionTyped(w) /\ EntryLoaded(w) /\ Checked(w) /\ NewFits(w)
      /\ WritesKnown(w) /\ call[w] \in Calls
  BY <1>1, Knows
<1>4. Goto(w, "organization") /\ stage'[w] = "organization"
  BY <1>1, <1>2, <1>3, NextStage DEF PostReversal, Advance, Goto, Sessions
<1>5. Inserted(w) /\ ~Written(w)
  BY <1>1, <1>2 DEF Inserted, Written, Inserts
<1>6. /\ writes[w].period = <<>> /\ writes[w].audit = <<>>
      /\ draft = NewRow(w) /\ draft \in EntryRow
  BY <1>1, <1>3, <1>5, NewRowTyped DEF WritesKnown
<1>7. WritesTyped(<<>>, e, g, <<>>)
  <2>1. x \in Entry /\ row[w] \in EntryRow /\ call[w].actor \in Actor /\ n \in Entry
    BY <1>1, <1>2, <1>3, <1>5, PeriodKnown, CallType
       DEF EntryLoaded, Loaded, Working, Names, NewFits
  <2>2. /\ PostedRow(draft, call[w].actor) \in EntryRow /\ ReversedRow(row[w]) \in EntryRow
        /\ PostingOf(n, draft) \in Posting
    BY <1>6, <2>1, PostedRowType, ReversedRowType, PostingOfType
  <2> HIDE DEF draft, n, x
  <2> QED
    BY <2>1, <2>2 DEF WritesTyped
<1> HIDE DEF e, g
<1>8. writes' = [writes EXCEPT ![w] =
        [period |-> <<>>, entry |-> e, ledger |-> g, audit |-> <<>>]]
  <2> DEFINE one == [period |-> <<>>, entry |-> e, ledger |-> writes[w].ledger, audit |-> <<>>]
  <2>1. [writes EXCEPT ![w].entry = e] = [writes EXCEPT ![w] = one]
    BY <1>3, <1>6, EntryExcept
  <2>2. writes' = [[writes EXCEPT ![w] = one] EXCEPT ![w].ledger = g]
    BY <1>1, <2>1
  <2>3. [one EXCEPT !.ledger = g] = [period |-> <<>>, entry |-> e, ledger |-> g, audit |-> <<>>]
    OBVIOUS
  <2> HIDE DEF one
  <2>4. [[writes EXCEPT ![w] = one] EXCEPT ![w].ledger = g] =
          [writes EXCEPT ![w] = [one EXCEPT !.ledger = g]]
    BY <1>3 DEF Sessions
  <2> QED
    BY <2>2, <2>3, <2>4
<1>9. /\ locks' = [locks EXCEPT ![w] = L] /\ new' = [new EXCEPT ![w] = n]
      /\ \A v \in Worker \ {w} : \A l \in locks[v], m \in L : ~Conflict(l, m)
  BY <1>1, <1>3, OwnLocksApart DEF Sessions
<1>10. writes'[w] = [period |-> <<>>, entry |-> e, ledger |-> g, audit |-> <<>>]
  BY <1>3, <1>8 DEF Sessions
<1>11. WorkerInv(w)'
  <2>1. Found(w)' /\ PeriodLoaded(w)' /\ EntryLoaded(w)' /\ TrailLocked(w)'
    BY <1>1, <1>4, HeldStays DEF Working
  <2>2. Checked(w)'
    BY <1>1, <1>2, <1>3, <1>5 DEF Checked, MayReverse
  <2>3. NewFits(w)'
    BY <1>1, <1>3, <1>5 DEF NewFits, Refused, committed
  <2>4. WritesKnown(w)'
    <3>1. NewRow(w)' = NewRow(w)
      BY <1>1 DEF NewRow
    <3>2. /\ writes'[w].period = <<>> /\ writes'[w].audit = <<>>
          /\ writes'[w].entry = e /\ writes'[w].ledger = g
      BY <1>10
    <3>3. /\ writes'[w].entry =
               [y \in {new'[w], call'[w].target} |->
                  IF y = new'[w] THEN PostedRow(NewRow(w)', call'[w].actor)
                                 ELSE ReversedRow(row'[w])]
          /\ writes'[w].ledger = <<PostingOf(new'[w], NewRow(w)')>>
      BY <1>1, <1>6, <3>1, <3>2 DEF e, g
    <3>4. Written(w)'
      BY <1>4 DEF Written
    <3> QED
      BY <1>1, <1>2, <1>4, <3>2, <3>3, <3>4 DEF WritesKnown
  <2>5. (stage[w] \in StagesOf(call[w].op))'
    BY <1>4 DEF StagesOf
  <2> QED
    BY <2>1, <2>2, <2>3, <2>4, <2>5 DEF WorkerInv
<1>12. /\ n \in Entry \cup {None} /\ L \in SUBSET Lock
       /\ "organization" \in Stage \ {"idle", "reply"} /\ stage[w] # "idle"
  BY <1>1, <1>3 DEF SessionTyped, Stage
<1>13. \A v \in Worker \ {w} :
         Inserted(v) => new[v] # n /\ call[v].key # call[w].key
  BY <1>5 DEF TxInv, InsertsApart
<1> HIDE DEF n, L
<1> QED
  BY <1>1, <1>4, <1>7, <1>8, <1>9, <1>11, <1>12, <1>13, WriteKeeps

(* The status of a period is written.                                      *)
LEMMA SetPeriodKeeps ==
  ASSUME TxInv, UNCHANGED <<committed, active>>, NEW w \in Worker,
         stage[w] \in {"reconcile", "reopen"},
         UNCHANGED <<call, open, row, new, locks, answer>>,
         SetPeriod(w, IF call[w].op = "close" THEN "CLOSED" ELSE "OPEN"),
         Advance(w),
         Checked(w)'
  PROVE  TxInv'
<1> DEFINE L == locks[w]
           n == new[w]
           status == IF call[w].op = "close" THEN "CLOSED" ELSE "OPEN"
           p == [x \in {call[w].period} |-> status]
<1>1. call[w].op \in {"close", "reopen"}
  BY Knows, AtStage DEF TxInv
<1>2. Sessions /\ SessionTyped(w) /\ WritesKnown(w) /\ call[w] \in Calls
  BY Knows
<1>3. Goto(w, "organization") /\ stage'[w] = "organization"
  <2>1. After(call[w].op, stage[w]) = "organization"
    BY <1>1, Knows, AtStage, NextStage DEF TxInv
  <2> QED
    BY <1>2, <2>1 DEF Advance, Goto, Sessions
<1>4. writes[w].entry = <<>> /\ writes[w].ledger = <<>> /\ writes[w].audit = <<>>
  BY <1>1, <1>2 DEF WritesKnown, Written, Inserted, NoWrites, Inserts
<1>5. WritesTyped(p, <<>>, <<>>, <<>>)
  <2>1. call[w].period \in Period /\ status \in PeriodStatus
    BY <1>1, <1>2, CallType DEF PeriodStatus
  <2> QED
    BY <2>1 DEF WritesTyped
<1>6. writes' = [writes EXCEPT ![w].period = p]
  BY DEF SetPeriod
<1> HIDE DEF p
<1>7. writes' = [writes EXCEPT ![w] =
        [period |-> p, entry |-> <<>>, ledger |-> <<>>, audit |-> <<>>]]
  <2>1. writes' = [writes EXCEPT ![w] =
          [period |-> p, entry |-> writes[w].entry,
           ledger |-> writes[w].ledger, audit |-> writes[w].audit]]
    BY <1>2, <1>6, PeriodExcept
  <2> QED
    BY <1>4, <2>1
<1>8. /\ locks' = [locks EXCEPT ![w] = L] /\ new' = [new EXCEPT ![w] = n]
      /\ \A v \in Worker \ {w} : \A l \in locks[v], m \in L : ~Conflict(l, m)
  BY <1>2, OwnLocksApart DEF Sessions
<1>9. writes'[w] = [period |-> p, entry |-> <<>>, ledger |-> <<>>, audit |-> <<>>]
  BY <1>2, <1>7 DEF Sessions
<1>10. WorkerInv(w)'
  <2>1. Found(w)' /\ PeriodLoaded(w)' /\ EntryLoaded(w)' /\ TrailLocked(w)'
    BY <1>3, HeldStays DEF Working
  <2>2. NewFits(w)'
    BY <1>1, <1>3 DEF NewFits, Inserted, Inserts
  <2>3. WritesKnown(w)'
    <3>1. /\ writes'[w].period = p /\ writes'[w].audit = <<>>
          /\ writes'[w].entry = <<>> /\ writes'[w].ledger = <<>>
      BY <1>9
    <3>2. p = [x \in {call'[w].period} |-> IF call'[w].op = "close" THEN "CLOSED" ELSE "OPEN"]
      BY DEF p
    <3> QED
      BY <1>1, <1>3, <3>1, <3>2 DEF WritesKnown, Written
  <2>4. (stage[w] \in StagesOf(call[w].op))'
    BY <1>3 DEF StagesOf
  <2> QED
    BY <2>1, <2>2, <2>3, <2>4 DEF WorkerInv
<1>11. /\ n \in Entry \cup {None} /\ L \in SUBSET Lock /\ ~Inserted(w)'
       /\ "organization" \in Stage \ {"idle", "reply"} /\ stage[w] # "idle"
  BY <1>1, <1>2 DEF SessionTyped, Inserted, Inserts, Stage
<1> HIDE DEF n, L
<1> QED
  BY <1>3, <1>5, <1>7, <1>8, <1>10, <1>11, WriteKeeps

(* close reconciles its period and writes the status.                       *)
LEMMA ReconcileAndCloseKeeps ==
  ASSUME TxInv, NEW w \in Worker, ReconcileAndClose(w)
  PROVE  TxInv'
<1>1. stage[w] = "reconcile" /\ UNCHANGED <<committed, active>>
  BY DEF ReconcileAndClose
<1>2. call[w].op = "close" /\ Checked(w) /\ Sessions
  BY <1>1, Knows, AtStage DEF TxInv
<1>3. CASE Abort(w)
  BY <1>1, <1>3, AbortKeeps
<1>4. CASE /\ Reconciled(entry, ledger, call[w].period) /\ TrialBalanced(ledger, call[w].period)
           /\ SetPeriod(w, "CLOSED") /\ Advance(w)
           /\ UNCHANGED <<call, open, row, new, locks, answer>>
  <2>1. Checked(w)'
    BY <1>1, <1>2, <1>4 DEF Checked, committed
  <2> QED
    BY <1>1, <1>2, <1>4, <2>1, SetPeriodKeeps
<1> QED
  BY <1>3, <1>4 DEF ReconcileAndClose

(* reopen writes the status of a closed period.                             *)
LEMMA ReopenKeeps ==
  ASSUME TxInv, NEW w \in Worker, Reopen(w)
  PROVE  TxInv'
<1>1. stage[w] = "reopen" /\ UNCHANGED <<committed, active>>
  BY DEF Reopen
<1>2. call[w].op = "reopen"
  BY <1>1, Knows, AtStage DEF TxInv
<1>3. CASE Abort(w)
  BY <1>1, <1>3, AbortKeeps
<1>4. CASE /\ ~open[w] /\ SetPeriod(w, "OPEN") /\ Advance(w)
           /\ UNCHANGED <<call, open, row, new, locks, answer>>
  <2>1. Checked(w)'
    BY <1>2, <1>4 DEF Checked
  <2> QED
    BY <1>1, <1>2, <1>4, <2>1, SetPeriodKeeps
<1> QED
  BY <1>3, <1>4 DEF Reopen

(* The begin of a call.                                                    *)
LEMMA BeginKeeps ==
  ASSUME TxInv, NEW w \in Worker, Begin(w)
  PROVE  TxInv'
<1>1. /\ stage[w] = "idle"
      /\ UNCHANGED <<committed, active, open, row, new, writes, locks, answer>>
  BY DEF Begin
<1>2. PICK c \in Calls : call' = [call EXCEPT ![w] = c] /\ Goto(w, FirstStage(c.op))
  BY DEF Begin
<1> DEFINE s == FirstStage(c.op)
<1>3. c # None /\ c.op \in Op
  BY CallType
<1>4. /\ s \in {"key", "find", "period"} /\ s \in StagesOf(c.op)
      /\ c.op \in {"post", "reverse"} => s = "find"
  BY <1>3 DEF FirstStage, StagesOf, Op
<1> HIDE DEF s
<1>5. Sessions /\ \A v \in Worker : SessionTyped(v)
  BY TypesByWorker DEF TxInv
<1>6. stage' = [stage EXCEPT ![w] = s]
  BY <1>2 DEF Goto, s
<1>7. /\ stage'[w] = s /\ call'[w] = c
      /\ \A v \in Worker \ {w} : Kept(v)
  BY <1>1, <1>2, <1>5, <1>6 DEF Sessions, Kept
<1>8. Sessions'
  <2>1. /\ stage' = [v \in Worker |-> stage'[v]] /\ call' = [v \in Worker |-> call'[v]]
    BY <1>2, <1>5, <1>6 DEF Sessions
  <2> QED
    BY <1>1, <1>5, <2>1 DEF Sessions
<1>9. writes[w] = NoWrites /\ locks[w] = {}
  BY <1>1, <1>5 DEF SessionTyped
<1>10. TypeOK'
  <2>1. SessionTyped(w)'
    BY <1>1, <1>3, <1>4, <1>5, <1>7, <1>9 DEF SessionTyped, Stage
  <2>2. \A v \in Worker \ {w} : SessionTyped(v)'
    BY <1>5, <1>7 DEF SessionTyped, Kept
  <2>3. CommittedTypes' /\ (active \subseteq Account)'
    BY <1>1, <1>5, TypesByWorker DEF TxInv, CommittedTypes, committed
  <2>4. \A v \in Worker : SessionTyped(v)'
    BY <2>1, <2>2
  <2> QED
    BY <1>8, <2>3, <2>4, NextTypesByWorker
<1>11. LocksApart' /\ RowsLinked'
  BY <1>1 DEF TxInv, LocksApart, RowsLinked, committed, Rows
<1>12. InsertsApart'
  <2>1. ~Inserted(w)'
    BY <1>4, <1>7 DEF Inserted, Written
  <2>2. \A v \in Worker \ {w} : Inserted(v)' <=> Inserted(v)
    BY <1>7 DEF Kept, Inserted, Written
  <2> QED
    BY <1>7, <2>1, <2>2 DEF Kept, TxInv, InsertsApart
<1>13. WorkerInv(w)'
  <2>1. /\ (stage[w] \in StagesOf(call[w].op))' /\ Found(w)' /\ PeriodLoaded(w)'
        /\ EntryLoaded(w)' /\ TrailLocked(w)' /\ Checked(w)' /\ NewFits(w)'
    BY <1>4, <1>7 DEF Found, PeriodLoaded, EntryLoaded, TrailLocked, Checked,
                      NewFits, Working, Loaded, Inserted, Written, Names, StagesOf
  <2>2. WritesKnown(w)'
    <3>1. ~Written(w)' /\ ~Inserted(w)' /\ stage'[w] # "reverse" /\ stage'[w] # "commit"
      BY <1>4, <1>7 DEF Written, Inserted
    <3>2. writes'[w] = NoWrites /\ writes'[w].audit = <<>>
      BY <1>1, <1>9 DEF NoWrites
    <3> QED
      BY <3>1, <3>2 DEF WritesKnown
  <2> QED
    BY <2>1, <2>2 DEF WorkerInv
<1>14. \A v \in Worker : WorkerInv(v)'
  BY <1>1, <1>7, <1>13, Undisturbed DEF TxInv
<1>15. AnswersTrue'
  <2>1. \A v \in Worker : stage'[v] = "reply" =>
          v # w /\ stage[v] = "reply" /\ call'[v] = call[v] /\ answer'[v] = answer[v]
    BY <1>4, <1>7 DEF Kept
  <2> QED
    BY <1>1, <2>1 DEF TxInv, AnswersTrue, committed, Rows
<1> QED
  BY <1>8, <1>10, <1>11, <1>12, <1>14, <1>15 DEF TxInv

(* The account service changes nothing the journal operations hold.        *)
LEMMA FlagKeeps ==
  ASSUME TxInv, UNCHANGED <<committed, session>>, (active \subseteq Account)'
  PROVE  TxInv'
<1>1. Sessions /\ CommittedTypes /\ \A v \in Worker : SessionTyped(v)
  BY TypesByWorker DEF TxInv
<1>2. \A v \in Worker : Kept(v)
  BY DEF Kept, session
<1>3. TypeOK'
  <2>1. Sessions' /\ CommittedTypes'
    BY <1>1 DEF Sessions, CommittedTypes, committed, session
  <2>2. \A v \in Worker : SessionTyped(v)'
    BY <1>1 DEF SessionTyped, session
  <2> QED
    BY <2>1, <2>2, NextTypesByWorker
<1>4. \A v \in Worker : WorkerInv(v)'
  BY <1>2, Undisturbed DEF TxInv
<1>5. Sessions' /\ LocksApart' /\ RowsLinked' /\ AnswersTrue'
  BY DEF TxInv, Sessions, LocksApart, RowsLinked, AnswersTrue, Rows, committed, session
<1>6. InsertsApart'
  BY DEF TxInv, InsertsApart, Inserted, Written, session
<1> QED
  BY <1>3, <1>4, <1>5, <1>6 DEF TxInv

----------------------------------------------------------------------------
(* The uncommitted rows                                                    *)

(* A worker with uncommitted rows serves a call and has loaded what it     *)
(* writes.                                                                 *)
LEMMA Writing ==
  ASSUME TxInv, NEW w \in Worker, Written(w) \/ Inserted(w)
  PROVE  /\ stage[w] \notin {"idle", "reply"} /\ Working(w)
         /\ call[w] \in Calls /\ call[w].op \in Op
         /\ stage[w] = "reverse" => call[w].op = "reverse"
         /\ PeriodOf(w) \in Period
         /\ OnRow(PeriodOf(w), "update") \in locks[w]
         /\ Names(w) => /\ Loaded(w) /\ call[w].target \in Rows(entry)
                        /\ call[w].target \in Entry
                        /\ entry[call[w].target] \in EntryRow
                        /\ PeriodOf(w) = entry[call[w].target].period
                        /\ row[w] = entry[call[w].target]
                        /\ OnRow(call[w].target, "update") \in locks[w]
         /\ ~Names(w) => PeriodOf(w) = call[w].period
<1>1. stage[w] \notin {"idle", "reply"} /\ Working(w) /\ stage[w] \notin {"find", "entry"}
  BY DEF Written, Inserted, Working
<1>2. /\ call[w] \in Calls /\ call[w].op \in Op /\ PeriodLoaded(w) /\ EntryLoaded(w)
  BY <1>1, Knows
<1>3. stage[w] = "reverse" => call[w].op = "reverse"
  BY <1>1, Knows, AtStage DEF TxInv
<1>4. /\ PeriodOf(w) \in Period
      /\ Names(w) => /\ call[w].target \in Rows(entry) /\ call[w].target \in Entry
                     /\ entry[call[w].target] \in EntryRow
                     /\ PeriodOf(w) = entry[call[w].target].period
      /\ ~Names(w) => PeriodOf(w) = call[w].period
  BY <1>1, PeriodKnown
<1>5. Names(w) => Loaded(w)
  BY <1>1 DEF Loaded
<1> QED
  BY <1>1, <1>2, <1>3, <1>4, <1>5 DEF PeriodLoaded, EntryLoaded

(* What each operation has flushed when nothing but its audit record is    *)
(* missing.                                                                *)
LEMMA Flushed ==
  ASSUME TxInv, NEW w \in Worker, Written(w)
  PROVE  /\ call[w].op = "create" =>
              /\ writes[w].entry = [x \in {new[w]} |-> NewRow(w)]
              /\ writes[w].period = <<>> /\ writes[w].ledger = <<>>
         /\ call[w].op = "post" =>
              /\ writes[w].period = <<>>
              /\ \/ /\ Postable(w)
                    /\ writes[w].entry =
                         [x \in {call[w].target} |-> PostedRow(row[w], call[w].actor)]
                    /\ writes[w].ledger = <<PostingOf(call[w].target, row[w])>>
                 \/ /\ AlreadyPosted(w)
                    /\ writes[w].entry = <<>> /\ writes[w].ledger = <<>>
         /\ call[w].op = "reverse" =>
              /\ writes[w].entry =
                   [x \in {new[w], call[w].target} |->
                      IF x = new[w] THEN PostedRow(NewRow(w), call[w].actor)
                                    ELSE ReversedRow(row[w])]
              /\ writes[w].period = <<>>
              /\ writes[w].ledger = <<PostingOf(new[w], NewRow(w))>>
         /\ call[w].op \in {"close", "reopen"} =>
              /\ writes[w].period = [x \in {call[w].period} |->
                                       IF call[w].op = "close" THEN "CLOSED" ELSE "OPEN"]
              /\ writes[w].entry = <<>> /\ writes[w].ledger = <<>>
<1>1. stage[w] # "idle"
  BY DEF Written
<1>2. WritesKnown(w)
  BY <1>1, Knows
<1> QED
  BY <1>2 DEF WritesKnown

(* An uncommitted row of the journal is new or locked, and in the period   *)
(* its worker has locked.                                                  *)
LEMMA WrittenEntry ==
  ASSUME TxInv, NEW w \in Worker, NEW e \in DOMAIN writes[w].entry
  PROVE  /\ writes[w].entry[e].period = PeriodOf(w)
         /\ OnRow(PeriodOf(w), "update") \in locks[w]
         /\ \/ Inserted(w) /\ e = new[w]
            \/ Names(w) /\ e = call[w].target /\ OnRow(e, "update") \in locks[w]
<1> DEFINE draft == [x \in {new[w]} |-> NewRow(w)]
           posted == [x \in {call[w].target} |-> PostedRow(row[w], call[w].actor)]
           both == [x \in {new[w], call[w].target} |->
                      IF x = new[w] THEN PostedRow(NewRow(w), call[w].actor)
                                    ELSE ReversedRow(row[w])]
<1>1. Written(w) \/ Inserted(w)
  <2>1. SUFFICES ASSUME ~(Written(w) \/ Inserted(w)) PROVE FALSE
    OBVIOUS
  <2>2. stage[w] # "idle" => writes[w] = NoWrites
    BY <2>1, Knows DEF WritesKnown
  <2>3. stage[w] = "idle" => writes[w] = NoWrites
    BY TypesByWorker DEF TxInv, SessionTyped
  <2> QED
    BY <2>2, <2>3 DEF NoWrites
<1>2. /\ call[w].op \in Op /\ call[w] \in Calls
      /\ stage[w] = "reverse" => call[w].op = "reverse"
      /\ OnRow(PeriodOf(w), "update") \in locks[w]
      /\ Names(w) => /\ row[w] \in EntryRow /\ row[w].period = PeriodOf(w)
                     /\ OnRow(call[w].target, "update") \in locks[w]
  BY <1>1, Writing
<1>3. Inserted(w) => NewRow(w) \in EntryRow /\ NewRow(w).period = PeriodOf(w)
  BY NewRowTyped
<1>4. CASE writes[w].entry = draft /\ Inserted(w)
  BY <1>2, <1>3, <1>4
<1>5. CASE writes[w].entry = posted /\ Names(w)
  <2>1. PostedRow(row[w], call[w].actor).period = row[w].period
    BY <1>2, <1>5, CallType, PostedRowType
  <2> QED
    BY <1>2, <1>5, <2>1
<1>6. CASE writes[w].entry = both /\ Names(w) /\ Inserted(w)
  <2>1. PostedRow(NewRow(w), call[w].actor).period = NewRow(w).period
    BY <1>2, <1>3, <1>6, CallType, PostedRowType
  <2>2. ReversedRow(row[w]).period = row[w].period
    BY <1>2, <1>6, ReversedRowType
  <2> QED
    BY <1>2, <1>3, <1>6, <2>1, <2>2
<1>7. CASE Written(w)
  <2>1. /\ call[w].op = "create" => writes[w].entry = draft
        /\ call[w].op = "post" => writes[w].entry = posted \/ writes[w].entry = <<>>
        /\ call[w].op = "reverse" => writes[w].entry = both
        /\ call[w].op \in {"close", "reopen"} => writes[w].entry = <<>>
    BY <1>7, Flushed
  <2>2. /\ call[w].op \in {"create", "reverse"} => Inserted(w)
        /\ call[w].op \in {"post", "reverse"} => Names(w)
    BY <1>7 DEF Inserted, Inserts, Names
  <2> HIDE DEF draft, posted, both
  <2>3. writes[w].entry # <<>>
    OBVIOUS
  <2> QED
    BY <1>2, <1>4, <1>5, <1>6, <2>1, <2>2, <2>3 DEF Op
<1>8. CASE ~Written(w)
  <2>1. stage[w] = "reverse"
    BY <1>1, <1>8 DEF Inserted
  <2>2. writes[w].entry = draft
    BY <2>1, Knows DEF WritesKnown
  <2> HIDE DEF draft
  <2> QED
    BY <1>1, <1>4, <1>8, <2>2
<1> QED
  BY <1>7, <1>8

(* And so is an uncommitted status of a period.                            *)
LEMMA WrittenPeriod ==
  ASSUME TxInv, NEW w \in Worker, NEW p \in DOMAIN writes[w].period
  PROVE  p = PeriodOf(w) /\ OnRow(p, "update") \in locks[w]
<1>1. stage[w] # "idle"
  BY TypesByWorker DEF TxInv, SessionTyped, NoWrites
<1>2. WritesKnown(w)
  BY <1>1, Knows
<1>3. Written(w) \/ Inserted(w)
  BY <1>2 DEF WritesKnown, NoWrites
<1>4. Written(w)
  BY <1>2, <1>3 DEF WritesKnown, Inserted
<1>5. /\ call[w].op \in Op /\ OnRow(PeriodOf(w), "update") \in locks[w]
      /\ ~Names(w) => PeriodOf(w) = call[w].period
  BY <1>4, Writing
<1>6. call[w].op \in {"close", "reopen"}
  <2>1. call[w].op \in {"create", "post", "reverse"} => writes[w].period = <<>>
    BY <1>4, Flushed
  <2> QED
    BY <1>5, <2>1 DEF Op
<1>7. p = call[w].period
  <2>1. writes[w].period = [x \in {call[w].period} |->
                              IF call[w].op = "close" THEN "CLOSED" ELSE "OPEN"]
    BY <1>4, <1>6, Flushed
  <2> QED
    BY <2>1
<1> QED
  BY <1>5, <1>6, <1>7 DEF Names

(* What a transaction has not committed lies in the period it has locked.   *)
LEMMA WritesLocked == TxInv => WritesUnderPeriodLock
BY WrittenEntry, WrittenPeriod DEF WritesUnderPeriodLock

----------------------------------------------------------------------------
(* The commit, operation by operation                                      *)

(* No row overwritten.                                                      *)
LEMMA InstallNothing ==
  ASSUME NEW S, NEW T, NEW f \in [S -> T]
  PROVE  Install(f, <<>>) = f
BY DEF Install

(* What every commit does.                                                 *)
LEMMA Commits ==
  ASSUME TxInv, NEW w \in Worker, Commit(w)
  PROVE  /\ stage[w] = "commit" /\ Written(w)
         /\ period' = Install(period, writes[w].period)
         /\ entry' = Install(entry, writes[w].entry)
         /\ ledger' = ledger \o writes[w].ledger
         /\ audit' = Append(audit, AuditRecord(audit, call[w].actor,
                                               ActionOf(call[w].op), Subject(w)))
         /\ AuditRecord(audit, call[w].actor, ActionOf(call[w].op), Subject(w)) \in AuditRow
         /\ OnRow(Org, "update") \in locks[w]
         /\ Ended(w, "reply", call[w],
                  IF call[w].op \in {"close", "reopen"} THEN None ELSE Subject(w))
<1> DEFINE rec == AuditRecord(audit, call[w].actor, ActionOf(call[w].op), Subject(w))
<1>1. stage[w] = "commit" /\ Written(w) /\ stage[w] # "idle"
  BY DEF Commit, Written
<1>2. /\ WritesKnown(w) /\ TrailLocked(w) /\ CommittedTypes /\ Sessions
  BY <1>1, Knows
<1>3. rec \in AuditRow
  BY <1>1, RecordTyped
<1>4. writes[w].audit = <<rec>>
  BY <1>1, <1>2 DEF WritesKnown
<1>5. audit' = Append(audit, rec)
  <2> HIDE DEF rec
  <2> QED
    BY <1>2, <1>3, <1>4, AppendIsConcat DEF Commit, CommittedTypes
<1>6. Ended(w, "reply", call[w],
            IF call[w].op \in {"close", "reopen"} THEN None ELSE Subject(w))
  BY <1>2 DEF Commit, Answer, Goto, Ended, Sessions
<1> QED
  BY <1>1, <1>2, <1>3, <1>5, <1>6 DEF Commit, TrailLocked

(* create inserts its row, the key of which is still free.                  *)
LEMMA CommitCreate ==
  ASSUME TxInv, NEW w \in Worker, Commit(w), call[w].op = "create"
  PROVE  /\ new[w] \in Entry \ Rows(entry) /\ Inserted(w)
         /\ open[w] /\ Validated(call[w].lines) /\ ~Refused(w)
         /\ entry' = [entry EXCEPT ![new[w]] = NewRow(w)]
         /\ UNCHANGED <<period, ledger>>
<1>1. Written(w) /\ Inserted(w) /\ stage[w] # "idle"
  BY Commits DEF Inserted, Inserts, Written
<1>2. CommittedTypes /\ NewFits(w) /\ Checked(w)
  BY <1>1, Knows
<1>3. /\ writes[w].entry = [x \in {new[w]} |-> NewRow(w)]
      /\ writes[w].period = <<>> /\ writes[w].ledger = <<>>
  BY <1>1, Flushed
<1>4. /\ new[w] \in Entry \ Rows(entry) /\ ~Refused(w)
      /\ open[w] /\ Validated(call[w].lines)
  BY <1>1, <1>2 DEF NewFits, Checked
<1>5. entry' = [entry EXCEPT ![new[w]] = NewRow(w)]
  <2> DEFINE g == writes[w].entry
             b == NewRow(w)
  <2>1. DOMAIN g = {new[w]} /\ g[new[w]] = b
    BY <1>3
  <2>2. entry' = Install(entry, g)
    BY Commits
  <2> HIDE DEF g, b
  <2>3. Install(entry, g) = [entry EXCEPT ![new[w]] = g[new[w]]]
    BY <1>2, <1>4, <2>1 DEF CommittedTypes, Install
  <2> QED
    BY <2>1, <2>2, <2>3 DEF b
<1>6. period' = period
  BY <1>2, <1>3, Commits, InstallNothing DEF CommittedTypes
<1>7. ledger' = ledger
  BY <1>2, <1>3, Commits, ConcatEmptySeq DEF CommittedTypes
<1> QED
  BY <1>1, <1>4, <1>5, <1>6, <1>7

(* post marks the entry and adds its posting, or finds both done.           *)
LEMMA CommitPost ==
  ASSUME TxInv, NEW w \in Worker, Commit(w), call[w].op = "post"
  PROVE  /\ period' = period
         /\ \/ /\ Postable(w)
               /\ entry' = [entry EXCEPT ![call[w].target] =
                              PostedRow(entry[call[w].target], call[w].actor)]
               /\ ledger' = Append(ledger, PostingOf(call[w].target,
                                                     entry[call[w].target]))
            \/ /\ AlreadyPosted(w)
               /\ UNCHANGED <<entry, ledger>>
<1>1. Written(w) /\ stage[w] # "idle" /\ Names(w)
  BY Commits DEF Written, Names
<1>2. CommittedTypes
  BY <1>1, Knows
<1>3. /\ call[w].target \in Entry /\ row[w] = entry[call[w].target] /\ row[w] \in EntryRow
  BY <1>1, Writing
<1>4. period' = period
  <2>1. writes[w].period = <<>>
    BY <1>1, Flushed
  <2> QED
    BY <1>2, <2>1, Commits, InstallNothing DEF CommittedTypes
<1>5. CASE /\ Postable(w)
           /\ writes[w].entry = [x \in {call[w].target} |-> PostedRow(row[w], call[w].actor)]
           /\ writes[w].ledger = <<PostingOf(call[w].target, row[w])>>
  <2>1. entry' = [entry EXCEPT ![call[w].target] = PostedRow(row[w], call[w].actor)]
    <3> DEFINE g == writes[w].entry
               b == PostedRow(row[w], call[w].actor)
               x == call[w].target
    <3>1. DOMAIN g = {x} /\ g[x] = b
      BY <1>5
    <3>2. entry' = Install(entry, g)
      BY Commits
    <3>3. x \in Entry
      BY <1>3
    <3> HIDE DEF g, b, x
    <3>4. Install(entry, g) = [entry EXCEPT ![x] = g[x]]
      BY <1>2, <3>1, <3>3 DEF CommittedTypes, Install
    <3>5. entry' = [entry EXCEPT ![x] = b]
      BY <3>1, <3>2, <3>4
    <3> QED
      BY <3>5 DEF b, x
  <2>2. PostingOf(call[w].target, row[w]) \in Posting
    BY <1>3, PostingOfType
  <2>3. ledger' = Append(ledger, PostingOf(call[w].target, row[w]))
    <3>1. ledger' = ledger \o <<PostingOf(call[w].target, row[w])>>
      BY <1>5, Commits
    <3> QED
      BY <1>2, <2>2, <3>1, AppendIsConcat DEF CommittedTypes
  <2> QED
    BY <1>3, <1>4, <1>5, <2>1, <2>3
<1>6. CASE AlreadyPosted(w) /\ writes[w].entry = <<>> /\ writes[w].ledger = <<>>
  <2>1. entry' = entry
    BY <1>2, <1>6, Commits, InstallNothing DEF CommittedTypes
  <2>2. ledger' = ledger
    BY <1>2, <1>6, Commits, ConcatEmptySeq DEF CommittedTypes
  <2> QED
    BY <1>4, <1>6, <2>1, <2>2
<1> QED
  BY <1>1, <1>5, <1>6, Flushed

(* reverse inserts a posted row and marks the original.                     *)
LEMMA CommitReverse ==
  ASSUME TxInv, NEW w \in Worker, Commit(w), call[w].op = "reverse"
  PROVE  /\ new[w] \in Entry \ Rows(entry) /\ Inserted(w)
         /\ open[w] /\ MayReverse(w) /\ ~Refused(w)
         /\ entry' = [entry EXCEPT ![new[w]] = PostedRow(NewRow(w), call[w].actor),
                                   ![call[w].target] = ReversedRow(entry[call[w].target])]
         /\ ledger' = Append(ledger, PostingOf(new[w], NewRow(w)))
         /\ period' = period
<1>1. Written(w) /\ Inserted(w) /\ stage[w] # "idle" /\ Names(w)
  BY Commits DEF Inserted, Inserts, Written, Names
<1>2. CommittedTypes /\ NewFits(w) /\ Checked(w)
  BY <1>1, Knows
<1>3. /\ call[w].target \in Entry /\ row[w] = entry[call[w].target]
      /\ call[w].target \in Rows(entry)
  BY <1>1, Writing
<1>4. /\ writes[w].entry =
           [x \in {new[w], call[w].target} |->
              IF x = new[w] THEN PostedRow(NewRow(w), call[w].actor)
                            ELSE ReversedRow(row[w])]
      /\ writes[w].period = <<>>
      /\ writes[w].ledger = <<PostingOf(new[w], NewRow(w))>>
  BY <1>1, Flushed
<1>5. /\ new[w] \in Entry \ Rows(entry) /\ ~Refused(w)
      /\ open[w] /\ MayReverse(w)
  BY <1>1, <1>2 DEF NewFits, Checked
<1>6. entry' = [entry EXCEPT ![new[w]] = PostedRow(NewRow(w), call[w].actor),
                             ![call[w].target] = ReversedRow(row[w])]
  <2> DEFINE g == writes[w].entry
             n == new[w]
             x == call[w].target
             b == PostedRow(NewRow(w), call[w].actor)
             d == ReversedRow(row[w])
  <2>1. n \in Entry /\ x \in Entry /\ n # x
    BY <1>3, <1>5
  <2>2. DOMAIN g = {n, x} /\ g[n] = b /\ g[x] = d
    BY <1>4, <2>1
  <2>3. entry' = Install(entry, g)
    BY Commits
  <2> HIDE DEF g, n, x, b, d
  <2>4. Install(entry, g) = [entry EXCEPT ![n] = g[n], ![x] = g[x]]
    BY <1>2, <2>1, <2>2 DEF CommittedTypes, Install
  <2>5. entry' = [entry EXCEPT ![n] = b, ![x] = d]
    BY <2>2, <2>3, <2>4
  <2> QED
    BY <2>5 DEF n, x, b, d
<1>7. period' = period
  BY <1>2, <1>4, Commits, InstallNothing DEF CommittedTypes
<1>8. ledger' = Append(ledger, PostingOf(new[w], NewRow(w)))
  <2>1. PostingOf(new[w], NewRow(w)) \in Posting
    BY <1>1, <1>5, NewRowTyped, PostingOfType
  <2>2. ledger' = ledger \o <<PostingOf(new[w], NewRow(w))>>
    BY <1>4, Commits
  <2> QED
    BY <1>2, <2>1, <2>2, AppendIsConcat DEF CommittedTypes
<1> QED
  BY <1>1, <1>3, <1>5, <1>6, <1>7, <1>8

(* close and reopen write the status of their period.                       *)
LEMMA CommitPeriod ==
  ASSUME TxInv, NEW w \in Worker, Commit(w), call[w].op \in {"close", "reopen"}
  PROVE  /\ call[w].period \in Period
         /\ period' = [period EXCEPT ![call[w].period] =
                         IF call[w].op = "close" THEN "CLOSED" ELSE "OPEN"]
         /\ UNCHANGED <<entry, ledger>>
<1>1. Written(w) /\ stage[w] # "idle"
  BY Commits DEF Written
<1>2. CommittedTypes /\ call[w].period \in Period
  BY <1>1, Knows, CallType
<1>3. /\ writes[w].period = [x \in {call[w].period} |->
                               IF call[w].op = "close" THEN "CLOSED" ELSE "OPEN"]
      /\ writes[w].entry = <<>> /\ writes[w].ledger = <<>>
  BY <1>1, Flushed
<1>4. period' = [period EXCEPT ![call[w].period] =
                   IF call[w].op = "close" THEN "CLOSED" ELSE "OPEN"]
  <2> DEFINE g == writes[w].period
             p == call[w].period
             b == IF call[w].op = "close" THEN "CLOSED" ELSE "OPEN"
  <2>1. DOMAIN g = {p} /\ g[p] = b
    BY <1>3
  <2>2. period' = Install(period, g) /\ p \in Period
    BY <1>2, Commits
  <2> HIDE DEF g, p, b
  <2>3. Install(period, g) = [period EXCEPT ![p] = g[p]]
    BY <1>2, <2>1, <2>2 DEF CommittedTypes, Install
  <2>4. period' = [period EXCEPT ![p] = b]
    BY <2>1, <2>2, <2>3
  <2> QED
    BY <2>4 DEF p, b
<1>5. entry' = entry
  BY <1>2, <1>3, Commits, InstallNothing DEF CommittedTypes
<1>6. ledger' = ledger
  BY <1>2, <1>3, Commits, ConcatEmptySeq DEF CommittedTypes
<1> QED
  BY <1>2, <1>4, <1>5, <1>6

----------------------------------------------------------------------------
(* What a commit changes it had locked                                     *)

(* The rows of the journal that change are locked, and so is their period; *)
(* a new row has the key of the call, and what it refers to is locked.     *)
EntriesConfined(w) ==
  /\ \A e \in Rows(entry) :
       /\ entry'[e] # None
       /\ entry'[e].period = entry[e].period /\ entry'[e].key = entry[e].key
       /\ entry'[e].hash = entry[e].hash /\ entry'[e].reversalOf = entry[e].reversalOf
       /\ entry[e].status # "DRAFT" => entry'[e].status # "DRAFT"
       /\ entry[e].status = "REVERSED" => entry'[e].status = "REVERSED"
       /\ entry'[e] # entry[e] =>
            OnRow(e, "update") \in locks[w] /\ OnRow(entry[e].period, "update") \in locks[w]
  /\ \A e \in Entry \ Rows(entry) : entry'[e] # None =>
       /\ Inserted(w) /\ e = new[w] /\ entry'[e].key = call[w].key
       /\ OnRow(entry'[e].period, "update") \in locks[w]
       /\ entry'[e].reversalOf # None =>
            /\ OnRow(entry'[e].reversalOf, "update") \in locks[w]
            /\ entry'[e].status # "DRAFT"
            /\ entry'[e].reversalOf \in Rows(entry)
            /\ entry'[entry'[e].reversalOf].status = "REVERSED"
       /\ entry'[e].hash = ReverseHash => entry'[e].reversalOf # None

PeriodsConfined(w) ==
  \A p \in Period : period'[p] # period[p] => OnRow(p, "update") \in locks[w]

(* The ledger grows, by postings of new or locked entries in the locked    *)
(* period.                                                                 *)
LedgerConfined(w) ==
  /\ DOMAIN ledger \subseteq DOMAIN ledger'
  /\ \A i \in DOMAIN ledger : ledger'[i] = ledger[i]
  /\ \A i \in DOMAIN ledger' \ DOMAIN ledger :
       /\ OnRow(ledger'[i].period, "update") \in locks[w]
       /\ ledger'[i].entry \notin Rows(entry) \/ OnRow(ledger'[i].entry, "update") \in locks[w]

(* So does the trail, by one record, under the organization's lock.        *)
TrailConfined(w) ==
  /\ DOMAIN audit \subseteq DOMAIN audit'
  /\ \A i \in DOMAIN audit : audit'[i] = audit[i]
  /\ OnRow(Org, "update") \in locks[w]

Confined(w) ==
  EntriesConfined(w) /\ PeriodsConfined(w) /\ LedgerConfined(w) /\ TrailConfined(w)

(* One element more.                                                       *)
LEMMA Appended ==
  ASSUME NEW S, NEW s \in Seq(S), NEW x \in S
  PROVE  /\ Append(s, x) \in Seq(S)
         /\ DOMAIN s \subseteq DOMAIN Append(s, x)
         /\ \A i \in DOMAIN s : Append(s, x)[i] = s[i]
         /\ \A i \in DOMAIN Append(s, x) \ DOMAIN s : Append(s, x)[i] = x
         /\ Append(s, x)[Len(s) + 1] = x /\ Len(s) + 1 \in DOMAIN Append(s, x)
OBVIOUS

(* The trail grows by the record of the call.                              *)
LEMMA TrailOnlyGrows ==
  ASSUME TxInv, NEW w \in Worker, Commit(w)
  PROVE  TrailConfined(w) /\ audit' \in Seq(AuditRow)
<1>1. stage[w] # "idle"
  BY Commits DEF Written
<1>2. audit \in Seq(AuditRow)
  BY <1>1, Knows DEF CommittedTypes
<1> DEFINE rec == AuditRecord(audit, call[w].actor, ActionOf(call[w].op), Subject(w))
<1>3. rec \in AuditRow /\ audit' = Append(audit, rec) /\ OnRow(Org, "update") \in locks[w]
  BY Commits
<1> HIDE DEF rec
<1> QED
  BY <1>2, <1>3, Appended DEF TrailConfined

(* The operations stay within their locks, one by one.                     *)
LEMMA CreateConfined ==
  ASSUME TxInv, NEW w \in Worker, Commit(w), call[w].op = "create"
  PROVE  /\ EntriesConfined(w) /\ PeriodsConfined(w) /\ LedgerConfined(w)
         /\ CommittedTypes'
<1> DEFINE n == new[w]
           r == NewRow(w)
<1>1. /\ Written(w) /\ stage[w] # "idle" /\ ~Names(w)
      /\ n \in Entry \ Rows(entry) /\ Inserted(w)
      /\ entry' = [entry EXCEPT ![n] = r]
      /\ period' = period /\ ledger' = ledger
  BY Commits, CommitCreate DEF Written, Names
<1>2. /\ r \in EntryRow /\ r.key = call[w].key /\ r.period = call[w].period
      /\ r.reversalOf = None /\ r.hash = CreateHash(call[w].period, call[w].lines)
  BY <1>1, NewRowTyped
<1>3. CommittedTypes /\ OnRow(r.period, "update") \in locks[w]
  BY <1>1, <1>2, Knows, Writing
<1>4. r.hash # ReverseHash
  BY <1>2 DEF CreateHash, ReverseHash
<1>5. r # None
  BY <1>2, NoneAssumption
<1> HIDE DEF n, r
<1>6. \A e \in Entry : entry'[e] = IF e = n THEN r ELSE entry[e]
  BY <1>1, <1>3 DEF CommittedTypes
<1>7. EntriesConfined(w)
  BY <1>1, <1>2, <1>3, <1>4, <1>5, <1>6 DEF EntriesConfined, Rows, n
<1>8. CommittedTypes'
  BY <1>1, <1>2, <1>3, TrailOnlyGrows DEF CommittedTypes
<1> QED
  BY <1>1, <1>7, <1>8 DEF PeriodsConfined, LedgerConfined

(* post writes the entry and the period it has locked.                      *)
LEMMA PostConfined ==
  ASSUME TxInv, NEW w \in Worker, Commit(w), call[w].op = "post"
  PROVE  /\ EntriesConfined(w) /\ PeriodsConfined(w) /\ LedgerConfined(w)
         /\ CommittedTypes'
<1> DEFINE x == call[w].target
           r == entry[x]
           q == PostedRow(r, call[w].actor)
           z == PostingOf(x, r)
<1>1. Written(w) /\ stage[w] # "idle" /\ Names(w)
  BY Commits DEF Written, Names
<1>2. /\ x \in Rows(entry) /\ x \in Entry /\ r \in EntryRow /\ row[w] = r
      /\ OnRow(x, "update") \in locks[w] /\ OnRow(r.period, "update") \in locks[w]
      /\ call[w].actor \in Actor
  BY <1>1, Writing, CallType
<1>3. CommittedTypes
  BY <1>1, Knows
<1>4. /\ q \in EntryRow /\ q.status = "POSTED" /\ q.period = r.period
      /\ q.key = r.key /\ q.hash = r.hash /\ q.reversalOf = r.reversalOf
      /\ z \in Posting
  BY <1>2, PostedRowType, PostingOfType
<1>5. q # None
  BY <1>4, NoneAssumption
<1>6. z.period = r.period /\ z.entry = x
  BY DEF PostingOf
<1>7. period' = period
  BY CommitPost
<1>8. CASE Postable(w) /\ entry' = [entry EXCEPT ![x] = q] /\ ledger' = Append(ledger, z)
  <2>1. r.status = "DRAFT"
    BY <1>2, <1>8 DEF Postable
  <2> HIDE DEF x, r, q, z
  <2>2. \A e \in Entry : entry'[e] = IF e = x THEN q ELSE entry[e]
    BY <1>2, <1>3, <1>8 DEF CommittedTypes
  <2>3. EntriesConfined(w)
    BY <1>2, <1>4, <1>5, <2>1, <2>2 DEF EntriesConfined, Rows, r
  <2>4. LedgerConfined(w) /\ ledger' \in Seq(Posting)
    BY <1>2, <1>3, <1>4, <1>6, <1>8, Appended DEF LedgerConfined, CommittedTypes
  <2>5. CommittedTypes'
    BY <1>2, <1>3, <1>4, <1>7, <1>8, <2>4, TrailOnlyGrows DEF CommittedTypes
  <2> QED
    BY <1>7, <2>3, <2>4, <2>5 DEF PeriodsConfined
<1>9. CASE UNCHANGED <<entry, ledger>>
  <2>1. EntriesConfined(w)
    BY <1>9 DEF EntriesConfined, Rows
  <2>2. CommittedTypes'
    BY <1>3, <1>7, <1>9, TrailOnlyGrows DEF CommittedTypes
  <2> QED
    BY <1>7, <1>9, <2>1, <2>2 DEF PeriodsConfined, LedgerConfined
<1> QED
  BY <1>8, <1>9, CommitPost

(* reverse refers to the entry it has locked.                               *)
LEMMA ReverseConfined ==
  ASSUME TxInv, NEW w \in Worker, Commit(w), call[w].op = "reverse"
  PROVE  /\ EntriesConfined(w) /\ PeriodsConfined(w) /\ LedgerConfined(w)
         /\ CommittedTypes'
<1> DEFINE n == new[w]
           x == call[w].target
           d == NewRow(w)
           q == PostedRow(d, call[w].actor)
           r == entry[x]
           m == ReversedRow(r)
           z == PostingOf(n, d)
<1>1. Written(w) /\ stage[w] # "idle" /\ Names(w) /\ Inserted(w)
  BY Commits DEF Written, Names, Inserted, Inserts
<1>2. /\ x \in Rows(entry) /\ x \in Entry /\ r \in EntryRow /\ row[w] = r
      /\ OnRow(x, "update") \in locks[w] /\ OnRow(r.period, "update") \in locks[w]
      /\ call[w].actor \in Actor
  BY <1>1, Writing, CallType
<1>3. CommittedTypes
  BY <1>1, Knows
<1>4. /\ d \in EntryRow /\ d.period = r.period /\ d.key = call[w].key
      /\ d.reversalOf = x
  BY <1>1, <1>2, NewRowTyped
<1>5. /\ n \in Entry \ Rows(entry) /\ MayReverse(w) /\ period' = period
      /\ entry' = [entry EXCEPT ![n] = q, ![x] = m] /\ ledger' = Append(ledger, z)
  BY CommitReverse
<1>6. /\ q \in EntryRow /\ q.status = "POSTED" /\ q.period = r.period
      /\ q.key = call[w].key /\ q.reversalOf = x /\ z \in Posting
      /\ z.period = r.period /\ z.entry = n
  BY <1>2, <1>4, <1>5, PostedRowType, PostingOfType DEF PostingOf
<1>7. /\ m \in EntryRow /\ m.status = "REVERSED" /\ m.period = r.period
      /\ m.key = r.key /\ m.hash = r.hash /\ m.reversalOf = r.reversalOf
  BY <1>2, ReversedRowType
<1>8. q # None /\ m # None /\ x # None
  BY <1>2, <1>6, <1>7, NoneAssumption
<1> HIDE DEF n, x, d, q, r, m, z
<1>9. \A e \in Entry : entry'[e] = IF e = x THEN m ELSE IF e = n THEN q ELSE entry[e]
  BY <1>2, <1>3, <1>5 DEF CommittedTypes
<1>10. EntriesConfined(w)
  <2>1. \A e \in Rows(entry) : entry'[e] = IF e = x THEN m ELSE entry[e]
    BY <1>5, <1>9 DEF Rows
  <2>2. \A e \in Entry \ Rows(entry) : entry'[e] = IF e = n THEN q ELSE None
    BY <1>2, <1>9 DEF Rows
  <2>3. r = entry[x] /\ n = new[w] /\ x \in Rows(entry') /\ entry'[x] = m
    BY <1>2, <1>8, <2>1 DEF r, n, Rows
  <2>4. \A e \in Rows(entry) : entry[e] # None /\ e \in Entry
    BY DEF Rows
  <2> QED
    BY <1>1, <1>2, <1>6, <1>7, <1>8, <2>1, <2>2, <2>3, <2>4 DEF EntriesConfined
<1>11. LedgerConfined(w) /\ ledger' \in Seq(Posting)
  BY <1>2, <1>3, <1>5, <1>6, Appended DEF LedgerConfined, CommittedTypes
<1>12. entry' \in [Entry -> EntryRow \cup {None}]
  BY <1>2, <1>3, <1>5, <1>6, <1>7 DEF CommittedTypes
<1>13. CommittedTypes'
  BY <1>3, <1>5, <1>11, <1>12, TrailOnlyGrows DEF CommittedTypes
<1> QED
  BY <1>5, <1>10, <1>11, <1>13 DEF PeriodsConfined

(* close and reopen write the period they have locked.                      *)
LEMMA PeriodConfined ==
  ASSUME TxInv, NEW w \in Worker, Commit(w), call[w].op \in {"close", "reopen"}
  PROVE  /\ EntriesConfined(w) /\ PeriodsConfined(w) /\ LedgerConfined(w)
         /\ CommittedTypes'
<1>1. Written(w) /\ stage[w] # "idle" /\ ~Names(w)
  BY Commits DEF Written, Names
<1>2. CommittedTypes /\ OnRow(call[w].period, "update") \in locks[w]
  BY <1>1, Knows, Writing
<1>3. /\ call[w].period \in Period /\ UNCHANGED <<entry, ledger>>
      /\ period' = [period EXCEPT ![call[w].period] =
                      IF call[w].op = "close" THEN "CLOSED" ELSE "OPEN"]
  BY CommitPeriod
<1>4. PeriodsConfined(w) /\ period' \in [Period -> PeriodStatus]
  BY <1>2, <1>3 DEF PeriodsConfined, CommittedTypes, PeriodStatus
<1>5. EntriesConfined(w) /\ LedgerConfined(w)
  BY <1>3 DEF EntriesConfined, LedgerConfined, Rows
<1>6. CommittedTypes'
  BY <1>2, <1>3, <1>4, TrailOnlyGrows DEF CommittedTypes
<1> QED
  BY <1>4, <1>5, <1>6

(* So does every commit.                                                   *)
LEMMA CommitConfined ==
  ASSUME TxInv, NEW w \in Worker, Commit(w)
  PROVE  Confined(w) /\ CommittedTypes'
<1>1. stage[w] # "idle"
  BY Commits DEF Written
<1>2. call[w].op \in Op
  BY <1>1, Knows
<1> QED
  BY <1>2, TrailOnlyGrows, CreateConfined, PostConfined, ReverseConfined, PeriodConfined
     DEF Op, Confined

----------------------------------------------------------------------------
(* What the others know of their locked rows                               *)

(* The answers a close relies on depend on its period only.                *)
LEMMA SettledStays ==
  ASSUME NEW w \in Worker, Confined(w), NEW p, OnRow(p, "update") \notin locks[w]
  PROVE  /\ Drafts(entry', p) = Drafts(entry, p)
         /\ Reconciled(entry', ledger', p) <=> Reconciled(entry, ledger, p)
         /\ TrialBalanced(ledger', p) <=> TrialBalanced(ledger, p)
<1>1. EntriesConfined(w) /\ LedgerConfined(w)
  BY DEF Confined
<1>2. \A e \in Rows(entry) :
        /\ e \in Rows(entry') /\ entry'[e].period = entry[e].period
        /\ entry[e].period = p => entry'[e] = entry[e]
  BY <1>1 DEF EntriesConfined, Rows
<1>3. \A e \in Rows(entry') : entry'[e].period = p => e \in Rows(entry)
  BY <1>1 DEF EntriesConfined, Rows
<1>4. Drafts(entry', p) = Drafts(entry, p)
  BY <1>2, <1>3 DEF Drafts
<1>5. /\ Expected(entry', p) = Expected(entry, p)
      /\ \A e \in Expected(entry, p) : entry'[e] = entry[e]
  BY <1>2, <1>3 DEF Expected
<1>6. /\ PostingsIn(ledger', p) = PostingsIn(ledger, p)
      /\ \A i \in PostingsIn(ledger, p) : ledger'[i] = ledger[i]
  BY <1>1 DEF LedgerConfined, PostingsIn
<1>7. /\ Missing(entry', ledger', p) = Missing(entry, ledger, p)
      /\ Orphans(entry', ledger', p) = Orphans(entry, ledger, p)
      /\ Mismatched(entry', ledger', p) = Mismatched(entry, ledger, p)
  BY <1>5, <1>6 DEF Missing, Orphans, Mismatched
<1>8. [i \in PostingsIn(ledger', p) |-> Net[ledger'[i].lines]] =
        [i \in PostingsIn(ledger, p) |-> Net[ledger[i].lines]]
  BY <1>6
<1>9. Imbalance(ledger', p) = Imbalance(ledger, p)
  BY <1>8 DEF Imbalance
<1> QED
  BY <1>4, <1>7, <1>9 DEF Reconciled, TrialBalanced

(* A lock of one worker is no lock of another.                             *)
LEMMA LockedByOne ==
  ASSUME TxInv, NEW w \in Worker, NEW v \in Worker \ {w}, NEW r,
         OnRow(r, "update") \in locks[w]
  PROVE  OnRow(r, "update") \notin locks[v]
BY DEF TxInv, LocksApart, Conflict, OnRow

(* So a commit takes nothing from what the other workers know.             *)
LEMMA OthersKeep ==
  ASSUME TxInv, NEW w \in Worker, Commit(w), NEW v \in Worker \ {w}, Kept(v)
  PROVE  WorkerInv(v)'
<1>1. CASE stage[v] = "idle"
  BY <1>1 DEF WorkerInv, Kept
<1>2. CASE stage[v] # "idle"
  <2>1. Confined(w) /\ CommittedTypes'
    BY CommitConfined
  <2>2. EntriesConfined(w) /\ PeriodsConfined(w) /\ LedgerConfined(w) /\ TrailConfined(w)
    BY <2>1 DEF Confined
  <2>3. \A r : OnRow(r, "update") \in locks[w] => OnRow(r, "update") \notin locks[v]
    BY LockedByOne
  <2>4. /\ call[v] \in Calls /\ call[v].op \in Op /\ CommittedTypes
        /\ stage[v] \in StagesOf(call[v].op)
        /\ Found(v) /\ PeriodLoaded(v) /\ EntryLoaded(v) /\ TrailLocked(v)
        /\ Checked(v) /\ NewFits(v) /\ WritesKnown(v)
    BY <1>2, Knows
  <2>5. (stage[v] \in StagesOf(call[v].op))' /\ TrailLocked(v)'
    BY <2>4 DEF StagesOf, Kept, TrailLocked
  <2>6. Found(v)'
    BY <2>2, <2>4 DEF Found, Kept, Names, EntriesConfined, Rows
  <2>7. Working(v) => PeriodOf(v)' = PeriodOf(v) /\ PeriodOf(v) \in Period
    <3>1. SUFFICES ASSUME Working(v)
                   PROVE  PeriodOf(v)' = PeriodOf(v) /\ PeriodOf(v) \in Period
      OBVIOUS
    <3>2. stage[v] \notin {"idle", "find", "reply"}
      BY <1>2, <3>1 DEF Working
    <3>3. PeriodOf(v) \in Period /\ (Names(v) => call[v].target \in Rows(entry))
      BY <3>2, PeriodKnown
    <3> QED
      BY <2>2, <3>3 DEF PeriodOf, Kept, Names, EntriesConfined
  <2>8. PeriodLoaded(v)'
    <3>1. SUFFICES ASSUME Working(v)
                   PROVE  /\ OnRow(PeriodOf(v), "update") \in locks[v]
                          /\ open[v] <=> period'[PeriodOf(v)] = "OPEN"
      BY <2>7 DEF PeriodLoaded, Kept, Working
    <3>2. /\ OnRow(PeriodOf(v), "update") \in locks[v]
          /\ open[v] <=> period[PeriodOf(v)] = "OPEN"
      BY <2>4, <3>1 DEF PeriodLoaded
    <3> QED
      BY <2>2, <2>3, <2>7, <3>1, <3>2 DEF PeriodsConfined
  <2>9. EntryLoaded(v)'
    <3>1. SUFFICES ASSUME Loaded(v)
                   PROVE  /\ OnRow(call[v].target, "update") \in locks[v]
                          /\ row[v] = entry'[call[v].target]
      BY DEF EntryLoaded, Kept, Loaded, Working, Names
    <3>2. /\ OnRow(call[v].target, "update") \in locks[v] /\ row[v] = entry[call[v].target]
          /\ call[v].target \in Rows(entry)
      BY <1>2, <2>4, <3>1 DEF EntryLoaded, Loaded, Found, Working
    <3> QED
      BY <2>2, <2>3, <3>2 DEF EntriesConfined
  <2>10. Checked(v)'
    <3>1. (call[v].op = "close" /\ (stage[v] = "reconcile" \/ Written(v))) =>
            LET p == call[v].period IN
              /\ Drafts(entry', p) = Drafts(entry, p)
              /\ Reconciled(entry', ledger', p) <=> Reconciled(entry, ledger, p)
              /\ TrialBalanced(ledger', p) <=> TrialBalanced(ledger, p)
      <4>1. SUFFICES ASSUME call[v].op = "close", stage[v] = "reconcile" \/ Written(v)
                     PROVE  OnRow(call[v].period, "update") \notin locks[w]
        BY <2>1, SettledStays
      <4>2. Working(v) /\ PeriodOf(v) = call[v].period
        BY <4>1 DEF Working, Written, PeriodOf
      <4> QED
        BY <2>3, <2>4, <4>2 DEF PeriodLoaded
    <3>2. Written(v)' = Written(v) /\ Inserted(v)' = Inserted(v)
          /\ MayReverse(v)' = MayReverse(v)
      BY DEF Written, Inserted, MayReverse, Kept
    <3> QED
      BY <2>4, <3>1, <3>2 DEF Checked, Kept
  <2>11. NewFits(v)'
    <3>1. SUFFICES ASSUME Inserted(v)
                   PROVE  new[v] \in Entry \ Rows(entry') /\ ~Refused(v)'
      BY DEF NewFits, Inserted, Written, Kept
    <3>2. new[v] \in Entry \ Rows(entry) /\ ~Refused(v)
      BY <2>4, <3>1 DEF NewFits
    <3>3. Inserted(w) => new[v] # new[w] /\ call[v].key # call[w].key
      BY <3>1 DEF TxInv, InsertsApart
    <3>4. new[v] \notin Rows(entry')
      BY <2>2, <3>2, <3>3 DEF EntriesConfined, Rows
    <3>5. KeyHolders(entry', call[v].key) = {}
      BY <2>2, <3>2, <3>3 DEF EntriesConfined, Rows, Refused, KeyHolders
    <3>6. call[v].op = "reverse" => ReversalsOf(entry', call[v].target) = {}
      <4>1. SUFFICES ASSUME call[v].op = "reverse"
                     PROVE  ReversalsOf(entry', call[v].target) = {}
        OBVIOUS
      <4>2. OnRow(call[v].target, "update") \notin locks[w] /\ call[v].target # None
        BY <2>3, <3>1, <4>1, Writing, NoneAssumption DEF Names
      <4> QED
        BY <2>2, <3>2, <4>1, <4>2 DEF EntriesConfined, Rows, Refused, ReversalsOf
    <3> QED
      BY <3>2, <3>4, <3>5, <3>6 DEF Refused, Kept
  <2>12. WritesKnown(v)'
    <3>1. /\ NewRow(v)' = NewRow(v) /\ Subject(v)' = Subject(v)
          /\ Written(v)' = Written(v) /\ Inserted(v)' = Inserted(v)
      BY DEF NewRow, Subject, Written, Inserted, Kept
    <3>2. stage[v] # "commit"
      BY <2>2, <2>3, <2>4 DEF TrailLocked, TrailConfined
    <3>3. (call[v].op = "post" /\ Written(v)) =>
             Postable(v)' = Postable(v) /\ AlreadyPosted(v)' = AlreadyPosted(v)
      <4>1. SUFFICES ASSUME call[v].op = "post", Written(v)
                     PROVE  Postable(v)' = Postable(v) /\ AlreadyPosted(v)' = AlreadyPosted(v)
        OBVIOUS
      <4>2. /\ call[v].target \in Rows(entry)
            /\ OnRow(call[v].target, "update") \notin locks[w]
        BY <2>3, <4>1, Writing DEF Names
      <4>3. HasPostings(ledger', call[v].target) <=> HasPostings(ledger, call[v].target)
        BY <2>2, <4>2 DEF LedgerConfined, HasPostings
      <4> QED
        BY <4>3 DEF Postable, AlreadyPosted, Kept
    <3> QED
      BY <2>4, <3>1, <3>2, <3>3 DEF WritesKnown, Kept
  <2> QED
    BY <2>5, <2>6, <2>8, <2>9, <2>10, <2>11, <2>12 DEF WorkerInv
<1> QED
  BY <1>1, <1>2

----------------------------------------------------------------------------
(* The commit                                                              *)

(* Reversals keep their originals.                                         *)
LEMMA CommitKeepsRows ==
  ASSUME TxInv, NEW w \in Worker, Commit(w)
  PROVE  RowsLinked'
<1>1. EntriesConfined(w)
  BY CommitConfined DEF Confined
<1>2. RowsLinked
  BY DEF TxInv
<1>3. Rows(entry) \subseteq Rows(entry')
  BY <1>1 DEF EntriesConfined, Rows
<1> SUFFICES ASSUME NEW e \in Rows(entry')
             PROVE  /\ entry'[e].reversalOf # None =>
                         /\ entry'[e].status # "DRAFT"
                         /\ entry'[e].reversalOf \in Rows(entry')
                         /\ entry'[entry'[e].reversalOf].status = "REVERSED"
                    /\ entry'[e].hash = ReverseHash => entry'[e].reversalOf # None
  BY DEF RowsLinked
<1>4. CASE e \in Rows(entry)
  BY <1>1, <1>2, <1>3, <1>4 DEF EntriesConfined, RowsLinked
<1>5. CASE e \notin Rows(entry)
  BY <1>1, <1>3, <1>5 DEF EntriesConfined, Rows
<1> QED
  BY <1>4, <1>5

(* What was answered stays true.                                           *)
LEMMA AnswersStay ==
  ASSUME TxInv, NEW w \in Worker, Commit(w), NEW v \in Worker, Kept(v)
  PROVE  AnswerTrue(v)'
<1>1. EntriesConfined(w) /\ TrailConfined(w)
  BY CommitConfined DEF Confined
<1>2. AnswerTrue(v)
  BY AnswersByWorker DEF TxInv
<1> SUFFICES ASSUME stage[v] = "reply", call[v].op \in {"create", "post", "reverse"}
             PROVE  AnswerTrue(v)'
  BY DEF AnswerTrue, Kept
<1> DEFINE e == answer[v]
<1>3. e \in Rows(entry)
  BY <1>2 DEF AnswerTrue
<1>4. /\ e \in Rows(entry') /\ entry'[e].key = entry[e].key /\ entry'[e].hash = entry[e].hash
      /\ entry'[e].reversalOf = entry[e].reversalOf
      /\ entry[e].status # "DRAFT" => entry'[e].status # "DRAFT"
  BY <1>1, <1>3 DEF EntriesConfined, Rows
<1>5. call[v].op = "reverse" =>
        /\ entry'[e].key = call[v].key
        /\ entry'[e].status # "DRAFT"
        /\ entry'[e].reversalOf \in Rows(entry')
        /\ entry'[entry'[e].reversalOf].status = "REVERSED"
  BY <1>1, <1>2, <1>4 DEF AnswerTrue, EntriesConfined, Rows
<1>6. call[v].op = "create" =>
        /\ entry'[e].key = call[v].key
        /\ entry'[e].hash = CreateHash(call[v].period, call[v].lines)
  BY <1>2, <1>4 DEF AnswerTrue
<1>7. call[v].op = "post" =>
        /\ e = call[v].target
        /\ entry'[e].status # "DRAFT"
        /\ \E i \in DOMAIN audit' :
             /\ audit'[i].action = "JOURNAL_ENTRY_POSTED"
             /\ audit'[i].subject = e
             /\ audit'[i].actor = call[v].actor
  BY <1>1, <1>2, <1>4 DEF AnswerTrue, TrailConfined
<1> HIDE DEF e
<1>8. answer'[v] = e /\ call'[v] = call[v]
  BY DEF Kept, e
<1> QED
  BY <1>4, <1>5, <1>6, <1>7, <1>8 DEF AnswerTrue

(* A commit is answered truly.                                             *)
LEMMA CommitAnswers ==
  ASSUME TxInv, NEW w \in Worker, Commit(w)
  PROVE  AnswerTrue(w)'
<1>1. /\ Written(w) /\ stage[w] # "idle"
      /\ audit' = Append(audit, AuditRecord(audit, call[w].actor,
                                            ActionOf(call[w].op), Subject(w)))
      /\ AuditRecord(audit, call[w].actor, ActionOf(call[w].op), Subject(w)) \in AuditRow
      /\ Ended(w, "reply", call[w],
               IF call[w].op \in {"close", "reopen"} THEN None ELSE Subject(w))
  BY Commits DEF Written
<1>2. CommittedTypes /\ Sessions /\ call[w] \in Calls
  BY <1>1, Knows
<1>3. /\ call'[w] = call[w]
      /\ answer'[w] = IF call[w].op \in {"close", "reopen"} THEN None ELSE Subject(w)
  <2> DEFINE a == IF call[w].op \in {"close", "reopen"} THEN None ELSE Subject(w)
  <2>1. Ended(w, "reply", call[w], a)
    BY <1>1
  <2> HIDE DEF a
  <2>2. call'[w] = call[w] /\ answer'[w] = a
    BY <1>2, <2>1, EndEffect
  <2> QED
    BY <2>2 DEF a
<1>4. CASE call[w].op = "create"
  <2> DEFINE n == new[w]
             r == NewRow(w)
  <2>1. /\ n \in Entry /\ entry' = [entry EXCEPT ![n] = r]
        /\ Inserted(w)
    BY <1>4, CommitCreate
  <2>2. /\ r \in EntryRow /\ r.key = call[w].key
        /\ r.hash = CreateHash(call[w].period, call[w].lines)
    BY <1>4, <2>1, NewRowTyped
  <2>3. r # None /\ answer'[w] = n
    BY <1>3, <1>4, <2>2, NoneAssumption DEF Subject
  <2> HIDE DEF n, r
  <2>4. entry'[n] = r
    BY <1>2, <2>1 DEF CommittedTypes
  <2> QED
    BY <1>3, <1>4, <2>1, <2>2, <2>3, <2>4 DEF AnswerTrue, Rows
<1>5. CASE call[w].op = "post"
  <2> DEFINE x == call[w].target
             q == PostedRow(entry[x], call[w].actor)
             rec == AuditRecord(audit, call[w].actor, ActionOf(call[w].op), Subject(w))
  <2>1. x \in Entry /\ x \in Rows(entry) /\ entry[x] \in EntryRow /\ row[w] = entry[x]
        /\ call[w].actor \in Actor
    BY <1>1, <1>2, <1>5, Writing, CallType DEF Names
  <2>2. q \in EntryRow /\ q.status = "POSTED" /\ q # None
    BY <2>1, PostedRowType, NoneAssumption
  <2>3. entry' = [entry EXCEPT ![x] = q] \/ (entry' = entry /\ row[w].status = "POSTED")
    BY <1>5, CommitPost DEF AlreadyPosted
  <2>4. rec.action = "JOURNAL_ENTRY_POSTED" /\ rec.subject = x /\ rec.actor = call[w].actor
    BY <1>5 DEF AuditRecord, ActionOf, Subject
  <2>5. answer'[w] = x
    BY <1>3, <1>5 DEF Subject
  <2>6. audit' = Append(audit, rec) /\ rec \in AuditRow /\ audit \in Seq(AuditRow)
    BY <1>1, <1>2 DEF CommittedTypes
  <2> HIDE DEF x, q, rec
  <2>7. x \in Rows(entry') /\ entry'[x].status # "DRAFT"
    BY <1>2, <2>1, <2>2, <2>3 DEF CommittedTypes, Rows
  <2>8. \E i \in DOMAIN audit' : audit'[i] = rec
    BY <2>6, Appended
  <2>9. call[w].target = x
    BY DEF x
  <2> QED
    BY <1>3, <1>5, <2>4, <2>5, <2>7, <2>8, <2>9 DEF AnswerTrue
<1>6. CASE call[w].op = "reverse"
  <2> DEFINE n == new[w]
             x == call[w].target
             q == PostedRow(NewRow(w), call[w].actor)
             m == ReversedRow(entry[x])
  <2>1. /\ x \in Entry /\ x \in Rows(entry) /\ entry[x] \in EntryRow
        /\ call[w].actor \in Actor
    BY <1>1, <1>2, <1>6, Writing, CallType DEF Names
  <2>2. /\ n \in Entry \ Rows(entry) /\ Inserted(w)
        /\ entry' = [entry EXCEPT ![n] = q, ![x] = m]
    BY <1>6, CommitReverse
  <2>3. /\ NewRow(w) \in EntryRow /\ NewRow(w).key = call[w].key
        /\ NewRow(w).reversalOf = x
    BY <1>6, <2>2, NewRowTyped
  <2>4. /\ q \in EntryRow /\ q.status = "POSTED" /\ q.key = call[w].key
        /\ q.reversalOf = x /\ q # None
    BY <2>1, <2>3, PostedRowType, NoneAssumption
  <2>5. m \in EntryRow /\ m.status = "REVERSED" /\ m # None
    BY <2>1, ReversedRowType, NoneAssumption
  <2>6. answer'[w] = n
    BY <1>3, <1>6 DEF Subject
  <2> HIDE DEF n, x, q, m
  <2>7. entry'[n] = q /\ entry'[x] = m
    BY <1>2, <2>1, <2>2 DEF CommittedTypes
  <2> QED
    BY <1>3, <1>6, <2>1, <2>2, <2>4, <2>5, <2>6, <2>7 DEF AnswerTrue, Rows
<1>7. CASE call[w].op \notin {"create", "post", "reverse"}
  BY <1>3, <1>7 DEF AnswerTrue
<1> QED
  BY <1>4, <1>5, <1>6, <1>7

(* So the commit keeps the invariant.                                      *)
LEMMA CommitKeeps ==
  ASSUME TxInv, NEW w \in Worker, Commit(w)
  PROVE  TxInv'
<1> DEFINE a == IF call[w].op \in {"close", "reopen"} THEN None ELSE Subject(w)
<1>1. stage[w] # "idle" /\ Written(w) /\ Ended(w, "reply", call[w], a)
  BY Commits DEF Written
<1>2. /\ call[w] \in Calls /\ Sessions /\ SessionTyped(w) /\ NewFits(w)
  BY <1>1, Knows
<1>3. a \in Entry \cup {None}
  BY <1>1, <1>2, CallType DEF Subject, NewFits, Inserted, Inserts, Op
<1> HIDE DEF a
<1>4. Sessions' /\ \A v \in Worker \ {w} : Kept(v)
  BY <1>1, <1>2, EndEffect
<1>5. /\ \A v \in Worker : SessionTyped(v)'
      /\ LocksApart' /\ InsertsApart' /\ WorkerInv(w)'
  <2> DEFINE s == "reply"
             c == call[w]
  <2>1. /\ s \in {"idle", "reply"} /\ c = IF s = "idle" THEN None ELSE call[w]
        /\ Ended(w, s, c, a)
    BY <1>1
  <2> HIDE DEF s, c
  <2> QED
    BY <1>1, <1>3, <2>1, EndFrees
<1>6. TypeOK'
  <2>1. CommittedTypes'
    BY CommitConfined
  <2>2. active' \subseteq Account
    BY TypesByWorker DEF TxInv, Commit
  <2> QED
    BY <1>4, <1>5, <2>1, <2>2, NextTypesByWorker
<1>7. \A v \in Worker : WorkerInv(v)'
  BY <1>4, <1>5, OthersKeep
<1>8. AnswersTrue'
  <2>1. \A v \in Worker : AnswerTrue(v)'
    BY <1>4, AnswersStay, CommitAnswers
  <2> QED
    BY <2>1 DEF AnswersTrue, AnswerTrue
<1> QED
  BY <1>4, <1>5, <1>6, <1>7, <1>8, CommitKeepsRows DEF TxInv

----------------------------------------------------------------------------
(* The invariant                                                           *)

(* At first there are no rows, and every worker is idle.                   *)
LEMMA InitTxInv == Init => TxInv
<1> SUFFICES ASSUME Init PROVE TxInv
  OBVIOUS
<1>1. /\ period = [p \in Period |-> "OPEN"] /\ entry = [e \in Entry |-> None]
      /\ ledger = <<>> /\ audit = <<>>
  BY DEF Init, Books!Init
<1>2. CommittedTypes
  BY <1>1 DEF CommittedTypes, PeriodStatus
<1>3. /\ \A w \in Worker : /\ stage[w] = "idle" /\ call[w] = None /\ open[w] = FALSE
                           /\ row[w] = None /\ new[w] = None /\ answer[w] = None
                           /\ writes[w] = NoWrites /\ locks[w] = {}
      /\ active \subseteq Account
  BY DEF Init
<1>4. Sessions
  BY <1>3 DEF Init, Sessions, NoWrites
<1>5. \A w \in Worker : SessionTyped(w)
  <2>1. WritesTyped(<<>>, <<>>, <<>>, <<>>)
    BY DEF WritesTyped
  <2>2. \A w \in Worker : WritesTyped(writes[w].period, writes[w].entry,
                                      writes[w].ledger, writes[w].audit)
    BY <1>3, <2>1 DEF NoWrites
  <2> QED
    BY <1>3, <2>2 DEF SessionTyped, Stage
<1>6. TypeOK
  BY <1>2, <1>3, <1>4, <1>5, TypesByWorker
<1>7. LocksApart /\ InsertsApart
  BY <1>3 DEF LocksApart, InsertsApart, Inserted, Written
<1>8. RowsLinked
  BY <1>1 DEF RowsLinked, Rows
<1>9. (\A w \in Worker : WorkerInv(w)) /\ AnswersTrue
  BY <1>3 DEF WorkerInv, AnswersTrue
<1> QED
  BY <1>4, <1>6, <1>7, <1>8, <1>9 DEF TxInv

(* Who waits has a statement to wait with.                                 *)
LEMMA WaitersServe ==
  ASSUME NEW w \in Worker, InWaitCycle(w)
  PROVE  stage[w] \in {"period", "entry", "insert", "post", "organization"}
<1>1. Rivals(w) # {}
  BY DEF InWaitCycle
<1>2. stage[w] = "insert" \/ Wants(w) # {}
  BY <1>1 DEF Rivals, Holders
<1> QED
  BY <1>2 DEF Wants

(* Every statement keeps the invariant.                                    *)
LEMMA StepKeeps ==
  ASSUME TxInv, NEW w \in Worker, Step(w)
  PROVE  TxInv'
<1>1. CASE FindEntry(w) \/ LockPeriod(w) \/ LockEntry(w) \/ FindKey(w) \/ CheckAccounts(w)
  BY <1>1, FindEntryKeeps, LockPeriodKeeps, LockEntryKeeps, FindKeyKeeps, CheckAccountsKeeps
<1>2. CASE InsertEntry(w) \/ InsertRefused(w) \/ Replay(w) \/ PostEntry(w) \/ PostNothing(w)
  BY <1>2, InsertEntryKeeps, InsertRefusedKeeps, ReplayKeeps, PostEntryKeeps, PostNothingKeeps
<1>3. CASE CheckReversal(w) \/ PostReversal(w) \/ CountDrafts(w) \/ ReconcileAndClose(w)
             \/ Reopen(w)
  BY <1>3, CheckReversalKeeps, PostReversalKeeps, CountDraftsKeeps, ReconcileAndCloseKeeps,
     ReopenKeeps
<1>4. CASE LockOrganization(w) \/ AppendAudit(w) \/ Commit(w)
  BY <1>4, LockOrganizationKeeps, AppendAuditKeeps, CommitKeeps
<1>5. CASE Deliver(w)
  <2>1. stage[w] # "idle" /\ Abort(w) /\ UNCHANGED <<committed, active>>
    BY <1>5 DEF Deliver
  <2> QED
    BY <2>1, AbortKeeps
<1> QED
  BY <1>1, <1>2, <1>3, <1>4, <1>5 DEF Step

(* So does every step.                                                     *)
LEMMA NextTxInv == TxInv /\ [Next]_vars => TxInv'
<1> SUFFICES ASSUME TxInv, [Next]_vars PROVE TxInv'
  OBVIOUS
<1>1. ASSUME NEW w \in Worker, Begin(w) PROVE TxInv'
  BY <1>1, BeginKeeps
<1>2. ASSUME NEW w \in Worker, Step(w) PROVE TxInv'
  BY <1>2, StepKeeps
<1>3. ASSUME NEW w \in Worker, CutOff(w) PROVE TxInv'
  <2>1. stage[w] # "idle" /\ Abort(w) /\ UNCHANGED <<committed, active>>
    BY <1>3 DEF CutOff
  <2> QED
    BY <2>1, AbortKeeps
<1>4. ASSUME NEW w \in Worker, DeadlockVictim(w) PROVE TxInv'
  <2>1. stage[w] # "idle" /\ Abort(w) /\ UNCHANGED <<committed, active>>
    BY <1>4, WaitersServe DEF DeadlockVictim
  <2> QED
    BY <2>1, AbortKeeps
<1>5. active \subseteq Account
  BY TypesByWorker DEF TxInv
<1>6. ASSUME NEW a \in Account, FlagAccount(a) PROVE TxInv'
  <2>1. (active \subseteq Account)' /\ UNCHANGED <<committed, session>>
    BY <1>5, <1>6 DEF FlagAccount
  <2> QED
    BY <2>1, FlagKeeps
<1>7. ASSUME UNCHANGED vars PROVE TxInv'
  <2>1. (active \subseteq Account)' /\ UNCHANGED <<committed, session>>
    BY <1>5, <1>7 DEF vars
  <2> QED
    BY <2>1, FlagKeeps
<1> QED
  BY <1>1, <1>2, <1>3, <1>4, <1>6, <1>7 DEF Next, Rest

(* At every moment, whatever the interleaving, the cuts and the deadlocks, *)
(* each worker knows what it has checked.                                  *)
THEOREM TxInvariant == Spec => []TxInv
BY InitTxInv, NextTxInv, PTL DEF Spec

(* TypeOK: the tables and the sessions are well formed.                    *)
THEOREM TxTypes == Spec => []TypeOK
<1>1. TxInv => TypeOK
  BY DEF TxInv
<1> QED
  BY <1>1, TxInvariant, PTL

(* WritesUnderPeriodLock: the rows a transaction has flushed and not       *)
(* committed are in periods it has locked.                                 *)
THEOREM FlushesUnderPeriodLock == Spec => []WritesUnderPeriodLock
BY TxInvariant, WritesLocked, PTL

(* AnswersTrue: what an operation answers is in the tables.                *)
THEOREM SuccessIsTrue == Spec => []AnswersTrue
<1>1. TxInv => AnswersTrue
  BY DEF TxInv
<1> QED
  BY <1>1, TxInvariant, PTL

----------------------------------------------------------------------------
(* Deadlocks                                                               *)

(* Locks are taken in one order, period, entry, organization, and the      *)
(* first two by one statement each.                                        *)
LocksOrdered(w) ==
  \A l \in locks[w] :
    /\ Working(w)
    /\ \/ l.row \in Period
       \/ l.row \in Entry /\ Loaded(w)
       \/ l.row = Org /\ (Written(w) \/ stage[w] = "reverse")

(* What a step of w does to its locks: it gives them up, or goes on with   *)
(* them and those the statement wants.                                     *)
LocksMove(w) ==
  \/ locks'[w] = {}
  \/ /\ stage[w] \notin {"idle", "commit", "reply", "replay"}
     /\ stage'[w] = After(call[w].op, stage[w]) /\ call'[w] = call[w]
     /\ locks'[w] \subseteq locks[w] \cup Wants(w)

(* No statement does anything else, and none to the locks of others.       *)
LEMMA StepsMoveLocks ==
  ASSUME TxInv, NEW w \in Worker, Begin(w) \/ Step(w) \/ CutOff(w) \/ DeadlockVictim(w)
  PROVE  /\ LocksMove(w)
         /\ \A v \in Worker \ {w} : stage'[v] = stage[v] /\ call'[v] = call[v]
                                    /\ locks'[v] = locks[v]
<1>1. Sessions
  BY DEF TxInv
<1>2. stage[w] = "idle" => locks[w] = {}
  BY TypesByWorker DEF TxInv, SessionTyped
<1> DEFINE Others == \A v \in Worker \ {w} : stage'[v] = stage[v] /\ call'[v] = call[v]
                                             /\ locks'[v] = locks[v]
<1>3. ASSUME Abort(w) PROVE LocksMove(w) /\ Others
  BY <1>1, <1>3 DEF Abort, Release, Goto, LocksMove, Sessions
<1>4. ASSUME NEW e, Answer(w, e) PROVE LocksMove(w) /\ Others
  BY <1>1, <1>4 DEF Answer, Release, Goto, LocksMove, Sessions
<1>5. ASSUME Advance(w), call' = call, locks' = locks,
             stage[w] \notin {"idle", "commit", "reply", "replay"}
      PROVE  LocksMove(w) /\ Others
  BY <1>1, <1>5 DEF Advance, Goto, LocksMove, Sessions
<1>6. ASSUME Advance(w), call' = call, Acquire(w),
             stage[w] \notin {"idle", "commit", "reply", "replay"}
      PROVE  LocksMove(w) /\ Others
  BY <1>1, <1>6 DEF Advance, Goto, Acquire, LocksMove, Sessions
<1> SUFFICES LocksMove(w) /\ Others
  OBVIOUS
<1> HIDE DEF Others
<1>7. CASE Begin(w)
  <2>1. stage[w] = "idle" /\ locks' = locks
    BY <1>7 DEF Begin
  <2>2. PICK c \in Calls : call' = [call EXCEPT ![w] = c] /\ Goto(w, FirstStage(c.op))
    BY <1>7 DEF Begin
  <2> QED
    BY <1>1, <1>2, <2>1, <2>2 DEF LocksMove, Others, Goto, Sessions
<1>8. CASE FindEntry(w) \/ CheckAccounts(w)
  BY <1>3, <1>5, <1>8 DEF FindEntry, CheckAccounts
<1>9. CASE FindKey(w) \/ Replay(w)
  <2>1. stage[w] = "key" \/ stage[w] = "replay"
    BY <1>9 DEF FindKey, Replay
  <2>2. \/ stage[w] = "key" /\ Advance(w) /\ call' = call /\ locks' = locks
        \/ \E e : Answer(w, e)
        \/ Abort(w)
    BY <1>9 DEF FindKey, Replay
  <2> QED
    BY <1>3, <1>4, <1>5, <2>2
<1>10. CASE LockPeriod(w) \/ LockEntry(w) \/ LockOrganization(w)
  BY <1>6, <1>10 DEF LockPeriod, LockEntry, LockOrganization
<1>11. CASE InsertEntry(w)
  <2>1. stage[w] = "insert" /\ Advance(w) /\ call' = call /\ Acquire(w)
    BY <1>11 DEF InsertEntry
  <2> QED
    BY <1>6, <2>1
<1>12. CASE InsertRefused(w)
  <2>1. Abort(w) \/ (Goto(w, "replay") /\ Release(w) /\ call' = call)
    BY <1>12 DEF InsertRefused
  <2>2. CASE Goto(w, "replay") /\ Release(w) /\ call' = call
    BY <1>1, <2>2 DEF Goto, Release, LocksMove, Others, Sessions
  <2> QED
    BY <1>3, <2>1, <2>2
<1>13. CASE PostEntry(w)
  <2>1. stage[w] = "post" /\ Advance(w) /\ call' = call /\ Acquire(w)
    BY <1>13 DEF PostEntry
  <2> QED
    BY <1>6, <2>1
<1>14. CASE PostNothing(w) \/ CountDrafts(w) \/ Reopen(w)
  <2>1. stage[w] \in {"post", "drafts", "reopen"}
    BY <1>14 DEF PostNothing, CountDrafts, Reopen
  <2>2. Abort(w) \/ (Advance(w) /\ call' = call /\ locks' = locks)
    BY <1>14 DEF PostNothing, CountDrafts, Reopen
  <2> QED
    BY <1>3, <1>5, <2>1, <2>2
<1>15. CASE CheckReversal(w)
  <2>1. stage[w] = "check"
    BY <1>15 DEF CheckReversal
  <2>2. \/ Advance(w) /\ call' = call /\ locks' = locks
        \/ \E e : Answer(w, e)
        \/ Abort(w)
    BY <1>15 DEF CheckReversal
  <2> QED
    BY <1>3, <1>4, <1>5, <2>1, <2>2
<1>16. CASE PostReversal(w) \/ ReconcileAndClose(w) \/ AppendAudit(w)
  <2>1. stage[w] \in {"reverse", "reconcile", "append"}
    BY <1>16 DEF PostReversal, ReconcileAndClose, AppendAudit
  <2>2. Abort(w) \/ (Advance(w) /\ call' = call /\ locks' = locks)
    BY <1>16 DEF PostReversal, ReconcileAndClose, AppendAudit
  <2> QED
    BY <1>3, <1>5, <2>1, <2>2
<1>17. CASE Commit(w) \/ Deliver(w) \/ CutOff(w) \/ DeadlockVictim(w)
  <2>1. Abort(w) \/ \E e : Answer(w, e)
    BY <1>17 DEF Commit, Deliver, CutOff, DeadlockVictim
  <2> QED
    BY <1>3, <1>4, <2>1
<1> QED
  BY <1>7, <1>8, <1>9, <1>10, <1>11, <1>12, <1>13, <1>14, <1>15, <1>16, <1>17
     DEF Step

(* Each lock is taken in its place.                                        *)
LEMMA OrderKept ==
  ASSUME TxInv, NEW w \in Worker, LocksOrdered(w), LocksMove(w)
  PROVE  LocksOrdered(w)'
<1>1. CASE locks'[w] = {}
  BY <1>1 DEF LocksOrdered
<1>2. CASE /\ stage[w] \notin {"idle", "commit", "reply", "replay"}
           /\ stage'[w] = After(call[w].op, stage[w]) /\ call'[w] = call[w]
           /\ locks'[w] \subseteq locks[w] \cup Wants(w)
  <2>1. call[w].op \in Op /\ stage[w] \in StagesOf(call[w].op) /\ call[w] \in Calls
    BY <1>2, Knows
  <2>2. Working(w) => Working(w)'
    BY <1>2, <2>1, NextStage DEF Working, StagesOf, Op
  <2>3. Loaded(w) => Loaded(w)'
    <3>1. Names(w) => Names(w)'
      BY <1>2, <2>1, NextStage DEF Names, StagesOf, Op
    <3>2. Working(w) /\ Names(w) => stage'[w] # "entry"
      BY <1>2, <2>1, NextStage DEF Working, Names, StagesOf, Op
    <3> QED
      BY <2>2, <3>1, <3>2 DEF Loaded
  <2>4. (Written(w) \/ stage[w] = "reverse") => (Written(w) \/ stage[w] = "reverse")'
    BY <1>2, <2>1, NextStage DEF Written, StagesOf, Op
  <2>5. ASSUME NEW l \in Wants(w)
        PROVE  /\ Working(w)'
               /\ \/ l.row \in Period
                  \/ l.row \in Entry /\ Loaded(w)'
                  \/ l.row = Org /\ (Written(w) \/ stage[w] = "reverse")'
    <3>1. CASE stage[w] = "period"
      <4>1. l.row \in Period
        BY <2>5, <3>1, PeriodKnown DEF Wants, OnRow
      <4>2. Working(w)'
        BY <1>2, <2>1, <3>1, NextStage DEF Working, StagesOf, Op
      <4> QED
        BY <4>1, <4>2
    <3>2. CASE stage[w] = "entry"
      <4>1. call[w].op \in {"post", "reverse"}
        BY <2>1, <3>2 DEF StagesOf, Op
      <4>2. l.row \in Entry
        BY <2>1, <2>5, <3>2, <4>1, CallType DEF Wants, OnRow
      <4>3. Working(w)' /\ Loaded(w)'
        BY <1>2, <3>2, <4>1, NextStage DEF Working, Loaded, Names
      <4> QED
        BY <4>2, <4>3
    <3>3. CASE stage[w] \in {"insert", "post", "organization"}
      <4>1. l.row = Org
        BY <2>5, <3>3 DEF Wants, OnRow
      <4>2. stage'[w] \in {"organization", "reverse", "append"}
        BY <1>2, <2>1, <3>3, NextStage DEF StagesOf, Op
      <4> QED
        BY <4>1, <4>2 DEF Working, Written
    <3> QED
      BY <2>5, <3>1, <3>2, <3>3 DEF Wants
  <2> QED
    BY <1>2, <2>2, <2>3, <2>4, <2>5 DEF LocksOrdered
<1> QED
  BY <1>1, <1>2 DEF LocksMove

(* The locks are taken in order.                                           *)
THEOREM OneLockOrder == Spec => []\A w \in Worker : LocksOrdered(w)
<1> DEFINE AllOrdered == \A w \in Worker : LocksOrdered(w)
<1>1. Init => AllOrdered
  BY DEF Init, LocksOrdered
<1>2. TxInv /\ AllOrdered /\ [Next]_vars => AllOrdered'
  <2> SUFFICES ASSUME TxInv, AllOrdered, [Next]_vars PROVE AllOrdered'
    OBVIOUS
  <2>1. ASSUME NEW w \in Worker, Begin(w) \/ Step(w) \/ CutOff(w) \/ DeadlockVictim(w)
        PROVE  AllOrdered'
    <3>1. /\ LocksMove(w)
          /\ \A v \in Worker \ {w} : stage'[v] = stage[v] /\ call'[v] = call[v]
                                     /\ locks'[v] = locks[v]
      BY <2>1, StepsMoveLocks
    <3>2. \A v \in Worker \ {w} : LocksOrdered(v)'
      BY <3>1 DEF LocksOrdered, Working, Loaded, Written, Names
    <3> QED
      BY <3>1, <3>2, OrderKept
  <2>2. ASSUME UNCHANGED session PROVE AllOrdered'
    BY <2>2 DEF LocksOrdered, Working, Loaded, Written, Names, session
  <2> QED
    BY <2>1, <2>2 DEF Next, FlagAccount, Rest, vars
<1> QED
  BY <1>1, <1>2, TxInvariant, PTL DEF Spec

(* A worker another one waits for has reached the organization's lock.     *)
LEMMA WaitedFor ==
  ASSUME TxInv, \A v \in Worker : LocksOrdered(v),
         NEW c \in Worker, NEW d \in Worker, d \in Rivals(c)
  PROVE  /\ stage[d] # "period"
         /\ stage[d] = "entry" => stage[c] = "period"
         /\ stage[d] \in {"insert", "post"} => stage[c] \in {"period", "entry"}
<1>1. CASE d \in Holders(c)
  <2>1. PICK l \in Wants(c), m \in locks[d] : l.row = m.row
    BY <1>1 DEF Holders, Conflict
  <2>2. /\ Working(d)
        /\ \/ m.row \in Period
           \/ m.row \in Entry /\ Loaded(d)
           \/ m.row = Org /\ (Written(d) \/ stage[d] = "reverse")
    BY DEF LocksOrdered
  <2>3. l.row \in Period => stage[c] = "period"
    <3>1. SUFFICES ASSUME stage[c] # "period", l.row \in Period PROVE FALSE
      OBVIOUS
    <3>2. stage[c] = "entry" => call[c].target \in Entry
      BY PeriodKnown, Knows, AtStage DEF Names, TxInv
    <3> QED
      BY <3>1, <3>2, CallsAssumption DEF Wants, OnRow
  <2>4. l.row \in Entry => stage[c] \in {"period", "entry"}
    BY CallsAssumption DEF Wants, OnRow
  <2> QED
    BY <2>1, <2>2, <2>3, <2>4 DEF Working, Loaded, Written
<1>2. CASE d \in KeyRivals(c)
  <2>1. Inserted(d) \/ (Names(d) /\ DOMAIN writes[d].entry # {})
    BY <1>2, WrittenEntry DEF KeyRivals
  <2>2. DOMAIN writes[d].entry # {}
    BY <1>2 DEF KeyRivals
  <2>3. writes[d] # NoWrites
    BY <2>2 DEF NoWrites
  <2>4. stage[d] # "idle"
    BY <2>3, TypesByWorker DEF TxInv, SessionTyped
  <2>5. Written(d) \/ Inserted(d)
    BY <2>3, <2>4, Knows DEF WritesKnown
  <2> QED
    BY <2>5 DEF Written, Inserted
<1> QED
  BY <1>1, <1>2 DEF Rivals

(* DeadlocksOnlyOnOrganization: whoever waits in a cycle waits for the row *)
(* of the organization.                                                    *)
THEOREM OnlyOneRowDeadlocks == Spec => []DeadlocksOnlyOnOrganization
<1>1. TxInv /\ (\A w \in Worker : LocksOrdered(w)) => DeadlocksOnlyOnOrganization
  <2> SUFFICES ASSUME TxInv, \A v \in Worker : LocksOrdered(v),
                      NEW w \in Worker, InWaitCycle(w)
               PROVE  stage[w] = "organization"
    BY DEF DeadlocksOnlyOnOrganization
  <2>1. PICK D \in SUBSET Worker : \E next \in [D -> D] :
          /\ w \in D
          /\ \A d \in D : (\E c \in D : next[c] = d) /\ next[d] \in Rivals(d)
    BY DEF InWaitCycle
  <2>2. PICK next \in [D -> D] :
          /\ w \in D
          /\ \A d \in D : (\E c \in D : next[c] = d) /\ next[d] \in Rivals(d)
    BY <2>1
  <2>3. ASSUME NEW d \in D
        PROVE  \E c \in D :
                 /\ stage[d] # "period"
                 /\ stage[d] = "entry" => stage[c] = "period"
                 /\ stage[d] \in {"insert", "post"} => stage[c] \in {"period", "entry"}
    <3>1. PICK c \in D : d \in Rivals(c)
      BY <2>2
    <3>2. c \in Worker /\ d \in Worker
      BY <2>1
    <3> QED
      BY <3>1, <3>2, WaitedFor
  <2>4. \A d \in D : stage[d] # "period"
    BY <2>3
  <2>5. \A d \in D : stage[d] # "entry"
    BY <2>3, <2>4
  <2>6. stage[w] \notin {"period", "entry", "insert", "post"}
    BY <2>2, <2>3, <2>4, <2>5
  <2> QED
    BY <2>6, WaitersServe
<1> QED
  BY <1>1, TxInvariant, OneLockOrder, PTL

----------------------------------------------------------------------------
(* The transactions implement the atomic calls: every commit is one call   *)
(* of Books, and every other step leaves the tables as they are.           *)

(* The record of a call, as Books writes it.                               *)
LEMMA CommitLogs ==
  ASSUME TxInv, NEW w \in Worker, Commit(w)
  PROVE  Books!Log(call[w].actor, ActionOf(call[w].op), Subject(w))
<1>1. stage[w] # "idle"
  BY Commits DEF Written
<1>2. audit \in Seq(AuditRow)
  BY <1>1, Knows DEF CommittedTypes
<1>3. audit' = Append(audit, AuditRecord(audit, call[w].actor, ActionOf(call[w].op), Subject(w)))
  BY Commits
<1>4. Books!AuditRecord(audit, call[w].actor, ActionOf(call[w].op), Subject(w)) =
        AuditRecord(audit, call[w].actor, ActionOf(call[w].op), Subject(w))
  BY SameRecords
<1>5. Len(audit) \in Nat
  BY <1>2
<1> QED
  BY <1>3, <1>4, <1>5 DEF Books!Log

(* The period of a committing call is as it was when it was locked.        *)
LEMMA CommitInPeriod ==
  ASSUME TxInv, NEW w \in Worker, Commit(w)
  PROVE  open[w] <=> period[PeriodOf(w)] = "OPEN"
<1>1. Written(w) /\ stage[w] # "idle" /\ Working(w)
  BY Commits DEF Written, Working
<1> QED
  BY <1>1, Knows DEF PeriodLoaded

(* A commit of create is a Create.                                          *)
LEMMA CommitIsCreate ==
  ASSUME TxInv, NEW w \in Worker, Commit(w), call[w].op = "create"
  PROVE  Books!Next
<1> DEFINE n == new[w]
           a == call[w].actor
           p == call[w].period
           l == call[w].lines
           k == call[w].key
<1>1. stage[w] # "idle" /\ call[w] \in Calls
  BY Commits, Knows DEF Written
<1>2. /\ a \in Actor /\ p \in Period /\ l \in Lines /\ k \in Key
  BY <1>1, CallType
<1>3. /\ n \in Entry \ Rows(entry) /\ open[w] /\ Validated(l) /\ ~Refused(w)
      /\ entry' = [entry EXCEPT ![n] = NewRow(w)]
      /\ UNCHANGED <<period, ledger>>
  BY CommitCreate
<1>4. NewRow(w) = Books!DraftRow(p, l, k, Books!CreateHash(p, l), a, None)
  BY SameRecords DEF NewRow
<1>5. Books!Creatable(p, l, k)
  <2>1. Books!KeyHolders(entry, k) = {} /\ Books!Validated(l)
    BY <1>3, SameRows, SameRecords DEF Refused
  <2>2. period[p] = "OPEN"
    BY <1>3, CommitInPeriod DEF PeriodOf
  <2> QED
    BY <2>1, <2>2 DEF Books!Creatable
<1>6. Books!Log(a, "JOURNAL_ENTRY_CREATED", n)
  BY CommitLogs DEF ActionOf, Subject
<1>7. entry[n] = None
  BY <1>3 DEF Rows
<1> HIDE DEF n, a, p, l, k
<1>8. Books!Create(n, a, p, l, k)
  BY <1>3, <1>4, <1>5, <1>6, <1>7 DEF Books!Create
<1> QED
  BY <1>2, <1>3, <1>8 DEF Books!Next

(* A commit of post is a Post, or a PostAgain.                              *)
LEMMA CommitIsPost ==
  ASSUME TxInv, NEW w \in Worker, Commit(w), call[w].op = "post"
  PROVE  Books!Next
<1> DEFINE x == call[w].target
           a == call[w].actor
<1>1. Written(w) /\ Names(w) /\ call[w].actor \in Actor
  BY Commits, Writing, CallType DEF Written, Names
<1>2. /\ x \in Rows(entry) /\ x \in Entry /\ a \in Actor
      /\ row[w] = entry[x] /\ PeriodOf(w) = entry[x].period
  BY <1>1, Writing
<1>3. Books!Rows(entry) = Rows(entry)
  BY SameRows
<1>4. Books!Log(a, "JOURNAL_ENTRY_POSTED", x)
  BY CommitLogs DEF ActionOf, Subject
<1>5. period' = period
  BY CommitPost
<1>6. Books!HasPostings(ledger, x) <=> HasPostings(ledger, x)
  BY SamePostings
<1>7. CASE /\ Postable(w)
           /\ entry' = [entry EXCEPT ![x] = PostedRow(entry[x], a)]
           /\ ledger' = Append(ledger, PostingOf(x, entry[x]))
  <2>1. /\ entry[x].status = "DRAFT" /\ open[w] /\ Validated(entry[x].lines)
        /\ ~HasPostings(ledger, x)
        /\ entry[x].reversalOf = None => entry[x].creator # a
    BY <1>2, <1>7 DEF Postable
  <2>2. entry[x].reversalOf = None
    BY <1>2, <2>1 DEF TxInv, RowsLinked
  <2>3. period[entry[x].period] = "OPEN"
    BY <1>2, <2>1, CommitInPeriod
  <2>4. Books!Validated(entry[x].lines)
    BY <2>1, SameRecords
  <2>5. Books!Postable(x, a)
    BY <1>6, <2>1, <2>2, <2>3, <2>4 DEF Books!Postable
  <2>6. /\ entry' = [entry EXCEPT ![x] = Books!PostedRow(entry[x], a)]
        /\ ledger' = Append(ledger, Books!PostingOf(x, entry[x]))
    BY <1>7, SameRecords
  <2> HIDE DEF x, a
  <2>7. Books!Post(x, a)
    BY <1>2, <1>3, <1>4, <1>5, <2>5, <2>6 DEF Books!Post
  <2> QED
    BY <1>2, <2>7 DEF Books!Next
<1>8. CASE AlreadyPosted(w) /\ UNCHANGED <<entry, ledger>>
  <2>1. entry[x].status = "POSTED" /\ Books!HasPostings(ledger, x)
    BY <1>2, <1>6, <1>8 DEF AlreadyPosted
  <2> HIDE DEF x, a
  <2>2. Books!PostAgain(x, a)
    BY <1>2, <1>3, <1>4, <1>5, <1>8, <2>1 DEF Books!PostAgain
  <2> QED
    BY <1>2, <2>2 DEF Books!Next
<1> QED
  BY <1>7, <1>8, CommitPost

(* A commit of reverse is a Reverse.                                        *)
LEMMA CommitIsReverse ==
  ASSUME TxInv, NEW w \in Worker, Commit(w), call[w].op = "reverse"
  PROVE  Books!Next
<1> DEFINE n == new[w]
           x == call[w].target
           a == call[w].actor
           k == call[w].key
<1>1. Written(w) /\ Names(w) /\ a \in Actor /\ k \in Key
  BY Commits, Writing, CallType DEF Written, Names
<1>2. /\ x \in Rows(entry) /\ x \in Entry /\ row[w] = entry[x] /\ entry[x] \in EntryRow
      /\ PeriodOf(w) = entry[x].period
  BY <1>1, Writing
<1>3. /\ n \in Entry \ Rows(entry) /\ open[w] /\ MayReverse(w) /\ ~Refused(w) /\ Inserted(w)
      /\ entry' = [entry EXCEPT ![n] = PostedRow(NewRow(w), a), ![x] = ReversedRow(entry[x])]
      /\ ledger' = Append(ledger, PostingOf(n, NewRow(w)))
      /\ period' = period
  BY CommitReverse
<1>4. Books!Log(a, "JOURNAL_ENTRY_REVERSED", n)
  BY CommitLogs DEF ActionOf, Subject
<1>5. Books!Reversible(x, a, k)
  <2>1. /\ Books!KeyHolders(entry, k) = {} /\ Books!ReversalsOf(entry, x) = {}
    BY <1>3, SameRows DEF Refused
  <2>2. entry[x].status = "POSTED" /\ entry[x].creator # a
    BY <1>2, <1>3 DEF MayReverse
  <2>3. period[entry[x].period] = "OPEN"
    BY <1>2, <1>3, CommitInPeriod
  <2> QED
    BY <2>1, <2>2, <2>3 DEF Books!Reversible
<1>6. PostedRow(NewRow(w), a) = Books!ReversalRow(x, a, k)
  <2>1. NewRow(w) = DraftRow(entry[x].period, Swap[entry[x].lines], k, ReverseHash, a, x)
    BY <1>2 DEF NewRow
  <2> QED
    BY <2>1, SameRecords DEF Books!ReversalRow
<1>7. PostingOf(n, NewRow(w)) = Books!PostingOf(n, PostedRow(NewRow(w), a))
  <2>1. NewRow(w) \in EntryRow
    BY <1>3, NewRowTyped
  <2>2. /\ PostedRow(NewRow(w), a).period = NewRow(w).period
        /\ PostedRow(NewRow(w), a).lines = NewRow(w).lines
    BY <1>1, <2>1, PostedRowType
  <2> QED
    BY <2>2 DEF PostingOf, Books!PostingOf
<1>8. ReversedRow(entry[x]) = Books!ReversedRow(entry[x])
  BY SameRecords
<1>9. x \in Books!Rows(entry) /\ entry[n] = None
  BY <1>2, <1>3, SameRows DEF Rows
<1> HIDE DEF n, x, a, k
<1>10. Books!Reverse(x, n, a, k)
  BY <1>3, <1>4, <1>5, <1>6, <1>7, <1>8, <1>9 DEF Books!Reverse
<1> QED
  BY <1>1, <1>2, <1>3, <1>10 DEF Books!Next

(* A commit of close or reopen is a ClosePeriod or a ReopenPeriod.          *)
LEMMA CommitIsPeriodCall ==
  ASSUME TxInv, NEW w \in Worker, Commit(w), call[w].op \in {"close", "reopen"}
  PROVE  Books!Next
<1> DEFINE p == call[w].period
           a == call[w].actor
<1>1. Written(w) /\ stage[w] # "idle"
  BY Commits DEF Written
<1>2. a \in Actor /\ p \in Period /\ Checked(w) /\ CommittedTypes
  BY <1>1, Knows, CallType
<1>3. /\ UNCHANGED <<entry, ledger>>
      /\ period' = [period EXCEPT ![p] = IF call[w].op = "close" THEN "CLOSED" ELSE "OPEN"]
  BY CommitPeriod
<1>4. open[w] <=> period[p] = "OPEN"
  BY CommitInPeriod DEF PeriodOf
<1>5. CASE call[w].op = "close"
  <2>1. /\ period[p] = "OPEN" /\ Drafts(entry, p) = {} /\ Reconciled(entry, ledger, p)
        /\ TrialBalanced(ledger, p)
    BY <1>1, <1>2, <1>4, <1>5 DEF Checked
  <2>2. Books!Closable(p)
    BY <2>1, SameRows, SamePostings DEF Books!Closable
  <2>3. Books!Log(a, "FISCAL_PERIOD_CLOSED", p)
    BY <1>5, CommitLogs DEF ActionOf, Subject
  <2>4. period' = [period EXCEPT ![p] = "CLOSED"]
    BY <1>3, <1>5
  <2> HIDE DEF p, a
  <2>5. Books!ClosePeriod(p, a)
    BY <1>3, <2>2, <2>3, <2>4 DEF Books!ClosePeriod
  <2> QED
    BY <1>2, <2>5 DEF Books!Next
<1>6. CASE call[w].op = "reopen"
  <2>1. period[p] = "CLOSED"
    BY <1>1, <1>2, <1>4, <1>6 DEF Checked, CommittedTypes, PeriodStatus
  <2>2. Books!Log(a, "FISCAL_PERIOD_REOPENED", p)
    BY <1>6, CommitLogs DEF ActionOf, Subject
  <2>3. period' = [period EXCEPT ![p] = "OPEN"]
    BY <1>3, <1>6
  <2> HIDE DEF p, a
  <2>4. Books!ReopenPeriod(p, a)
    BY <1>3, <2>1, <2>2, <2>3 DEF Books!ReopenPeriod
  <2> QED
    BY <1>2, <2>4 DEF Books!Next
<1> QED
  BY <1>5, <1>6

(* Only a commit changes the tables.                                       *)
LEMMA OnlyCommitsWrite ==
  ASSUME [Next]_vars, \A w \in Worker : ~Commit(w)
  PROVE  UNCHANGED committed
<1>1. ASSUME NEW w \in Worker, Step(w) PROVE UNCHANGED committed
  <2>1. CASE FindEntry(w) \/ LockPeriod(w) \/ LockEntry(w) \/ FindKey(w) \/ CheckAccounts(w)
    BY <2>1 DEF FindEntry, LockPeriod, LockEntry, FindKey, CheckAccounts
  <2>2. CASE InsertEntry(w) \/ InsertRefused(w) \/ Replay(w) \/ PostEntry(w)
               \/ PostNothing(w)
    BY <2>2 DEF InsertEntry, InsertRefused, Replay, PostEntry, PostNothing
  <2>3. CASE CheckReversal(w) \/ PostReversal(w) \/ CountDrafts(w) \/ ReconcileAndClose(w)
               \/ Reopen(w)
    BY <2>3 DEF CheckReversal, PostReversal, CountDrafts, ReconcileAndClose, Reopen
  <2>4. CASE LockOrganization(w) \/ AppendAudit(w) \/ Deliver(w)
    BY <2>4 DEF LockOrganization, AppendAudit, Deliver
  <2> QED
    BY <1>1, <2>1, <2>2, <2>3, <2>4 DEF Step
<1> QED
  BY <1>1 DEF Next, Begin, CutOff, DeadlockVictim, FlagAccount, Rest, vars

(* Every commit is one atomic call.                                        *)
LEMMA CommitIsCall ==
  ASSUME TxInv, NEW w \in Worker, Commit(w)
  PROVE  Books!Next
<1>1. stage[w] # "idle"
  BY Commits DEF Written
<1>2. call[w].op \in Op
  BY <1>1, Knows
<1> QED
  BY <1>2, CommitIsCreate, CommitIsPost, CommitIsReverse, CommitIsPeriodCall DEF Op

(* ImplementsBooks: concurrent transactions, cut off or aborted at any     *)
(* point, amount to the atomic calls, so that no check of create, post,    *)
(* reverse, close or reopen is stale when its result commits.              *)
THEOREM TransactionsAreAtomic == Spec => ImplementsBooks
<1>1. Init => Books!Init
  BY DEF Init
<1>2. TxInv /\ [Next]_vars => [Books!Next]_(Books!books)
  <2> SUFFICES ASSUME TxInv, [Next]_vars PROVE [Books!Next]_(Books!books)
    OBVIOUS
  <2>1. CASE \E w \in Worker : Commit(w)
    BY <2>1, CommitIsCall
  <2>2. CASE \A w \in Worker : ~Commit(w)
    BY <2>2, OnlyCommitsWrite DEF committed, Books!books
  <2> QED
    BY <2>1, <2>2
<1> QED
  BY <1>1, <1>2, TxInvariant, PTL DEF Spec, ImplementsBooks, Books!Spec

----------------------------------------------------------------------------
(* What is proved of the atomic calls holds of the transactions            *)

Atomic == INSTANCE BooksProofs WITH AuditRoom <- Nat

(* The proofs about Books are about the Books of JournalTx.                *)
LEMMA SameInit == Books!Init <=> Atomic!Init
BY DEF Books!Init, Atomic!Init

(* The calls are the same calls.                                           *)
LEMMA SameNext == Books!Next <=> Atomic!Next
BY DEF Books!Next, Books!Create, Books!Post, Books!PostAgain, Books!Reverse,
       Books!ClosePeriod, Books!ReopenPeriod, Books!Log, Books!Creatable, Books!Postable,
       Books!Reversible, Books!Closable, Books!ReversalRow, Books!DraftRow, Books!PostedRow,
       Books!ReversedRow, Books!PostingOf, Books!AuditRecord, Books!Rows, Books!KeyHolders,
       Books!ReversalsOf, Books!Drafts, Books!HasPostings, Books!Validated,
       Books!Reconciled, Books!Missing, Books!Orphans, Books!Mismatched, Books!Expected,
       Books!PostingsIn, Books!TrialBalanced, Books!Imbalance, Books!Total,
       Books!MapThenFoldSet, Books!CreateHash, Books!ReverseHash,
       Atomic!Next, Atomic!Create, Atomic!Post, Atomic!PostAgain, Atomic!Reverse,
       Atomic!ClosePeriod, Atomic!ReopenPeriod, Atomic!Log, Atomic!Creatable,
       Atomic!Postable, Atomic!Reversible, Atomic!Closable, Atomic!ReversalRow,
       Atomic!DraftRow, Atomic!PostedRow, Atomic!ReversedRow, Atomic!PostingOf,
       Atomic!AuditRecord, Atomic!Rows, Atomic!KeyHolders, Atomic!ReversalsOf,
       Atomic!Drafts, Atomic!HasPostings, Atomic!Validated, Atomic!Reconciled,
       Atomic!Missing, Atomic!Orphans, Atomic!Mismatched, Atomic!Expected,
       Atomic!PostingsIn, Atomic!TrialBalanced, Atomic!Imbalance, Atomic!Total,
       Atomic!MapThenFoldSet, Atomic!CreateHash, Atomic!ReverseHash

(* So the proofs about the calls apply.                                    *)
LEMMA AtomicCalls == Spec => Atomic!Spec
<1>1. [Books!Next]_(Books!books) => [Atomic!Next]_(Atomic!books)
  BY SameNext DEF Books!books, Atomic!books
<1> QED
  BY <1>1, SameInit, TransactionsAreAtomic, PTL DEF ImplementsBooks, Books!Spec, Atomic!Spec

(* And the assumptions of those proofs are assumptions of JournalTx.       *)
LEMMA AtomicNone == None \notin Entry \cup Actor \cup Atomic!EntryRow
BY NoneAssumption DEF EntryRow, EntryStatus, Hash, Atomic!EntryRow, Atomic!EntryStatus,
                      Atomic!Hash

(* Under concurrent transactions, cuts and deadlocks too, the ledger is    *)
(* the posted journal and balances, closed periods hold no draft, keys are *)
(* used once, a second person posts or reverses, reversals are linked to   *)
(* their originals, the trail is numbered without gaps and it accounts for *)
(* the rows and the periods.                                               *)
THEOREM ConcurrentBooks ==
  Spec => [](/\ Books!LedgerIsPostedJournal
             /\ Books!PostingsBalance
             /\ Books!ClosedPeriodSettled
             /\ Books!KeysUnique
             /\ Books!TwoPersons
             /\ Books!ReversalsLinked
             /\ Books!TrailContiguous
             /\ Books!TrailExplains)
<1>1. Atomic!Spec => []Atomic!LedgerIsPostedJournal
  BY LinesAssumption, AtomicNone, Atomic!LedgerPosted
<1>2. Atomic!Spec => []Atomic!PostingsBalance
  BY LinesAssumption, AtomicNone, Atomic!Balanced
<1>3. Atomic!Spec => []Atomic!ClosedPeriodSettled
  BY LinesAssumption, AtomicNone, Atomic!ClosedSettled
<1>4. Atomic!Spec => []Atomic!KeysUnique
  BY LinesAssumption, AtomicNone, Atomic!KeysOnce
<1>5. Atomic!Spec => []Atomic!TwoPersons
  BY LinesAssumption, AtomicNone, Atomic!TwoPersonsRule
<1>6. Atomic!Spec => []Atomic!ReversalsLinked
  BY LinesAssumption, AtomicNone, Atomic!Linked
<1>7. Atomic!Spec => []Atomic!TrailContiguous
  BY LinesAssumption, AtomicNone, Atomic!TrailNumbered
<1>8. Atomic!LedgerIsPostedJournal => Books!LedgerIsPostedJournal
  BY DEF Atomic!LedgerIsPostedJournal, Books!LedgerIsPostedJournal, Atomic!Rows, Books!Rows,
         Atomic!PostingOf, Books!PostingOf, Atomic!HasPostings, Books!HasPostings
<1>9. /\ Atomic!PostingsBalance => Books!PostingsBalance
      /\ Atomic!TrailContiguous => Books!TrailContiguous
  BY DEF Atomic!PostingsBalance, Books!PostingsBalance, Atomic!TrailContiguous,
         Books!TrailContiguous
<1>10. /\ Atomic!ClosedPeriodSettled => Books!ClosedPeriodSettled
       /\ Atomic!KeysUnique => Books!KeysUnique
       /\ Atomic!TwoPersons => Books!TwoPersons
  BY DEF Atomic!ClosedPeriodSettled, Books!ClosedPeriodSettled, Atomic!KeysUnique,
         Books!KeysUnique, Atomic!TwoPersons, Books!TwoPersons, Atomic!Rows, Books!Rows
<1>11. Atomic!ReversalsLinked => Books!ReversalsLinked
  BY DEF Atomic!ReversalsLinked, Books!ReversalsLinked, Atomic!Rows, Books!Rows,
         Atomic!ReversalsOf, Books!ReversalsOf
<1>12. Atomic!Spec => []Atomic!TrailExplains
  BY LinesAssumption, AtomicNone, Atomic!TrailAccounts
<1>13. Atomic!TrailExplains => Books!TrailExplains
  <2>1. \A act, s : Atomic!Recorded(act, s) = Books!Recorded(act, s)
    BY DEF Atomic!Recorded, Books!Recorded
  <2>2. \A S : Atomic!Cardinality(S) = Books!Cardinality(S)
    BY DEF Atomic!Cardinality, Books!Cardinality
  <2>3. \A e \in Entry : Atomic!EntryExplained(e) => Books!EntryExplained(e)
    BY <2>1 DEF Atomic!EntryExplained, Books!EntryExplained, Atomic!Rows, Books!Rows
  <2>4. \A p \in Period : Atomic!PeriodExplained(p) => Books!PeriodExplained(p)
    BY <2>1, <2>2 DEF Atomic!PeriodExplained, Books!PeriodExplained
  <2> QED
    BY <2>3, <2>4 DEF Atomic!TrailExplains, Books!TrailExplains
<1> QED
  BY <1>1, <1>2, <1>3, <1>4, <1>5, <1>6, <1>7, <1>8, <1>9, <1>10, <1>11, <1>12, <1>13,
     AtomicCalls, PTL

(* Whatever the interleaving, a closed period is not written to, and what  *)
(* is recorded stays recorded.                                             *)
THEOREM ConcurrentHistory == Spec => Books!ClosedPeriodFrozen /\ Books!HistoryKept
<1>1. Atomic!Spec => Atomic!ClosedPeriodFrozen
  BY LinesAssumption, AtomicNone, Atomic!ClosedFrozen
<1>2. Atomic!Spec => Atomic!HistoryKept
  BY LinesAssumption, AtomicNone, Atomic!NothingRewritten
<1>3. Atomic!ClosedPeriodFrozen => Books!ClosedPeriodFrozen
  BY DEF Atomic!ClosedPeriodFrozen, Books!ClosedPeriodFrozen, Atomic!books, Books!books,
         Atomic!RowsIn, Books!RowsIn, Atomic!Rows, Books!Rows, Atomic!PostingsIn,
         Books!PostingsIn
<1>4. Atomic!HistoryKept => Books!HistoryKept
  BY DEF Atomic!HistoryKept, Books!HistoryKept, Atomic!books, Books!books, Atomic!Rows,
         Books!Rows, Atomic!EntryStatus, Books!EntryStatus
<1> QED
  BY <1>1, <1>2, <1>3, <1>4, AtomicCalls, PTL

=============================================================================
