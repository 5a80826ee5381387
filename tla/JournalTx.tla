----------------------------- MODULE JournalTx -----------------------------
(***************************************************************************)
(* The journal-entry and fiscal-period services as concurrent database     *)
(* transactions.  A worker serves one API call at a time: each step is one *)
(* statement it awaits, its writes stay private until it commits, and row  *)
(* locks are held to the end of the transaction (READ COMMITTED).          *)
(*                                                                         *)
(* Between any two steps other workers run, the worker may be cut off      *)
(* (disconnect, restart) or PostgreSQL may abort it to break a deadlock:   *)
(* the writes and locks of the transaction vanish.                         *)
(***************************************************************************)
EXTENDS JournalData

CONSTANTS
  Worker,      \* concurrent sessions
  Account,     \* accounts an administrator can deactivate
  AccountsOf,  \* AccountsOf[l]: the accounts the lines l use
  Calls,       \* the API calls clients may make
  Org,         \* the organization's row
  AuditRoom    \* lengths of the audit trail at which a new call is accepted

Op == {"create", "post", "reverse", "close", "reopen"}

(* A call's arguments; those its operation does not take are None.  dated  *)
(* says whether the entry date it carries lies in the period.              *)
Call == [op : Op, actor : Actor, period : Period \cup {None},
         lines : Lines \cup {None}, key : Key \cup {None},
         target : Entry \cup {None}, dated : BOOLEAN]

ASSUME CallsAssumption ==
  /\ Calls \subseteq Call
  /\ None \notin Call
  /\ \A c \in Calls :
       /\ c.op = "create" => c.period # None /\ c.lines # None /\ c.key # None
       /\ c.op \in {"post", "reverse"} => c.target # None
       /\ c.op = "reverse" => c.key # None
       /\ c.op \in {"close", "reopen"} => c.period # None
  /\ AccountsOf \in [Lines -> SUBSET Account]
  /\ Org \notin Period \cup Entry
  /\ Period \cap Entry = {}
  /\ AuditRoom \subseteq Nat

Lock == [row : Period \cup Entry \cup {Org}, mode : {"update", "share"}]

VARIABLES
  period, entry, ledger, audit,  \* committed rows, as in Books
  active,   \* accounts flagged active
  stage,    \* the statement each worker executes next
  call,     \* the call it serves
  open,     \* whether the period it locked was OPEN when loaded
  row,      \* the entry it locked, as loaded
  new,      \* the entry it inserts
  writes,   \* its uncommitted rows
  locks,    \* the row locks it holds
  answer    \* the entry it answers with

committed == <<period, entry, ledger, audit>>
session == <<stage, call, open, row, new, writes, locks, answer>>
vars == <<committed, active, session>>

Books == INSTANCE Books WITH AuditRoom <- Nat

----------------------------------------------------------------------------
(* Transactions                                                            *)

NoWrites == [period |-> <<>>, entry |-> <<>>, ledger |-> <<>>, audit |-> <<>>]

(* Committed rows overwritten by those of a transaction.                   *)
Install(committedRows, written) ==
  [x \in DOMAIN committedRows |->
     IF x \in DOMAIN written THEN written[x] ELSE committedRows[x]]

(* Mutant: post locks the entry before its period.                         *)
EntryBeforePeriod(op, s) ==
  CASE op = "post" /\ s = "find"   -> "entry"
    [] op = "post" /\ s = "entry"  -> "period"
    [] op = "post" /\ s = "period" -> "post"
    [] op # "post" /\ s \in {"key", "find"} -> "period"
    [] op # "post" /\ s = "period" ->
         [create |-> "accounts", reverse |-> "entry", close |-> "drafts",
          reopen |-> "reopen"][op]
    [] op # "post" /\ s = "entry"  -> "check"
    [] s \in {"accounts", "check"} -> "insert"
    [] s = "insert" -> [create |-> "organization", reverse |-> "reverse"][op]
    [] s = "drafts" -> "reconcile"
    [] s \in {"post", "reverse", "reconcile", "reopen"} -> "organization"
    [] s = "organization" -> "append"
    [] s = "append" -> "commit"

(* The statements of each operation, in order.                             *)
After(op, s) ==
  CASE s = "key"       -> "period"
    [] s = "find"      -> "period"
    [] s = "period"    -> [create |-> "accounts", post |-> "entry", reverse |-> "entry",
                           close |-> "drafts", reopen |-> "reopen"][op]
    [] s = "entry"     -> [post |-> "post", reverse |-> "check"][op]
    [] s = "accounts"  -> "insert"
    [] s = "check"     -> "insert"
    [] s = "insert"    -> [create |-> "organization", reverse |-> "reverse"][op]
    [] s = "drafts"    -> "reconcile"
    [] s \in {"post", "reverse", "reconcile", "reopen"} -> "organization"
    [] s = "organization" -> "append"
    [] s = "append"    -> "commit"

FirstStage(op) ==
  CASE op = "create" -> "key"
    [] op \in {"post", "reverse"} -> "find"
    [] op \in {"close", "reopen"} -> "period"

Goto(w, s) == stage' = [stage EXCEPT ![w] = s]
Advance(w) == Goto(w, After(call[w].op, stage[w]))

(* Mutant: the session keeps what it had not committed.                    *)
KeepWrites(w) ==
  /\ locks' = [locks EXCEPT ![w] = {}]
  /\ UNCHANGED writes

(* Mutant: a session is returned without ending its transaction.           *)
KeepLocks(w) ==
  /\ writes' = [writes EXCEPT ![w] = NoWrites]
  /\ UNCHANGED locks

(* The transaction ends: its writes are dropped and its locks released.    *)
Release(w) ==
  /\ writes' = [writes EXCEPT ![w] = NoWrites]
  /\ locks' = [locks EXCEPT ![w] = {}]

Forget(w) ==
  /\ open' = [open EXCEPT ![w] = FALSE]
  /\ row' = [row EXCEPT ![w] = None]
  /\ new' = [new EXCEPT ![w] = None]

(* An HTTP error leaves the session, whose close rolls back.               *)
Abort(w) ==
  /\ Goto(w, "idle")
  /\ call' = [call EXCEPT ![w] = None]
  /\ answer' = [answer EXCEPT ![w] = None]
  /\ Release(w) /\ Forget(w)

(* A successful answer that wrote nothing.                                 *)
Answer(w, e) ==
  /\ Goto(w, "reply")
  /\ answer' = [answer EXCEPT ![w] = e]
  /\ Release(w) /\ Forget(w)
  /\ UNCHANGED call

----------------------------------------------------------------------------
(* Locks                                                                   *)

(* The period an operation works in: that of the entry it names, if any.   *)
PeriodOf(w) ==
  IF call[w].op \in {"post", "reverse"}
    THEN entry[call[w].target].period ELSE call[w].period

OnRow(r, m) == [row |-> r, mode |-> m]

(* Mutant: create reads its period without locking it.                     *)
UnlockedCreate(w) ==
  CASE stage[w] = "period"       -> IF call[w].op = "create" THEN {}
                                    ELSE {OnRow(PeriodOf(w), "update")}
    [] stage[w] = "entry"        -> {OnRow(call[w].target, "update")}
    [] stage[w] = "insert"       -> {OnRow(Org, "share")}
    [] stage[w] = "post"         -> {OnRow(Org, "share")}
    [] stage[w] = "organization" -> {OnRow(Org, "update")}
    [] OTHER                     -> {}

(* Mutant: the audit trail is read without locking the organization.       *)
UnlockedTrail(w) ==
  CASE stage[w] = "period"       -> {OnRow(PeriodOf(w), "update")}
    [] stage[w] = "entry"        -> {OnRow(call[w].target, "update")}
    [] stage[w] \in {"insert", "post", "organization"} -> {OnRow(Org, "share")}
    [] OTHER                     -> {}

(* The lock the worker's next statement takes.  Inserting journal or       *)
(* ledger rows checks their foreign key to the organization, which shares  *)
(* its row; appending to the audit trail updates it.                       *)
Wants(w) ==
  CASE stage[w] = "period"       -> {OnRow(PeriodOf(w), "update")}
    [] stage[w] = "entry"        -> {OnRow(call[w].target, "update")}
    [] stage[w] = "insert"       -> {OnRow(Org, "share")}
    [] stage[w] = "post"         -> {OnRow(Org, "share")}
    [] stage[w] = "organization" -> {OnRow(Org, "update")}
    [] OTHER                     -> {}

Conflict(l, m) == l.row = m.row /\ "update" \in {l.mode, m.mode}

Holders(w) ==
  {v \in Worker \ {w} : \E l \in Wants(w), m \in locks[v] : Conflict(l, m)}

(* Workers with an uncommitted row under the key w inserts: its unique     *)
(* index makes w wait for the end of their transactions.                   *)
KeyRivals(w) ==
  {v \in Worker \ {w} :
     \E e \in DOMAIN writes[v].entry : writes[v].entry[e].key = call[w].key}

Rivals(w) == Holders(w) \cup (IF stage[w] = "insert" THEN KeyRivals(w) ELSE {})

Acquire(w) ==
  /\ Rivals(w) = {}
  /\ locks' = [locks EXCEPT ![w] = @ \cup Wants(w)]

(* w is on a cycle of workers each waiting for the next.                   *)
InWaitCycle(w) ==
  \E D \in SUBSET Worker : \E next \in [D -> D] :
    /\ w \in D
    /\ \A d \in D : (\E c \in D : next[c] = d) /\ next[d] \in Rivals(d)

----------------------------------------------------------------------------
(* Statements shared by the operations                                     *)

Init ==
  /\ Books!Init
  /\ active = Account
  /\ stage = [w \in Worker |-> "idle"]
  /\ call = [w \in Worker |-> None]
  /\ open = [w \in Worker |-> FALSE]
  /\ row = [w \in Worker |-> None]
  /\ new = [w \in Worker |-> None]
  /\ writes = [w \in Worker |-> NoWrites]
  /\ locks = [w \in Worker |-> {}]
  /\ answer = [w \in Worker |-> None]

(* Identities no committed or pending row uses.                            *)
Fresh ==
  {e \in Entry \ Rows(entry) : \A w \in Worker : e \notin DOMAIN writes[w].entry}

Inserts(op) == op \in {"create", "reverse"}

(* Bound: a call that inserts an entry is accepted while Entry has an      *)
(* identity for it beside those the calls in progress may still take.      *)
IdentityLeft ==
  Cardinality({v \in Worker : /\ stage[v] \notin {"idle", "reply"}
                             /\ Inserts(call[v].op)
                             /\ new[v] = None}) < Cardinality(Fresh)

Begin(w) ==
  /\ stage[w] = "idle"
  /\ Len(audit) \in AuditRoom
  /\ \E c \in Calls :
       /\ Inserts(c.op) => IdentityLeft
       /\ call' = [call EXCEPT ![w] = c]
       /\ Goto(w, FirstStage(c.op))
  /\ UNCHANGED <<committed, active, open, row, new, writes, locks, answer>>

(* Post and reverse first read the period of the entry they name.          *)
FindEntry(w) ==
  /\ stage[w] = "find"
  /\ \/ /\ call[w].target \in Rows(entry)
        /\ Advance(w)
        /\ UNCHANGED <<call, open, row, new, writes, locks, answer>>
     \/ /\ call[w].target \notin Rows(entry)
        /\ Abort(w)
  /\ UNCHANGED <<committed, active>>

LockPeriod(w) ==
  /\ stage[w] = "period"
  /\ Acquire(w)
  /\ open' = [open EXCEPT ![w] = period[PeriodOf(w)] = "OPEN"]
  /\ Advance(w)
  /\ UNCHANGED <<committed, active, call, row, new, writes, answer>>

LockEntry(w) ==
  /\ stage[w] = "entry"
  /\ Acquire(w)
  /\ row' = [row EXCEPT ![w] = entry[call[w].target]]
  /\ Advance(w)
  /\ UNCHANGED <<committed, active, call, open, new, writes, answer>>

----------------------------------------------------------------------------
(* create                                                                  *)

(* Mutant: the key alone identifies the request.                           *)
SameKeyOnly(w, e) == entry[e].key = call[w].key

(* The entry stored under the key was created by the same payload.         *)
SameRequest(w, e) == entry[e].hash = CreateHash(call[w].period, call[w].lines)

FindKey(w) ==
  /\ stage[w] = "key"
  /\ \/ /\ KeyHolders(entry, call[w].key) = {}
        /\ Advance(w)
        /\ UNCHANGED <<call, open, row, new, writes, locks, answer>>
     \/ \E e \in KeyHolders(entry, call[w].key) :
          IF SameRequest(w, e) THEN Answer(w, e) ELSE Abort(w)
  /\ UNCHANGED <<committed, active>>

Creatable(w) ==
  /\ open[w]
  /\ call[w].dated
  /\ AccountsOf[call[w].lines] \subseteq active
  /\ Validated(call[w].lines)

CheckAccounts(w) ==
  /\ stage[w] = "accounts"
  /\ \/ /\ Creatable(w)
        /\ Advance(w)
        /\ UNCHANGED <<call, open, row, new, writes, locks, answer>>
     \/ /\ ~Creatable(w)
        /\ Abort(w)
  /\ UNCHANGED <<committed, active>>

(* The row a create or a reverse inserts: both insert a draft.             *)
NewRow(w) ==
  LET c == call[w] IN
  IF c.op = "create"
    THEN DraftRow(c.period, c.lines, c.key, CreateHash(c.period, c.lines), c.actor, None)
    ELSE DraftRow(row[w].period, Swap[row[w].lines], c.key, ReverseHash, c.actor, c.target)

(* Mutant: the keys are not unique.                                        *)
RefusedReversalOnly(w) ==
  call[w].op = "reverse" /\ ReversalsOf(entry, call[w].target) # {}

(* A unique index refuses the row: that of the idempotency keys, or that   *)
(* of the references from reversals to originals.                          *)
Refused(w) ==
  \/ KeyHolders(entry, call[w].key) # {}
  \/ call[w].op = "reverse" /\ ReversalsOf(entry, call[w].target) # {}

InsertEntry(w) ==
  /\ stage[w] = "insert"
  /\ ~Refused(w)
  /\ Acquire(w)
  /\ \E e \in Fresh :
       /\ new' = [new EXCEPT ![w] = e]
       /\ writes' = [writes EXCEPT ![w].entry = [x \in {e} |-> NewRow(w)]]
  /\ Advance(w)
  /\ UNCHANGED <<committed, active, call, open, row, answer>>

(* The IntegrityError handlers: both roll back; create then looks the key  *)
(* up again, reverse answers with a conflict.                              *)
InsertRefused(w) ==
  /\ stage[w] = "insert"
  /\ KeyRivals(w) = {}
  /\ Refused(w)
  /\ IF call[w].op = "create"
       THEN Goto(w, "replay") /\ Release(w) /\ Forget(w) /\ UNCHANGED <<call, answer>>
       ELSE Abort(w)
  /\ UNCHANGED <<committed, active>>

Replay(w) ==
  /\ stage[w] = "replay"
  /\ \E e \in KeyHolders(entry, call[w].key) :
       IF SameRequest(w, e) THEN Answer(w, e) ELSE Abort(w)
  /\ UNCHANGED <<committed, active>>

----------------------------------------------------------------------------
(* post                                                                    *)

Postable(w) ==
  /\ row[w].status = "DRAFT"
  /\ row[w].reversalOf = None => row[w].creator # call[w].actor
  /\ open[w]
  /\ Validated(row[w].lines)
  /\ ~HasPostings(ledger, call[w].target)

(* A posted entry is answered as posted, and the call goes on to append    *)
(* its audit record and commit.                                            *)
AlreadyPosted(w) ==
  row[w].status = "POSTED" /\ HasPostings(ledger, call[w].target)

PostEntry(w) ==
  /\ stage[w] = "post"
  /\ Postable(w)
  /\ Acquire(w)
  /\ writes' = [writes EXCEPT
       ![w].entry = [x \in {call[w].target} |-> PostedRow(row[w], call[w].actor)],
       ![w].ledger = <<PostingOf(call[w].target, row[w])>>]
  /\ Advance(w)
  /\ UNCHANGED <<committed, active, call, open, row, new, answer>>

PostNothing(w) ==
  /\ stage[w] = "post"
  /\ ~Postable(w)
  /\ \/ /\ AlreadyPosted(w)
        /\ Advance(w)
        /\ UNCHANGED <<call, open, row, new, writes, locks, answer>>
     \/ /\ ~AlreadyPosted(w)
        /\ Abort(w)
  /\ UNCHANGED <<committed, active>>

----------------------------------------------------------------------------
(* reverse                                                                 *)

(* The status and the actor are checked before the idempotency key.        *)
MayReverse(w) == row[w].status = "POSTED" /\ row[w].creator # call[w].actor

Reversible(w) ==
  /\ ReversalsOf(entry, call[w].target) = {}
  /\ open[w]
  /\ call[w].dated

CheckReversal(w) ==
  /\ stage[w] = "check"
  /\ LET held == KeyHolders(entry, call[w].key) IN
     \/ /\ MayReverse(w) /\ held = {} /\ Reversible(w)
        /\ Advance(w)
        /\ UNCHANGED <<call, open, row, new, writes, locks, answer>>
     \/ /\ MayReverse(w)
        /\ \E e \in held : entry[e].hash = ReverseHash /\ Answer(w, e)
     \/ /\ \/ ~MayReverse(w)
           \/ \E e \in held : entry[e].hash # ReverseHash
           \/ held = {} /\ ~Reversible(w)
        /\ Abort(w)
  /\ UNCHANGED <<committed, active>>

(* The reversal, inserted as a draft, is posted by the same actor, and the *)
(* original marked.                                                        *)
PostReversal(w) ==
  /\ stage[w] = "reverse"
  /\ LET draft == writes[w].entry[new[w]] IN
     writes' = [writes EXCEPT
       ![w].entry = [x \in {new[w], call[w].target} |->
                       IF x = new[w] THEN PostedRow(draft, call[w].actor)
                                     ELSE ReversedRow(row[w])],
       ![w].ledger = <<PostingOf(new[w], draft)>>]
  /\ Advance(w)
  /\ UNCHANGED <<committed, active, call, open, row, new, locks, answer>>

----------------------------------------------------------------------------
(* close and reopen                                                        *)

CountDrafts(w) ==
  /\ stage[w] = "drafts"
  /\ LET clear == open[w] /\ Drafts(entry, call[w].period) = {} IN
     \/ /\ clear
        /\ Advance(w)
        /\ UNCHANGED <<call, open, row, new, writes, locks, answer>>
     \/ /\ ~clear
        /\ Abort(w)
  /\ UNCHANGED <<committed, active>>

SetPeriod(w, status) ==
  writes' = [writes EXCEPT ![w].period = [x \in {call[w].period} |-> status]]

ReconcileAndClose(w) ==
  /\ stage[w] = "reconcile"
  /\ LET p == call[w].period
         settled == Reconciled(entry, ledger, p) /\ TrialBalanced(ledger, p)
     IN \/ /\ settled
           /\ SetPeriod(w, "CLOSED")
           /\ Advance(w)
           /\ UNCHANGED <<call, open, row, new, locks, answer>>
        \/ /\ ~settled
           /\ Abort(w)
  /\ UNCHANGED <<committed, active>>

Reopen(w) ==
  /\ stage[w] = "reopen"
  /\ \/ /\ ~open[w]
        /\ SetPeriod(w, "OPEN")
        /\ Advance(w)
        /\ UNCHANGED <<call, open, row, new, locks, answer>>
     \/ /\ open[w]
        /\ Abort(w)
  /\ UNCHANGED <<committed, active>>

----------------------------------------------------------------------------
(* The audit record and the commit, with which every operation ends        *)

LockOrganization(w) ==
  /\ stage[w] = "organization"
  /\ Acquire(w)
  /\ Advance(w)
  /\ UNCHANGED <<committed, active, call, open, row, new, writes, answer>>

ActionOf(op) ==
  [create |-> "JOURNAL_ENTRY_CREATED", post |-> "JOURNAL_ENTRY_POSTED",
   reverse |-> "JOURNAL_ENTRY_REVERSED", close |-> "FISCAL_PERIOD_CLOSED",
   reopen |-> "FISCAL_PERIOD_REOPENED"][op]

(* What the call wrote, and so what its record is about.                   *)
Subject(w) ==
  CASE call[w].op \in {"create", "reverse"} -> new[w]
    [] call[w].op = "post"                  -> call[w].target
    [] call[w].op \in {"close", "reopen"}   -> call[w].period

AppendAudit(w) ==
  /\ stage[w] = "append"
  /\ writes' = [writes EXCEPT ![w].audit =
       <<AuditRecord(audit, call[w].actor, ActionOf(call[w].op), Subject(w))>>]
  /\ Advance(w)
  /\ UNCHANGED <<committed, active, call, open, row, new, locks, answer>>

Commit(w) ==
  /\ stage[w] = "commit"
  /\ period' = Install(period, writes[w].period)
  /\ entry' = Install(entry, writes[w].entry)
  /\ ledger' = ledger \o writes[w].ledger
  /\ audit' = audit \o writes[w].audit
  /\ Answer(w, IF call[w].op \in {"close", "reopen"} THEN None ELSE Subject(w))
  /\ UNCHANGED active

Deliver(w) ==
  /\ stage[w] = "reply"
  /\ Abort(w)
  /\ UNCHANGED <<committed, active>>

----------------------------------------------------------------------------
(* Failures, and the environment                                           *)

(* The client or the server goes away before the commit.                   *)
CutOff(w) ==
  /\ stage[w] \notin {"idle", "reply"}
  /\ Abort(w)
  /\ UNCHANGED <<committed, active>>

(* PostgreSQL aborts one transaction of a wait cycle; the service rolls    *)
(* back and re-raises.                                                     *)
DeadlockVictim(w) ==
  /\ InWaitCycle(w)
  /\ Abort(w)
  /\ UNCHANGED <<committed, active>>

(* The account service flags an account active or inactive, in a           *)
(* transaction of its own that no journal operation waits for.             *)
FlagAccount(a) ==
  /\ active' = IF a \in active THEN active \ {a} ELSE active \cup {a}
  /\ UNCHANGED <<committed, session>>

(* No call in progress: the service may rest.                              *)
Rest ==
  /\ \A w \in Worker : stage[w] = "idle"
  /\ UNCHANGED vars

Step(w) ==
  \/ FindEntry(w) \/ LockPeriod(w) \/ LockEntry(w)
  \/ FindKey(w) \/ CheckAccounts(w)
  \/ InsertEntry(w) \/ InsertRefused(w) \/ Replay(w)
  \/ PostEntry(w) \/ PostNothing(w)
  \/ CheckReversal(w) \/ PostReversal(w)
  \/ CountDrafts(w) \/ ReconcileAndClose(w) \/ Reopen(w)
  \/ LockOrganization(w) \/ AppendAudit(w) \/ Commit(w) \/ Deliver(w)

Next ==
  \/ \E w \in Worker : Begin(w) \/ Step(w) \/ CutOff(w) \/ DeadlockVictim(w)
  \/ \E a \in Account : FlagAccount(a)
  \/ Rest

Spec == Init /\ [][Next]_vars

(* A running statement ends; a waiting one is served after the locks it    *)
(* wants have been released (PostgreSQL queues the waiters of a row), and  *)
(* the deadlock detector finds every cycle.  Clients need not call, nor    *)
(* administrators flag accounts, and no failure has to happen.             *)
Fairness ==
  \A w \in Worker : SF_vars(Step(w)) /\ WF_vars(DeadlockVictim(w))

FairSpec == Spec /\ Fairness

----------------------------------------------------------------------------
(* Properties                                                              *)

Stage == {"idle", "key", "find", "period", "accounts", "entry", "insert", "replay",
          "post", "check", "reverse", "drafts", "reconcile", "reopen", "organization",
          "append", "commit", "reply"}

(* The variables have their types; a worker is idle exactly without a call,*)
(* and a transaction's rows are private: idle or answering, it has none.   *)
TypeOK ==
  /\ Books!TypeOK
  /\ active \subseteq Account
  /\ stage \in [Worker -> Stage]
  /\ call \in [Worker -> Calls \cup {None}]
  /\ open \in [Worker -> BOOLEAN]
  /\ row \in [Worker -> EntryRow \cup {None}]
  /\ new \in [Worker -> Entry \cup {None}]
  /\ answer \in [Worker -> Entry \cup {None}]
  /\ locks \in [Worker -> SUBSET Lock]
  /\ \A w \in Worker :
       /\ DOMAIN writes[w].period \subseteq Period
       /\ \A p \in DOMAIN writes[w].period : writes[w].period[p] \in PeriodStatus
       /\ DOMAIN writes[w].entry \subseteq Entry
       /\ \A e \in DOMAIN writes[w].entry : writes[w].entry[e] \in EntryRow
       /\ writes[w].ledger \in Seq(Posting)
       /\ writes[w].audit \in Seq(AuditRow)
       /\ stage[w] = "idle" <=> call[w] = None
       /\ stage[w] \in {"idle", "reply"} => writes[w] = NoWrites /\ locks[w] = {}

(* Concurrent transactions, cut off or aborted at any point, amount to the *)
(* atomic calls of Books: no check is stale when its result commits, in    *)
(* one period or in two.  So requests that race with one idempotency key   *)
(* leave one entry, and concurrent appends one contiguous trail.           *)
ImplementsBooks == Books!Spec

(* Whatever a transaction has written and not committed lies in a period   *)
(* it alone has locked.                                                    *)
WritesUnderPeriodLock ==
  \A w \in Worker :
    /\ \A e \in DOMAIN writes[w].entry :
         OnRow(writes[w].entry[e].period, "update") \in locks[w]
    /\ \A p \in DOMAIN writes[w].period : OnRow(p, "update") \in locks[w]

(* The only row on which transactions can deadlock is the organization's:  *)
(* the order period, entry, organization is the same in every operation,   *)
(* and only the organization's lock is taken twice, shared then exclusive. *)
DeadlocksOnlyOnOrganization ==
  \A w \in Worker : InWaitCycle(w) => stage[w] = "organization"

(* A successful answer is true: to a create, the entry it names holds the  *)
(* request's key and payload; to a post, the entry named is posted, and    *)
(* the trail has a record of this actor posting it; to a reverse, the      *)
(* entry it names is a posted reversal under the request's key, of some    *)
(* original that is marked (the digest of the request does not say which). *)
AnswersTrue ==
  \A w \in Worker :
    (stage[w] = "reply" /\ call[w].op \in {"create", "post", "reverse"}) =>
      LET e == answer[w] IN
        /\ e \in Rows(entry)
        /\ call[w].op = "reverse" =>
             /\ entry[e].key = call[w].key
             /\ entry[e].status # "DRAFT"
             /\ entry[e].reversalOf \in Rows(entry)
             /\ entry[entry[e].reversalOf].status = "REVERSED"
        /\ call[w].op = "create" =>
             /\ entry[e].key = call[w].key
             /\ entry[e].hash = CreateHash(call[w].period, call[w].lines)
        /\ call[w].op = "post" =>
             /\ e = call[w].target
             /\ entry[e].status # "DRAFT"
             /\ \E i \in DOMAIN audit :
                  /\ audit[i].action = "JOURNAL_ENTRY_POSTED"
                  /\ audit[i].subject = e
                  /\ audit[i].actor = call[w].actor

(* Every call ends, with an answer or an error: no worker waits forever.   *)
EveryCallEnds == \A w \in Worker : stage[w] # "idle" ~> stage[w] = "idle"

----------------------------------------------------------------------------
(* Statements of the documentation                                         *)

(* Reconciliation reports drift: an orphan posting is one that no journal  *)
(* entry accounts for.                                                     *)
OrphansAreDrift ==
  \A p \in Period : \A i \in Orphans(entry, ledger, p) :
    \A e \in Rows(entry) : ledger[i] # PostingOf(e, entry[e])

============================================================================
