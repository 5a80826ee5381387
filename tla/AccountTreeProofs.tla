-------------------------- MODULE AccountTreeProofs --------------------------
(***************************************************************************)
(* Proofs that references of accounts never dangle, that codes are unique, *)
(* and that only a second move can put accounts under each other.          *)
(***************************************************************************)
EXTENDS AccountTree, FiniteSetTheorems, NaturalsInduction, WellFoundedInduction,
        SequenceTheorems, TLAPS

----------------------------------------------------------------------------
(* The inductive invariant                                                 *)

References(row) == {row.parent, row.collective} \ {None}

(* The comparison of paths that every row has passed: an account does not  *)
(* lie under one whose path begins with its own.                           *)
Above(path, parent) == parent # None => ~IsPrefix(path, account[parent].path)

(* The table: foreign keys, the unique constraint, and the paths.          *)
TableInv ==
  /\ account \in [Account -> AccountRow \cup {None}]
  /\ IsFiniteSet(Rows)
  /\ \A a \in Rows : References(account[a]) \subseteq Rows \ {a}
  /\ \A a, b \in Rows : account[a].code = account[b].code => a = b
  /\ \A a \in Rows : Above(account[a].path, account[a].parent)

Busy(w) == stage[w] # "idle"
Creating(w) == Busy(w) /\ call[w].op = "create"
Updating(w) == Busy(w) /\ call[w].op = "update"
Deleting(w) == Busy(w) /\ call[w].op = "delete"

(* The statements of each operation.                                       *)
StagesOf(op) ==
  CASE op = "create" -> {"code", "parent", "collective", "insert", "commit"}
    [] op = "update" -> {"account", "parent", "collective", "update", "commit"}
    [] op = "delete" -> {"account", "count", "children", "detach", "delete", "commit"}

Stages == {"idle"} \cup UNION {StagesOf(op) : op \in {"create", "update", "delete"}}

SessionTypes ==
  /\ stage \in [Worker -> Stages]
  /\ call \in [Worker -> Calls \cup {None}]
  /\ \A w \in Worker : stage[w] = "idle" <=> call[w] = None
  /\ \A w \in Worker : Busy(w) => stage[w] \in StagesOf(call[w].op)
  /\ DOMAIN writes = Worker /\ DOMAIN loaded = Worker
  /\ DOMAIN children = Worker /\ DOMAIN locks = Worker

(* What an idle worker has, and one that has written nothing.              *)
Fresh(w) ==
  /\ stage[w] = "idle" => loaded[w] = <<>> /\ children[w] = {} /\ locks[w] = {}
  /\ stage[w] \notin {"delete", "commit"} => writes[w] = <<>>

(* The session knows the paths of the accounts it has loaded, for as long  *)
(* as they exist: paths do not change, and identities are not given again. *)
KnowsPaths(w) ==
  \A a \in DOMAIN loaded[w] :
    /\ Busy(w) /\ a \in Mentioned(call[w]) \cap Account
    /\ loaded[w][a] \in AccountRow
    /\ a \in Rows => loaded[w][a].path = account[a].path

(* What an operation has loaded before it gets to its writes.              *)
HasLoaded(w) ==
  /\ (Updating(w) /\ stage[w] # "account") => Self(w) \in DOMAIN loaded[w]
  /\ (Creating(w) /\ stage[w] \in {"collective", "insert"} /\ call[w].parent # None)
       => call[w].parent \in DOMAIN loaded[w]

(* An update has compared the paths of the account and of its new parent.  *)
HasCompared(w) ==
  (Updating(w) /\ stage[w] \in {"collective", "update"} /\ Named(w, "parent") # None) =>
    LET p == Named(w, "parent") IN
      /\ p # Self(w) /\ p \in DOMAIN loaded[w]
      /\ ~IsPrefix(loaded[w][Self(w)].path, loaded[w][p].path)

(* A row that refers to an account has it locked against its deletion.     *)
Holds(w, a) == a \in Rows /\ On(a, "share") \in locks[w]

(* The rows written and not committed, of each operation.                  *)
InsertReady(w) ==
  (Creating(w) /\ stage[w] = "commit") =>
    LET row == writes[w][Self(w)] IN
      /\ DOMAIN writes[w] = {Self(w)}
      /\ row \in AccountRow
      /\ \A r \in References(row) : Holds(w, r)
      /\ Above(row.path, row.parent)
      /\ \A a \in Rows : account[a].code # row.code

UpdateReady(w) ==
  (Updating(w) /\ stage[w] = "commit" /\ writes[w] # <<>>) =>
    LET row == writes[w][Self(w)]
        old == account[Self(w)]
    IN /\ DOMAIN writes[w] = {Self(w)}
       /\ Self(w) \in Rows /\ On(Self(w), "change") \in locks[w]
       /\ row \in AccountRow
       /\ row.code = old.code /\ row.path = old.path
       /\ \A r \in References(row) \ References(old) : r # Self(w) /\ Holds(w, r)
       /\ Above(row.path, row.parent)

DeleteReady(w) ==
  /\ Deleting(w) => Self(w) \notin children[w]
  /\ (Deleting(w) /\ stage[w] \in {"delete", "commit"}) =>
       /\ \A b \in children[w] :
            /\ b \in Rows /\ On(b, "change") \in locks[w]
            /\ writes[w][b] = [account[b] EXCEPT !.parent = None]
       /\ DOMAIN writes[w] = children[w] \cup IF stage[w] = "commit" THEN {Self(w)} ELSE {}
  /\ (Deleting(w) /\ stage[w] = "commit") =>
       /\ Self(w) \in Rows /\ On(Self(w), "all") \in locks[w]
       /\ writes[w][Self(w)] = None
       /\ \A b \in Referring(Self(w)) : b \in children[w] /\ account[b].collective # Self(w)

SessionInv(w) ==
  /\ Fresh(w) /\ KnowsPaths(w) /\ HasLoaded(w) /\ HasCompared(w)
  /\ InsertReady(w) /\ UpdateReady(w) /\ DeleteReady(w)

(* An account that is being created is nobody else's concern yet.          *)
CreatesAlone(w) ==
  Creating(w) =>
    /\ account[Self(w)] = None
    /\ \A v \in Worker : Self(w) \notin DOMAIN loaded[v]
    /\ \A v \in Worker \ {w} :
         /\ Self(w) \notin DOMAIN writes[v]
         /\ Creating(v) => Self(v) # Self(w)

LocksApart ==
  \A w, v \in Worker : w # v => \A k \in locks[w], m \in locks[v] : ~Conflict(k, m)

(* Two rows to be inserted have different codes.                           *)
CodesApart ==
  \A w, v \in Worker :
    (/\ w # v
     /\ Creating(w) /\ stage[w] = "commit"
     /\ Creating(v) /\ stage[v] = "commit")
      => writes[w][Self(w)].code # writes[v][Self(v)].code

TreeInv ==
  /\ TableInv /\ SessionTypes
  /\ \A w \in Worker : SessionInv(w) /\ CreatesAlone(w)
  /\ LocksApart /\ CodesApart

----------------------------------------------------------------------------
(* Paths                                                                   *)

(* A sequence begins with itself.                                          *)
LEMMA PrefixOfItself == ASSUME NEW s \in Seq(Code) PROVE IsPrefix(s, s)
  BY DEF IsPrefix

(* What a sequence begins with, it begins with when it grows.              *)
LEMMA PrefixOfLonger ==
  ASSUME NEW s \in Seq(Code), NEW t \in Seq(Code), NEW c \in Code, IsPrefix(s, t)
  PROVE  IsPrefix(s, Append(t, c))
<1>1. Len(s) <= Len(t) /\ Len(Append(t, c)) = Len(t) + 1 /\ Append(t, c) \in Seq(Code)
  BY DEF IsPrefix
<1>2. SubSeq(Append(t, c), 1, Len(s)) = SubSeq(t, 1, Len(s))
  BY <1>1
<1> QED
  BY <1>1, <1>2 DEF IsPrefix

(* No sequence begins with a longer one.                                   *)
LEMMA NoLongerPrefix ==
  ASSUME NEW t \in Seq(Code), NEW c \in Code
  PROVE  ~IsPrefix(Append(t, c), t)
  BY DEF IsPrefix

(* A set of natural numbers that is not empty has a least element.         *)
LEMMA LeastNumber ==
  ASSUME NEW S \in SUBSET Nat, S # {}
  PROVE  \E m \in S : \A k \in S : m <= k
<1>1. PICK m \in S : \A k \in S : <<k, m>> \notin OpToRel(<, Nat)
  BY WFMin, NatLessThanWellFounded, Zenon
<1>2. \A k \in S : ~(k < m)
  BY <1>1, Zenon DEF OpToRel
<1> QED
  BY <1>2

----------------------------------------------------------------------------
(* Calls and rows                                                          *)

(* The calls have the fields of their operations.                          *)
LEMMA CallTypes ==
  ASSUME NEW c \in Calls
  PROVE  /\ c.op \in {"create", "update", "delete"} /\ c.account \in Account
         /\ c.op = "create" =>
              c.code \in Code /\ c.parent \in Reference /\ c.collective \in Reference
         /\ c.op = "update" =>
              /\ DOMAIN c.set \subseteq {"parent", "collective"}
              /\ \A f \in DOMAIN c.set : c.set[f] \in Reference
<1>1. c \in Call
  BY TreeAssumption
<1>2. CASE c \in [op : {"create"}, account : Account, code : Code,
                  parent : Reference, collective : Reference]
  BY <1>2
<1>3. CASE c \in [op : {"update"}, account : Account,
                  set : UNION {[F -> Reference] : F \in SUBSET {"parent", "collective"}}]
  <2>1. PICK F \in SUBSET {"parent", "collective"} : c.set \in [F -> Reference]
    BY <1>3
  <2> QED
    BY <1>3, <2>1
<1>4. CASE c \in [op : {"delete"}, account : Account]
  BY <1>4
<1> QED
  BY <1>1, <1>2, <1>3, <1>4 DEF Call

(* The columns of a row; a row is not NULL.                                *)
LEMMA RowTypes ==
  ASSUME NEW row \in AccountRow
  PROVE  /\ row # None /\ row.code \in Code /\ row.path \in Seq(Code)
         /\ row.parent \in Reference /\ row.collective \in Reference
         /\ References(row) \subseteq Account
  BY TreeAssumption DEF AccountRow, References, Reference

(* An account that exists has a row, another one has none.                 *)
LEMMA TableTypes ==
  ASSUME TableInv
  PROVE  /\ \A a \in Rows : a \in Account /\ account[a] \in AccountRow /\ account[a] # None
         /\ \A a \in Account : a \notin Rows => account[a] = None
         /\ DOMAIN account = Account
  BY DEF TableInv, Rows

(* The call of a session that is not idle.                                 *)
LEMMA BusyCalls ==
  ASSUME SessionTypes, NEW w \in Worker, Busy(w)
  PROVE  /\ call[w] \in Calls /\ stage[w] \in StagesOf(call[w].op)
         /\ Self(w) \in Account /\ call[w].op \in {"create", "update", "delete"}
  BY CallTypes DEF SessionTypes, Busy, Self

(* A session that has loaded or written nothing.                           *)
LEMMA EmptyFunction == DOMAIN <<>> = {}
  OBVIOUS

----------------------------------------------------------------------------
(* Steps that do not commit                                                *)

(* The other sessions are as they were.                                    *)
OthersSame(w) ==
  \A v \in Worker \ {w} :
    /\ stage'[v] = stage[v] /\ call'[v] = call[v] /\ writes'[v] = writes[v]
    /\ loaded'[v] = loaded[v] /\ children'[v] = children[v] /\ locks'[v] = locks[v]

(* What a session knows stays true while the table and what it has stay.   *)
LEMMA SessionKept ==
  ASSUME NEW v \in Worker, account' = account, SessionInv(v),
         stage'[v] = stage[v], call'[v] = call[v], writes'[v] = writes[v],
         loaded'[v] = loaded[v], children'[v] = children[v], locks'[v] = locks[v]
  PROVE  SessionInv(v)'
<1> DEFINE same == /\ Rows' = Rows
                   /\ Busy(v)' = Busy(v) /\ Creating(v)' = Creating(v)
                   /\ Updating(v)' = Updating(v) /\ Deleting(v)' = Deleting(v)
                   /\ Self(v)' = Self(v)
<1>1. same
  BY DEF Rows, Busy, Creating, Updating, Deleting, Self
<1>2. Fresh(v)'
  BY DEF SessionInv, Fresh
<1>3. KnowsPaths(v)'
  BY <1>1 DEF SessionInv, KnowsPaths
<1>4. HasLoaded(v)'
  BY <1>1 DEF SessionInv, HasLoaded
<1>5. HasCompared(v)'
  BY <1>1 DEF SessionInv, HasCompared, Named
<1>6. InsertReady(v)'
  BY <1>1 DEF SessionInv, InsertReady, Holds, Above
<1>7. UpdateReady(v)'
  BY <1>1 DEF SessionInv, UpdateReady, Holds, Above
<1>8. DeleteReady(v)'
  BY <1>1 DEF SessionInv, DeleteReady, Referring
<1> QED
  BY <1>2, <1>3, <1>4, <1>5, <1>6, <1>7, <1>8 DEF SessionInv

(* Each session has written rows of accounts that exist, keeping their     *)
(* codes, and one that it creates.                                         *)
LEMMA WritesKnown ==
  ASSUME TreeInv, NEW v \in Worker, NEW a \in DOMAIN writes[v]
  PROVE  /\ Busy(v)
         /\ a \in Rows \/ (Creating(v) /\ a = Self(v) /\ stage[v] = "commit")
         /\ a \in Account
<1>1. SessionInv(v) /\ SessionTypes
  BY DEF TreeInv
<1>2. stage[v] \in {"delete", "commit"} /\ Busy(v)
  BY <1>1, EmptyFunction DEF SessionInv, Fresh, Busy
<1>3. Self(v) \in Account /\ call[v].op \in {"create", "update", "delete"}
       /\ stage[v] \in StagesOf(call[v].op)
  BY <1>1, <1>2, BusyCalls
<1>4. CASE call[v].op = "create"
  <2>1. stage[v] = "commit" /\ Creating(v)
    BY <1>2, <1>3, <1>4 DEF StagesOf, Creating
  <2> QED
    BY <1>1, <1>2, <1>3, <2>1 DEF SessionInv, InsertReady
<1>5. CASE call[v].op = "update"
  <2>1. stage[v] = "commit" /\ Updating(v) /\ writes[v] # <<>>
    BY <1>2, <1>3, <1>5, EmptyFunction DEF StagesOf, Updating
  <2> QED
    BY <1>1, <1>2, <1>3, <2>1 DEF SessionInv, UpdateReady
<1>6. CASE call[v].op = "delete"
  <2>1. Deleting(v)
    BY <1>2, <1>6 DEF Deleting
  <2>2. a \in Rows
    BY <1>1, <1>2, <2>1 DEF SessionInv, DeleteReady
  <2> QED
    BY <1>2, <2>2 DEF Rows
<1> QED
  BY <1>3, <1>4, <1>5, <1>6

(* The parts of the invariant that are about two sessions, after a step of *)
(* w that changes neither the table nor the calls: what it loads exists,   *)
(* what it writes exists or is what it creates, and its locks were free.   *)
LEMMA PairsKept ==
  ASSUME TreeInv, NEW w \in Worker, account' = account, call' = call, OthersSame(w),
         stage[w] # "idle", stage'[w] # "idle",
         DOMAIN loaded'[w] \subseteq DOMAIN loaded[w] \cup Rows,
         \A a \in DOMAIN writes'[w] : a \in Rows \/ (Creating(w) /\ a = Self(w)),
         \A v \in Worker \ {w} : \A k \in locks'[w], m \in locks[v] : ~Conflict(k, m),
         Creating(w) /\ stage'[w] = "commit" =>
           \A v \in Worker \ {w} : Creating(v) /\ stage[v] = "commit" =>
             writes'[w][Self(w)].code # writes[v][Self(v)].code
  PROVE  (\A u \in Worker : CreatesAlone(u)') /\ LocksApart' /\ CodesApart'
<1>1. \A u \in Worker : Busy(u)' = Busy(u) /\ Creating(u)' = Creating(u) /\ Self(u)' = Self(u)
  BY DEF OthersSame, Busy, Creating, Self
<1>2. ASSUME NEW u \in Worker, Creating(u) PROVE CreatesAlone(u)'
  <2>1. CreatesAlone(u)
    BY DEF TreeInv
  <2>2. account'[Self(u)] = None /\ Self(u) \notin Rows
    BY <1>2, <2>1 DEF CreatesAlone, Rows
  <2>3. \A v \in Worker : Self(u) \notin DOMAIN loaded'[v]
    BY <1>2, <2>1, <2>2 DEF CreatesAlone, OthersSame
  <2>4. ASSUME NEW v \in Worker \ {u} PROVE Self(u) \notin DOMAIN writes'[v]
    <3>1. Creating(v) => Self(v) # Self(u)
      BY <1>2, <2>1 DEF CreatesAlone
    <3>2. CASE v = w
      BY <2>2, <3>1, <3>2
    <3>3. CASE v # w
      BY <1>2, <2>1, <3>3 DEF CreatesAlone, OthersSame
    <3> QED
      BY <3>2, <3>3
  <2>5. \A v \in Worker \ {u} : Creating(v) => Self(v) # Self(u)
    BY <1>2, <2>1 DEF CreatesAlone
  <2> QED
    BY <1>1, <2>2, <2>3, <2>4, <2>5 DEF CreatesAlone
<1>3. \A u \in Worker : CreatesAlone(u)'
  BY <1>1, <1>2 DEF CreatesAlone
<1>4. LocksApart'
  <2> SUFFICES ASSUME NEW u \in Worker, NEW v \in Worker, u # v,
                      NEW k \in locks'[u], NEW m \in locks'[v]
               PROVE  ~Conflict(k, m)
    BY DEF LocksApart, Conflict
  <2>1. CASE u = w
    BY <2>1 DEF OthersSame
  <2>2. CASE v = w
    <3>1. ~Conflict(m, k)
      BY <2>2 DEF OthersSame
    <3> QED
      BY <3>1 DEF Conflict
  <2>3. CASE u # w /\ v # w
    BY <2>3 DEF OthersSame, TreeInv, LocksApart
  <2> QED
    BY <2>1, <2>2, <2>3
<1>5. CodesApart'
  <2> SUFFICES ASSUME NEW u \in Worker, NEW v \in Worker, u # v,
                      Creating(u), stage'[u] = "commit", Creating(v), stage'[v] = "commit"
               PROVE  writes'[u][Self(u)].code # writes'[v][Self(v)].code
    BY <1>1 DEF CodesApart
  <2>1. CASE u = w
    BY <2>1 DEF OthersSame
  <2>2. CASE v = w
    BY <2>2 DEF OthersSame
  <2>3. CASE u # w /\ v # w
    BY <2>3 DEF OthersSame, TreeInv, CodesApart
  <2> QED
    BY <2>1, <2>2, <2>3
<1> QED
  BY <1>3, <1>4, <1>5

----------------------------------------------------------------------------
(* The statements that read                                                *)

(* A statement keeps the invariant that keeps what its own session knows.  *)
LEMMA StatementKeeps ==
  ASSUME TreeInv, NEW w \in Worker, account' = account, call' = call, OthersSame(w),
         stage[w] # "idle", SessionTypes', SessionInv(w)',
         DOMAIN loaded'[w] \subseteq DOMAIN loaded[w] \cup Rows,
         \A a \in DOMAIN writes'[w] : a \in Rows \/ (Creating(w) /\ a = Self(w)),
         \A v \in Worker \ {w} : \A k \in locks'[w], m \in locks[v] : ~Conflict(k, m),
         Creating(w) /\ stage'[w] = "commit" =>
           \A v \in Worker \ {w} : Creating(v) /\ stage[v] = "commit" =>
             writes'[w][Self(w)].code # writes[v][Self(v)].code
  PROVE  TreeInv'
<1>1. stage'[w] # "idle"
  BY DEF TreeInv, SessionTypes
<1>2. (\A u \in Worker : CreatesAlone(u)') /\ LocksApart' /\ CodesApart'
  BY <1>1, PairsKept
<1>3. TableInv'
  <2>1. TableInv
    BY DEF TreeInv
  <2> QED
    BY <2>1 DEF TableInv, Rows, Above
<1>4. ASSUME NEW v \in Worker \ {w} PROVE SessionInv(v)'
  BY SessionKept DEF TreeInv, OthersSame
<1> QED
  BY <1>2, <1>3, <1>4 DEF TreeInv

(* A statement that writes and locks nothing.                              *)
LEMMA ReadKeeps ==
  ASSUME TreeInv, NEW w \in Worker, stage[w] # "idle",
         account' = account, call' = call, writes' = writes, locks' = locks,
         \A v \in Worker \ {w} :
           stage'[v] = stage[v] /\ loaded'[v] = loaded[v] /\ children'[v] = children[v],
         stage'[w] # "commit", SessionTypes', SessionInv(w)',
         DOMAIN loaded'[w] \subseteq DOMAIN loaded[w] \cup Rows
  PROVE  TreeInv'
<1>1. OthersSame(w)
  BY DEF OthersSame
<1>2. \A a \in DOMAIN writes'[w] : a \in Rows \/ (Creating(w) /\ a = Self(w))
  BY WritesKnown
<1>3. \A v \in Worker \ {w} : \A k \in locks'[w], m \in locks[v] : ~Conflict(k, m)
  BY DEF TreeInv, LocksApart
<1> QED
  BY <1>1, <1>2, <1>3, StatementKeeps

(* Loading an account that the call names.                                 *)
LEMMA LoadKnows ==
  ASSUME TreeInv, NEW w \in Worker, NEW a \in Account, Load(w, a), Busy(w),
         a \in Mentioned(call[w]), account' = account, call' = call, stage'[w] # "idle"
  PROVE  /\ DOMAIN loaded'[w] = DOMAIN loaded[w] \cup {a}
         /\ \A x \in DOMAIN loaded[w] : loaded'[w][x] = loaded[w][x]
         /\ \A v \in Worker \ {w} : loaded'[v] = loaded[v]
         /\ DOMAIN loaded' = Worker /\ a \in Rows
         /\ a \notin DOMAIN loaded[w] => loaded'[w][a] = account[a]
         /\ KnowsPaths(w)'
<1> DEFINE new == Overlay(One(a, account[a]), loaded[w])
<1>1. /\ DOMAIN loaded = Worker /\ loaded' = [loaded EXCEPT ![w] = new]
      /\ a \in Rows /\ account[a] \in AccountRow
  BY TableTypes DEF TreeInv, SessionTypes, Load, Rows
<1>2. /\ DOMAIN new = DOMAIN loaded[w] \cup {a}
      /\ \A x \in DOMAIN loaded[w] : new[x] = loaded[w][x]
      /\ a \notin DOMAIN loaded[w] => new[a] = account[a]
  BY DEF Overlay, One
<1>3. KnowsPaths(w)
  BY DEF TreeInv, SessionInv
<1> HIDE DEF new
<1>4. loaded'[w] = new
  BY <1>1
<1>5. KnowsPaths(w)'
  BY <1>1, <1>2, <1>3, <1>4 DEF KnowsPaths, Busy, Rows
<1> QED
  BY <1>1, <1>2, <1>4, <1>5

(* The next statement of the same operation.                               *)
LEMMA GoTypes ==
  ASSUME TreeInv, NEW w \in Worker, Busy(w), NEW s, Go(w, s), s \in StagesOf(call[w].op)
  PROVE  /\ account' = account /\ call' = call
         /\ stage'[w] = s /\ s # "idle"
         /\ \A v \in Worker \ {w} : stage'[v] = stage[v]
         /\ Busy(w)' /\ Self(w)' = Self(w)
         /\ Creating(w)' = Creating(w) /\ Updating(w)' = Updating(w)
         /\ Deleting(w)' = Deleting(w)
         /\ (/\ DOMAIN writes' = Worker /\ DOMAIN loaded' = Worker
             /\ DOMAIN children' = Worker /\ DOMAIN locks' = Worker)
              => SessionTypes'
<1>1. SessionTypes
  BY DEF TreeInv
<1>2. call[w] \in Calls /\ call[w].op \in {"create", "update", "delete"}
  BY <1>1, BusyCalls
<1>3. /\ account' = account /\ call' = call
      /\ stage'[w] = s /\ s # "idle"
      /\ \A v \in Worker \ {w} : stage'[v] = stage[v]
  BY <1>1, <1>2 DEF Go, SessionTypes, StagesOf
<1>4. call[w] # None
  BY <1>2, TreeAssumption
<1>5. stage' \in [Worker -> Stages]
  BY <1>1, <1>2 DEF Go, SessionTypes, Stages
<1> QED
  BY <1>1, <1>3, <1>4, <1>5 DEF SessionTypes, Busy, Self, Creating, Updating, Deleting

(* The code is looked for: nothing becomes known.                          *)
LEMMA FindCodeKeeps == ASSUME TreeInv, NEW w \in Worker, FindCode(w) PROVE TreeInv'
<1>1. Busy(w) /\ SessionTypes /\ SessionInv(w) /\ stage[w] = "code"
  BY DEF FindCode, TreeInv, Busy
<1>2. call[w].op = "create"
  BY <1>1, BusyCalls DEF StagesOf
<1>3. Go(w, "parent") /\ "parent" \in StagesOf(call[w].op)
  BY <1>2 DEF FindCode, StagesOf
<1>4. UNCHANGED <<writes, loaded, children, locks>>
  BY DEF FindCode
<1>5. SessionTypes' /\ stage'[w] = "parent" /\ Creating(w)' = Creating(w)
  BY <1>1, <1>3, <1>4, GoTypes DEF SessionTypes
<1>6. SessionInv(w)'
  <2>1. Fresh(w)' /\ KnowsPaths(w)'
    BY <1>1, <1>3, <1>4, <1>5, GoTypes DEF SessionInv, Fresh, KnowsPaths, Rows
  <2>2. HasLoaded(w)' /\ HasCompared(w)'
    BY <1>1, <1>2, <1>3, <1>5, GoTypes DEF HasLoaded, HasCompared, Updating
  <2>3. InsertReady(w)' /\ UpdateReady(w)' /\ DeleteReady(w)'
    BY <1>1, <1>2, <1>3, <1>5, GoTypes DEF InsertReady, UpdateReady, DeleteReady, Deleting
  <2> QED
    BY <2>1, <2>2, <2>3 DEF SessionInv
<1> QED
  BY <1>1, <1>3, <1>4, <1>5, <1>6, GoTypes, ReadKeeps

(* Counting the children tells the session nothing that lasts.             *)
LEMMA CountKeeps == ASSUME TreeInv, NEW w \in Worker, CountChildren(w) PROVE TreeInv'
<1>1. Busy(w) /\ SessionTypes /\ SessionInv(w) /\ stage[w] = "count"
  BY DEF CountChildren, TreeInv, Busy
<1>2. call[w].op = "delete"
  BY <1>1, BusyCalls DEF StagesOf
<1>3. Go(w, "children") /\ "children" \in StagesOf(call[w].op)
  BY <1>2 DEF CountChildren, StagesOf
<1>4. UNCHANGED <<writes, loaded, children, locks>>
  BY DEF CountChildren
<1>5. SessionTypes' /\ stage'[w] = "children"
  BY <1>1, <1>3, <1>4, GoTypes DEF SessionTypes
<1>6. SessionInv(w)'
  <2>1. Fresh(w)' /\ KnowsPaths(w)'
    BY <1>1, <1>3, <1>4, <1>5, GoTypes DEF SessionInv, Fresh, KnowsPaths, Rows
  <2>2. HasLoaded(w)' /\ HasCompared(w)'
    BY <1>1, <1>2, <1>3, <1>5, GoTypes DEF HasLoaded, HasCompared, Updating, Creating
  <2>3. InsertReady(w)' /\ UpdateReady(w)' /\ DeleteReady(w)'
    BY <1>1, <1>3, <1>4, <1>5, GoTypes DEF SessionInv, InsertReady, UpdateReady, DeleteReady
  <2> QED
    BY <2>1, <2>2, <2>3 DEF SessionInv
<1> QED
  BY <1>1, <1>3, <1>4, <1>5, <1>6, GoTypes, ReadKeeps

(* The account is not among its children: no reference leads to itself.    *)
LEMMA LoadChildrenKeeps == ASSUME TreeInv, NEW w \in Worker, LoadChildren(w) PROVE TreeInv'
<1>1. Busy(w) /\ SessionTypes /\ SessionInv(w) /\ TableInv /\ stage[w] = "children"
  BY DEF LoadChildren, TreeInv, Busy
<1>2. call[w].op = "delete"
  BY <1>1, BusyCalls DEF StagesOf
<1>3. Go(w, "detach") /\ "detach" \in StagesOf(call[w].op)
  BY <1>2 DEF LoadChildren, StagesOf
<1>4. /\ UNCHANGED <<writes, loaded, locks>>
      /\ DOMAIN children' = Worker /\ children'[w] = Children(Self(w))
      /\ \A v \in Worker \ {w} : children'[v] = children[v]
  BY <1>1 DEF LoadChildren, SessionTypes
<1>5. SessionTypes' /\ stage'[w] = "detach"
  BY <1>1, <1>3, <1>4, GoTypes DEF SessionTypes
<1>6. SessionInv(w)'
  <2>1. Fresh(w)' /\ KnowsPaths(w)'
    BY <1>1, <1>3, <1>4, <1>5, GoTypes DEF SessionInv, Fresh, KnowsPaths, Rows
  <2>2. HasLoaded(w)' /\ HasCompared(w)'
    BY <1>1, <1>2, <1>3, <1>5, GoTypes DEF HasLoaded, HasCompared, Updating, Creating
  <2>3. Self(w) \notin Children(Self(w))
    <3> SUFFICES ASSUME Self(w) \in Rows, account[Self(w)].parent = Self(w) PROVE FALSE
      BY DEF Children
    <3>1. Self(w) # None
      BY <1>1, BusyCalls, TreeAssumption
    <3> QED
      BY <1>1, <3>1 DEF TableInv, References
  <2>4. InsertReady(w)' /\ UpdateReady(w)' /\ DeleteReady(w)'
    BY <1>1, <1>3, <1>4, <1>5, <2>3, GoTypes DEF InsertReady, UpdateReady, DeleteReady
  <2> QED
    BY <2>1, <2>2, <2>4 DEF SessionInv
<1> QED
  BY <1>1, <1>3, <1>4, <1>5, <1>6, GoTypes, ReadKeeps

(* The account a call is about is loaded first.                            *)
LEMMA LoadAccountKeeps == ASSUME TreeInv, NEW w \in Worker, LoadAccount(w) PROVE TreeInv'
<1> DEFINE s == IF call[w].op = "update" THEN "parent" ELSE "count"
<1>1. Busy(w) /\ SessionTypes /\ SessionInv(w) /\ stage[w] = "account"
  BY DEF LoadAccount, TreeInv, Busy
<1>2. call[w].op \in {"update", "delete"} /\ Self(w) \in Account /\ Self(w) \in Mentioned(call[w])
  BY <1>1, BusyCalls DEF StagesOf, Mentioned, Self
<1>3. Go(w, s) /\ s \in StagesOf(call[w].op) /\ s \in {"parent", "count"}
  BY <1>2 DEF LoadAccount, StagesOf
<1>4. UNCHANGED <<writes, children, locks>> /\ Load(w, Self(w))
  BY DEF LoadAccount, Self
<1> HIDE DEF s
<1>5. /\ account' = account /\ call' = call /\ stage'[w] = s /\ s # "idle"
      /\ Creating(w)' = Creating(w) /\ Updating(w)' = Updating(w)
      /\ Deleting(w)' = Deleting(w) /\ Self(w)' = Self(w)
  BY <1>1, <1>3, GoTypes
<1>6. /\ DOMAIN loaded'[w] = DOMAIN loaded[w] \cup {Self(w)}
      /\ \A v \in Worker \ {w} : loaded'[v] = loaded[v]
      /\ DOMAIN loaded' = Worker /\ Self(w) \in Rows /\ KnowsPaths(w)'
  BY <1>1, <1>2, <1>4, <1>5, LoadKnows
<1>7. SessionTypes'
  BY <1>1, <1>3, <1>4, <1>6, GoTypes DEF SessionTypes
<1>8. SessionInv(w)'
  <2>1. Fresh(w)'
    BY <1>1, <1>3, <1>4, <1>5 DEF SessionInv, Fresh
  <2>2. HasLoaded(w)' /\ HasCompared(w)'
    BY <1>2, <1>3, <1>5, <1>6 DEF HasLoaded, HasCompared, Creating
  <2>3. InsertReady(w)' /\ UpdateReady(w)' /\ DeleteReady(w)'
    <3>1. Deleting(w) => Self(w) \notin children[w]
      BY <1>1 DEF SessionInv, DeleteReady
    <3> QED
      BY <1>3, <1>4, <1>5, <3>1 DEF InsertReady, UpdateReady, DeleteReady
  <2> QED
    BY <1>6, <2>1, <2>2, <2>3 DEF SessionInv
<1> QED
  BY <1>1, <1>3, <1>4, <1>5, <1>6, <1>7, <1>8, GoTypes, ReadKeeps

(* The parent is loaded, and an update compares the paths.                 *)
LEMMA FindParentKeeps == ASSUME TreeInv, NEW w \in Worker, FindParent(w) PROVE TreeInv'
<1> DEFINE p == Named(w, "parent")
<1>1. Busy(w) /\ SessionTypes /\ SessionInv(w) /\ TableInv /\ stage[w] = "parent"
  BY DEF FindParent, TreeInv, Busy
<1>2. call[w].op \in {"create", "update"} /\ call[w] \in Calls /\ Self(w) \in Account
  BY <1>1, BusyCalls DEF StagesOf
<1>3. Go(w, "collective") /\ "collective" \in StagesOf(call[w].op)
  BY <1>2 DEF FindParent, StagesOf
<1>4. UNCHANGED <<writes, children, locks>>
  BY DEF FindParent
<1>5. p \in Reference /\ (p # None => p \in Mentioned(call[w]) /\ p \in Account)
  BY <1>2, CallTypes DEF Named, Mentioned, Reference
<1>6. call[w].op = "create" => p = call[w].parent
  BY DEF Named
<1>7. /\ p = None => loaded' = loaded
      /\ p # None => Load(w, p)
      /\ (call[w].op = "update" /\ p # None) => NotUnderItself(w, p)
  BY DEF FindParent
<1> HIDE DEF p
<1>8. /\ account' = account /\ call' = call /\ stage'[w] = "collective"
      /\ Creating(w)' = Creating(w) /\ Updating(w)' = Updating(w)
      /\ Deleting(w)' = Deleting(w) /\ Self(w)' = Self(w)
  BY <1>1, <1>3, GoTypes
<1>9. /\ DOMAIN loaded'[w] = DOMAIN loaded[w] \cup IF p = None THEN {} ELSE {p}
      /\ \A x \in DOMAIN loaded[w] : loaded'[w][x] = loaded[w][x]
      /\ \A v \in Worker \ {w} : loaded'[v] = loaded[v]
      /\ DOMAIN loaded' = Worker /\ KnowsPaths(w)'
      /\ p # None => p \in Rows /\ (p \notin DOMAIN loaded[w] => loaded'[w][p] = account[p])
  <2>1. CASE p = None
    BY <1>1, <1>7, <1>8, <2>1 DEF SessionTypes, SessionInv, KnowsPaths, Busy, Rows
  <2>2. CASE p # None
    BY <1>1, <1>5, <1>7, <1>8, <2>2, LoadKnows
  <2> QED
    BY <2>1, <2>2
<1>10. SessionTypes'
  BY <1>1, <1>3, <1>4, <1>9, GoTypes DEF SessionTypes
<1>11. Fresh(w)'
  BY <1>1, <1>3, <1>4, <1>8 DEF SessionInv, Fresh
<1>12. HasLoaded(w)'
  BY <1>1, <1>6, <1>8, <1>9 DEF SessionInv, HasLoaded, Creating
<1>13. HasCompared(w)'
  <2>1. Named(w, "parent")' = p
    BY <1>8 DEF p, Named
  <2> SUFFICES ASSUME Updating(w), p # None
               PROVE  /\ p # Self(w) /\ p \in DOMAIN loaded'[w]
                      /\ ~IsPrefix(loaded'[w][Self(w)].path, loaded'[w][p].path)
    BY <1>8, <2>1 DEF HasCompared
  <2>2. p # Self(w) /\ ~IsPrefix(loaded[w][Self(w)].path, account[p].path)
    BY <1>7 DEF NotUnderItself, Updating
  <2>3. Self(w) \in DOMAIN loaded[w]
    BY <1>1 DEF SessionInv, HasLoaded
  <2>4. loaded'[w][p].path = account[p].path
    BY <1>8, <1>9 DEF KnowsPaths, Rows
  <2> QED
    BY <1>9, <2>2, <2>3, <2>4
<1>14. InsertReady(w)' /\ UpdateReady(w)' /\ DeleteReady(w)'
  BY <1>2, <1>8 DEF InsertReady, UpdateReady, DeleteReady, Deleting
<1>15. SessionInv(w)'
  BY <1>9, <1>11, <1>12, <1>13, <1>14 DEF SessionInv
<1> QED
  BY <1>1, <1>3, <1>4, <1>5, <1>8, <1>9, <1>10, <1>15, GoTypes, ReadKeeps

(* The collective account is loaded; the comparison of the paths stands.   *)
LEMMA FindCollectiveKeeps == ASSUME TreeInv, NEW w \in Worker, FindCollective(w) PROVE TreeInv'
<1> DEFINE c == Named(w, "collective")
           s == IF call[w].op = "create" THEN "insert" ELSE "update"
<1>1. Busy(w) /\ SessionTypes /\ SessionInv(w) /\ TableInv /\ stage[w] = "collective"
  BY DEF FindCollective, TreeInv, Busy
<1>2. call[w].op \in {"create", "update"} /\ call[w] \in Calls /\ Self(w) \in Account
  BY <1>1, BusyCalls DEF StagesOf
<1>3. Go(w, s) /\ s \in StagesOf(call[w].op) /\ s \in {"insert", "update"}
  BY <1>2 DEF FindCollective, StagesOf
<1>4. UNCHANGED <<writes, children, locks>>
  BY DEF FindCollective
<1>5. c # None => c \in Mentioned(call[w]) /\ c \in Account
  BY <1>2, CallTypes DEF Named, Mentioned, Reference
<1>6. /\ c = None => loaded' = loaded
      /\ c # None => Load(w, c)
  BY DEF FindCollective
<1> HIDE DEF c, s
<1>7. /\ account' = account /\ call' = call /\ stage'[w] = s
      /\ Creating(w)' = Creating(w) /\ Updating(w)' = Updating(w)
      /\ Deleting(w)' = Deleting(w) /\ Self(w)' = Self(w)
  BY <1>1, <1>3, GoTypes
<1>8. /\ DOMAIN loaded'[w] = DOMAIN loaded[w] \cup IF c = None THEN {} ELSE {c}
      /\ \A x \in DOMAIN loaded[w] : loaded'[w][x] = loaded[w][x]
      /\ \A v \in Worker \ {w} : loaded'[v] = loaded[v]
      /\ DOMAIN loaded' = Worker /\ KnowsPaths(w)'
      /\ c # None => c \in Rows
  <2>1. CASE c = None
    BY <1>1, <1>3, <1>6, <1>7, <2>1 DEF SessionTypes, SessionInv, KnowsPaths, Busy, Rows
  <2>2. CASE c # None
    BY <1>1, <1>3, <1>5, <1>6, <1>7, <2>2, LoadKnows
  <2> QED
    BY <2>1, <2>2
<1>9. SessionTypes'
  BY <1>1, <1>3, <1>4, <1>8, GoTypes DEF SessionTypes
<1>10. Fresh(w)'
  BY <1>1, <1>3, <1>4, <1>7 DEF SessionInv, Fresh
<1>11. HasLoaded(w)'
  BY <1>1, <1>3, <1>7, <1>8 DEF SessionInv, HasLoaded
<1>12. HasCompared(w)'
  <2>1. Named(w, "parent")' = Named(w, "parent")
    BY <1>7 DEF Named
  <2> SUFFICES ASSUME Updating(w), Named(w, "parent") # None
               PROVE  LET p == Named(w, "parent") IN
                        /\ p # Self(w) /\ p \in DOMAIN loaded'[w]
                        /\ ~IsPrefix(loaded'[w][Self(w)].path, loaded'[w][p].path)
    BY <1>7, <2>1 DEF HasCompared
  <2>2. Self(w) \in DOMAIN loaded[w]
    BY <1>1 DEF SessionInv, HasLoaded
  <2> QED
    BY <1>1, <1>8, <2>2 DEF SessionInv, HasCompared
<1>13. InsertReady(w)' /\ UpdateReady(w)' /\ DeleteReady(w)'
  BY <1>2, <1>3, <1>7 DEF InsertReady, UpdateReady, DeleteReady, Deleting
<1>14. SessionInv(w)'
  BY <1>8, <1>10, <1>11, <1>12, <1>13 DEF SessionInv
<1> QED
  BY <1>1, <1>3, <1>4, <1>5, <1>7, <1>8, <1>9, <1>14, GoTypes, ReadKeeps

----------------------------------------------------------------------------
(* The statements that write                                               *)

(* A lock is granted only beside locks it does not conflict with.          *)
LEMMA LockTaken ==
  ASSUME TreeInv, NEW w \in Worker, NEW wants, Lock(w, wants)
  PROVE  /\ DOMAIN locks' = Worker /\ locks'[w] = locks[w] \cup wants
         /\ \A v \in Worker \ {w} : locks'[v] = locks[v]
         /\ \A v \in Worker \ {w} : \A k \in locks'[w], m \in locks[v] : ~Conflict(k, m)
<1>1. DOMAIN locks = Worker
  BY DEF TreeInv, SessionTypes
<1>2. \A v \in Worker \ {w} : \A k \in locks[w], m \in locks[v] : ~Conflict(k, m)
  BY DEF TreeInv, LocksApart
<1> QED
  BY <1>1, <1>2 DEF Lock

(* One more row is written.                                                *)
LEMMA Written ==
  ASSUME TreeInv, NEW w \in Worker, NEW a, NEW row, Write(w, a, row)
  PROVE  /\ DOMAIN writes' = Worker
         /\ \A v \in Worker \ {w} : writes'[v] = writes[v]
         /\ DOMAIN writes'[w] = DOMAIN writes[w] \cup {a}
         /\ writes'[w][a] = row
         /\ \A x \in DOMAIN writes[w] \ {a} : writes'[w][x] = writes[w][x]
<1>1. DOMAIN writes = Worker
  BY DEF TreeInv, SessionTypes
<1>2. writes'[w] = Overlay(writes[w], One(a, row))
  BY <1>1 DEF Write
<1>3. /\ DOMAIN writes' = Worker
      /\ \A v \in Worker \ {w} : writes'[v] = writes[v]
  BY <1>1 DEF Write
<1> QED
  BY <1>2, <1>3 DEF Overlay, One

(* The references of an inserted row are locked, its path continues that   *)
(* of its parent, and its code is free.                                    *)
LEMMA InsertKeeps == ASSUME TreeInv, NEW w \in Worker, Insert(w) PROVE TreeInv'
<1> DEFINE c == call[w]
           row == [code |-> c.code, parent |-> c.parent,
                   collective |-> c.collective, path |-> Path(w)]
<1>1. Busy(w) /\ SessionTypes /\ SessionInv(w) /\ TableInv /\ stage[w] = "insert"
  BY DEF Insert, TreeInv, Busy
<1>2. c.op = "create" /\ c \in Calls /\ Self(w) \in Account /\ Creating(w)
  BY <1>1, BusyCalls DEF StagesOf, Creating
<1>3. c.code \in Code /\ c.parent \in Reference /\ c.collective \in Reference
  BY <1>2, CallTypes
<1>4. /\ Go(w, "commit") /\ "commit" \in StagesOf(call[w].op)
      /\ UNCHANGED <<loaded, children>>
      /\ Lock(w, Shares({c.parent, c.collective})) /\ Exist({c.parent, c.collective})
      /\ FreeCode(w, c.code) /\ Write(w, Self(w), row)
  BY <1>2 DEF Insert, StagesOf, Self
<1>5. /\ account' = account /\ call' = call /\ stage'[w] = "commit"
      /\ Creating(w)' = Creating(w) /\ Updating(w)' = Updating(w)
      /\ Deleting(w)' = Deleting(w) /\ Self(w)' = Self(w)
      /\ \A v \in Worker \ {w} : stage'[v] = stage[v]
  BY <1>1, <1>4, GoTypes
<1>6. writes[w] = <<>> /\ DOMAIN writes[w] = {}
  BY <1>1, EmptyFunction DEF SessionInv, Fresh
<1>7. /\ DOMAIN writes' = Worker /\ DOMAIN writes'[w] = {Self(w)}
      /\ writes'[w][Self(w)] = row
      /\ \A v \in Worker \ {w} : writes'[v] = writes[v]
  <2> HIDE DEF row
  <2> QED
    BY <1>4, <1>6, Written
<1>8. /\ DOMAIN locks' = Worker /\ locks'[w] = locks[w] \cup Shares({c.parent, c.collective})
      /\ \A v \in Worker \ {w} : locks'[v] = locks[v]
      /\ \A v \in Worker \ {w} : \A k \in locks'[w], m \in locks[v] : ~Conflict(k, m)
  BY <1>4, LockTaken
<1>9. SessionTypes'
  BY <1>1, <1>4, <1>7, <1>8, GoTypes DEF SessionTypes
<1>10. row \in AccountRow /\ Above(row.path, row.parent)
  <2>1. CASE c.parent = None
    <3>1. Path(w) \in Seq(Code)
      BY <1>3, <2>1 DEF Path
    <3> QED
      BY <1>3, <2>1, <3>1 DEF AccountRow, Above
  <2>2. CASE c.parent # None
    <3>1. c.parent \in Rows
      BY <1>4, <2>2 DEF Exist
    <3>2. c.parent \in DOMAIN loaded[w]
      BY <1>1, <1>2, <2>2 DEF SessionInv, HasLoaded
    <3>3. loaded[w][c.parent].path = account[c.parent].path
      BY <1>1, <3>1, <3>2 DEF SessionInv, KnowsPaths
    <3>4. account[c.parent].path \in Seq(Code)
      BY <1>1, <3>1, TableTypes, RowTypes
    <3>5. Path(w) = Append(account[c.parent].path, c.code)
      BY <2>2, <3>3 DEF Path
    <3>6. Path(w) \in Seq(Code) /\ ~IsPrefix(Path(w), account[c.parent].path)
      BY <1>3, <3>4, <3>5, NoLongerPrefix
    <3> QED
      BY <1>3, <3>6 DEF AccountRow, Above
  <2> QED
    BY <2>1, <2>2
<1>11. \A r \in References(row) : r \in Rows /\ On(r, "share") \in locks'[w]
  BY <1>4, <1>8 DEF References, Shares, Exist
<1>12. \A a \in Rows : account[a].code # row.code
  BY <1>4 DEF FreeCode
<1>13. row.code = c.code
  OBVIOUS
<1> HIDE DEF row
<1>14. InsertReady(w)'
  BY <1>5, <1>7, <1>10, <1>11, <1>12 DEF InsertReady, Holds, Above, Rows
<1>15. Fresh(w)' /\ KnowsPaths(w)'
  BY <1>1, <1>4, <1>5 DEF SessionInv, Fresh, KnowsPaths, Rows, Busy
<1>16. HasLoaded(w)' /\ HasCompared(w)' /\ UpdateReady(w)' /\ DeleteReady(w)'
  BY <1>2, <1>5 DEF HasLoaded, HasCompared, UpdateReady, DeleteReady, Updating, Deleting
<1>17. SessionInv(w)'
  BY <1>14, <1>15, <1>16 DEF SessionInv
<1>18. ASSUME NEW v \in Worker \ {w}, Creating(v), stage[v] = "commit"
       PROVE  writes'[w][Self(w)].code # writes[v][Self(v)].code
  <2>1. SessionInv(v)
    BY DEF TreeInv
  <2>2. Self(v) \in DOMAIN writes[v] /\ writes[v][Self(v)] \in AccountRow
    BY <1>18, <2>1 DEF SessionInv, InsertReady
  <2> QED
    BY <1>4, <1>7, <1>13, <2>2, RowTypes DEF FreeCode
<1>19. OthersSame(w)
  BY <1>4, <1>5, <1>7, <1>8 DEF OthersSame
<1>20. \A a \in DOMAIN writes'[w] : a \in Rows \/ (Creating(w) /\ a = Self(w))
  BY <1>2, <1>7
<1>21. DOMAIN loaded'[w] \subseteq DOMAIN loaded[w] \cup Rows
  BY <1>4
<1> QED
  BY <1>1, <1>5, <1>8, <1>9, <1>17, <1>18, <1>19, <1>20, <1>21, StatementKeeps

(* The columns that an update writes.                                      *)
LEMMA UpdatedRow ==
  ASSUME NEW old \in AccountRow, NEW set, NEW changed \in SUBSET {"parent", "collective"}
  PROVE  Overlay(old, [f \in changed |-> set[f]]) =
           [code |-> old.code,
            parent |-> IF "parent" \in changed THEN set["parent"] ELSE old.parent,
            collective |-> IF "collective" \in changed THEN set["collective"] ELSE old.collective,
            path |-> old.path]
<1>1. DOMAIN old = {"code", "parent", "collective", "path"}
  BY DEF AccountRow
<1>2. DOMAIN old \cup changed = {"code", "parent", "collective", "path"}
  BY <1>1
<1> QED
  BY <1>2 DEF Overlay

(* An update writes what differs from the row as loaded, into the row as   *)
(* it is now: its code and path stay, new references are locked, and the   *)
(* paths of the account and its parent are still those that were compared. *)
LEMMA UpdateKeeps == ASSUME TreeInv, NEW w \in Worker, Update(w) PROVE TreeInv'
<1> DEFINE a == Self(w)
           set == call[w].set
           changed == {f \in DOMAIN set : set[f] # loaded[w][a][f]}
           values == {set[f] : f \in changed}
           row == Overlay(account[a], [f \in changed |-> set[f]])
<1>1. Busy(w) /\ SessionTypes /\ SessionInv(w) /\ TableInv /\ stage[w] = "update"
  BY DEF Update, TreeInv, Busy
<1>2. call[w].op = "update" /\ call[w] \in Calls /\ a \in Account /\ Updating(w)
  BY <1>1, BusyCalls DEF StagesOf, Updating
<1>3. /\ changed \subseteq {"parent", "collective"}
      /\ \A f \in changed : set[f] \in Reference /\ f \in DOMAIN set
  BY <1>2, CallTypes
<1>4. Go(w, "commit") /\ "commit" \in StagesOf(call[w].op) /\ UNCHANGED <<loaded, children>>
  BY <1>2 DEF Update, StagesOf
<1>5. /\ account' = account /\ call' = call /\ stage'[w] = "commit"
      /\ Creating(w)' = Creating(w) /\ Updating(w)' = Updating(w)
      /\ Deleting(w)' = Deleting(w) /\ Self(w)' = Self(w)
      /\ \A v \in Worker \ {w} : stage'[v] = stage[v]
  BY <1>1, <1>4, GoTypes
<1>6. writes[w] = <<>> /\ DOMAIN writes[w] = {}
  BY <1>1, EmptyFunction DEF SessionInv, Fresh
<1>7. ASSUME UpdateReady(w)',
             DOMAIN writes' = Worker, DOMAIN locks' = Worker,
             \A v \in Worker \ {w} : writes'[v] = writes[v] /\ locks'[v] = locks[v],
             \A x \in DOMAIN writes'[w] : x \in Rows,
             \A v \in Worker \ {w} : \A k \in locks'[w], m \in locks[v] : ~Conflict(k, m)
      PROVE  TreeInv'
  <2>1. SessionTypes'
    BY <1>1, <1>4, <1>7, GoTypes DEF SessionTypes
  <2>2. Fresh(w)' /\ KnowsPaths(w)' /\ HasLoaded(w)' /\ HasCompared(w)'
    BY <1>1, <1>2, <1>4, <1>5
    DEF SessionInv, Fresh, KnowsPaths, HasLoaded, HasCompared, Rows, Busy, Creating
  <2>3. InsertReady(w)' /\ DeleteReady(w)'
    BY <1>2, <1>5 DEF InsertReady, DeleteReady, Creating, Deleting
  <2>4. SessionInv(w)'
    BY <1>7, <2>2, <2>3 DEF SessionInv
  <2>5. OthersSame(w)
    BY <1>4, <1>5, <1>7 DEF OthersSame
  <2>6. ~Creating(w) /\ DOMAIN loaded'[w] \subseteq DOMAIN loaded[w] \cup Rows
    BY <1>2, <1>4 DEF Creating
  <2> QED
    BY <1>1, <1>5, <1>7, <2>1, <2>4, <2>5, <2>6, StatementKeeps
<1>8. CASE changed = {}
  <2>1. UNCHANGED <<writes, locks>>
    BY <1>8 DEF Update, Self
  <2>2. UpdateReady(w)'
    BY <1>6, <2>1 DEF UpdateReady
  <2>3. \A v \in Worker \ {w} : \A k \in locks'[w], m \in locks[v] : ~Conflict(k, m)
    BY <2>1 DEF TreeInv, LocksApart
  <2> QED
    BY <1>1, <1>6, <1>7, <2>1, <2>2, <2>3 DEF SessionTypes
<1>9. CASE changed # {}
  <2>1. /\ Lock(w, {On(a, "change")} \cup Shares(values))
        /\ a \in Rows /\ a \notin values /\ Exist(values)
        /\ Write(w, a, row)
    BY <1>9 DEF Update, Self
  <2>2. account[a] \in AccountRow
    BY <1>1, <2>1, TableTypes
  <2>3. row = [code |-> account[a].code,
               parent |-> IF "parent" \in changed THEN set["parent"] ELSE account[a].parent,
               collective |-> IF "collective" \in changed THEN set["collective"]
                                                          ELSE account[a].collective,
               path |-> account[a].path]
    <3> HIDE DEF changed
    <3> QED
      BY <1>3, <2>2, UpdatedRow
  <2>4. row \in AccountRow /\ row.code = account[a].code /\ row.path = account[a].path
    <3> HIDE DEF changed, set, row
    <3> QED
      BY <1>3, <2>2, <2>3 DEF AccountRow
  <2>5. References(row) \ References(account[a]) \subseteq values \ {None}
    <3>1. \A f \in changed : set[f] \in values
      OBVIOUS
    <3> HIDE DEF changed, set, row, values
    <3> QED
      BY <2>2, <2>3, <3>1 DEF References
  <2>6. Above(row.path, row.parent)
    <3>1. CASE "parent" \in changed
      <4>1. row.parent = Named(w, "parent")
        <5>1. "parent" \in DOMAIN set /\ row.parent = set["parent"]
          BY <1>3, <2>3, <3>1
        <5> QED
          BY <1>2, <5>1 DEF Named
      <4> SUFFICES ASSUME row.parent # None PROVE ~IsPrefix(row.path, account[row.parent].path)
        BY DEF Above
      <4>2. /\ row.parent \in DOMAIN loaded[w]
            /\ ~IsPrefix(loaded[w][a].path, loaded[w][row.parent].path)
        BY <1>1, <1>2, <4>1 DEF SessionInv, HasCompared
      <4>3. row.parent \in Rows
        <5>1. row.parent \in values
          BY <2>3, <3>1
        <5> QED
          BY <2>1, <5>1 DEF Exist
      <4>4. a \in DOMAIN loaded[w]
        BY <1>1, <1>2 DEF SessionInv, HasLoaded
      <4>5. loaded[w][a].path = row.path /\ loaded[w][row.parent].path = account[row.parent].path
        BY <1>1, <2>1, <2>4, <4>2, <4>3, <4>4 DEF SessionInv, KnowsPaths
      <4> QED
        BY <4>2, <4>5
    <3>2. CASE "parent" \notin changed
      <4>1. row.parent = account[a].parent
        BY <2>3, <3>2
      <4> QED
        BY <1>1, <2>1, <2>4, <4>1 DEF TableInv, Above
    <3> QED
      BY <3>1, <3>2
  <2> HIDE DEF row, values, changed, set
  <2>7. /\ DOMAIN writes' = Worker /\ DOMAIN writes'[w] = {a} /\ writes'[w][a] = row
        /\ \A v \in Worker \ {w} : writes'[v] = writes[v]
    BY <1>6, <2>1, Written
  <2>8. /\ DOMAIN locks' = Worker /\ locks'[w] = locks[w] \cup {On(a, "change")} \cup Shares(values)
        /\ \A v \in Worker \ {w} : locks'[v] = locks[v]
        /\ \A v \in Worker \ {w} : \A k \in locks'[w], m \in locks[v] : ~Conflict(k, m)
    BY <2>1, LockTaken
  <2>9. \A r \in References(row) \ References(account[a]) :
          r # a /\ r \in Rows /\ On(r, "share") \in locks'[w]
    BY <2>1, <2>5, <2>8 DEF Shares, Exist
  <2>10. UpdateReady(w)'
    BY <1>5, <2>1, <2>4, <2>6, <2>7, <2>8, <2>9 DEF UpdateReady, Holds, Above, Rows
  <2> QED
    BY <1>7, <2>1, <2>7, <2>8, <2>10
<1> QED
  BY <1>8, <1>9

(* The children are locked, so what is written over them is what they are  *)
(* but for the parent.                                                     *)
LEMMA DetachKeeps == ASSUME TreeInv, NEW w \in Worker, Detach(w) PROVE TreeInv'
<1> DEFINE cleared == [b \in children[w] |-> [account[b] EXCEPT !.parent = None]]
<1>1. Busy(w) /\ SessionTypes /\ SessionInv(w) /\ stage[w] = "detach"
  BY DEF Detach, TreeInv, Busy
<1>2. call[w].op = "delete" /\ Self(w) \in Account /\ Deleting(w)
  BY <1>1, BusyCalls DEF StagesOf, Deleting
<1>3. /\ Go(w, "delete") /\ "delete" \in StagesOf(call[w].op) /\ UNCHANGED <<loaded, children>>
      /\ Lock(w, {On(b, "change") : b \in children[w]}) /\ children[w] \subseteq Rows
  BY <1>2 DEF Detach, StagesOf
<1>4. /\ account' = account /\ call' = call /\ stage'[w] = "delete"
      /\ Creating(w)' = Creating(w) /\ Updating(w)' = Updating(w)
      /\ Deleting(w)' = Deleting(w) /\ Self(w)' = Self(w)
      /\ \A v \in Worker \ {w} : stage'[v] = stage[v]
  BY <1>1, <1>3, GoTypes
<1>5. /\ DOMAIN writes' = Worker /\ writes'[w] = cleared
      /\ \A v \in Worker \ {w} : writes'[v] = writes[v]
  BY <1>1 DEF Detach, SessionTypes
<1>6. /\ DOMAIN locks' = Worker
      /\ locks'[w] = locks[w] \cup {On(b, "change") : b \in children[w]}
      /\ \A v \in Worker \ {w} : locks'[v] = locks[v]
      /\ \A v \in Worker \ {w} : \A k \in locks'[w], m \in locks[v] : ~Conflict(k, m)
  BY <1>3, LockTaken
<1>7. SessionTypes'
  BY <1>1, <1>3, <1>5, <1>6, GoTypes DEF SessionTypes
<1>8. SessionInv(w)'
  <2>1. Fresh(w)' /\ KnowsPaths(w)'
    BY <1>1, <1>3, <1>4 DEF SessionInv, Fresh, KnowsPaths, Rows, Busy
  <2>2. HasLoaded(w)' /\ HasCompared(w)' /\ InsertReady(w)' /\ UpdateReady(w)'
    BY <1>2, <1>4 DEF HasLoaded, HasCompared, InsertReady, UpdateReady, Updating, Creating
  <2>3. Self(w) \notin children[w]
    BY <1>1, <1>2 DEF SessionInv, DeleteReady
  <2>4. DeleteReady(w)'
    BY <1>3, <1>4, <1>5, <1>6, <2>3 DEF DeleteReady, Rows
  <2> QED
    BY <2>1, <2>2, <2>4 DEF SessionInv
<1>9. OthersSame(w)
  BY <1>3, <1>4, <1>5, <1>6 DEF OthersSame
<1>10. \A a \in DOMAIN writes'[w] : a \in Rows
  BY <1>3, <1>5
<1>11. ~Creating(w) /\ DOMAIN loaded'[w] \subseteq DOMAIN loaded[w] \cup Rows
  BY <1>2, <1>3 DEF Creating
<1> QED
  BY <1>1, <1>4, <1>6, <1>7, <1>8, <1>9, <1>10, <1>11, StatementKeeps

(* Nothing refers to the account but its children, which are detached, and *)
(* nothing can come to refer to it while it is locked.                     *)
LEMMA DeleteKeeps == ASSUME TreeInv, NEW w \in Worker, Delete(w) PROVE TreeInv'
<1>1. Busy(w) /\ SessionTypes /\ SessionInv(w) /\ TableInv /\ stage[w] = "delete"
  BY DEF Delete, TreeInv, Busy
<1>2. call[w].op = "delete" /\ Self(w) \in Account /\ Deleting(w)
  BY <1>1, BusyCalls DEF StagesOf, Deleting
<1>3. /\ Go(w, "commit") /\ "commit" \in StagesOf(call[w].op) /\ UNCHANGED <<loaded, children>>
      /\ Lock(w, {On(Self(w), "all")}) /\ Self(w) \in Rows /\ Write(w, Self(w), None)
      /\ \A b \in Referring(Self(w)) \ {Self(w)} :
           b \in children[w] /\ account[b].collective # Self(w)
  BY <1>2 DEF Delete, StagesOf
<1>4. /\ account' = account /\ call' = call /\ stage'[w] = "commit"
      /\ Creating(w)' = Creating(w) /\ Updating(w)' = Updating(w)
      /\ Deleting(w)' = Deleting(w) /\ Self(w)' = Self(w)
      /\ \A v \in Worker \ {w} : stage'[v] = stage[v]
  BY <1>1, <1>3, GoTypes
<1>5. /\ DOMAIN writes' = Worker /\ DOMAIN writes'[w] = DOMAIN writes[w] \cup {Self(w)}
      /\ writes'[w][Self(w)] = None
      /\ \A x \in DOMAIN writes[w] \ {Self(w)} : writes'[w][x] = writes[w][x]
      /\ \A v \in Worker \ {w} : writes'[v] = writes[v]
  BY <1>3, Written
<1>6. /\ DOMAIN locks' = Worker /\ locks'[w] = locks[w] \cup {On(Self(w), "all")}
      /\ \A v \in Worker \ {w} : locks'[v] = locks[v]
      /\ \A v \in Worker \ {w} : \A k \in locks'[w], m \in locks[v] : ~Conflict(k, m)
  BY <1>3, LockTaken
<1>7. SessionTypes'
  BY <1>1, <1>3, <1>5, <1>6, GoTypes DEF SessionTypes
<1>8. SessionInv(w)'
  <2>1. Fresh(w)' /\ KnowsPaths(w)'
    BY <1>1, <1>3, <1>4 DEF SessionInv, Fresh, KnowsPaths, Rows, Busy
  <2>2. HasLoaded(w)' /\ HasCompared(w)' /\ InsertReady(w)' /\ UpdateReady(w)'
    BY <1>2, <1>4 DEF HasLoaded, HasCompared, InsertReady, UpdateReady, Updating, Creating
  <2>3. /\ Self(w) \notin children[w] /\ DOMAIN writes[w] = children[w]
        /\ \A b \in children[w] :
             /\ b \in Rows /\ On(b, "change") \in locks[w]
             /\ writes[w][b] = [account[b] EXCEPT !.parent = None]
    BY <1>1, <1>2 DEF SessionInv, DeleteReady
  <2>4. Self(w) \notin Referring(Self(w))
    <3>1. Self(w) # None /\ References(account[Self(w)]) \subseteq Rows \ {Self(w)}
      BY <1>1, <1>2, <1>3, TreeAssumption DEF TableInv
    <3> QED
      BY <3>1 DEF Referring, References
  <2>5. Rows' = Rows /\ Referring(Self(w))' = Referring(Self(w))
    BY <1>4 DEF Rows, Referring
  <2>6. \A b \in children[w] : writes'[w][b] = writes[w][b]
    BY <1>5, <2>3
  <2>7. DeleteReady(w)'
    BY <1>3, <1>4, <1>5, <1>6, <2>3, <2>4, <2>5, <2>6 DEF DeleteReady
  <2> QED
    BY <2>1, <2>2, <2>7 DEF SessionInv
<1>9. OthersSame(w)
  BY <1>3, <1>4, <1>5, <1>6 DEF OthersSame
<1>10. \A a \in DOMAIN writes'[w] : a \in Rows
  BY <1>1, <1>2, <1>3, <1>5 DEF SessionInv, DeleteReady
<1>11. ~Creating(w) /\ DOMAIN loaded'[w] \subseteq DOMAIN loaded[w] \cup Rows
  BY <1>2, <1>3 DEF Creating
<1> QED
  BY <1>1, <1>4, <1>6, <1>7, <1>8, <1>9, <1>10, <1>11, StatementKeeps

----------------------------------------------------------------------------
(* The beginning and the end of a call                                     *)

(* The account of a new create is named by no call in progress, so none    *)
(* has loaded or written it.                                               *)
LEMMA BeginKeeps == ASSUME TreeInv, NEW w \in Worker, Begin(w) PROVE TreeInv'
<1>1. PICK c \in Calls :
        /\ stage[w] = "idle"
        /\ c.op = "create" => NewIdentity(c.account)
        /\ call' = [call EXCEPT ![w] = c]
        /\ stage' = [stage EXCEPT ![w] = IF c.op = "create" THEN "code" ELSE "account"]
        /\ UNCHANGED <<account, writes, loaded, children, locks>>
  BY DEF Begin
<1>2. SessionTypes /\ SessionInv(w) /\ TableInv
  BY DEF TreeInv
<1>3. c.op \in {"create", "update", "delete"} /\ c.account \in Account /\ c # None
  BY CallTypes, TreeAssumption
<1>4. /\ call'[w] = c /\ stage'[w] \in StagesOf(c.op) /\ stage'[w] \in {"code", "account"}
      /\ c.op # "create" => stage'[w] = "account"
      /\ \A v \in Worker \ {w} : stage'[v] = stage[v] /\ call'[v] = call[v]
  BY <1>1, <1>2, <1>3 DEF SessionTypes, StagesOf
<1>5. SessionTypes'
  <2>1. stage' \in [Worker -> Stages]
    BY <1>1, <1>2, <1>3, <1>4 DEF SessionTypes, Stages
  <2>2. call' \in [Worker -> Calls \cup {None}]
    BY <1>1, <1>2 DEF SessionTypes
  <2> QED
    BY <1>1, <1>2, <1>3, <1>4, <2>1, <2>2 DEF SessionTypes, Busy
<1>6. OthersSame(w)
  BY <1>1, <1>4 DEF OthersSame
<1>7. loaded[w] = <<>> /\ DOMAIN loaded[w] = {} /\ children[w] = {} /\ writes[w] = <<>>
  BY <1>1, <1>2, EmptyFunction DEF SessionInv, Fresh
<1>8. SessionInv(w)'
  <2>1. Fresh(w)' /\ KnowsPaths(w)'
    BY <1>1, <1>4, <1>7 DEF Fresh, KnowsPaths
  <2>2. HasLoaded(w)' /\ HasCompared(w)' /\ InsertReady(w)' /\ UpdateReady(w)' /\ DeleteReady(w)'
    BY <1>1, <1>4, <1>7
    DEF HasLoaded, HasCompared, InsertReady, UpdateReady, DeleteReady, Updating
  <2> QED
    BY <2>1, <2>2 DEF SessionInv
<1>9. ASSUME NEW v \in Worker \ {w} PROVE SessionInv(v)'
  BY <1>1, <1>6, SessionKept DEF TreeInv, OthersSame
<1>10. TableInv'
  BY <1>1, <1>2 DEF TableInv, Rows, Above
<1>11. LocksApart' /\ CodesApart'
  BY <1>1, <1>4 DEF TreeInv, LocksApart, CodesApart, Creating, Busy, Self
<1>12. ASSUME NEW u \in Worker, Creating(u)' PROVE CreatesAlone(u)'
  <2>1. CASE u = w
    <3>1. c.op = "create" /\ Self(w)' = c.account /\ NewIdentity(c.account)
      BY <1>1, <1>4, <1>12, <2>1 DEF Creating, Self
    <3>2. account[c.account] = None /\ c.account \notin Rows
      BY <3>1 DEF NewIdentity, Rows
    <3>3. ASSUME NEW v \in Worker PROVE c.account \notin DOMAIN loaded[v]
      <4>1. SessionInv(v)
        BY DEF TreeInv
      <4> QED
        BY <3>1, <4>1 DEF SessionInv, KnowsPaths, NewIdentity, Busy
    <3>4. ASSUME NEW v \in Worker \ {w}
          PROVE  c.account \notin DOMAIN writes[v] /\ (Creating(v) => Self(v) # c.account)
      <4>1. Creating(v) => Self(v) # c.account
        BY <3>1 DEF NewIdentity, Creating, Busy, Mentioned, Self
      <4> QED
        BY <3>2, <4>1, WritesKnown
    <3>5. \A v \in Worker \ {w} : Creating(v)' = Creating(v) /\ Self(v)' = Self(v)
      BY <1>4 DEF Creating, Busy, Self
    <3> QED
      BY <1>1, <2>1, <3>1, <3>2, <3>3, <3>4, <3>5 DEF CreatesAlone
  <2>2. CASE u # w
    <3>1. Creating(u) /\ CreatesAlone(u) /\ Self(u)' = Self(u)
      BY <1>4, <1>12, <2>2 DEF TreeInv, Creating, Busy, Self
    <3>2. \A v \in Worker \ {w} : Creating(v)' = Creating(v) /\ Self(v)' = Self(v)
      BY <1>4 DEF Creating, Busy, Self
    <3>3. Creating(w)' => Self(w)' # Self(u)
      <4> SUFFICES ASSUME c.op = "create" PROVE c.account # Self(u)
        BY <1>4 DEF Creating, Self
      <4>1. Self(u) \in Mentioned(call[u])
        BY DEF Mentioned, Self
      <4> QED
        BY <1>1, <3>1, <4>1 DEF NewIdentity, Creating, Busy
    <3> QED
      BY <1>1, <3>1, <3>2, <3>3 DEF CreatesAlone
  <2> QED
    BY <2>1, <2>2
<1>13. \A u \in Worker : CreatesAlone(u)'
  BY <1>12 DEF CreatesAlone
<1> QED
  BY <1>5, <1>8, <1>9, <1>10, <1>11, <1>13 DEF TreeInv

(* At the end of a call the session has nothing left.                      *)
LEMMA EndTypes ==
  ASSUME TreeInv, NEW w \in Worker, End(w)
  PROVE  /\ SessionTypes' /\ OthersSame(w)
         /\ stage'[w] = "idle" /\ call'[w] = None /\ writes'[w] = <<>> /\ loaded'[w] = <<>>
         /\ children'[w] = {} /\ locks'[w] = {}
         /\ SessionInv(w)' /\ ~Creating(w)'
         /\ \A v \in Worker \ {w} : Creating(v)' = Creating(v) /\ Self(v)' = Self(v)
         /\ \A u \in Worker : /\ DOMAIN loaded'[u] \subseteq DOMAIN loaded[u]
                              /\ DOMAIN writes'[u] \subseteq DOMAIN writes[u]
<1>1. SessionTypes
  BY DEF TreeInv
<1>2. /\ stage'[w] = "idle" /\ call'[w] = None /\ writes'[w] = <<>> /\ loaded'[w] = <<>>
      /\ children'[w] = {} /\ locks'[w] = {}
  BY <1>1 DEF End, SessionTypes
<1>3. OthersSame(w)
  BY DEF End, OthersSame
<1>4. SessionTypes'
  <2>1. /\ stage' \in [Worker -> Stages]
        /\ call' \in [Worker -> Calls \cup {None}]
    BY <1>1 DEF End, SessionTypes, Stages
  <2>2. /\ DOMAIN writes' = Worker /\ DOMAIN loaded' = Worker
        /\ DOMAIN children' = Worker /\ DOMAIN locks' = Worker
    BY <1>1 DEF End, SessionTypes
  <2> QED
    BY <1>1, <1>2, <1>3, <2>1, <2>2 DEF SessionTypes, Busy, OthersSame
<1>5. SessionInv(w)'
  BY <1>2, EmptyFunction
  DEF SessionInv, Fresh, KnowsPaths, HasLoaded, HasCompared, InsertReady, UpdateReady,
      DeleteReady, Creating, Updating, Deleting, Busy
<1>6. ~Creating(w)' /\ \A v \in Worker \ {w} : Creating(v)' = Creating(v) /\ Self(v)' = Self(v)
  BY <1>2, <1>3 DEF Creating, Busy, Self, OthersSame
<1>7. \A u \in Worker : /\ DOMAIN loaded'[u] \subseteq DOMAIN loaded[u]
                        /\ DOMAIN writes'[u] \subseteq DOMAIN writes[u]
  BY <1>2, <1>3, EmptyFunction DEF OthersSame
<1> QED
  BY <1>2, <1>3, <1>4, <1>5, <1>6, <1>7

(* What is said of pairs of sessions survives the end of one, if the table *)
(* gains no account that another session creates.                          *)
LEMMA EndApart ==
  ASSUME TreeInv, NEW w \in Worker, End(w),
         \A u \in Worker \ {w} : Creating(u) => account'[Self(u)] = None
  PROVE  (\A u \in Worker : CreatesAlone(u)') /\ LocksApart' /\ CodesApart'
<1>1. ASSUME NEW u \in Worker, Creating(u)' PROVE CreatesAlone(u)'
  <2>1. u # w /\ Creating(u) /\ CreatesAlone(u) /\ Self(u)' = Self(u)
    BY <1>1, EndTypes DEF TreeInv
  <2>2. \A v \in Worker : Creating(v)' => Creating(v) /\ Self(v)' = Self(v)
    BY EndTypes
  <2>3. \A v \in Worker : /\ DOMAIN loaded'[v] \subseteq DOMAIN loaded[v]
                          /\ DOMAIN writes'[v] \subseteq DOMAIN writes[v]
    BY EndTypes
  <2> QED
    BY <2>1, <2>2, <2>3 DEF CreatesAlone
<1>2. \A u \in Worker : CreatesAlone(u)'
  BY <1>1 DEF CreatesAlone
<1>3. LocksApart'
  BY EndTypes DEF TreeInv, LocksApart, OthersSame, Conflict
<1>4. CodesApart'
  <2> SUFFICES ASSUME NEW u \in Worker, NEW v \in Worker, u # v,
                      Creating(u)', stage'[u] = "commit", Creating(v)', stage'[v] = "commit"
               PROVE  writes'[u][Self(u)'].code # writes'[v][Self(v)'].code
    BY DEF CodesApart
  <2>1. u # w /\ v # w
    BY EndTypes
  <2>2. /\ Creating(u) /\ Self(u)' = Self(u) /\ Creating(v) /\ Self(v)' = Self(v)
        /\ OthersSame(w)
    BY <2>1, EndTypes
  <2> QED
    BY <2>1, <2>2 DEF TreeInv, CodesApart, OthersSame
<1> QED
  BY <1>2, <1>3, <1>4

(* What was not committed is gone.                                         *)
LEMMA AbortKeeps == ASSUME TreeInv, NEW w \in Worker, Abort(w) PROVE TreeInv'
<1>1. End(w) /\ account' = account
  BY DEF Abort
<1>2. ASSUME NEW v \in Worker \ {w} PROVE SessionInv(v)'
  BY <1>1, EndTypes, SessionKept DEF TreeInv, OthersSame
<1>3. TableInv'
  BY <1>1 DEF TreeInv, TableInv, Rows, Above
<1>4. \A u \in Worker \ {w} : Creating(u) => account'[Self(u)] = None
  BY <1>1 DEF TreeInv, CreatesAlone
<1> QED
  BY <1>1, <1>2, <1>3, <1>4, EndTypes, EndApart DEF TreeInv

----------------------------------------------------------------------------
(* The commit                                                              *)

(* What a commit does to an account: it leaves it as it is, creates it,    *)
(* updates it under a lock, or deletes it under a lock when nothing that   *)
(* stays refers to it.                                                     *)
Creates(w, a) ==
  /\ Creating(w) /\ a = Self(w) /\ account[a] = None
  /\ account'[a] = writes[w][a] /\ account'[a] \in AccountRow
  /\ \A r \in References(account'[a]) : Holds(w, r)

Updates(w, a) ==
  /\ a \in Rows /\ On(a, "change") \in locks[w]
  /\ account'[a] \in AccountRow
  /\ account'[a].code = account[a].code /\ account'[a].path = account[a].path
  /\ \A r \in References(account'[a]) \ References(account[a]) : r # a /\ Holds(w, r)

Deletes(w, a) ==
  /\ a \in Rows /\ On(a, "all") \in locks[w]
  /\ account'[a] = None
  /\ \A b \in Rows \ {a} : a \notin References(account'[b])

(* A commit does nothing else, whatever its operation.                     *)
LEMMA CommitChanges ==
  ASSUME TreeInv, NEW w \in Worker, Commit(w)
  PROVE  /\ DOMAIN account' = Account
         /\ \A a \in DOMAIN writes[w] : account'[a] = writes[w][a]
         /\ \A a \in Account \ DOMAIN writes[w] : account'[a] = account[a]
         /\ \A a \in Account :
              account'[a] = account[a] \/ Creates(w, a) \/ Updates(w, a) \/ Deletes(w, a)
<1>1. /\ SessionTypes /\ SessionInv(w) /\ TableInv /\ CreatesAlone(w) /\ DOMAIN account = Account
      /\ stage[w] = "commit" /\ account' = Overlay(account, writes[w])
  BY TableTypes DEF TreeInv, Commit
<1>2. Busy(w) /\ call[w].op \in {"create", "update", "delete"} /\ Self(w) \in Account
  BY <1>1, BusyCalls DEF Busy
<1>3. \A a \in DOMAIN writes[w] : a \in Account
  BY WritesKnown
<1>4. /\ DOMAIN account' = Account
      /\ \A a \in DOMAIN writes[w] : account'[a] = writes[w][a]
      /\ \A a \in Account \ DOMAIN writes[w] : account'[a] = account[a]
  BY <1>1, <1>3 DEF Overlay
<1>5. CASE call[w].op = "create"
  <2>1. Creating(w) /\ InsertReady(w)
    BY <1>1, <1>2, <1>5 DEF Creating, SessionInv
  <2>2. Creates(w, Self(w))
    BY <1>1, <1>4, <2>1 DEF InsertReady, Creates, CreatesAlone
  <2> QED
    BY <1>1, <1>4, <2>1, <2>2 DEF InsertReady
<1>6. CASE call[w].op = "update"
  <2>1. Updating(w) /\ UpdateReady(w)
    BY <1>1, <1>2, <1>6 DEF Updating, SessionInv
  <2>2. CASE writes[w] = <<>>
    BY <1>4, <2>2, EmptyFunction
  <2>3. CASE writes[w] # <<>>
    <3>1. Updates(w, Self(w)) /\ DOMAIN writes[w] = {Self(w)}
      BY <1>1, <1>4, <2>1, <2>3 DEF UpdateReady, Updates
    <3> QED
      BY <1>4, <3>1
  <2> QED
    BY <2>2, <2>3
<1>7. CASE call[w].op = "delete"
  <2>1. Deleting(w) /\ DeleteReady(w)
    BY <1>1, <1>2, <1>7 DEF Deleting, SessionInv
  <2>2. /\ DOMAIN writes[w] = children[w] \cup {Self(w)} /\ Self(w) \notin children[w]
        /\ \A b \in children[w] :
             /\ b \in Rows /\ On(b, "change") \in locks[w]
             /\ account'[b] = [account[b] EXCEPT !.parent = None]
        /\ Self(w) \in Rows /\ On(Self(w), "all") \in locks[w] /\ account'[Self(w)] = None
        /\ \A b \in Referring(Self(w)) : b \in children[w] /\ account[b].collective # Self(w)
    BY <1>1, <1>4, <2>1 DEF DeleteReady
  <2>3. ASSUME NEW b \in children[w] PROVE Updates(w, b) /\ account'[b].parent = None
    <3>1. account[b] \in AccountRow
      BY <1>1, <2>2, <2>3, TableTypes
    <3>2. /\ account'[b] \in AccountRow /\ account'[b].parent = None
          /\ account'[b].collective = account[b].collective
          /\ account'[b].code = account[b].code /\ account'[b].path = account[b].path
      BY <2>2, <2>3, <3>1 DEF AccountRow, Reference
    <3> QED
      BY <2>2, <2>3, <3>2 DEF Updates, References
  <2>4. ASSUME NEW b \in Rows \ {Self(w)} PROVE Self(w) \notin References(account'[b])
    <3>1. CASE b \in children[w]
      <4>1. account'[b].parent = None /\ account'[b].collective = account[b].collective
        <5>1. account[b] \in AccountRow
          BY <1>1, TableTypes
        <5> QED
          BY <2>2, <3>1, <5>1 DEF AccountRow
      <4>2. Self(w) # None
        BY <1>2, TreeAssumption
      <4>3. account[b].collective # Self(w)
        BY <2>2 DEF Referring
      <4> QED
        BY <4>1, <4>2, <4>3 DEF References
    <3>2. CASE b \notin children[w]
      BY <1>4, <2>2, <3>2 DEF References, Referring, Rows
    <3> QED
      BY <3>1, <3>2
  <2>5. Deletes(w, Self(w))
    BY <2>2, <2>4 DEF Deletes
  <2> QED
    BY <1>4, <2>2, <2>3, <2>5
<1> QED
  BY <1>2, <1>4, <1>5, <1>6, <1>7

(* Accounts keep their codes and paths while they exist, and rows that     *)
(* others have locked stay, or stay as they are.                           *)
LEMMA CommitRows ==
  ASSUME TreeInv, NEW w \in Worker, Commit(w)
  PROVE  /\ \A a \in Rows' : a \in Account /\ (a \in Rows \/ Creates(w, a))
         /\ \A a \in Rows : a \in Rows' =>
              account'[a].code = account[a].code /\ account'[a].path = account[a].path
         /\ \A a \in Rows : a \notin Rows' => Deletes(w, a)
         /\ \A v \in Worker \ {w}, a \in Rows : On(a, "share") \in locks[v] => a \in Rows'
         /\ \A v \in Worker \ {w}, a \in Rows :
              (On(a, "change") \in locks[v] \/ On(a, "all") \in locks[v])
                => account'[a] = account[a]
<1>1. \A a \in Account :
        account'[a] = account[a] \/ Creates(w, a) \/ Updates(w, a) \/ Deletes(w, a)
  BY CommitChanges
<1>2. \A a \in Rows : a \in Account /\ account[a] # None
  BY DEF Rows
<1>3. \A a \in Rows : account'[a] = account[a] \/ Updates(w, a) \/ Deletes(w, a)
  BY <1>1, <1>2 DEF Creates
<1>4. \A a \in Rows : Updates(w, a) => a \in Rows'
  BY <1>2, RowTypes DEF Updates, Rows
<1>5. \A a \in Rows' : a \in Account /\ (a \in Rows \/ Creates(w, a))
  BY <1>1 DEF Rows, Updates, Deletes
<1>6. \A a \in Rows : a \in Rows' =>
        account'[a].code = account[a].code /\ account'[a].path = account[a].path
  BY <1>3 DEF Updates, Deletes, Rows
<1>7. \A a \in Rows : a \notin Rows' => Deletes(w, a)
  BY <1>3, <1>4 DEF Rows
<1>8. ASSUME NEW v \in Worker \ {w}, NEW a \in Rows, On(a, "share") \in locks[v]
      PROVE  a \in Rows'
  <2>1. On(a, "all") \notin locks[w]
    BY <1>8 DEF TreeInv, LocksApart, Conflict, On
  <2> QED
    BY <1>7, <2>1 DEF Deletes
<1>9. ASSUME NEW v \in Worker \ {w}, NEW a \in Rows,
             On(a, "change") \in locks[v] \/ On(a, "all") \in locks[v]
      PROVE  account'[a] = account[a]
  <2>1. On(a, "all") \notin locks[w] /\ On(a, "change") \notin locks[w]
    BY <1>9 DEF TreeInv, LocksApart, Conflict, On
  <2> QED
    BY <1>3, <2>1 DEF Updates, Deletes
<1> QED
  BY <1>5, <1>6, <1>7, <1>8, <1>9

(* The table after a commit: the references of what it writes exist,       *)
(* nobody refers to what it deletes, a new code is free, and no parent was *)
(* put below.                                                              *)
LEMMA CommitTable == ASSUME TreeInv, NEW w \in Worker, Commit(w) PROVE TableInv'
<1>1. TableInv /\ DOMAIN account = Account
  BY TableTypes DEF TreeInv
<1>2. account' \in [Account -> AccountRow \cup {None}]
  <2>1. \A a \in Account : account'[a] \in AccountRow \cup {None}
    BY <1>1, CommitChanges DEF TableInv, Creates, Updates, Deletes
  <2>2. account' = [a \in Account |-> account'[a]]
    <3>1. account' = Overlay(account, writes[w]) /\ DOMAIN account' = Account
      BY CommitChanges DEF Commit
    <3> QED
      BY <3>1 DEF Overlay
  <2> QED
    BY <2>1, <2>2
<1>3. IsFiniteSet(Rows')
  <2>1. IsFiniteSet(Rows \cup {Self(w)})
    BY <1>1, FS_AddElement DEF TableInv
  <2>2. Rows' \subseteq Rows \cup {Self(w)}
    BY CommitRows DEF Creates
  <2> QED
    BY <2>1, <2>2, FS_Subset
<1>4. \A a \in Rows : account[a] \in AccountRow /\ a \in Account
  BY <1>1, TableTypes
<1>5. ASSUME NEW a \in Rows' PROVE References(account'[a]) \subseteq Rows' \ {a}
  <2>1. a \in Account /\ (a \in Rows \/ Creates(w, a))
    BY CommitRows
  <2>2. ASSUME NEW r \in References(account'[a]) PROVE r # a /\ r \in Rows
    <3>1. CASE Creates(w, a)
      BY <3>1 DEF Creates, Holds, Rows
    <3>2. CASE a \in Rows /\ account'[a] = account[a]
      BY <1>1, <3>2 DEF TableInv
    <3>3. CASE Updates(w, a)
      BY <1>1, <3>3 DEF Updates, TableInv, Holds
    <3> QED
      BY <2>1, <3>1, <3>2, <3>3, CommitChanges DEF Deletes, Rows
  <2>3. ASSUME NEW r \in References(account'[a]), r \notin Rows' PROVE FALSE
    <3>1. Deletes(w, r)
      BY <2>2, <2>3, CommitRows
    <3>2. CASE a \in Rows
      BY <2>2, <3>1, <3>2 DEF Deletes
    <3>3. CASE Creates(w, a)
      <4>1. Creating(w) /\ stage[w] = "commit" /\ InsertReady(w)
        BY <3>3 DEF Creates, Commit, TreeInv, SessionInv
      <4>2. \A x \in DOMAIN writes[w] : x = a
        BY <3>3, <4>1 DEF InsertReady, Creates
      <4>3. r \in DOMAIN writes[w]
        BY <2>2, <3>1, CommitChanges DEF Deletes, Rows
      <4> QED
        BY <2>2, <4>2, <4>3
    <3> QED
      BY <2>1, <3>2, <3>3
  <2> QED
    BY <2>2, <2>3
<1>6. ASSUME NEW a \in Rows', Creates(w, a)
      PROVE  /\ \A b \in Rows : account[b].code # account'[a].code
             /\ Above(account'[a].path, account'[a].parent)
  <2>1. Creating(w) /\ stage[w] = "commit" /\ InsertReady(w)
    BY <1>6 DEF Creates, Commit, TreeInv, SessionInv
  <2> QED
    BY <1>6, <2>1 DEF InsertReady, Creates
<1>7. ASSUME NEW a \in Rows', NEW b \in Rows', account'[a].code = account'[b].code PROVE a = b
  <2>1. CASE a \in Rows /\ b \in Rows
    BY <1>1, <1>7, <2>1, CommitRows DEF TableInv
  <2>2. CASE Creates(w, a) /\ Creates(w, b)
    BY <2>2 DEF Creates
  <2>3. CASE Creates(w, a) /\ b \in Rows
    BY <1>6, <1>7, <2>3, CommitRows
  <2>4. CASE a \in Rows /\ Creates(w, b)
    BY <1>6, <1>7, <2>4, CommitRows
  <2> QED
    BY <2>1, <2>2, <2>3, <2>4, CommitRows
<1>8. ASSUME NEW a \in Rows', account'[a].parent # None
      PROVE  ~IsPrefix(account'[a].path, account'[account'[a].parent].path)
  <2> DEFINE p == account'[a].parent
  <2>1. p \in References(account'[a]) /\ p \in Rows'
    BY <1>5, <1>8 DEF References
  <2>2. CASE Creates(w, a)
    <3>1. p \in Rows /\ account'[p].path = account[p].path
      BY <2>1, <2>2, CommitRows DEF Creates, Holds
    <3> QED
      BY <1>6, <1>8, <2>2, <3>1 DEF Above
  <2>3. CASE a \in Rows
    <3>1. ~Deletes(w, a)
      BY DEF Deletes, Rows
    <3>2. CASE account'[a] = account[a]
      <4>1. p \in Rows /\ account'[p].path = account[p].path
        BY <1>1, <2>1, <2>3, <3>2, CommitRows DEF TableInv
      <4> QED
        BY <1>1, <1>8, <2>3, <3>2, <4>1 DEF TableInv, Above
    <3>3. CASE Updates(w, a) /\ account'[a] # account[a]
      <4>1. p \in Rows /\ account'[p].path = account[p].path
        BY <1>1, <2>1, <2>3, <3>3, CommitRows DEF Updates, TableInv, Holds
      <4>2. a \in DOMAIN writes[w] /\ account'[a] = writes[w][a]
        BY <1>4, <2>3, <3>3, CommitChanges
      <4>3. CASE Updating(w)
        <5>1. UpdateReady(w) /\ stage[w] = "commit" /\ writes[w] # <<>>
          BY <4>2, EmptyFunction DEF TreeInv, SessionInv, Commit
        <5>2. a = Self(w)
          BY <4>2, <4>3, <5>1 DEF UpdateReady
        <5> QED
          BY <1>8, <4>1, <4>2, <4>3, <5>1, <5>2 DEF UpdateReady, Above
      <4>4. CASE Deleting(w)
        <5>1. DeleteReady(w) /\ stage[w] = "commit"
          BY DEF TreeInv, SessionInv, Commit
        <5>2. CASE a \in children[w]
          <6>1. account'[a] = [account[a] EXCEPT !.parent = None]
            BY <4>2, <4>4, <5>1, <5>2 DEF DeleteReady
          <6>2. account[a] \in AccountRow
            BY <1>4, <2>3
          <6>3. account'[a].parent = None
            BY <6>1, <6>2 DEF AccountRow
          <6> QED
            BY <1>8, <6>3
        <5>3. CASE a \notin children[w]
          BY <4>2, <4>4, <5>1, <5>3 DEF DeleteReady, Rows
        <5> QED
          BY <5>2, <5>3
      <4>5. CASE Creating(w)
        BY <2>3, <4>2, <4>5 DEF TreeInv, SessionInv, InsertReady, CreatesAlone, Commit, Rows
      <4>6. Creating(w) \/ Updating(w) \/ Deleting(w)
        <5>1. SessionTypes /\ Busy(w)
          BY DEF TreeInv, Commit, Busy
        <5> QED
          BY <5>1, BusyCalls DEF Creating, Updating, Deleting
      <4> QED
        BY <4>3, <4>4, <4>5, <4>6
    <3> QED
      BY <1>4, <2>3, <3>1, <3>2, <3>3, CommitChanges DEF Creates, Rows
  <2> QED
    BY <2>2, <2>3, CommitRows
<1>9. \A a \in Rows' : Above(account[a].path, account[a].parent)'
  BY <1>8 DEF Above
<1> QED
  BY <1>2, <1>3, <1>5, <1>7, <1>9 DEF TableInv

(* What the other sessions know is still so after a commit.                *)
LEMMA CommitSession ==
  ASSUME TreeInv, NEW w \in Worker, Commit(w), NEW v \in Worker \ {w}
  PROVE  SessionInv(v)'
<1>1. SessionInv(v) /\ TableInv /\ SessionTypes /\ OthersSame(w) /\ TableInv'
  BY EndTypes, CommitTable DEF TreeInv, Commit
<1>2. /\ stage'[v] = stage[v] /\ call'[v] = call[v] /\ writes'[v] = writes[v]
      /\ loaded'[v] = loaded[v] /\ children'[v] = children[v] /\ locks'[v] = locks[v]
  BY <1>1 DEF OthersSame
<1>3. /\ Busy(v)' = Busy(v) /\ Self(v)' = Self(v) /\ Creating(v)' = Creating(v)
      /\ Updating(v)' = Updating(v) /\ Deleting(v)' = Deleting(v)
  BY <1>2 DEF Busy, Self, Creating, Updating, Deleting
<1>4. \A r : Holds(v, r) => Holds(v, r)' /\ account'[r].path = account[r].path
  <2> SUFFICES ASSUME NEW r, Holds(v, r)
               PROVE  Holds(v, r)' /\ account'[r].path = account[r].path
    OBVIOUS
  <2>1. r \in Rows' /\ r \in Rows
    BY CommitRows DEF Holds
  <2> QED
    BY <1>2, <2>1, CommitRows DEF Holds
<1>5. Fresh(v)' /\ HasLoaded(v)'
  BY <1>1, <1>2, <1>3 DEF SessionInv, Fresh, HasLoaded
<1>6. KnowsPaths(v)'
  <2> SUFFICES ASSUME NEW a \in DOMAIN loaded[v]
               PROVE  /\ Busy(v) /\ a \in Mentioned(call[v]) \cap Account
                      /\ loaded[v][a] \in AccountRow
                      /\ a \in Rows' => loaded[v][a].path = account'[a].path
    BY <1>2, <1>3 DEF KnowsPaths
  <2>1. ~Creates(w, a)
    BY DEF Creates, TreeInv, CreatesAlone
  <2> QED
    BY <1>1, <2>1, CommitRows DEF SessionInv, KnowsPaths
<1>7. HasCompared(v)'
  BY <1>1, <1>2, <1>3 DEF SessionInv, HasCompared, Named
<1>8. InsertReady(v)'
  <2> SUFFICES ASSUME Creating(v), stage[v] = "commit"
               PROVE  InsertReady(v)'
    BY <1>2, <1>3 DEF InsertReady
  <2> DEFINE row == writes[v][Self(v)]
  <2>1. /\ DOMAIN writes[v] = {Self(v)} /\ row \in AccountRow
        /\ \A r \in References(row) : Holds(v, r)
        /\ Above(row.path, row.parent)
        /\ \A a \in Rows : account[a].code # row.code
    BY <1>1 DEF SessionInv, InsertReady
  <2> HIDE DEF row
  <2>2. row.parent # None => ~IsPrefix(row.path, account'[row.parent].path)
    <3> SUFFICES ASSUME row.parent # None PROVE ~IsPrefix(row.path, account'[row.parent].path)
      OBVIOUS
    <3>1. Holds(v, row.parent)
      BY <2>1 DEF References
    <3> QED
      BY <1>4, <2>1, <3>1 DEF Above
  <2>3. ASSUME NEW a \in Rows' PROVE account'[a].code # row.code
    <3>1. CASE a \in Rows
      BY <2>1, <3>1, CommitRows
    <3>2. CASE Creates(w, a)
      BY <3>2 DEF Creates, Commit, TreeInv, CodesApart, row
    <3> QED
      BY <3>1, <3>2, CommitRows
  <2>4. writes'[v][Self(v)'] = row
    BY <1>2, <1>3 DEF row
  <2> QED
    BY <1>2, <1>3, <1>4, <2>1, <2>2, <2>3, <2>4 DEF InsertReady, Above
<1>9. UpdateReady(v)'
  <2> SUFFICES ASSUME Updating(v), stage[v] = "commit", writes[v] # <<>>
               PROVE  UpdateReady(v)'
    BY <1>2, <1>3 DEF UpdateReady
  <2> DEFINE row == writes[v][Self(v)]
             old == account[Self(v)]
  <2>1. /\ DOMAIN writes[v] = {Self(v)}
        /\ Self(v) \in Rows /\ On(Self(v), "change") \in locks[v]
        /\ row \in AccountRow
        /\ row.code = old.code /\ row.path = old.path
        /\ \A r \in References(row) \ References(old) : r # Self(v) /\ Holds(v, r)
        /\ Above(row.path, row.parent)
    BY <1>1 DEF SessionInv, UpdateReady
  <2>2. account'[Self(v)] = old /\ Self(v) \in Rows'
    BY <2>1, CommitRows DEF Rows
  <2>3. writes'[v][Self(v)'] = row /\ account'[Self(v)'] = old
    BY <1>2, <1>3, <2>2
  <2>4. References(old) \subseteq Rows /\ References(old) \subseteq Rows'
    BY <1>1, <2>1, <2>2 DEF TableInv
  <2> HIDE DEF row, old
  <2>5. row.parent # None => ~IsPrefix(row.path, account'[row.parent].path)
    <3> SUFFICES ASSUME row.parent # None PROVE ~IsPrefix(row.path, account'[row.parent].path)
      OBVIOUS
    <3>1. account'[row.parent].path = account[row.parent].path
      <4>1. CASE row.parent \in References(old)
        BY <2>4, <4>1, CommitRows
      <4>2. CASE row.parent \notin References(old)
        BY <1>4, <2>1, <4>2 DEF References
      <4> QED
        BY <4>1, <4>2
    <3> QED
      BY <2>1, <3>1 DEF Above
  <2> QED
    BY <1>2, <1>3, <1>4, <2>1, <2>2, <2>3, <2>5 DEF UpdateReady, Above
<1>10. DeleteReady(v)'
  <2>1. Deleting(v) => Self(v) \notin children[v]
    BY <1>1 DEF SessionInv, DeleteReady
  <2>2. ASSUME Deleting(v), stage[v] \in {"delete", "commit"}
        PROVE  /\ \A b \in children[v] :
                    /\ b \in Rows' /\ On(b, "change") \in locks[v]
                    /\ writes[v][b] = [account'[b] EXCEPT !.parent = None]
               /\ DOMAIN writes[v] =
                    children[v] \cup IF stage[v] = "commit" THEN {Self(v)} ELSE {}
    <3>1. /\ \A b \in children[v] :
               /\ b \in Rows /\ On(b, "change") \in locks[v]
               /\ writes[v][b] = [account[b] EXCEPT !.parent = None]
          /\ DOMAIN writes[v] = children[v] \cup IF stage[v] = "commit" THEN {Self(v)} ELSE {}
      BY <1>1, <2>2 DEF SessionInv, DeleteReady
    <3>2. \A b \in children[v] : account'[b] = account[b] /\ b \in Rows'
      BY <3>1, CommitRows DEF Rows
    <3> QED
      BY <3>1, <3>2
  <2>3. ASSUME Deleting(v), stage[v] = "commit"
        PROVE  /\ Self(v) \in Rows' /\ On(Self(v), "all") \in locks[v]
               /\ writes[v][Self(v)] = None
               /\ \A b \in Referring(Self(v))' :
                    b \in children[v] /\ account'[b].collective # Self(v)
    <3>1. /\ Self(v) \in Rows /\ On(Self(v), "all") \in locks[v]
          /\ writes[v][Self(v)] = None
          /\ \A b \in Referring(Self(v)) :
               b \in children[v] /\ account[b].collective # Self(v)
          /\ \A b \in children[v] : On(b, "change") \in locks[v] /\ b \in Rows
      BY <1>1, <2>3 DEF SessionInv, DeleteReady
    <3>2. Self(v) \in Rows' /\ Self(v) # None
      <4>1. Self(v) \in Rows' /\ Self(v) \in Account
        BY <3>1, CommitRows DEF Rows
      <4> QED
        BY <4>1, TreeAssumption
    <3>3. ~Holds(w, Self(v))
      BY <3>1 DEF Holds, TreeInv, LocksApart, Conflict, On
    <3>4. ASSUME NEW b \in Rows',
                 account'[b].parent = Self(v) \/ account'[b].collective = Self(v)
          PROVE  b \in children[v] /\ account'[b].collective # Self(v)
      <4>1. Self(v) \in References(account'[b])
        BY <3>2, <3>4 DEF References
      <4>2. ~Creates(w, b)
        BY <3>3, <4>1 DEF Creates
      <4>3. b \in Rows /\ b \in Account
        BY <4>2, CommitRows
      <4>4. Self(v) \in References(account[b])
        BY <3>3, <4>1, <4>2, <4>3, CommitChanges DEF Updates, Deletes, Rows
      <4>5. b \in children[v] /\ account[b].collective # Self(v)
        BY <3>1, <4>3, <4>4 DEF Referring, References
      <4>6. account'[b] = account[b]
        BY <3>1, <4>3, <4>5, CommitRows
      <4> QED
        BY <4>5, <4>6
    <3> QED
      BY <3>1, <3>2, <3>4, <1>3 DEF Referring
  <2> QED
    BY <1>2, <1>3, <2>1, <2>2, <2>3 DEF DeleteReady, Referring
<1> QED
  BY <1>5, <1>6, <1>7, <1>8, <1>9, <1>10 DEF SessionInv

(* A commit keeps the invariant.                                           *)
LEMMA CommitKeeps == ASSUME TreeInv, NEW w \in Worker, Commit(w) PROVE TreeInv'
<1>1. End(w) /\ TableInv' /\ \A v \in Worker \ {w} : SessionInv(v)'
  BY CommitTable, CommitSession DEF Commit
<1>2. ASSUME NEW u \in Worker \ {w}, Creating(u) PROVE account'[Self(u)] = None
  <2>1. account[Self(u)] = None /\ Self(u) \notin DOMAIN writes[w] /\ Self(u) \in Account
    <3>1. SessionTypes
      BY DEF TreeInv
    <3> QED
      BY <1>2, <3>1, BusyCalls DEF TreeInv, CreatesAlone, Creating
  <2> QED
    BY <2>1, CommitChanges
<1> QED
  BY <1>1, <1>2, EndTypes, EndApart DEF TreeInv

----------------------------------------------------------------------------
(* The theorems                                                            *)

(* TreeInv is inductive.                                                   *)
THEOREM TreeInvariant == Spec => []TreeInv
<1>1. Init => TreeInv
  <2> SUFFICES ASSUME Init PROVE TreeInv
    OBVIOUS
  <2>1. Rows = {} /\ TableInv
    BY FS_EmptySet DEF Init, Rows, TableInv
  <2>2. SessionTypes
    BY DEF Init, SessionTypes, Busy, Stages
  <2>3. \A w \in Worker : stage[w] = "idle" /\ ~Busy(w)
    BY DEF Init, Busy
  <2>4. ASSUME NEW w \in Worker PROVE SessionInv(w) /\ CreatesAlone(w)
    <3>1. DOMAIN loaded[w] = {} /\ Fresh(w)
      BY EmptyFunction DEF Init, Fresh
    <3> QED
      BY <2>3, <3>1 DEF SessionInv, CreatesAlone, KnowsPaths, HasLoaded, HasCompared,
           InsertReady, UpdateReady, DeleteReady, Creating, Updating, Deleting
  <2>5. LocksApart /\ CodesApart
    BY <2>3 DEF Init, LocksApart, CodesApart, Creating
  <2> QED
    BY <2>1, <2>2, <2>4, <2>5 DEF TreeInv
<1>2. TreeInv /\ [Next]_vars => TreeInv'
  <2> SUFFICES ASSUME TreeInv, [Next]_vars PROVE TreeInv'
    OBVIOUS
  <2>1. ASSUME NEW w \in Worker,
               \/ Begin(w) \/ FindCode(w) \/ LoadAccount(w)
               \/ FindParent(w) \/ FindCollective(w)
               \/ Insert(w) \/ Update(w)
               \/ CountChildren(w) \/ LoadChildren(w) \/ Detach(w) \/ Delete(w)
               \/ Commit(w) \/ Abort(w)
        PROVE  TreeInv'
    BY <2>1, BeginKeeps, FindCodeKeeps, LoadAccountKeeps, FindParentKeeps, FindCollectiveKeeps,
       InsertKeeps, UpdateKeeps, CountKeeps, LoadChildrenKeeps, DetachKeeps, DeleteKeeps,
       CommitKeeps, AbortKeeps
  <2>2. CASE UNCHANGED vars
    <3>1. ASSUME NEW v \in Worker PROVE SessionInv(v)' /\ CreatesAlone(v)'
      <4>1. SessionInv(v)'
        BY <2>2, SessionKept DEF TreeInv, vars
      <4>2. CreatesAlone(v)'
        BY <2>2 DEF TreeInv, vars, CreatesAlone, Creating, Busy, Self
      <4> QED
        BY <4>1, <4>2
    <3>2. TableInv' /\ SessionTypes'
      BY <2>2 DEF TreeInv, vars, TableInv, Rows, Above, SessionTypes, Busy
    <3>3. LocksApart' /\ CodesApart'
      BY <2>2 DEF TreeInv, vars, LocksApart, CodesApart, Creating, Busy, Self
    <3> QED
      BY <3>1, <3>2, <3>3 DEF TreeInv
  <2> QED
    BY <2>1, <2>2 DEF Next, Rest
<1> QED
  BY <1>1, <1>2, PTL DEF Spec

(* TypeOK: rows have their types, references lead to accounts that exist,  *)
(* and a code is one account.                                              *)
THEOREM ReferencesExist == Spec => []TypeOK
<1>1. TreeInv => TypeOK
  <2> SUFFICES ASSUME TreeInv PROVE TypeOK
    OBVIOUS
  <2>1. \A a \in Rows : account[a] \in AccountRow
    BY TableTypes DEF TreeInv
  <2>2. \A w \in Worker : stage[w] = "idle" => (writes[w] = <<>> /\ locks[w] = {})
    BY DEF TreeInv, SessionInv, Fresh
  <2> QED
    BY <2>1, <2>2 DEF TreeInv, TableInv, SessionTypes, References, TypeOK
<1> QED
  BY <1>1, TreeInvariant, PTL

(* The least element of a set of accounts that have paths.                 *)
LEMMA ShortestPath ==
  ASSUME TableInv, NEW S \in SUBSET Rows, S # {}
  PROVE  \E a \in S : \A b \in S : Len(account[a].path) <= Len(account[b].path)
<1> DEFINE lengths == {Len(account[a].path) : a \in S}
<1>1. lengths \in SUBSET Nat /\ lengths # {}
  <2>1. \A a \in S : account[a].path \in Seq(Code)
    BY TableTypes, RowTypes
  <2>2. \A a \in S : Len(account[a].path) \in Nat
    BY <2>1
  <2> QED
    BY <2>2
<1>2. PICK m \in lengths : \A k \in lengths : m <= k
  <2> HIDE DEF lengths
  <2> QED
    BY <1>1, LeastNumber
<1> QED
  BY <1>2

(* CyclesTakeTwoMoves: of the accounts that lie under each other, the one  *)
(* with the shortest path is stale.  Were it the only one, the paths of    *)
(* all the others would begin with its own, that of its parent included,   *)
(* and an update would have refused to put it there.                       *)
THEOREM OneMoveMakesNoCycle == Spec => []CyclesTakeTwoMoves
<1>1. TreeInv => CyclesTakeTwoMoves
  <2> SUFFICES ASSUME TreeInv, NEW S \in SUBSET Rows, S # {},
                      \A a \in S : account[a].parent \in S
               PROVE  Cardinality({a \in S : Stale(a)}) > 1
    BY DEF CyclesTakeTwoMoves
  <2> DEFINE path(a) == account[a].path
             parent(a) == account[a].parent
             stale == {a \in S : Stale(a)}
  <2>1. TableInv
    BY DEF TreeInv
  <2>2. \A a \in S : /\ a \in Rows /\ path(a) \in Seq(Code) /\ account[a].code \in Code
                     /\ parent(a) \in S /\ parent(a) # None
    <3>1. \A a \in S : a # None
      BY TreeAssumption DEF Rows
    <3> QED
      BY <2>1, <3>1, TableTypes, RowTypes
  <2>3. ASSUME NEW a \in S, ~Stale(a)
        PROVE  /\ path(a) = Append(path(parent(a)), account[a].code)
               /\ Len(path(parent(a))) < Len(path(a))
    <3>1. path(a) = Append(path(parent(a)), account[a].code)
      BY <2>2, <2>3 DEF Stale
    <3>2. path(parent(a)) \in Seq(Code) /\ account[a].code \in Code
      BY <2>2
    <3> QED
      BY <3>1, <3>2
  <2>4. PICK low \in S : \A b \in S : Len(path(low)) <= Len(path(b))
    BY <2>1, ShortestPath
  <2>5. low \in stale
    <3>1. Len(path(low)) <= Len(path(parent(low)))
      BY <2>2, <2>4
    <3>2. Len(path(low)) \in Nat /\ Len(path(parent(low))) \in Nat
      BY <2>2
    <3> HIDE DEF path, parent
    <3>3. Stale(low)
      BY <2>3, <3>1, <3>2
    <3> QED
      BY <3>3
  <2>6. stale # {low}
    <3> SUFFICES ASSUME stale = {low} PROVE FALSE
      OBVIOUS
    <3> DEFINE beside == {a \in S : ~IsPrefix(path(low), path(a))}
    <3>1. beside = {}
      <4> SUFFICES ASSUME beside # {} PROVE FALSE
        OBVIOUS
      <4>1. PICK b \in beside : \A a \in beside : Len(path(b)) <= Len(path(a))
        <5>1. beside \in SUBSET Rows
          BY <2>2
        <5> HIDE DEF beside
        <5> QED
          BY <2>1, <5>1, ShortestPath
      <4>2. b \in S /\ ~IsPrefix(path(low), path(b))
        BY <4>1
      <4>3. b # low
        BY <2>2, <4>2, PrefixOfItself
      <4>4. ~Stale(b)
        BY <4>2, <4>3
      <4>5. path(b) = Append(path(parent(b)), account[b].code)
            /\ Len(path(parent(b))) < Len(path(b))
        BY <2>3, <4>2, <4>4
      <4>6. parent(b) \notin beside
        <5>1. Len(path(b)) \in Nat /\ Len(path(parent(b))) \in Nat
          BY <2>2, <4>2
        <5> HIDE DEF beside, path, parent
        <5> QED
          BY <4>1, <4>5, <5>1
      <4>7. IsPrefix(path(low), path(parent(b)))
        BY <2>2, <4>2, <4>6
      <4>8. path(low) \in Seq(Code) /\ path(parent(b)) \in Seq(Code) /\ account[b].code \in Code
        BY <2>2, <4>2
      <4> HIDE DEF path, parent
      <4>9. IsPrefix(path(low), path(b))
        BY <4>5, <4>7, <4>8, PrefixOfLonger
      <4> QED
        BY <4>2, <4>9
    <3>2. IsPrefix(path(low), path(parent(low)))
      BY <2>2, <3>1
    <3> QED
      BY <2>1, <2>2, <3>2 DEF TableInv, Above
  <2>7. IsFiniteSet(stale)
    BY <2>1, FS_Subset DEF TableInv
  <2> HIDE DEF stale
  <2>8. Cardinality(stale) \in Nat /\ Cardinality(stale) # 0
    BY <2>5, <2>7, FS_CardinalityType, FS_EmptySet
  <2>9. Cardinality(stale) # 1
    BY <2>5, <2>6, <2>7, FS_Singleton
  <2>10. Cardinality(stale) > 1
    BY <2>8, <2>9
  <2> QED
    BY <2>10 DEF stale
<1> QED
  BY <1>1, TreeInvariant, PTL

=============================================================================
