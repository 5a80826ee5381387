-------------------------- MODULE AuditChainProofs --------------------------
(***************************************************************************)
(* Theorems about the hash chain, for every number of organizations, of    *)
(* records and of changes by hand.                                         *)
(*                                                                         *)
(* A digest that is found in the table was computed by append, and it      *)
(* names everything it was computed from: so a row that carries the digest *)
(* of its own columns has the columns of a record that was appended.       *)
(***************************************************************************)
EXTENDS AuditChain, FunctionTheorems, FiniteSetTheorems, SequenceTheorems, TLAPS

----------------------------------------------------------------------------
(* The invariant                                                           *)

Fields == {"organization", "event", "payload", "previous", "hash", "sequence_no"}

Stored == {Canonical(p) : p \in Payload}

(* A row of the table, with any link and any digest.                       *)
IsRow(r) ==
  /\ DOMAIN r = Fields
  /\ r.organization \in Organization /\ r.event \in Event
  /\ r.payload \in Stored
  /\ r.sequence_no \in Nat \ {0}

UniqueRows ==
  \A r, s \in logs : (r # s /\ r.organization = s.organization) =>
    r.sequence_no # s.sequence_no /\ r.hash # s.hash

(* What append inserted carries its own digest.                            *)
Appended ==
  /\ DOMAIN appended = Organization
  /\ \A o \in Organization : \A a \in appended[o] :
       /\ IsRow(a) /\ a.organization = o
       /\ a.hash = Digest(Unsigned(a))

(* No digest is in the table that append has not computed.                 *)
HashesAppended ==
  \A r \in logs : \E o \in Organization : \E a \in appended[o] : r.hash = a.hash

(* The rows of an organization are numbered from one without a gap, and    *)
(* each is linked to the one before.                                       *)
Linked(o) ==
  /\ \A r \in LogsOf(o) : r.sequence_no <= Cardinality(LogsOf(o))
  /\ \A n \in 1 .. Cardinality(LogsOf(o)) : \E r \in LogsOf(o) : r.sequence_no = n
  /\ \A r \in LogsOf(o) : r.sequence_no = 1 => r.previous = None
  /\ \A r, s \in LogsOf(o) : r.sequence_no = s.sequence_no + 1 => r.previous = s.hash

Untouched == changed = 0 => \A o \in Organization : LogsOf(o) = appended[o] /\ Linked(o)

ChainInv ==
  /\ \A r \in logs : IsRow(r)
  /\ UniqueRows
  /\ changed \in 0 .. Changes
  /\ IsFiniteSet(logs)
  /\ Appended
  /\ HashesAppended
  /\ Untouched

----------------------------------------------------------------------------
(* Digests                                                                 *)

(* What is digested is the text that will be stored.                       *)
LEMMA CanonicalTwice ==
  ASSUME NEW p
  PROVE  Canonical(Canonical(p)) = Canonical(p)
BY DEF Canonical

(* A digest is not NULL.                                                   *)
LEMMA DigestNotNone ==
  ASSUME NEW u
  PROVE  Digest(u) # None
<1> DEFINE v == [u EXCEPT !.payload = Canonical(@)]
<1> HIDE DEF v
<1>1. Digest(u) = <<"sha256", v>>
  BY DEF Digest, v
<1>2. <<"sha256", v>> # <<>>
  OBVIOUS
<1> QED
  BY <1>1, <1>2 DEF None

(* A digest names what was digested.                                       *)
LEMMA DigestNames ==
  ASSUME NEW r, NEW s, Digest(Unsigned(r)) = Digest(Unsigned(s))
  PROVE  /\ r.organization = s.organization /\ r.event = s.event
         /\ Canonical(r.payload) = Canonical(s.payload) /\ r.previous = s.previous
<1> DEFINE D(x) == [organization |-> x.organization, event |-> x.event,
                    payload |-> Canonical(x.payload), previous |-> x.previous]
<1>1. ASSUME NEW x PROVE [Unsigned(x) EXCEPT !.payload = Canonical(@)] = D(x)
  BY DEF Unsigned
<1>2. ASSUME NEW x PROVE Digest(Unsigned(x)) = <<"sha256", D(x)>>
  BY <1>1 DEF Digest
<1>3. <<"sha256", D(r)>> = <<"sha256", D(s)>>
  BY <1>2
<1>4. ASSUME NEW x, NEW y, <<"sha256", x>> = <<"sha256", y>> PROVE x = y
  <2>1. <<"sha256", x>>[2] = x /\ <<"sha256", y>>[2] = y
    OBVIOUS
  <2> QED
    BY <1>4, <2>1
<1>5. D(r) = D(s)
  BY <1>3, <1>4
<1>6. ASSUME NEW x
      PROVE  /\ D(x).organization = x.organization /\ D(x).event = x.event
             /\ D(x).payload = Canonical(x.payload) /\ D(x).previous = x.previous
  OBVIOUS
<1> HIDE DEF D
<1> QED
  BY <1>5, <1>6

(* Rows with one digest of their own columns have the same columns.        *)
LEMMA SameDigestSameRecord ==
  ASSUME NEW r, NEW s, r.payload \in Stored, s.payload \in Stored,
         r.hash = Digest(Unsigned(r)), s.hash = Digest(Unsigned(s)), r.hash = s.hash
  PROVE  Unsigned(r) = Unsigned(s) /\ r.organization = s.organization
<1>1. Canonical(r.payload) = r.payload /\ Canonical(s.payload) = s.payload
  BY CanonicalTwice DEF Stored
<1> QED
  BY <1>1, DigestNames DEF Unsigned

----------------------------------------------------------------------------
(* Rows in the order of their numbers                                      *)

(* The places of the rows of an organization are 1 to their number.        *)
LEMMA Places ==
  ASSUME ChainInv, NEW o \in Organization
  PROVE  /\ IsFiniteSet(LogsOf(o)) /\ Cardinality(LogsOf(o)) \in Nat
         /\ \A r \in LogsOf(o) : Place(o, r) \in 1 .. Cardinality(LogsOf(o))
         /\ \A r, s \in LogsOf(o) : r.sequence_no < s.sequence_no <=> Place(o, r) < Place(o, s)
         /\ \A r, s \in LogsOf(o) : Place(o, r) = Place(o, s) => r = s
         /\ \A i \in 1 .. Cardinality(LogsOf(o)) : \E r \in LogsOf(o) : Place(o, r) = i
<1> DEFINE S == LogsOf(o)
           n == Cardinality(S)
           upto(r) == {s \in S : s.sequence_no <= r.sequence_no}
<1>1. S \subseteq logs
  BY DEF LogsOf
<1>2. IsFiniteSet(S) /\ n \in Nat
  BY <1>1, FS_Subset, FS_CardinalityType DEF ChainInv
<1>3. \A r \in S : r.sequence_no \in Nat
  BY <1>1 DEF ChainInv, IsRow
<1>4. ASSUME NEW r \in S
      PROVE  /\ IsFiniteSet(upto(r)) /\ Place(o, r) = Cardinality(upto(r))
             /\ Place(o, r) \in Nat /\ Place(o, r) <= n /\ Place(o, r) # 0
  <2>1. upto(r) \subseteq S /\ r \in upto(r)
    BY <1>3
  <2>2. IsFiniteSet(upto(r)) /\ Cardinality(upto(r)) <= n
    BY <2>1, <1>2, FS_Subset
  <2>3. Cardinality(upto(r)) \in Nat /\ Cardinality(upto(r)) # 0
    BY <2>1, <2>2, FS_CardinalityType, FS_EmptySet
  <2>4. Place(o, r) = Cardinality(upto(r))
    BY DEF Place
  <2> QED
    BY <2>2, <2>3, <2>4
<1>5. ASSUME NEW r \in S, NEW s \in S, r.sequence_no < s.sequence_no
      PROVE  Place(o, r) < Place(o, s)
  <2>1. upto(r) \subseteq upto(s)
    BY <1>3, <1>5
  <2>2. s \in upto(s) /\ s \notin upto(r)
    BY <1>3, <1>5
  <2>3. Cardinality(upto(r)) <= Cardinality(upto(s)) /\ Cardinality(upto(r)) # Cardinality(upto(s))
    BY <2>1, <2>2, <1>4, FS_Subset
  <2> HIDE DEF upto
  <2> QED
    BY <2>3, <1>4
<1>6. ASSUME NEW r \in S, NEW s \in S PROVE r.sequence_no = s.sequence_no => r = s
  BY <1>1 DEF ChainInv, UniqueRows, LogsOf
<1>7. ASSUME NEW r \in S, NEW s \in S
      PROVE  /\ r.sequence_no < s.sequence_no <=> Place(o, r) < Place(o, s)
             /\ Place(o, r) = Place(o, s) => r = s
  <2>1. r.sequence_no < s.sequence_no \/ s.sequence_no < r.sequence_no \/ r = s
    BY <1>3, <1>6
  <2>2. Place(o, r) \in Nat /\ Place(o, s) \in Nat /\ r.sequence_no \in Nat /\ s.sequence_no \in Nat
    BY <1>4, <1>3
  <2> HIDE DEF S
  <2> QED
    BY <2>1, <2>2, <1>5
<1>8. ASSUME NEW i \in 1 .. n PROVE \E r \in S : Place(o, r) = i
  <2> DEFINE place == [r \in S |-> Place(o, r)]
  <2>0. ASSUME NEW r \in S PROVE Place(o, r) \in 1 .. n
    <3> HIDE DEF upto
    <3> QED
      BY <1>2, <1>4
  <2>1. place \in [S -> 1 .. n]
    BY <2>0
  <2>2. place \in Injection(S, 1 .. n)
    BY <2>1, <1>7 DEF Injection, IsInjective
  <2>3. IsFiniteSet(1 .. n) /\ Cardinality(1 .. n) = n
    BY <1>2, FS_Interval
  <2>4. place \in Surjection(S, 1 .. n)
    BY <2>2, <2>3, FS_Injection
  <2>5. PICK r \in S : place[r] = i
    BY <2>4 DEF Surjection
  <2> QED
    BY <2>5
<1> HIDE DEF upto
<1> QED
  BY <1>2, <1>4, <1>7, <1>8

(* The repository reads every row once, in the order of the numbers.       *)
LEMMA RowsInOrder ==
  ASSUME ChainInv, NEW o \in Organization
  PROVE  /\ Rows(o) \in Seq(LogsOf(o)) /\ Len(Rows(o)) = Cardinality(LogsOf(o))
         /\ DOMAIN Rows(o) = 1 .. Cardinality(LogsOf(o))
         /\ Cardinality(LogsOf(o)) \in Nat
         /\ \A i \in 1 .. Cardinality(LogsOf(o)) : Rows(o)[i] \in LogsOf(o)
         /\ \A i \in 1 .. Cardinality(LogsOf(o)) : Place(o, Rows(o)[i]) = i
         /\ \A r \in LogsOf(o) : \E i \in 1 .. Cardinality(LogsOf(o)) : Rows(o)[i] = r
<1> DEFINE S == LogsOf(o)
           n == Cardinality(S)
           at(i) == CHOOSE r \in S : Place(o, r) = i
<1>1. ASSUME NEW i \in 1 .. n PROVE at(i) \in S /\ Place(o, at(i)) = i
  BY Places
<1>2. Rows(o) = [i \in 1 .. n |-> at(i)]
  BY DEF Rows
<1>3. n \in Nat
  BY Places
<1> HIDE DEF at
<1>4. Rows(o) \in [1 .. n -> S]
  BY <1>1, <1>2
<1>5. Rows(o) \in Seq(S)
  BY <1>3, <1>4, SeqDef
<1>6. Len(Rows(o)) = n
  BY <1>3, <1>4, <1>5, LenProperties
<1>7. ASSUME NEW r \in S PROVE \E i \in 1 .. n : Rows(o)[i] = r
  <2>1. Place(o, r) \in 1 .. n
    BY Places
  <2>2. Place(o, at(Place(o, r))) = Place(o, r) /\ at(Place(o, r)) \in S
    BY <2>1, <1>1
  <2>3. at(Place(o, r)) = r
    BY <2>2, Places
  <2> QED
    BY <2>1, <2>3, <1>2
<1>8. \A i \in 1 .. n : Rows(o)[i] \in S /\ Place(o, Rows(o)[i]) = i
  BY <1>1, <1>2
<1> QED
  BY <1>3, <1>4, <1>5, <1>6, <1>7, <1>8

(* In an untouched chain the place of a row is its number.                 *)
LEMMA PlaceIsNumber ==
  ASSUME ChainInv, changed = 0, NEW o \in Organization
  PROVE  \A r \in LogsOf(o) : Place(o, r) = r.sequence_no
<1> DEFINE S == LogsOf(o)
           n == Cardinality(S)
<1>1. /\ IsFiniteSet(S) /\ n \in Nat
      /\ \A r \in S : r.sequence_no \in 1 .. n
      /\ \A m \in 1 .. n : \E r \in S : r.sequence_no = m
  <2>1. IsFiniteSet(S) /\ n \in Nat
    BY Places
  <2>2. \A r \in S : r.sequence_no \in Nat \ {0}
    BY DEF ChainInv, IsRow, LogsOf
  <2>3. Linked(o)
    BY DEF ChainInv, Untouched
  <2>4. \A r \in S : r.sequence_no <= n
    BY <2>3 DEF Linked
  <2>5. \A m \in 1 .. n : \E r \in S : r.sequence_no = m
    BY <2>3 DEF Linked
  <2> HIDE DEF S, n
  <2> QED
    BY <2>1, <2>2, <2>4, <2>5
<1>2. \A r, s \in S : r.sequence_no = s.sequence_no => r = s
  BY DEF ChainInv, UniqueRows, LogsOf
<1> HIDE DEF S, n
<1> SUFFICES ASSUME NEW r \in S PROVE Place(o, r) = r.sequence_no
  BY DEF S
<1> DEFINE T == {s \in S : s.sequence_no <= r.sequence_no}
           number == [s \in T |-> s.sequence_no]
           m == r.sequence_no
<1>3. m \in 1 .. n /\ m \in Nat
  BY <1>1
<1>4. number \in [T -> 1 .. m]
  BY <1>1, <1>3
<1>5. \A s, t \in T : number[s] = number[t] => s = t
  BY <1>2
<1>6. ASSUME NEW k \in 1 .. m PROVE \E s \in T : number[s] = k
  <2>1. k \in 1 .. n /\ k <= m
    BY <1>3, <1>1
  <2>2. PICK s \in S : s.sequence_no = k
    BY <2>1, <1>1
  <2> QED
    BY <2>1, <2>2
<1>7. number \in Bijection(T, 1 .. m)
  BY <1>4, <1>5, <1>6 DEF Bijection, Injection, IsInjective, Surjection
<1>8. IsFiniteSet(T)
  BY <1>1, FS_Subset
<1>9. Cardinality(1 .. m) = Cardinality(T)
  BY <1>7, <1>8, FS_Bijection DEF ExistsBijection
<1>10. Cardinality(1 .. m) = m
  BY <1>3, FS_Interval
<1>11. Place(o, r) = Cardinality(T)
  BY DEF Place, S
<1> QED
  BY <1>9, <1>10, <1>11

----------------------------------------------------------------------------
(* The invariant is kept                                                   *)

(* No rows, no digests.                                                    *)
LEMMA ChainInit == Init => ChainInv
<1> SUFFICES ASSUME Init PROVE ChainInv
  OBVIOUS
<1>1. logs = {} /\ changed = 0 /\ appended = [o \in Organization |-> {}]
  BY DEF Init
<1>2. IsFiniteSet(logs)
  BY <1>1, FS_EmptySet
<1>3. \A o \in Organization : LogsOf(o) = {} /\ Cardinality(LogsOf(o)) = 0
  BY <1>1, FS_EmptySet DEF LogsOf
<1>4. Untouched
  BY <1>1, <1>3 DEF Untouched, Linked
<1> QED
  BY <1>1, <1>2, <1>4, ChainAssumption
  DEF ChainInv, UniqueRows, Appended, HashesAppended

(* The row append makes is a row, with its own digest.                     *)
LEMMA NextRowMade ==
  ASSUME ChainInv, NEW o \in Organization, NEW event \in Event, NEW payload \in Payload
  PROVE  LET row == NextRow(o, event, payload)
             n == Cardinality(LogsOf(o))
         IN /\ IsRow(row) /\ row.organization = o /\ row.hash = Digest(Unsigned(row))
            /\ n = 0 => row.sequence_no = 1 /\ row.previous = None
            /\ n # 0 => /\ row.sequence_no = Rows(o)[n].sequence_no + 1
                        /\ row.previous = Rows(o)[n].hash
<1> DEFINE row == NextRow(o, event, payload)
           n == Cardinality(LogsOf(o))
           previous == IF Rows(o) = <<>> THEN None ELSE Rows(o)[Len(Rows(o))].hash
           number == IF Rows(o) = <<>> THEN 1 ELSE Rows(o)[Len(Rows(o))].sequence_no + 1
           given == [organization |-> o, event |-> event, payload |-> payload,
                     previous |-> previous]
<1>1. Rows(o) = <<>> <=> n = 0
  BY RowsInOrder, EmptySeq
<1>2. Len(Rows(o)) = n /\ n \in Nat
  BY RowsInOrder
<1>3. n # 0 => Rows(o)[n] \in LogsOf(o)
  BY <1>2, RowsInOrder
<1>4. number \in Nat \ {0}
  <2>1. \A r \in LogsOf(o) : r.sequence_no \in Nat
    BY DEF LogsOf, ChainInv, IsRow
  <2>2. CASE n = 0
    BY <2>2, <1>1
  <2>3. CASE n # 0
    BY <2>3, <2>1, <1>1, <1>2, <1>3
  <2> QED
    BY <2>2, <2>3
<1> HIDE DEF previous, number
<1>5. row = [organization |-> o, event |-> event, payload |-> Canonical(payload),
             previous |-> previous, hash |-> Digest(given), sequence_no |-> number]
  BY DEF NextRow, Record, previous, number
<1>6. Digest(Unsigned(row)) = Digest(given)
  <2>1. Unsigned(row) = [organization |-> o, event |-> event, payload |-> Canonical(payload),
                         previous |-> previous]
    BY <1>5 DEF Unsigned
  <2>2. [Unsigned(row) EXCEPT !.payload = Canonical(@)] = [given EXCEPT !.payload = Canonical(@)]
    BY <2>1, CanonicalTwice
  <2> QED
    BY <2>2 DEF Digest
<1>7. /\ row.organization = o /\ row.event = event /\ row.payload = Canonical(payload)
      /\ row.previous = previous /\ row.hash = Digest(given) /\ row.sequence_no = number
      /\ DOMAIN row = Fields
  BY <1>5 DEF Fields
<1>8. IsRow(row)
  BY <1>4, <1>7 DEF IsRow, Stored
<1> HIDE DEF row
<1>9. n = 0 => number = 1 /\ previous = None
  BY <1>1 DEF number, previous
<1>10. n # 0 => number = Rows(o)[n].sequence_no + 1 /\ previous = Rows(o)[n].hash
  BY <1>1, <1>2 DEF number, previous
<1> QED
  BY <1>6, <1>7, <1>8, <1>9, <1>10 DEF row

(* In an untouched chain the latest row has the number of rows as its      *)
(* number, and the next one follows it.                                    *)
LEMMA NextRowFollows ==
  ASSUME ChainInv, changed = 0, NEW o \in Organization,
         NEW event \in Event, NEW payload \in Payload
  PROVE  LET row == NextRow(o, event, payload)
             n == Cardinality(LogsOf(o))
         IN /\ row.sequence_no = n + 1
            /\ row.sequence_no = 1 => row.previous = None
            /\ \A s \in LogsOf(o) : row.sequence_no = s.sequence_no + 1 => row.previous = s.hash
            /\ n # 0 => \E s \in LogsOf(o) : s.sequence_no = n /\ row.previous = s.hash
<1> DEFINE row == NextRow(o, event, payload)
           n == Cardinality(LogsOf(o))
<1>1. /\ n = 0 => row.sequence_no = 1 /\ row.previous = None
      /\ n # 0 => /\ row.sequence_no = Rows(o)[n].sequence_no + 1
                  /\ row.previous = Rows(o)[n].hash
  BY NextRowMade
<1> HIDE DEF row
<1>2. n \in Nat /\ (n # 0 => Rows(o)[n] \in LogsOf(o) /\ Place(o, Rows(o)[n]) = n)
  BY RowsInOrder
<1>3. n # 0 => Rows(o)[n].sequence_no = n
  BY <1>2, PlaceIsNumber
<1>4. row.sequence_no = n + 1
  BY <1>1, <1>2, <1>3
<1>5. ASSUME NEW s \in LogsOf(o), row.sequence_no = s.sequence_no + 1
      PROVE  row.previous = s.hash
  <2>1. s.sequence_no = n /\ n # 0
    BY <1>2, <1>4, <1>5 DEF LogsOf, ChainInv, IsRow
  <2>2. s = Rows(o)[n]
    BY <2>1, <1>2, <1>3 DEF ChainInv, UniqueRows, LogsOf
  <2> QED
    BY <2>1, <2>2, <1>1
<1>6. row.sequence_no = 1 => row.previous = None
  BY <1>1, <1>2, <1>4
<1>7. n # 0 => \E s \in LogsOf(o) : s.sequence_no = n /\ row.previous = s.hash
  BY <1>1, <1>2, <1>3
<1> QED
  BY <1>4, <1>5, <1>6, <1>7 DEF row

(* An append keeps the invariant.                                          *)
LEMMA AppendKeeps ==
  ASSUME ChainInv, NEW o \in Organization, NEW event \in Event, NEW payload \in Payload,
         AppendRecord(o, event, payload)
  PROVE  ChainInv'
<1> DEFINE row == NextRow(o, event, payload)
<1>1. /\ Unique(row, logs) /\ logs' = logs \cup {row} /\ changed' = changed
      /\ appended' = [appended EXCEPT ![o] = @ \cup {row}]
  BY DEF AppendRecord
<1>2. IsRow(row) /\ row.organization = o /\ row.hash = Digest(Unsigned(row))
  BY NextRowMade
<1>3. changed = 0 =>
        /\ row.sequence_no = Cardinality(LogsOf(o)) + 1
        /\ row.sequence_no = 1 => row.previous = None
        /\ \A s \in LogsOf(o) : row.sequence_no = s.sequence_no + 1 => row.previous = s.hash
  BY NextRowFollows
<1> HIDE DEF row
<1>4. \A r \in logs' : IsRow(r)
  BY <1>1, <1>2 DEF ChainInv
<1>5. \A r, s \in logs' : (r # s /\ r.organization = s.organization) =>
        r.sequence_no # s.sequence_no /\ r.hash # s.hash
  BY <1>1 DEF ChainInv, UniqueRows, Unique
<1>6. IsFiniteSet(logs')
  BY <1>1, FS_AddElement DEF ChainInv
<1>7. DOMAIN appended' = Organization
  BY <1>1 DEF ChainInv, Appended
<1>8. \A p \in Organization : appended'[p] = IF p = o THEN appended[o] \cup {row} ELSE appended[p]
  BY <1>1 DEF ChainInv, Appended
<1>9. \A p \in Organization : \A a \in appended'[p] :
        IsRow(a) /\ a.organization = p /\ a.hash = Digest(Unsigned(a))
  BY <1>2, <1>8 DEF ChainInv, Appended
<1>10. \A r \in logs' : \E p \in Organization : \E a \in appended'[p] : r.hash = a.hash
  <2> SUFFICES ASSUME NEW r \in logs'
               PROVE  \E p \in Organization : \E a \in appended'[p] : r.hash = a.hash
    OBVIOUS
  <2>1. CASE r = row
    BY <2>1, <1>8
  <2>2. CASE r \in logs
    <3>1. PICK p \in Organization : \E a \in appended[p] : r.hash = a.hash
      BY <2>2 DEF ChainInv, HashesAppended
    <3>2. appended[p] \subseteq appended'[p]
      BY <1>8
    <3> QED
      BY <3>1, <3>2
  <2> QED
    BY <2>1, <2>2, <1>1
<1>11. ASSUME changed' = 0, NEW p \in Organization
       PROVE  LogsOf(p)' = appended'[p] /\ Linked(p)'
  <2>0. changed = 0
    BY <1>1, <1>11
  <2>1. LogsOf(p) = appended[p] /\ Linked(p)
    BY <2>0 DEF ChainInv, Untouched
  <2>2. CASE p # o
    <3>1. LogsOf(p)' = LogsOf(p)
      BY <2>2, <1>1, <1>2 DEF LogsOf
    <3>2. Linked(p)'
      BY <3>1, <2>1 DEF Linked
    <3> QED
      BY <3>1, <3>2, <2>1, <2>2, <1>8
  <2>3. CASE p = o
    <3> DEFINE S == LogsOf(o)
               n == Cardinality(S)
    <3>1. LogsOf(o)' = S \cup {row}
      BY <1>1, <1>2 DEF LogsOf
    <3>2. IsFiniteSet(S) /\ n \in Nat /\ \A r \in S : r.sequence_no \in 1 .. n
      BY <2>1, <2>3, Places DEF Linked, LogsOf, ChainInv, IsRow
    <3>3. /\ \A m \in 1 .. n : \E r \in S : r.sequence_no = m
          /\ \A r \in S : r.sequence_no = 1 => r.previous = None
          /\ \A r, s \in S : r.sequence_no = s.sequence_no + 1 => r.previous = s.hash
      BY <2>1, <2>3 DEF Linked
    <3>4. /\ row.sequence_no = n + 1 /\ (row.sequence_no = 1 => row.previous = None)
          /\ \A s \in S : row.sequence_no = s.sequence_no + 1 => row.previous = s.hash
      BY <2>0, <1>3
    <3> HIDE DEF S, n
    <3>5. row \notin S
      BY <3>2, <3>4
    <3>6. Cardinality(LogsOf(o)') = n + 1
      BY <3>1, <3>2, <3>5, FS_AddElement DEF n
    <3>7. \A r \in S \cup {row} : r.sequence_no <= n + 1
      BY <3>2, <3>4
    <3>8. \A m \in 1 .. n + 1 : \E r \in S \cup {row} : r.sequence_no = m
      <4> SUFFICES ASSUME NEW m \in 1 .. n + 1 PROVE \E r \in S \cup {row} : r.sequence_no = m
        OBVIOUS
      <4>1. m = n + 1 \/ m \in 1 .. n
        BY <3>2
      <4> QED
        BY <4>1, <3>3, <3>4
    <3>9. \A r \in S \cup {row} : r.sequence_no = 1 => r.previous = None
      BY <3>3, <3>4
    <3>10. \A r, s \in S \cup {row} : r.sequence_no = s.sequence_no + 1 => r.previous = s.hash
      <4> SUFFICES ASSUME NEW r \in S \cup {row}, NEW s \in S \cup {row},
                          r.sequence_no = s.sequence_no + 1
                   PROVE  r.previous = s.hash
        OBVIOUS
      <4>1. s \in S
        BY <3>2, <3>4
      <4> QED
        BY <4>1, <3>3, <3>4
    <3>11. Linked(o)'
      BY <3>1, <3>6, <3>7, <3>8, <3>9, <3>10 DEF Linked
    <3> QED
      BY <3>1, <3>11, <2>1, <2>3, <1>8 DEF S
  <2> QED
    BY <2>2, <2>3
<1>12. changed' \in 0 .. Changes
  BY <1>1 DEF ChainInv
<1> QED
  BY <1>4, <1>5, <1>6, <1>7, <1>9, <1>10, <1>11, <1>12
  DEF ChainInv, UniqueRows, Appended, HashesAppended, Untouched

(* A change by hand brings no digest that was not there, and the table     *)
(* keeps its constraints.                                                  *)
LEMMA ChangeKeeps ==
  ASSUME ChainInv, NEW r \in logs, DeleteRow(r) \/ UpdateRow(r)
  PROVE  ChainInv'
<1>1. changed' = changed + 1 /\ appended' = appended /\ changed < Changes
  BY DEF DeleteRow, UpdateRow, Change
<1>2. changed \in Nat /\ changed' \in 0 .. Changes /\ changed' # 0
  BY <1>1, ChainAssumption DEF ChainInv
<1>3. CASE DeleteRow(r)
  <2>1. logs' = logs \ {r}
    BY <1>3 DEF DeleteRow
  <2>2. IsFiniteSet(logs')
    BY <2>1, FS_RemoveElement DEF ChainInv
  <2> QED
    BY <1>1, <1>2, <2>1, <2>2
    DEF ChainInv, UniqueRows, Appended, HashesAppended, Untouched
<1>4. CASE UpdateRow(r)
  <2>1. PICK s \in Overwritten(r) : Unique(s, logs \ {r}) /\ logs' = (logs \ {r}) \cup {s}
    BY <1>4 DEF UpdateRow
  <2>2. IsRow(r)
    BY DEF ChainInv
  <2>3. IsRow(s) /\ \E t \in logs : s.hash = t.hash
    <3>1. CASE s \in {[r EXCEPT !.organization = o] : o \in Organization}
      BY <2>2, <3>1 DEF IsRow, Fields
    <3>2. CASE s \in {[r EXCEPT !.sequence_no = n] : n \in 1 .. Length + 1}
      BY <2>2, <3>2, ChainAssumption DEF IsRow, Fields
    <3>3. CASE s \in {[r EXCEPT !.event = e] : e \in Event}
      BY <2>2, <3>3 DEF IsRow, Fields
    <3>4. CASE s \in {[r EXCEPT !.payload = Canonical(p)] : p \in Payload}
      BY <2>2, <3>4 DEF IsRow, Fields, Stored
    <3>5. CASE s \in {[r EXCEPT !.previous = h] : h \in {t.hash : t \in logs} \cup {None}}
      BY <2>2, <3>5 DEF IsRow, Fields
    <3>6. CASE s \in {[r EXCEPT !.hash = h] : h \in {t.hash : t \in logs}}
      BY <2>2, <3>6 DEF IsRow, Fields
    <3> QED
      BY <2>1, <3>1, <3>2, <3>3, <3>4, <3>5, <3>6 DEF Overwritten
  <2>4. IsFiniteSet(logs')
    BY <2>1, FS_RemoveElement, FS_AddElement DEF ChainInv
  <2>5. \A t \in logs' : IsRow(t)
    BY <2>1, <2>3 DEF ChainInv
  <2>6. \A t \in logs' : \E u \in logs : t.hash = u.hash
    BY <2>1, <2>3
  <2>7. HashesAppended'
    BY <2>6, <1>1 DEF ChainInv, HashesAppended
  <2>8. UniqueRows'
    BY <2>1 DEF ChainInv, UniqueRows, Unique
  <2> QED
    BY <1>1, <1>2, <2>4, <2>5, <2>7, <2>8 DEF ChainInv, Appended, Untouched
<1> QED
  BY <1>3, <1>4

(* The inductive invariant of the chain.                                   *)
THEOREM ChainInvariant == Spec => []ChainInv
<1>1. Init => ChainInv
  BY ChainInit
<1>2. ChainInv /\ [Next]_vars => ChainInv'
  <2> SUFFICES ASSUME ChainInv, [Next]_vars PROVE ChainInv'
    OBVIOUS
  <2>1. ASSUME NEW o \in Organization, NEW event \in Event, NEW payload \in Payload,
               AppendRecord(o, event, payload)
        PROVE  ChainInv'
    BY <2>1, AppendKeeps
  <2>2. ASSUME NEW r \in logs, DeleteRow(r) \/ UpdateRow(r) PROVE ChainInv'
    BY <2>2, ChangeKeeps
  <2>3. CASE UNCHANGED vars
    BY <2>3 DEF vars, ChainInv, UniqueRows, Appended, HashesAppended, Untouched, Linked,
                LogsOf
  <2> QED
    BY <2>1, <2>2, <2>3 DEF Next
<1> QED
  BY <1>1, <1>2, PTL DEF Spec

----------------------------------------------------------------------------
(* The properties                                                          *)

(* Rows keep their types, and numbers and digests stay unique, also where  *)
(* rows are changed by hand.                                               *)
THEOREM ChainTypeOK == Spec => []TypeOK
<1>1. ChainInv => TypeOK
  BY DEF ChainInv, UniqueRows, IsRow, Fields, Stored, TypeOK
<1> QED
  BY <1>1, ChainInvariant, PTL

(* The verification is right about untouched chains, whatever was          *)
(* appended, and no append is refused because its digest is taken.         *)
THEOREM UntouchedChainsVerify == Spec => []UntouchedVerifies
<1>1. ASSUME ChainInv PROVE UntouchedVerifies
  <2> SUFFICES ASSUME changed = 0, NEW o \in Organization
               PROVE  /\ VerifyOrganizationChain(o)
                      /\ InspectOrganizationChain(o) = <<TRUE, Cardinality(appended[o])>>
                      /\ \A event \in Event, payload \in Payload :
                           Unique(NextRow(o, event, payload), logs)
    BY DEF UntouchedVerifies
  <2> DEFINE S == LogsOf(o)
             n == Cardinality(S)
  <2>1. /\ S = appended[o] /\ \A r \in S : r.organization = o /\ r.hash = Digest(Unsigned(r))
        /\ \A r \in S : IsRow(r)
    BY <1>1 DEF ChainInv, Untouched, Appended
  <2>2. /\ \A r \in S : r.sequence_no = 1 => r.previous = None
        /\ \A r, s \in S : r.sequence_no = s.sequence_no + 1 => r.previous = s.hash
        /\ \A m \in 1 .. n : \E r \in S : r.sequence_no = m
        /\ \A r \in S : r.sequence_no <= n
    BY <1>1 DEF ChainInv, Untouched, Linked
  <2>3. /\ DOMAIN Rows(o) = 1 .. n /\ n \in Nat /\ Len(Rows(o)) = n
        /\ \A i \in 1 .. n : Rows(o)[i] \in S /\ Rows(o)[i].sequence_no = i
    BY <1>1, RowsInOrder, PlaceIsNumber
  <2>4. VerifyChain(Rows(o))
    <3> SUFFICES ASSUME NEW i \in 1 .. n
                 PROVE  /\ Rows(o)[i].organization = Rows(o)[1].organization
                        /\ Rows(o)[i].previous = IF i = 1 THEN None ELSE Rows(o)[i - 1].hash
                        /\ Rows(o)[i].hash = Digest(Unsigned(Rows(o)[i]))
      BY <2>3 DEF VerifyChain
    <3>1. 1 \in 1 .. n /\ (i # 1 => i - 1 \in 1 .. n /\ i = (i - 1) + 1)
      BY <2>3
    <3> HIDE DEF S, n
    <3> QED
      BY <3>1, <2>1, <2>2, <2>3
  <2>5. VerifyOrganizationChain(o)
    BY <2>3, <2>4 DEF VerifyOrganizationChain
  <2>6. InspectOrganizationChain(o) = <<TRUE, n>>
    <3>1. Rows(o) = <<>> \/ Rows(o)[1].sequence_no = 1
      <4>1. CASE n = 0
        BY <4>1, <1>1, RowsInOrder, EmptySeq
      <4>2. CASE n # 0
        BY <4>2, <2>3
      <4> QED
        BY <4>1, <4>2
    <3>2. (\/ Rows(o) = <<>>
           \/ /\ Rows(o)[1].sequence_no = 1
              /\ \A i \in DOMAIN Rows(o) : Rows(o)[i].sequence_no = i
              /\ VerifyChain(Rows(o))) = TRUE
      BY <3>1, <2>3, <2>4
    <3> QED
      BY <3>2, <2>3 DEF InspectOrganizationChain
  <2>7. ASSUME NEW event \in Event, NEW payload \in Payload
        PROVE  Unique(NextRow(o, event, payload), logs)
    <3> DEFINE row == NextRow(o, event, payload)
    <3>1. IsRow(row) /\ row.organization = o /\ row.hash = Digest(Unsigned(row))
      BY <1>1, NextRowMade
    <3>2. /\ row.sequence_no = n + 1
          /\ n # 0 => \E s \in S : s.sequence_no = n /\ row.previous = s.hash
      BY <1>1, NextRowFollows
    <3> HIDE DEF row, S, n
    <3> SUFFICES ASSUME NEW s \in S PROVE s.sequence_no # row.sequence_no /\ s.hash # row.hash
      BY <3>1 DEF Unique, S, LogsOf, row
    <3>3. s.sequence_no \in 1 .. n /\ s.sequence_no # row.sequence_no
      BY <2>1, <2>2, <2>3, <3>2 DEF IsRow
    <3>4. ASSUME s.hash = row.hash PROVE FALSE
      <4>1. s.previous = row.previous
        BY <3>4, <3>1, <2>1, DigestNames
      <4>2. PICK t \in S : t.sequence_no = n /\ row.previous = t.hash
        BY <3>2, <3>3
      <4>3. CASE s.sequence_no = 1
        <5>1. t.hash = None
          BY <4>1, <4>2, <4>3, <2>2
        <5> QED
          BY <5>1, <2>1, DigestNotNone
      <4>4. CASE s.sequence_no # 1
        <5>1. s.sequence_no - 1 \in 1 .. n /\ s.sequence_no - 1 # n
          BY <4>4, <3>3, <2>3
        <5>2. PICK u \in S : u.sequence_no = s.sequence_no - 1
          BY <5>1, <2>2
        <5>3. s.previous = u.hash
          BY <5>2, <3>3, <2>2
        <5>4. u # t /\ u.hash = t.hash
          BY <5>1, <5>2, <5>3, <4>1, <4>2
        <5> QED
          BY <5>4, <1>1, <2>1 DEF ChainInv, UniqueRows, S, LogsOf
      <4> QED
        BY <4>3, <4>4
    <3> QED
      BY <3>3, <3>4
  <2> QED
    BY <2>1, <2>5, <2>6, <2>7
<1> QED
  BY <1>1, ChainInvariant, PTL

(* What verifies was appended to this organization, however the rows were  *)
(* changed by hand, and each record still has the one it was linked to.    *)
THEOREM VerifiedChainsArePrefixes == Spec => []VerifiedIsPrefix
<1>1. ASSUME ChainInv PROVE VerifiedIsPrefix
  <2> SUFFICES ASSUME NEW o \in Organization, Valid(o)
               PROVE  /\ \A r \in LogsOf(o) : \E a \in appended[o] : Unsigned(r) = Unsigned(a)
                      /\ \A r \in LogsOf(o), a \in appended[o] : r.previous = a.hash =>
                           \E s \in LogsOf(o) : Unsigned(a) = Unsigned(s)
    BY DEF VerifiedIsPrefix
  <2> DEFINE S == LogsOf(o)
             n == Cardinality(S)
  <2>1. /\ DOMAIN Rows(o) = 1 .. n /\ n \in Nat
        /\ \A i \in 1 .. n : Rows(o)[i] \in S
        /\ \A r \in S : \E i \in 1 .. n : Rows(o)[i] = r
    BY <1>1, RowsInOrder
  <2>2. Rows(o) = <<>> => n = 0
    BY <1>1, RowsInOrder, EmptySeq
  <2>3. VerifyChain(Rows(o))
    <3>1. CASE VerifyOrganizationChain(o)
      BY <3>1 DEF VerifyOrganizationChain
    <3>2. CASE InspectOrganizationChain(o)[1]
      <4>1. Rows(o) = <<>> \/ VerifyChain(Rows(o))
        BY <3>2 DEF InspectOrganizationChain
      <4> QED
        BY <4>1, <2>1, <2>2 DEF VerifyChain
    <3> QED
      BY <3>1, <3>2 DEF Valid
  <2>4. \A i \in 1 .. n :
          /\ Rows(o)[i].previous = IF i = 1 THEN None ELSE Rows(o)[i - 1].hash
          /\ Rows(o)[i].hash = Digest(Unsigned(Rows(o)[i]))
    BY <2>1, <2>3 DEF VerifyChain
  <2>5. \A r \in S : IsRow(r) /\ r.organization = o /\ r.hash = Digest(Unsigned(r))
    BY <1>1, <2>1, <2>4 DEF ChainInv, LogsOf
  <2>6. \A p \in Organization : \A a \in appended[p] :
          IsRow(a) /\ a.organization = p /\ a.hash = Digest(Unsigned(a))
    BY <1>1 DEF ChainInv, Appended
  <2>7. \A r \in S : \E p \in Organization : \E a \in appended[p] : r.hash = a.hash
    BY <1>1 DEF ChainInv, HashesAppended, LogsOf
  <2> HIDE DEF S, n
  <2>8. ASSUME NEW r \in S PROVE \E a \in appended[o] : Unsigned(r) = Unsigned(a)
    <3>1. PICK p \in Organization : \E a \in appended[p] : r.hash = a.hash
      BY <2>7
    <3>2. PICK a \in appended[p] : r.hash = a.hash
      BY <3>1
    <3>3. Unsigned(r) = Unsigned(a) /\ r.organization = a.organization
      BY <3>2, <2>5, <2>6, SameDigestSameRecord DEF IsRow
    <3>4. p = o
      BY <3>3, <2>5, <2>6
    <3> QED
      BY <3>3, <3>4
  <2>9. ASSUME NEW r \in S, NEW a \in appended[o], r.previous = a.hash
        PROVE  \E s \in S : Unsigned(a) = Unsigned(s)
    <3>1. PICK i \in 1 .. n : Rows(o)[i] = r
      BY <2>1
    <3>2. a.hash # None
      BY <2>6, DigestNotNone
    <3>3. i # 1 /\ a.hash = Rows(o)[i - 1].hash
      BY <3>1, <3>2, <2>4, <2>9
    <3>4. i - 1 \in 1 .. n
      BY <3>3, <2>1
    <3>5. Rows(o)[i - 1] \in S
      BY <3>4, <2>1
    <3>6. Unsigned(a) = Unsigned(Rows(o)[i - 1])
      BY <3>3, <3>5, <2>5, <2>6, SameDigestSameRecord DEF IsRow
    <3> QED
      BY <3>5, <3>6
  <2> QED
    BY <2>8, <2>9 DEF S
<1> QED
  BY <1>1, ChainInvariant, PTL

=============================================================================
