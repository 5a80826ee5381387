----------------------------- MODULE AuditChain -----------------------------
(***************************************************************************)
(* The audit trail as a hash chain: what append stores, and what the       *)
(* verification says of the rows it reads back.  Between the two, rows may *)
(* be changed by hand: the triggers on the table refuse updates and        *)
(* deletes, and the verification is there for the day they did not.        *)
(*                                                                         *)
(* The digest is taken to be injective: a digest is the pair of its name   *)
(* and what was digested.  Nobody who changes rows computes new digests.   *)
(***************************************************************************)
EXTENDS Integers, Sequences, FiniteSets

CONSTANTS
  Organization,
  Event,      \* actor, action, entity, time and request of a record
  Payload,    \* Python values a payload is made of
  Length,     \* Bound: records appended to all chains together
  Changes     \* Bound: columns changed by hand, and rows deleted

Type == {"Decimal", "Enum", "date", "str"}

ASSUME ChainAssumption ==
  /\ \A p \in Payload : p.type \in Type
  /\ Length \in Nat /\ Changes \in Nat

VARIABLES
  logs,       \* the table audit_logs
  appended,   \* for each organization, the rows append inserted
  changed     \* how many changes were made by hand

vars == <<logs, appended, changed>>

Init ==
  /\ logs = {}
  /\ appended = [o \in Organization |-> {}]
  /\ changed = 0

----------------------------------------------------------------------------
(* Building and verifying records                                          *)

(* NULL, the link of a first record; a digest is never empty.              *)
None == <<>>

(* Decimals, enumerations and dates become the text JSON keeps of them.    *)
Canonical(p) == [p EXCEPT !.type = "str"]

Unsigned(r) ==
  [organization |-> r.organization, event |-> r.event, payload |-> r.payload,
   previous |-> r.previous]

(* Mutant: values are digested as they are in memory.                      *)
DigestAsGiven(u) == <<"sha256", u>>

Digest(u) == <<"sha256", [u EXCEPT !.payload = Canonical(@)]>>

(* AuditService.record                                                     *)
Record(o, event, payload, previous) ==
  [organization |-> o, event |-> event, payload |-> payload, previous |-> previous,
   hash |-> Digest([organization |-> o, event |-> event, payload |-> payload,
                    previous |-> previous])]

(* Mutant: the records are verified one by one.                            *)
VerifyEach(records) ==
  \A i \in DOMAIN records :
    /\ records[i].organization = records[1].organization
    /\ records[i].hash = Digest(Unsigned(records[i]))

(* AuditService.verify_chain                                               *)
VerifyChain(records) ==
  \A i \in DOMAIN records :
    /\ records[i].organization = records[1].organization
    /\ records[i].previous = IF i = 1 THEN None ELSE records[i - 1].hash
    /\ records[i].hash = Digest(Unsigned(records[i]))

----------------------------------------------------------------------------
(* The repository                                                          *)

LogsOf(o) == {r \in logs : r.organization = o}

(* SELECT ... ORDER BY sequence_no: a row comes after those numbered below *)
(* it.                                                                     *)
Place(o, r) == Cardinality({s \in LogsOf(o) : s.sequence_no <= r.sequence_no})

Rows(o) ==
  [i \in 1 .. Cardinality(LogsOf(o)) |-> CHOOSE r \in LogsOf(o) : Place(o, r) = i]

VerifyOrganizationChain(o) ==
  /\ \A i \in DOMAIN Rows(o) : Rows(o)[i].sequence_no = i
  /\ VerifyChain(Rows(o))

InspectOrganizationChain(o) ==
  LET rows == Rows(o) IN
    << rows = <<>> \/ /\ rows[1].sequence_no = 1
                      /\ \A i \in DOMAIN rows : rows[i].sequence_no = i
                      /\ VerifyChain(rows),
       Len(rows) >>

(* Mutant: only the numbers are unique.                                    *)
UniqueNumber(r, others) ==
  \A s \in others : s.organization = r.organization => s.sequence_no # r.sequence_no

(* The unique constraints of the table.                                    *)
Unique(r, others) ==
  \A s \in others : s.organization = r.organization =>
    s.sequence_no # r.sequence_no /\ s.hash # r.hash

(* The row append inserts: numbered and linked after the latest one.       *)
NextRow(o, event, payload) ==
  LET rows == Rows(o)
      latest == rows[Len(rows)]
      previous == IF rows = <<>> THEN None ELSE latest.hash
      record == Record(o, event, payload, previous)
  IN [organization |-> o, event |-> event, payload |-> Canonical(payload),
      previous |-> previous, hash |-> record.hash,
      sequence_no |-> IF rows = <<>> THEN 1 ELSE latest.sequence_no + 1]

AppendRecord(o, event, payload) ==
  LET row == NextRow(o, event, payload) IN
  /\ Cardinality(UNION {appended[p] : p \in Organization}) < Length
  /\ Unique(row, logs)
  /\ logs' = logs \cup {row}
  /\ appended' = [appended EXCEPT ![o] = @ \cup {row}]
  /\ UNCHANGED changed

----------------------------------------------------------------------------
(* Changes by hand                                                         *)

Change == changed < Changes /\ changed' = changed + 1 /\ UNCHANGED appended

DeleteRow(r) == Change /\ logs' = logs \ {r}

(* One column gets another value, of those that are around.                *)
Overwritten(r) ==
  LET hashes == {s.hash : s \in logs} IN
  {[r EXCEPT !.organization = o] : o \in Organization}
    \cup {[r EXCEPT !.sequence_no = n] : n \in 1 .. Length + 1}
    \cup {[r EXCEPT !.event = e] : e \in Event}
    \cup {[r EXCEPT !.payload = Canonical(p)] : p \in Payload}
    \cup {[r EXCEPT !.previous = h] : h \in hashes \cup {None}}
    \cup {[r EXCEPT !.hash = h] : h \in hashes}

UpdateRow(r) ==
  \E s \in Overwritten(r) \ {r} :
    Change /\ Unique(s, logs \ {r}) /\ logs' = (logs \ {r}) \cup {s}

Next ==
  \/ \E o \in Organization, event \in Event, payload \in Payload :
       AppendRecord(o, event, payload)
  \/ \E r \in logs : DeleteRow(r) \/ UpdateRow(r)

Spec == Init /\ [][Next]_vars

----------------------------------------------------------------------------
(* Properties                                                              *)

(* Rows have their types, and numbers and digests are unique.              *)
TypeOK ==
  /\ \A r \in logs :
       /\ DOMAIN r = {"organization", "event", "payload", "previous", "hash", "sequence_no"}
       /\ r.organization \in Organization /\ r.event \in Event
       /\ r.payload \in {Canonical(p) : p \in Payload}
       /\ r.sequence_no \in Nat \ {0}
  /\ \A r, s \in logs : (r # s /\ r.organization = s.organization) =>
       r.sequence_no # s.sequence_no /\ r.hash # s.hash
  /\ changed \in 0 .. Changes

(* "The persisted chain passes sequence and hash/link verification" as     *)
(* long as nobody changed it: what was digested in memory is what is read  *)
(* back, numbers, dates and enumerations included.  The unique constraints *)
(* refuse no append, although the same event may be recorded twice.        *)
UntouchedVerifies ==
  changed = 0 => \A o \in Organization :
    /\ VerifyOrganizationChain(o)
    /\ InspectOrganizationChain(o) = <<TRUE, Cardinality(appended[o])>>
    /\ \A event \in Event, payload \in Payload : Unique(NextRow(o, event, payload), logs)

Valid(o) == VerifyOrganizationChain(o) \/ InspectOrganizationChain(o)[1]

(* A chain that verifies holds records that append made, whatever was      *)
(* overwritten, renumbered or moved to another organization, and with each *)
(* record the one that was the latest when it was made: records go missing *)
(* unnoticed only together with all that follow.                           *)
VerifiedIsPrefix ==
  \A o \in Organization : Valid(o) =>
    LET held == {Unsigned(r) : r \in LogsOf(o)} IN
      /\ held \subseteq {Unsigned(a) : a \in appended[o]}
      /\ \A r \in LogsOf(o), a \in appended[o] :
           r.previous = a.hash => Unsigned(a) \in held

=============================================================================
