---------------------------- MODULE BooksProofs ----------------------------
(***************************************************************************)
(* What holds of Books for every set of periods, entries, actors, keys and *)
(* lines.                                                                  *)
(***************************************************************************)
EXTENDS Books, FiniteSetTheorems, TLAPS

----------------------------------------------------------------------------
(* The rows the services write are well formed                             *)

(* A row of the journal, as a draft and once it is posted.                 *)
LEMMA DraftRowType ==
  ASSUME NEW p \in Period, NEW l \in Lines, NEW k \in Key, NEW h \in Hash,
         NEW a \in Actor, NEW of \in Entry \cup {None}
  PROVE  /\ DraftRow(p, l, k, h, a, of) \in EntryRow
         /\ DraftRow(p, l, k, h, a, of) =
              [status |-> "DRAFT", period |-> p, lines |-> l, key |-> k, hash |-> h,
               creator |-> a, poster |-> None, reversalOf |-> of]
BY DEF DraftRow, EntryRow, EntryStatus

(* Posting a row sets its status and its poster.                            *)
LEMMA PostedRowType ==
  ASSUME NEW r \in EntryRow, NEW a \in Actor
  PROVE  /\ PostedRow(r, a) \in EntryRow
         /\ PostedRow(r, a) =
              [status |-> "POSTED", period |-> r.period, lines |-> r.lines,
               key |-> r.key, hash |-> r.hash, creator |-> r.creator,
               poster |-> a, reversalOf |-> r.reversalOf]
<1> DEFINE marked == [r EXCEPT !.status = "POSTED"]
<1>1. /\ marked \in EntryRow
      /\ marked = [status |-> "POSTED", period |-> r.period, lines |-> r.lines,
                   key |-> r.key, hash |-> r.hash, creator |-> r.creator,
                   poster |-> r.poster, reversalOf |-> r.reversalOf]
  BY DEF EntryRow, EntryStatus
<1>2. PostedRow(r, a) = [marked EXCEPT !.poster = a]
  BY DEF PostedRow
<1> HIDE DEF marked
<1>3. /\ [marked EXCEPT !.poster = a] \in EntryRow
      /\ [marked EXCEPT !.poster = a] =
           [status |-> marked.status, period |-> marked.period, lines |-> marked.lines,
            key |-> marked.key, hash |-> marked.hash, creator |-> marked.creator,
            poster |-> a, reversalOf |-> marked.reversalOf]
  BY <1>1 DEF EntryRow, EntryStatus
<1> QED
  BY <1>1, <1>2, <1>3

(* Marking a row sets its status.                                           *)
LEMMA ReversedRowType ==
  ASSUME NEW r \in EntryRow
  PROVE  /\ ReversedRow(r) \in EntryRow
         /\ ReversedRow(r) =
              [status |-> "REVERSED", period |-> r.period, lines |-> r.lines,
               key |-> r.key, hash |-> r.hash, creator |-> r.creator,
               poster |-> r.poster, reversalOf |-> r.reversalOf]
BY DEF ReversedRow, EntryRow, EntryStatus

(* The posting of an entry.                                                *)
LEMMA PostingOfType ==
  ASSUME NEW e \in Entry, NEW r \in EntryRow
  PROVE  PostingOf(e, r) \in Posting
BY DEF PostingOf, Posting, EntryRow

----------------------------------------------------------------------------
(* Rows and types                                                          *)

(* What Rows selects has a row, and nothing else has.                      *)
LEMMA RowsType ==
  ASSUME TypeOK, NEW e \in Entry
  PROVE  /\ e \in Rows(entry) => entry[e] \in EntryRow
         /\ entry[e] = None <=> e \notin Rows(entry)
BY NoneAssumption DEF TypeOK, Rows

(* The row a reversal inserts is a posted row of the period it reverses in. *)
LEMMA ReversalRowType ==
  ASSUME TypeOK, NEW e \in Rows(entry), NEW a \in Actor, NEW k \in Key
  PROVE  /\ ReversalRow(e, a, k) \in EntryRow
         /\ ReversalRow(e, a, k) =
              [status |-> "POSTED", period |-> entry[e].period,
               lines |-> Swap[entry[e].lines], key |-> k, hash |-> ReverseHash,
               creator |-> a, poster |-> a, reversalOf |-> e]
<1>1. e \in Entry /\ entry[e] \in EntryRow
  BY RowsType DEF Rows
<1>2. entry[e].period \in Period /\ Swap[entry[e].lines] \in Lines
  BY <1>1, LinesAssumption DEF EntryRow
<1>3. ReverseHash \in Hash
  BY DEF ReverseHash, Hash
<1>4. DraftRow(entry[e].period, Swap[entry[e].lines], k, ReverseHash, a, e) =
        [status |-> "DRAFT", period |-> entry[e].period,
         lines |-> Swap[entry[e].lines], key |-> k, hash |-> ReverseHash,
         creator |-> a, poster |-> None, reversalOf |-> e]
  BY <1>1, <1>2, <1>3, DraftRowType
<1>5. DraftRow(entry[e].period, Swap[entry[e].lines], k, ReverseHash, a, e) \in EntryRow
  BY <1>1, <1>2, <1>3, DraftRowType
<1> QED
  BY <1>4, <1>5, PostedRowType DEF ReversalRow

(* A call lengthens the trail by one record.                                *)
LEMMA LogType ==
  ASSUME TypeOK, NEW a \in Actor, NEW action \in AuditAction,
         NEW subject \in Entry \cup Period, Log(a, action, subject)
  PROVE  audit' \in Seq(AuditRow)
<1>1. AuditRecord(audit, a, action, subject) \in AuditRow
  BY DEF AuditRecord, AuditRow, TypeOK
<1> QED
  BY <1>1 DEF Log, TypeOK

(* The statuses are those of the lifecycle, every row has its fields, the  *)
(* ledger and the trail are sequences of their rows: what the services     *)
(* write is always well formed.                                            *)
THEOREM TypeCorrect == Spec => []TypeOK
<1>1. Init => TypeOK
  BY DEF Init, TypeOK, PeriodStatus
<1>2. TypeOK /\ [Next]_books => TypeOK'
  <2> SUFFICES ASSUME TypeOK, [Next]_books PROVE TypeOK'
    OBVIOUS
  <2> USE DEF AuditAction
  <2>1. ASSUME NEW a \in Actor, NEW e \in Entry, NEW p \in Period, NEW l \in Lines,
               NEW k \in Key, Create(e, a, p, l, k)
        PROVE  TypeOK'
    <3>1. audit' \in Seq(AuditRow)
      BY <2>1, LogType DEF Create
    <3>2. CreateHash(p, l) \in Hash
      BY DEF CreateHash, Hash
    <3>3. DraftRow(p, l, k, CreateHash(p, l), a, None) \in EntryRow
      BY <3>2, DraftRowType
    <3> QED
      BY <2>1, <3>1, <3>3 DEF Create, TypeOK
  <2>2. ASSUME NEW a \in Actor, NEW e \in Entry, Post(e, a)
        PROVE  TypeOK'
    <3>1. audit' \in Seq(AuditRow)
      BY <2>2, LogType DEF Post
    <3>2. entry[e] \in EntryRow
      BY <2>2, RowsType DEF Post
    <3>3. PostedRow(entry[e], a) \in EntryRow /\ PostingOf(e, entry[e]) \in Posting
      BY <3>2, PostedRowType, PostingOfType
    <3> QED
      BY <2>2, <3>1, <3>3 DEF Post, TypeOK
  <2>3. ASSUME NEW a \in Actor, NEW e \in Entry, PostAgain(e, a)
        PROVE  TypeOK'
    <3>1. audit' \in Seq(AuditRow)
      BY <2>3, LogType DEF PostAgain
    <3> QED
      BY <2>3, <3>1 DEF PostAgain, TypeOK
  <2>4. ASSUME NEW a \in Actor, NEW e \in Entry, NEW r \in Entry, NEW k \in Key,
               Reverse(e, r, a, k)
        PROVE  TypeOK'
    <3>1. audit' \in Seq(AuditRow)
      BY <2>4, LogType DEF Reverse
    <3>2. entry[e] \in EntryRow
      BY <2>4, RowsType DEF Reverse
    <3>3. ReversalRow(e, a, k) \in EntryRow
      BY <2>4, ReversalRowType DEF Reverse
    <3>4. ReversedRow(entry[e]) \in EntryRow /\ PostingOf(r, ReversalRow(e, a, k)) \in Posting
      BY <3>2, <3>3, ReversedRowType, PostingOfType
    <3> QED
      BY <2>4, <3>1, <3>3, <3>4 DEF Reverse, TypeOK
  <2>5. ASSUME NEW a \in Actor, NEW p \in Period, ClosePeriod(p, a)
        PROVE  TypeOK'
    <3>1. audit' \in Seq(AuditRow)
      BY <2>5, LogType DEF ClosePeriod
    <3> QED
      BY <2>5, <3>1 DEF ClosePeriod, TypeOK, PeriodStatus
  <2>6. ASSUME NEW a \in Actor, NEW p \in Period, ReopenPeriod(p, a)
        PROVE  TypeOK'
    <3>1. audit' \in Seq(AuditRow)
      BY <2>6, LogType DEF ReopenPeriod
    <3> QED
      BY <2>6, <3>1 DEF ReopenPeriod, TypeOK, PeriodStatus
  <2>7. CASE UNCHANGED books
    BY <2>7 DEF books, TypeOK
  <2> QED
    BY <2>1, <2>2, <2>3, <2>4, <2>5, <2>6, <2>7 DEF Next
<1> QED
  BY <1>1, <1>2, PTL DEF Spec

----------------------------------------------------------------------------
(* What each call does to the rows                                         *)

(* The fields of a row the invariants speak of.                            *)
IsRow(row, status, p, l, k, creator, poster, of) ==
  /\ row.status = status
  /\ row.period = p
  /\ row.lines = l
  /\ row.key = k
  /\ row.creator = creator
  /\ row.poster = poster
  /\ row.reversalOf = of

(* What create changes: one row, which was free.                            *)
LEMMA CreateEffect ==
  ASSUME TypeOK, NEW a \in Actor, NEW e \in Entry, NEW p \in Period, NEW l \in Lines,
         NEW k \in Key, Create(e, a, p, l, k)
  PROVE  /\ e \notin Rows(entry)
         /\ Rows(entry)' = Rows(entry) \cup {e}
         /\ \A x \in Rows(entry) : entry'[x] = entry[x]
         /\ IsRow(entry'[e], "DRAFT", p, l, k, a, None, None)
         /\ ledger' = ledger /\ period' = period
<1>1. DraftRow(p, l, k, CreateHash(p, l), a, None) \in EntryRow
  <2>1. CreateHash(p, l) \in Hash
    BY DEF CreateHash, Hash
  <2> QED
    BY <2>1, DraftRowType
<1>2. /\ entry[e] = None
      /\ entry' = [entry EXCEPT ![e] = DraftRow(p, l, k, CreateHash(p, l), a, None)]
      /\ ledger' = ledger /\ period' = period
  BY DEF Create
<1>3. e \notin Rows(entry) /\ Rows(entry)' = Rows(entry) \cup {e}
  BY <1>1, <1>2, NoneAssumption DEF Rows, TypeOK
<1>4. \A x \in Rows(entry) : entry'[x] = entry[x]
  BY <1>2, <1>3 DEF Rows, TypeOK
<1>5. IsRow(entry'[e], "DRAFT", p, l, k, a, None, None)
  BY <1>2 DEF DraftRow, TypeOK, IsRow
<1> QED
  BY <1>2, <1>3, <1>4, <1>5

(* What post changes: the status of its draft, and one posting.             *)
LEMMA PostEffect ==
  ASSUME TypeOK, NEW a \in Actor, NEW e \in Entry, Post(e, a)
  PROVE  /\ e \in Rows(entry)
         /\ Postable(e, a)
         /\ Rows(entry)' = Rows(entry)
         /\ \A x \in Rows(entry) \ {e} : entry'[x] = entry[x]
         /\ IsRow(entry'[e], "POSTED", entry[e].period, entry[e].lines, entry[e].key,
                  entry[e].creator, a, entry[e].reversalOf)
         /\ ledger' = Append(ledger, PostingOf(e, entry[e]))
         /\ ledger \in Seq(Posting) /\ PostingOf(e, entry[e]) \in Posting
         /\ period' = period
<1>1. e \in Rows(entry) /\ Postable(e, a) /\ entry[e] \in EntryRow
  BY RowsType DEF Post
<1>2. /\ entry' = [entry EXCEPT ![e] = PostedRow(entry[e], a)]
      /\ ledger' = Append(ledger, PostingOf(e, entry[e]))
      /\ period' = period
  BY DEF Post
<1>3. entry'[e] = PostedRow(entry[e], a) /\ \A x \in Entry \ {e} : entry'[x] = entry[x]
  BY <1>2 DEF TypeOK
<1>4. \A x \in Rows(entry) \ {e} : entry'[x] = entry[x]
  BY <1>3 DEF Rows
<1>5. Rows(entry)' = Rows(entry)
  BY <1>1, <1>3, PostedRowType, NoneAssumption DEF Rows
<1>6. ledger \in Seq(Posting) /\ PostingOf(e, entry[e]) \in Posting
  BY <1>1, PostingOfType DEF TypeOK
<1>7. IsRow(entry'[e], "POSTED", entry[e].period, entry[e].lines, entry[e].key,
            entry[e].creator, a, entry[e].reversalOf)
  BY <1>1, <1>3, PostedRowType DEF IsRow
<1> QED
  BY <1>1, <1>2, <1>4, <1>5, <1>6, <1>7

(* What reverse changes: the new row, the mark of the original, one posting.*)
LEMMA ReverseEffect ==
  ASSUME TypeOK, NEW a \in Actor, NEW e \in Entry, NEW r \in Entry, NEW k \in Key,
         Reverse(e, r, a, k)
  PROVE  /\ e \in Rows(entry) /\ r \notin Rows(entry)
         /\ Reversible(e, a, k)
         /\ Rows(entry)' = Rows(entry) \cup {r}
         /\ \A x \in Rows(entry) \ {e} : entry'[x] = entry[x]
         /\ IsRow(entry'[e], "REVERSED", entry[e].period, entry[e].lines, entry[e].key,
                  entry[e].creator, entry[e].poster, entry[e].reversalOf)
         /\ IsRow(entry'[r], "POSTED", entry[e].period, Swap[entry[e].lines], k, a, a, e)
         /\ ledger' = Append(ledger, PostingOf(r, entry'[r]))
         /\ ledger \in Seq(Posting) /\ PostingOf(r, entry'[r]) \in Posting
         /\ period' = period
<1>1. /\ e \in Rows(entry) /\ entry[e] \in EntryRow
      /\ r \notin Rows(entry) /\ Reversible(e, a, k)
  BY RowsType DEF Reverse
<1>2. /\ entry' = [entry EXCEPT ![r] = ReversalRow(e, a, k), ![e] = ReversedRow(entry[e])]
      /\ ledger' = Append(ledger, PostingOf(r, ReversalRow(e, a, k)))
      /\ period' = period
  BY DEF Reverse
<1>3. e # r
  BY <1>1
<1>4. /\ entry'[e] = ReversedRow(entry[e])
      /\ entry'[r] = ReversalRow(e, a, k)
      /\ \A x \in Entry \ {e, r} : entry'[x] = entry[x]
  BY <1>2, <1>3 DEF TypeOK
<1>5. \A x \in Rows(entry) \ {e} : entry'[x] = entry[x]
  BY <1>1, <1>4 DEF Rows
<1>6. ReversalRow(e, a, k) \in EntryRow /\ ReversedRow(entry[e]) \in EntryRow
  BY <1>1, ReversalRowType, ReversedRowType
<1>7. Rows(entry)' = Rows(entry) \cup {r}
  BY <1>1, <1>4, <1>6, NoneAssumption DEF Rows
<1>8. ledger \in Seq(Posting) /\ PostingOf(r, entry'[r]) \in Posting
  BY <1>4, <1>6, PostingOfType DEF TypeOK
<1>9. IsRow(entry'[e], "REVERSED", entry[e].period, entry[e].lines, entry[e].key,
            entry[e].creator, entry[e].poster, entry[e].reversalOf)
  BY <1>1, <1>4, ReversedRowType DEF IsRow
<1>10. IsRow(entry'[r], "POSTED", entry[e].period, Swap[entry[e].lines], k, a, a, e)
  BY <1>1, <1>4, ReversalRowType DEF IsRow
<1> QED
  BY <1>1, <1>2, <1>4, <1>5, <1>7, <1>8, <1>9, <1>10

(* Only three calls write rows or postings.                                *)
LEMMA RowStep ==
  ASSUME TypeOK, [Next]_books
  PROVE  \/ UNCHANGED <<entry, ledger>>
         \/ \E a \in Actor, e \in Entry, p \in Period, l \in Lines, k \in Key :
              Create(e, a, p, l, k)
         \/ \E a \in Actor, e \in Entry : Post(e, a)
         \/ \E a \in Actor, e \in Entry, r \in Entry, k \in Key : Reverse(e, r, a, k)
BY DEF Next, books, PostAgain, ClosePeriod, ReopenPeriod

----------------------------------------------------------------------------
(* The inductive invariant, one conjunct at a time                         *)

(* A call keeps the ledger the posted journal.                              *)
LEMMA LedgerStep ==
  ASSUME TypeOK, LedgerIsPostedJournal, [Next]_books
  PROVE  LedgerIsPostedJournal'
<1>1. CASE UNCHANGED <<entry, ledger>>
  BY <1>1 DEF LedgerIsPostedJournal, Rows, HasPostings
<1>2. ASSUME NEW a \in Actor, NEW e \in Entry, NEW p \in Period, NEW l \in Lines,
             NEW k \in Key, Create(e, a, p, l, k)
      PROVE  LedgerIsPostedJournal'
  <2>1. \A x \in Rows(entry) : x # e /\ entry'[x] = entry[x]
    BY <1>2, CreateEffect
  <2>2. Rows(entry)' = Rows(entry) \cup {e} /\ entry'[e].status = "DRAFT" /\ ledger' = ledger
    BY <1>2, CreateEffect DEF IsRow
  <2> QED
    BY <2>1, <2>2 DEF LedgerIsPostedJournal, HasPostings
<1>3. ASSUME NEW a \in Actor, NEW e \in Entry, Post(e, a)
      PROVE  LedgerIsPostedJournal'
  <2> DEFINE new == PostingOf(e, entry[e])
             n == Len(ledger) + 1
  <2>1. /\ e \in Rows(entry) /\ Rows(entry)' = Rows(entry)
        /\ \A x \in Rows(entry) \ {e} : entry'[x] = entry[x]
        /\ entry'[e].status = "POSTED" /\ PostingOf(e, entry'[e]) = new
    BY <1>3, PostEffect DEF PostingOf, IsRow
  <2>2. \A i \in DOMAIN ledger : ledger[i].entry # e
    BY <1>3, PostEffect DEF Postable, HasPostings
  <2>3. ledger' = Append(ledger, new) /\ ledger \in Seq(Posting)
    BY <1>3, PostEffect
  <2>4. new.entry = e
    BY DEF PostingOf
  <2> HIDE DEF new
  <2>5. /\ DOMAIN ledger' = DOMAIN ledger \cup {n} /\ n \notin DOMAIN ledger
        /\ ledger'[n] = new
        /\ \A i \in DOMAIN ledger : ledger'[i] = ledger[i]
    BY <2>3
  <2> HIDE DEF n
  <2>6. \A i \in DOMAIN ledger' :
          /\ ledger'[i].entry \in Rows(entry)'
          /\ entry'[ledger'[i].entry].status # "DRAFT"
          /\ ledger'[i] = PostingOf(ledger'[i].entry, entry'[ledger'[i].entry])
    BY <2>1, <2>2, <2>4, <2>5 DEF LedgerIsPostedJournal
  <2>7. \A i, j \in DOMAIN ledger' : ledger'[i].entry = ledger'[j].entry => i = j
    BY <2>2, <2>4, <2>5 DEF LedgerIsPostedJournal
  <2>8. \A x \in Rows(entry)' : entry'[x].status # "DRAFT" => HasPostings(ledger', x)
    BY <2>1, <2>4, <2>5 DEF LedgerIsPostedJournal, HasPostings
  <2> QED
    BY <2>6, <2>7, <2>8 DEF LedgerIsPostedJournal, HasPostings
<1>4. ASSUME NEW a \in Actor, NEW e \in Entry, NEW r \in Entry, NEW k \in Key,
             Reverse(e, r, a, k)
      PROVE  LedgerIsPostedJournal'
  <2> DEFINE new == PostingOf(r, entry'[r])
             n == Len(ledger) + 1
  <2>1. /\ e \in Rows(entry) /\ r \notin Rows(entry)
        /\ Rows(entry)' = Rows(entry) \cup {r}
        /\ \A x \in Rows(entry) \ {e} : entry'[x] = entry[x]
        /\ entry'[r].status = "POSTED"
        /\ entry'[e].status = "REVERSED" /\ entry[e].status = "POSTED"
    BY <1>4, ReverseEffect DEF Reversible, IsRow
  <2>2. PostingOf(e, entry'[e]) = PostingOf(e, entry[e])
    BY <1>4, ReverseEffect DEF PostingOf, IsRow
  <2>3. \A i \in DOMAIN ledger : ledger[i].entry # r
    BY <2>1 DEF LedgerIsPostedJournal
  <2>4. ledger' = Append(ledger, new) /\ ledger \in Seq(Posting)
    BY <1>4, ReverseEffect
  <2>5. new.entry = r
    BY DEF PostingOf
  <2>6. new = PostingOf(r, entry'[r])
    OBVIOUS
  <2> HIDE DEF new
  <2>7. /\ DOMAIN ledger' = DOMAIN ledger \cup {n} /\ n \notin DOMAIN ledger
        /\ ledger'[n] = new
        /\ \A i \in DOMAIN ledger : ledger'[i] = ledger[i]
    BY <2>4
  <2> HIDE DEF n
  <2>8. \A i \in DOMAIN ledger' :
          /\ ledger'[i].entry \in Rows(entry)'
          /\ entry'[ledger'[i].entry].status # "DRAFT"
          /\ ledger'[i] = PostingOf(ledger'[i].entry, entry'[ledger'[i].entry])
    BY <2>1, <2>2, <2>3, <2>5, <2>6, <2>7 DEF LedgerIsPostedJournal
  <2>9. \A i, j \in DOMAIN ledger' : ledger'[i].entry = ledger'[j].entry => i = j
    BY <2>3, <2>5, <2>7 DEF LedgerIsPostedJournal
  <2>10. \A x \in Rows(entry)' : entry'[x].status # "DRAFT" => HasPostings(ledger', x)
    BY <2>1, <2>5, <2>7 DEF LedgerIsPostedJournal, HasPostings
  <2> QED
    BY <2>8, <2>9, <2>10 DEF LedgerIsPostedJournal, HasPostings
<1> QED
  BY <1>1, <1>2, <1>3, <1>4, RowStep

(* A call leaves no draft and nothing reversed in a closed period.          *)
LEMMA SettledStep ==
  ASSUME TypeOK, LedgerIsPostedJournal, ClosedPeriodSettled, [Next]_books
  PROVE  ClosedPeriodSettled'
<1>1. ASSUME NEW a \in Actor, NEW e \in Entry, NEW p \in Period, NEW l \in Lines,
             NEW k \in Key, Create(e, a, p, l, k)
      PROVE  ClosedPeriodSettled'
  <2>1. period[p] = "OPEN"
    BY <1>1 DEF Create, Creatable
  <2> QED
    BY <1>1, <2>1, CreateEffect DEF ClosedPeriodSettled, IsRow
<1>2. ASSUME NEW a \in Actor, NEW e \in Entry, Post(e, a)
      PROVE  ClosedPeriodSettled'
  BY <1>2, PostEffect DEF ClosedPeriodSettled, IsRow
<1>3. ASSUME NEW a \in Actor, NEW e \in Entry, NEW r \in Entry, NEW k \in Key,
             Reverse(e, r, a, k)
      PROVE  ClosedPeriodSettled'
  <2>1. period[entry[e].period] = "OPEN"
    BY <1>3 DEF Reverse, Reversible
  <2> QED
    BY <1>3, <2>1, ReverseEffect DEF ClosedPeriodSettled, IsRow
<1>4. ASSUME NEW a \in Actor, NEW p \in Period, ClosePeriod(p, a)
      PROVE  ClosedPeriodSettled'
  <2>1. /\ Drafts(entry, p) = {} /\ Orphans(entry, ledger, p) = {}
        /\ entry' = entry /\ period' = [period EXCEPT ![p] = "CLOSED"]
    BY <1>4 DEF ClosePeriod, Closable, Reconciled
  <2>2. ASSUME NEW e \in Rows(entry), entry[e].period = p
        PROVE  entry[e].status = "POSTED"
    <3>1. entry[e].status # "DRAFT"
      BY <2>1, <2>2 DEF Drafts
    <3>2. PICK i \in DOMAIN ledger : ledger[i].entry = e
      BY <3>1 DEF LedgerIsPostedJournal, HasPostings
    <3>3. i \in PostingsIn(ledger, p)
      BY <3>2, <2>2 DEF LedgerIsPostedJournal, PostingOf, PostingsIn
    <3>4. e \in Expected(entry, p)
      BY <2>1, <3>2, <3>3 DEF Orphans
    <3> QED
      BY <3>4 DEF Expected
  <2>3. \A x \in Rows(entry) : entry[x].period \in Period
    BY RowsType DEF Rows, EntryRow
  <2> QED
    BY <2>1, <2>2, <2>3 DEF ClosedPeriodSettled, TypeOK, Rows
<1>5. ASSUME NEW a \in Actor, NEW p \in Period, ReopenPeriod(p, a)
      PROVE  ClosedPeriodSettled'
  <2>1. \A x \in Rows(entry) : entry[x].period \in Period
    BY RowsType DEF Rows, EntryRow
  <2> QED
    BY <1>5, <2>1 DEF ReopenPeriod, ClosedPeriodSettled, TypeOK, Rows
<1>6. ASSUME NEW a \in Actor, NEW e \in Entry, PostAgain(e, a)
      PROVE  ClosedPeriodSettled'
  BY <1>6 DEF PostAgain, ClosedPeriodSettled, Rows
<1>7. CASE UNCHANGED books
  BY <1>7 DEF books, ClosedPeriodSettled, Rows
<1> QED
  BY <1>1, <1>2, <1>3, <1>4, <1>5, <1>6, <1>7 DEF Next

(* A call uses no key twice.                                                *)
LEMMA KeysStep ==
  ASSUME TypeOK, KeysUnique, [Next]_books
  PROVE  KeysUnique'
<1>1. CASE UNCHANGED <<entry, ledger>>
  BY <1>1 DEF KeysUnique, Rows
<1>2. ASSUME NEW a \in Actor, NEW e \in Entry, NEW p \in Period, NEW l \in Lines,
             NEW k \in Key, Create(e, a, p, l, k)
      PROVE  KeysUnique'
  <2>1. \A x \in Rows(entry) : entry[x].key # k
    BY <1>2 DEF Create, Creatable, KeyHolders
  <2> QED
    BY <1>2, <2>1, CreateEffect DEF KeysUnique, IsRow
<1>3. ASSUME NEW a \in Actor, NEW e \in Entry, Post(e, a)
      PROVE  KeysUnique'
  BY <1>3, PostEffect DEF KeysUnique, IsRow
<1>4. ASSUME NEW a \in Actor, NEW e \in Entry, NEW r \in Entry, NEW k \in Key,
             Reverse(e, r, a, k)
      PROVE  KeysUnique'
  <2>1. \A x \in Rows(entry) : entry[x].key # k
    BY <1>4 DEF Reverse, Reversible, KeyHolders
  <2> QED
    BY <1>4, <2>1, ReverseEffect DEF KeysUnique, IsRow
<1> QED
  BY <1>1, <1>2, <1>3, <1>4, RowStep

(* A call links each reversal to one original.                              *)
LEMMA LinkedStep ==
  ASSUME TypeOK, ReversalsLinked, [Next]_books
  PROVE  ReversalsLinked'
<1>1. CASE UNCHANGED <<entry, ledger>>
  BY <1>1 DEF ReversalsLinked, ReversalsOf, Rows
<1>2. ASSUME NEW a \in Actor, NEW e \in Entry, NEW p \in Period, NEW l \in Lines,
             NEW k \in Key, Create(e, a, p, l, k)
      PROVE  ReversalsLinked'
  BY <1>2, CreateEffect DEF ReversalsLinked, ReversalsOf, IsRow
<1>3. ASSUME NEW a \in Actor, NEW e \in Entry, Post(e, a)
      PROVE  ReversalsLinked'
  <2>1. entry[e].status = "DRAFT"
    BY <1>3 DEF Post, Postable
  <2> QED
    BY <1>3, <2>1, PostEffect DEF ReversalsLinked, ReversalsOf, IsRow
<1>4. ASSUME NEW a \in Actor, NEW e \in Entry, NEW r \in Entry, NEW k \in Key,
             Reverse(e, r, a, k)
      PROVE  ReversalsLinked'
  <2>1. entry[e].status = "POSTED" /\ \A x \in Rows(entry) : entry[x].reversalOf # e
    BY <1>4 DEF Reverse, Reversible, ReversalsOf
  <2>2. r \in Entry /\ e \in Entry
    OBVIOUS
  <2> QED
    BY <1>4, <2>1, ReverseEffect DEF ReversalsLinked, ReversalsOf, IsRow
<1> QED
  BY <1>1, <1>2, <1>3, <1>4, RowStep

(* A call involves two persons in each financial effect.                    *)
LEMMA PersonsStep ==
  ASSUME TypeOK, ReversalsLinked, TwoPersons, [Next]_books
  PROVE  TwoPersons'
<1>1. CASE UNCHANGED <<entry, ledger>>
  BY <1>1 DEF TwoPersons, Rows
<1>2. ASSUME NEW a \in Actor, NEW e \in Entry, NEW p \in Period, NEW l \in Lines,
             NEW k \in Key, Create(e, a, p, l, k)
      PROVE  TwoPersons'
  <2>1. a # None
    BY NoneAssumption
  <2> QED
    BY <1>2, <2>1, CreateEffect DEF TwoPersons, ReversalsLinked, IsRow
<1>3. ASSUME NEW a \in Actor, NEW e \in Entry, Post(e, a)
      PROVE  TwoPersons'
  <2>1. entry[e].creator # a
    BY <1>3 DEF Post, Postable
  <2> QED
    BY <1>3, <2>1, PostEffect DEF TwoPersons, ReversalsLinked, IsRow
<1>4. ASSUME NEW a \in Actor, NEW e \in Entry, NEW r \in Entry, NEW k \in Key,
             Reverse(e, r, a, k)
      PROVE  TwoPersons'
  <2>1. entry[e].creator # a
    BY <1>4 DEF Reverse, Reversible
  <2>2. e # None
    BY NoneAssumption
  <2> QED
    BY <1>4, <2>1, <2>2, ReverseEffect DEF TwoPersons, ReversalsLinked, IsRow
<1> QED
  BY <1>1, <1>2, <1>3, <1>4, RowStep

(* A call posts nothing that does not balance.                              *)
LEMMA BalanceStep ==
  ASSUME TypeOK, LedgerIsPostedJournal, PostingsBalance, [Next]_books
  PROVE  PostingsBalance'
<1>1. CASE UNCHANGED <<entry, ledger>>
  BY <1>1 DEF PostingsBalance
<1>2. ASSUME NEW a \in Actor, NEW e \in Entry, NEW p \in Period, NEW l \in Lines,
             NEW k \in Key, Create(e, a, p, l, k)
      PROVE  PostingsBalance'
  BY <1>2, CreateEffect DEF PostingsBalance
<1>3. ASSUME NEW a \in Actor, NEW e \in Entry, Post(e, a)
      PROVE  PostingsBalance'
  <2>1. Net[PostingOf(e, entry[e]).lines] = 0
    BY <1>3 DEF Post, Postable, Validated, PostingOf
  <2>2. ledger' = Append(ledger, PostingOf(e, entry[e])) /\ ledger \in Seq(Posting)
    BY <1>3, PostEffect
  <2> QED
    BY <2>1, <2>2 DEF PostingsBalance
<1>4. ASSUME NEW a \in Actor, NEW e \in Entry, NEW r \in Entry, NEW k \in Key,
             Reverse(e, r, a, k)
      PROVE  PostingsBalance'
  <2>1. e \in Rows(entry) /\ entry[e].status = "POSTED" /\ entry[e].lines \in Lines
    BY <1>4, RowsType DEF Reverse, Reversible, EntryRow
  <2>2. PICK i \in DOMAIN ledger : ledger[i].entry = e
    BY <2>1 DEF LedgerIsPostedJournal, HasPostings
  <2>3. Net[entry[e].lines] = 0
    BY <2>2 DEF LedgerIsPostedJournal, PostingsBalance, PostingOf
  <2>4. Net[Swap[entry[e].lines]] = 0
    BY <2>1, <2>3, LinesAssumption
  <2>5. Net[PostingOf(r, entry'[r]).lines] = 0
    <3>1. entry'[r].lines = Swap[entry[e].lines]
      BY <1>4, ReverseEffect DEF IsRow
    <3> QED
      BY <2>4, <3>1 DEF PostingOf
  <2>6. ledger' = Append(ledger, PostingOf(r, entry'[r])) /\ ledger \in Seq(Posting)
    BY <1>4, ReverseEffect
  <2> QED
    BY <2>5, <2>6 DEF PostingsBalance
<1> QED
  BY <1>1, <1>2, <1>3, <1>4, RowStep

(* None of these facts but KeysUnique and ReversalsLinked is inductive     *)
(* alone.  Closing finds reversed entries through their postings, so       *)
(* ClosedPeriodSettled needs the ledger to hold them; a reversal balances  *)
(* because the posting of its original does; and that two persons stay two *)
(* needs the original of a reversal to exist.                              *)
Inv ==
  /\ TypeOK
  /\ LedgerIsPostedJournal
  /\ ClosedPeriodSettled
  /\ KeysUnique
  /\ ReversalsLinked
  /\ TwoPersons
  /\ PostingsBalance

(* The conjunction is an invariant of every behaviour of the services.     *)
THEOREM Invariance == Spec => []Inv
<1>1. Init => Inv
  <2> SUFFICES ASSUME Init PROVE Inv
    OBVIOUS
  <2>1. Rows(entry) = {} /\ ledger = <<>>
    BY DEF Init, Rows
  <2>2. TypeOK
    BY DEF Init, TypeOK, PeriodStatus
  <2> QED
    BY <2>1, <2>2 DEF Inv, LedgerIsPostedJournal, ClosedPeriodSettled, KeysUnique,
                      ReversalsLinked, TwoPersons, PostingsBalance
<1>2. Inv /\ TypeOK' /\ [Next]_books => Inv'
  BY LedgerStep, SettledStep, KeysStep, LinkedStep, PersonsStep, BalanceStep DEF Inv
<1> QED
  BY <1>1, <1>2, TypeCorrect, PTL DEF Spec

(* A closed period holds no draft and nothing reversed, whatever was       *)
(* posted, reversed, closed and reopened before.                           *)
THEOREM ClosedSettled == Spec => []ClosedPeriodSettled
<1>1. Inv => ClosedPeriodSettled
  BY DEF Inv
<1> QED
  BY <1>1, Invariance, PTL

(* The ledger is the posted journal, each entry once: nothing is posted    *)
(* twice, and no posting is without its entry.                             *)
THEOREM LedgerPosted == Spec => []LedgerIsPostedJournal
<1>1. Inv => LedgerIsPostedJournal
  BY DEF Inv
<1> QED
  BY <1>1, Invariance, PTL

(* One idempotency key stands for one entry.                               *)
THEOREM KeysOnce == Spec => []KeysUnique
<1>1. Inv => KeysUnique
  BY DEF Inv
<1> QED
  BY <1>1, Invariance, PTL

(* Every posting that reaches the ledger balances.                         *)
THEOREM Balanced == Spec => []PostingsBalance
<1>1. Inv => PostingsBalance
  BY DEF Inv
<1> QED
  BY <1>1, Invariance, PTL

(* The poster of an entry is not its creator and nobody reverses what they *)
(* created, through any number of reversals of reversals.                  *)
THEOREM TwoPersonsRule == Spec => []TwoPersons
<1>1. Inv => TwoPersons
  BY DEF Inv
<1> QED
  BY <1>1, Invariance, PTL

(* An original has at most one reversal, in its period and with its sides  *)
(* exchanged, exactly when it is marked.                                   *)
THEOREM Linked == Spec => []ReversalsLinked
<1>1. Inv => ReversalsLinked
  BY DEF Inv
<1> QED
  BY <1>1, Invariance, PTL

----------------------------------------------------------------------------
(* What a step may not do                                                  *)

(* The postings of p once one more has been appended.                      *)
LEMMA PostingsInAppend ==
  ASSUME NEW s \in Seq(Posting), NEW x \in Posting, NEW p \in Period, x.period # p
  PROVE  PostingsIn(Append(s, x), p) = PostingsIn(s, p)
BY DEF PostingsIn

(* A call leaves the rows and postings of a closed period alone.            *)
LEMMA FrozenStep ==
  ASSUME TypeOK, [Next]_books, NEW p \in Period, period[p] = "CLOSED", period'[p] = "CLOSED"
  PROVE  /\ RowsIn(p)' = RowsIn(p)
         /\ \A x \in RowsIn(p) : entry'[x] = entry[x]
         /\ PostingsIn(ledger', p) = PostingsIn(ledger, p)
<1>1. CASE UNCHANGED <<entry, ledger>>
  BY <1>1 DEF RowsIn, Rows, PostingsIn
<1>2. ASSUME NEW a \in Actor, NEW e \in Entry, NEW q \in Period, NEW l \in Lines,
             NEW k \in Key, Create(e, a, q, l, k)
      PROVE  /\ RowsIn(p)' = RowsIn(p)
             /\ \A x \in RowsIn(p) : entry'[x] = entry[x]
             /\ PostingsIn(ledger', p) = PostingsIn(ledger, p)
  <2>1. q # p
    BY <1>2 DEF Create, Creatable
  <2>2. /\ e \notin Rows(entry) /\ Rows(entry)' = Rows(entry) \cup {e}
        /\ \A x \in Rows(entry) : entry'[x] = entry[x]
        /\ entry'[e].period = q /\ ledger' = ledger
    BY <1>2, CreateEffect DEF IsRow
  <2> QED
    BY <2>1, <2>2 DEF RowsIn
<1>3. ASSUME NEW a \in Actor, NEW e \in Entry, Post(e, a)
      PROVE  /\ RowsIn(p)' = RowsIn(p)
             /\ \A x \in RowsIn(p) : entry'[x] = entry[x]
             /\ PostingsIn(ledger', p) = PostingsIn(ledger, p)
  <2>1. entry[e].period # p
    BY <1>3 DEF Post, Postable
  <2>2. /\ Rows(entry)' = Rows(entry)
        /\ \A x \in Rows(entry) \ {e} : entry'[x] = entry[x]
        /\ entry'[e].period = entry[e].period
    BY <1>3, PostEffect DEF IsRow
  <2>3. /\ ledger' = Append(ledger, PostingOf(e, entry[e]))
        /\ ledger \in Seq(Posting) /\ PostingOf(e, entry[e]) \in Posting
    BY <1>3, PostEffect
  <2>4. PostingOf(e, entry[e]).period # p
    BY <2>1 DEF PostingOf
  <2>5. PostingsIn(ledger', p) = PostingsIn(ledger, p)
    BY <2>3, <2>4, PostingsInAppend
  <2> QED
    BY <2>1, <2>2, <2>5 DEF RowsIn
<1>4. ASSUME NEW a \in Actor, NEW e \in Entry, NEW r \in Entry, NEW k \in Key,
             Reverse(e, r, a, k)
      PROVE  /\ RowsIn(p)' = RowsIn(p)
             /\ \A x \in RowsIn(p) : entry'[x] = entry[x]
             /\ PostingsIn(ledger', p) = PostingsIn(ledger, p)
  <2>1. entry[e].period # p
    BY <1>4 DEF Reverse, Reversible
  <2>2. /\ Rows(entry)' = Rows(entry) \cup {r} /\ r \notin Rows(entry)
        /\ \A x \in Rows(entry) \ {e} : entry'[x] = entry[x]
        /\ entry'[e].period = entry[e].period /\ entry'[r].period = entry[e].period
    BY <1>4, ReverseEffect DEF IsRow
  <2>3. /\ ledger' = Append(ledger, PostingOf(r, entry'[r]))
        /\ ledger \in Seq(Posting) /\ PostingOf(r, entry'[r]) \in Posting
    BY <1>4, ReverseEffect
  <2>4. PostingOf(r, entry'[r]).period # p
    BY <2>1, <2>2 DEF PostingOf
  <2>5. PostingsIn(ledger', p) = PostingsIn(ledger, p)
    BY <2>3, <2>4, PostingsInAppend
  <2> QED
    BY <2>1, <2>2, <2>5 DEF RowsIn
<1> QED
  BY <1>1, <1>2, <1>3, <1>4, RowStep

(* Nothing in a closed period moves: no row enters it or changes in it and *)
(* no posting reaches it, until it is reopened.                            *)
THEOREM ClosedFrozen == Spec => ClosedPeriodFrozen
<1>1. TypeOK /\ [Next]_books =>
        [\A p \in Period : (period[p] = "CLOSED" /\ period'[p] = "CLOSED") =>
           /\ RowsIn(p)' = RowsIn(p)
           /\ \A e \in RowsIn(p) : entry'[e] = entry[e]
           /\ PostingsIn(ledger', p) = PostingsIn(ledger, p)]_books
  BY FrozenStep
<1> QED
  BY <1>1, TypeCorrect, PTL DEF Spec, ClosedPeriodFrozen

(* How a row that exists may differ after a step.                          *)
Successor(old, kept) ==
  /\ kept = [old EXCEPT !.status = kept.status, !.poster = kept.poster]
  /\ <<old.status, kept.status>> \in
       {<<s, s>> : s \in EntryStatus} \cup {<<"DRAFT", "POSTED">>, <<"POSTED", "REVERSED">>}
  /\ kept.poster # old.poster => old.status = "DRAFT"

(* A row that does not change keeps its history.                            *)
LEMMA SameSucceeds ==
  ASSUME NEW row \in EntryRow
  PROVE  Successor(row, row)
BY DEF Successor, EntryRow

(* So does a draft that is posted.                                          *)
LEMMA PostedSucceeds ==
  ASSUME NEW row \in EntryRow, row.status = "DRAFT", NEW a \in Actor
  PROVE  Successor(row, PostedRow(row, a))
<1>1. PostedRow(row, a).status = "POSTED" /\ PostedRow(row, a).poster = a
  BY PostedRowType
<1> QED
  BY <1>1 DEF Successor, PostedRow

(* So does a posted entry that is marked.                                   *)
LEMMA ReversedSucceeds ==
  ASSUME NEW row \in EntryRow, row.status = "POSTED"
  PROVE  Successor(row, ReversedRow(row))
<1>1. ReversedRow(row).status = "REVERSED" /\ ReversedRow(row).poster = row.poster
  BY ReversedRowType
<1>2. [row EXCEPT !.status = "REVERSED"] =
        [row EXCEPT !.status = "REVERSED", !.poster = row.poster]
  BY DEF EntryRow
<1> QED
  BY <1>1, <1>2 DEF Successor, ReversedRow

(* A call rewrites nothing recorded.                                        *)
LEMMA HistoryStep ==
  ASSUME TypeOK, [Next]_books
  PROVE  /\ SubSeq(ledger', 1, Len(ledger)) = ledger
         /\ SubSeq(audit', 1, Len(audit)) = audit
         /\ \A e \in Rows(entry) : Successor(entry[e], entry'[e])
<1>1. \A e \in Rows(entry) : entry[e] \in EntryRow
  BY RowsType DEF Rows
<1>2. SubSeq(audit', 1, Len(audit)) = audit
  <2>1. ASSUME NEW x PROVE SubSeq(Append(audit, x), 1, Len(audit)) = audit
    BY DEF TypeOK
  <2>2. audit' = audit \/ \E x : audit' = Append(audit, x)
    BY DEF Next, books, Create, Post, PostAgain, Reverse, ClosePeriod, ReopenPeriod, Log
  <2>3. SubSeq(audit, 1, Len(audit)) = audit
    BY DEF TypeOK
  <2> QED
    BY <2>1, <2>2, <2>3
<1>3. SubSeq(ledger', 1, Len(ledger)) = ledger
  <2>1. ASSUME NEW x PROVE SubSeq(Append(ledger, x), 1, Len(ledger)) = ledger
    BY DEF TypeOK
  <2>2. ledger' = ledger \/ \E x : ledger' = Append(ledger, x)
    BY DEF Next, books, Create, Post, PostAgain, Reverse, ClosePeriod, ReopenPeriod
  <2>3. SubSeq(ledger, 1, Len(ledger)) = ledger
    BY DEF TypeOK
  <2> QED
    BY <2>1, <2>2, <2>3
<1>4. CASE UNCHANGED <<entry, ledger>>
  BY <1>1, <1>2, <1>3, <1>4, SameSucceeds
<1>5. ASSUME NEW a \in Actor, NEW e \in Entry, NEW p \in Period, NEW l \in Lines,
             NEW k \in Key, Create(e, a, p, l, k)
      PROVE  \A x \in Rows(entry) : Successor(entry[x], entry'[x])
  BY <1>1, <1>5, CreateEffect, SameSucceeds
<1>6. ASSUME NEW a \in Actor, NEW e \in Entry, Post(e, a)
      PROVE  \A x \in Rows(entry) : Successor(entry[x], entry'[x])
  <2>1. entry[e].status = "DRAFT" /\ entry'[e] = PostedRow(entry[e], a)
    BY <1>6 DEF Post, Postable, TypeOK
  <2>2. \A x \in Rows(entry) \ {e} : entry'[x] = entry[x]
    BY <1>6, PostEffect
  <2> QED
    BY <1>1, <2>1, <2>2, SameSucceeds, PostedSucceeds
<1>7. ASSUME NEW a \in Actor, NEW e \in Entry, NEW r \in Entry, NEW k \in Key,
             Reverse(e, r, a, k)
      PROVE  \A x \in Rows(entry) : Successor(entry[x], entry'[x])
  <2>1. entry[e].status = "POSTED" /\ e \in Rows(entry)
    BY <1>7 DEF Reverse, Reversible
  <2>2. entry'[e] = ReversedRow(entry[e])
    BY <1>7 DEF Reverse, TypeOK
  <2>3. \A x \in Rows(entry) \ {e} : entry'[x] = entry[x]
    BY <1>7, ReverseEffect
  <2> QED
    BY <1>1, <2>1, <2>2, <2>3, SameSucceeds, ReversedSucceeds
<1> QED
  BY <1>2, <1>3, <1>4, <1>5, <1>6, <1>7, RowStep

(* The ledger and the trail only grow and a row only moves forward: no     *)
(* call rewrites what an earlier one recorded.                             *)
THEOREM NothingRewritten == Spec => HistoryKept
<1>1. TypeOK /\ [Next]_books =>
        [/\ SubSeq(ledger', 1, Len(ledger)) = ledger
         /\ SubSeq(audit', 1, Len(audit)) = audit
         /\ \A e \in Rows(entry) :
              LET old == entry[e]
                  kept == entry'[e]
              IN /\ kept = [old EXCEPT !.status = kept.status, !.poster = kept.poster]
                 /\ <<old.status, kept.status>> \in
                      {<<s, s>> : s \in EntryStatus}
                        \cup {<<"DRAFT", "POSTED">>, <<"POSTED", "REVERSED">>}
                 /\ kept.poster # old.poster => old.status = "DRAFT"]_books
  BY HistoryStep DEF Successor
<1> QED
  BY <1>1, TypeCorrect, PTL DEF Spec, HistoryKept

(* The sequence numbers of the trail are contiguous from 1.                *)
THEOREM TrailNumbered == Spec => []TrailContiguous
<1>1. Init => TrailContiguous
  BY DEF Init, TrailContiguous
<1>2. ASSUME TypeOK, TrailContiguous, NEW a, NEW action, NEW subject, Log(a, action, subject)
      PROVE  TrailContiguous'
  BY <1>2 DEF TypeOK, TrailContiguous, Log, AuditRecord
<1>3. TypeOK /\ TrailContiguous /\ [Next]_books => TrailContiguous'
  <2> SUFFICES ASSUME TypeOK, TrailContiguous, [Next]_books PROVE TrailContiguous'
    OBVIOUS
  <2>1. CASE UNCHANGED books
    BY <2>1 DEF books, TrailContiguous
  <2>2. CASE Next
    BY <2>2, <1>2 DEF Next, Create, Post, PostAgain, Reverse, ClosePeriod, ReopenPeriod
  <2> QED
    BY <2>1, <2>2
<1> QED
  BY <1>1, <1>3, TypeCorrect, PTL DEF Spec

----------------------------------------------------------------------------
(* The trail accounts for the books                                        *)

(* A record is added to those of its action and subject, and to no other.  *)
LEMMA RecordedStep ==
  ASSUME TypeOK, NEW a \in Actor, NEW action \in AuditAction,
         NEW subject \in Entry \cup Period, Log(a, action, subject)
  PROVE  LET n == Len(audit) + 1 IN
         /\ audit'[n].actor = a
         /\ \A i \in DOMAIN audit : audit'[i] = audit[i]
         /\ \A act, s : Recorded(act, s) \subseteq DOMAIN audit
         /\ \A i \in DOMAIN audit : i \in Nat /\ i < n
         /\ n \notin DOMAIN audit /\ n \in Nat
         /\ \A act, s : Recorded(act, s)' =
              IF act = action /\ s = subject THEN Recorded(act, s) \cup {n}
                                             ELSE Recorded(act, s)
<1> DEFINE n == Len(audit) + 1
           new == AuditRecord(audit, a, action, subject)
<1>1. audit' = Append(audit, new) /\ audit \in Seq(AuditRow)
  BY DEF Log, TypeOK
<1>2. new.actor = a /\ new.action = action /\ new.subject = subject
  BY DEF AuditRecord
<1> HIDE DEF new
<1>3. /\ DOMAIN audit' = DOMAIN audit \cup {n} /\ n \notin DOMAIN audit
      /\ n \in Nat /\ \A i \in DOMAIN audit : i \in Nat /\ i < n
      /\ audit'[n] = new
      /\ \A i \in DOMAIN audit : audit'[i] = audit[i]
  BY <1>1
<1> HIDE DEF n
<1>4. ASSUME NEW act, NEW s
      PROVE  Recorded(act, s)' =
               IF act = action /\ s = subject THEN Recorded(act, s) \cup {n}
                                              ELSE Recorded(act, s)
  BY <1>2, <1>3 DEF Recorded
<1>5. \A act, s : Recorded(act, s) \subseteq DOMAIN audit
  BY DEF Recorded
<1> QED
  BY <1>2, <1>3, <1>4, <1>5 DEF n

(* The records of one action and subject are finitely many.                *)
LEMMA RecordedFinite ==
  ASSUME TypeOK, NEW act, NEW s
  PROVE  IsFiniteSet(Recorded(act, s)) /\ Cardinality(Recorded(act, s)) \in Nat
<1>1. DOMAIN audit = 1..Len(audit) /\ Len(audit) \in Int /\ 1 \in Int
  BY DEF TypeOK
<1>2. IsFiniteSet(DOMAIN audit)
  BY <1>1, FS_Interval
<1>3. Recorded(act, s) \in SUBSET DOMAIN audit
  BY DEF Recorded
<1>4. IsFiniteSet(Recorded(act, s))
  BY <1>2, <1>3, FS_Subset
<1> QED
  BY <1>4, FS_CardinalityType

(* Creating an entry leaves the one record of its creation.                *)
LEMMA CreateExplained ==
  ASSUME Inv, \A x \in Entry : EntryExplained(x),
         NEW a \in Actor, NEW e \in Entry, NEW p \in Period, NEW l \in Lines,
         NEW k \in Key, Create(e, a, p, l, k), NEW x \in Entry
  PROVE  EntryExplained(x)'
<1> DEFINE n == Len(audit) + 1
<1> USE DEF AuditAction
<1>1. TypeOK /\ Log(a, "JOURNAL_ENTRY_CREATED", e)
  BY DEF Inv, Create
<1>2. /\ audit'[n].actor = a
      /\ \A i \in DOMAIN audit : audit'[i] = audit[i]
      /\ \A act, s : Recorded(act, s) \subseteq DOMAIN audit
      /\ n \notin DOMAIN audit
      /\ \A act, s : Recorded(act, s)' =
           IF act = "JOURNAL_ENTRY_CREATED" /\ s = e THEN Recorded(act, s) \cup {n}
                                                     ELSE Recorded(act, s)
  BY <1>1, RecordedStep
<1> HIDE DEF n
<1>3. /\ e \notin Rows(entry) /\ Rows(entry)' = Rows(entry) \cup {e}
      /\ \A y \in Rows(entry) : entry'[y] = entry[y]
      /\ entry'[e].status = "DRAFT" /\ entry'[e].creator = a
      /\ entry'[e].reversalOf = None
  BY <1>1, CreateEffect DEF IsRow
<1>4. CASE x = e
  <2>1. /\ Recorded("JOURNAL_ENTRY_CREATED", x)' = {n}
        /\ Recorded("JOURNAL_ENTRY_POSTED", x)' = {}
        /\ Recorded("JOURNAL_ENTRY_REVERSED", x)' = {}
    BY <1>2, <1>3, <1>4 DEF EntryExplained
  <2> QED
    BY <1>2, <1>3, <1>4, <2>1 DEF EntryExplained
<1>5. CASE x # e
  <2>1. /\ Recorded("JOURNAL_ENTRY_CREATED", x)' = Recorded("JOURNAL_ENTRY_CREATED", x)
        /\ Recorded("JOURNAL_ENTRY_POSTED", x)' = Recorded("JOURNAL_ENTRY_POSTED", x)
        /\ Recorded("JOURNAL_ENTRY_REVERSED", x)' = Recorded("JOURNAL_ENTRY_REVERSED", x)
    BY <1>2, <1>5
  <2> QED
    BY <1>2, <1>3, <1>5, <2>1 DEF EntryExplained
<1> QED
  BY <1>4, <1>5

(* Posting a draft leaves the first record that it was posted.             *)
LEMMA PostExplained ==
  ASSUME Inv, \A x \in Entry : EntryExplained(x),
         NEW a \in Actor, NEW e \in Entry, Post(e, a), NEW x \in Entry
  PROVE  EntryExplained(x)'
<1> DEFINE n == Len(audit) + 1
<1> USE DEF AuditAction
<1>1. TypeOK /\ Log(a, "JOURNAL_ENTRY_POSTED", e)
  BY DEF Inv, Post
<1>2. /\ audit'[n].actor = a
      /\ \A i \in DOMAIN audit : audit'[i] = audit[i]
      /\ \A act, s : Recorded(act, s) \subseteq DOMAIN audit
      /\ n \notin DOMAIN audit /\ n \in Nat
      /\ \A act, s : Recorded(act, s)' =
           IF act = "JOURNAL_ENTRY_POSTED" /\ s = e THEN Recorded(act, s) \cup {n}
                                                    ELSE Recorded(act, s)
  BY <1>1, RecordedStep
<1> HIDE DEF n
<1>3. /\ e \in Rows(entry) /\ entry[e].status = "DRAFT" /\ Rows(entry)' = Rows(entry)
      /\ \A y \in Rows(entry) \ {e} : entry'[y] = entry[y]
      /\ entry'[e].status = "POSTED" /\ entry'[e].creator = entry[e].creator
      /\ entry'[e].poster = a /\ entry'[e].reversalOf = entry[e].reversalOf
  BY <1>1, PostEffect DEF IsRow, Postable
<1>4. entry[e].reversalOf = None
  BY <1>3 DEF Inv, ReversalsLinked
<1>5. CASE x = e
  <2>1. /\ Recorded("JOURNAL_ENTRY_CREATED", x)' = Recorded("JOURNAL_ENTRY_CREATED", x)
        /\ Recorded("JOURNAL_ENTRY_POSTED", x)' = {n}
        /\ Recorded("JOURNAL_ENTRY_REVERSED", x)' = {}
    BY <1>2, <1>3, <1>4, <1>5 DEF EntryExplained
  <2>2. PICK i \in Recorded("JOURNAL_ENTRY_CREATED", x) :
          /\ Recorded("JOURNAL_ENTRY_CREATED", x) = {i}
          /\ audit[i].actor = entry[x].creator
    BY <1>3, <1>4, <1>5 DEF EntryExplained
  <2>3. audit'[i].actor = entry'[x].creator
    BY <1>2, <1>3, <1>5, <2>2
  <2> QED
    BY <1>2, <1>3, <1>4, <1>5, <2>1, <2>2, <2>3 DEF EntryExplained
<1>6. CASE x # e
  <2>1. /\ Recorded("JOURNAL_ENTRY_CREATED", x)' = Recorded("JOURNAL_ENTRY_CREATED", x)
        /\ Recorded("JOURNAL_ENTRY_POSTED", x)' = Recorded("JOURNAL_ENTRY_POSTED", x)
        /\ Recorded("JOURNAL_ENTRY_REVERSED", x)' = Recorded("JOURNAL_ENTRY_REVERSED", x)
    BY <1>2, <1>6
  <2> QED
    BY <1>2, <1>3, <1>6, <2>1 DEF EntryExplained
<1> QED
  BY <1>5, <1>6

(* Answering that an entry is posted already adds a record after the first.*)
LEMMA PostAgainExplained ==
  ASSUME Inv, \A x \in Entry : EntryExplained(x),
         NEW a \in Actor, NEW e \in Entry, PostAgain(e, a), NEW x \in Entry
  PROVE  EntryExplained(x)'
<1> DEFINE n == Len(audit) + 1
<1> USE DEF AuditAction
<1>1. TypeOK /\ Log(a, "JOURNAL_ENTRY_POSTED", e)
  BY DEF Inv, PostAgain
<1>2. /\ \A i \in DOMAIN audit : audit'[i] = audit[i]
      /\ \A act, s : Recorded(act, s) \subseteq DOMAIN audit
      /\ n \notin DOMAIN audit /\ n \in Nat
      /\ \A i \in DOMAIN audit : i \in Nat /\ i < n
      /\ \A act, s : Recorded(act, s)' =
           IF act = "JOURNAL_ENTRY_POSTED" /\ s = e THEN Recorded(act, s) \cup {n}
                                                    ELSE Recorded(act, s)
  BY <1>1, RecordedStep
<1> HIDE DEF n
<1>3. e \in Rows(entry) /\ entry[e].status = "POSTED" /\ entry' = entry
  BY DEF PostAgain
<1>4. Rows(entry)' = Rows(entry)
  BY <1>3 DEF Rows
<1>5. /\ Recorded("JOURNAL_ENTRY_CREATED", x)' = Recorded("JOURNAL_ENTRY_CREATED", x)
      /\ Recorded("JOURNAL_ENTRY_REVERSED", x)' = Recorded("JOURNAL_ENTRY_REVERSED", x)
  BY <1>2
<1>6. CASE x = e /\ entry[e].reversalOf = None
  <2>1. Recorded("JOURNAL_ENTRY_POSTED", x)' = Recorded("JOURNAL_ENTRY_POSTED", x) \cup {n}
    BY <1>2, <1>6
  <2>2. PICK i \in Recorded("JOURNAL_ENTRY_POSTED", x) :
          /\ \A j \in Recorded("JOURNAL_ENTRY_POSTED", x) : i <= j
          /\ audit[i].actor = entry[x].poster
    BY <1>3, <1>6 DEF EntryExplained
  <2>3. /\ \A j \in Recorded("JOURNAL_ENTRY_POSTED", x)' : i <= j
        /\ audit'[i].actor = entry'[x].poster
    BY <1>2, <1>3, <2>1, <2>2
  <2>4. PICK c \in Recorded("JOURNAL_ENTRY_CREATED", x) :
          /\ Recorded("JOURNAL_ENTRY_CREATED", x) = {c}
          /\ audit[c].actor = entry[x].creator
    BY <1>3, <1>6 DEF EntryExplained
  <2>5. audit'[c].actor = entry'[x].creator
    BY <1>2, <1>3, <2>4
  <2>6. Recorded("JOURNAL_ENTRY_REVERSED", x) = {}
    BY <1>3, <1>6 DEF EntryExplained
  <2> QED
    BY <1>3, <1>4, <1>5, <1>6, <2>1, <2>2, <2>3, <2>4, <2>5, <2>6 DEF EntryExplained
<1>7. CASE x = e /\ entry[e].reversalOf # None
  BY <1>2, <1>3, <1>4, <1>5, <1>7 DEF EntryExplained
<1>8. CASE x # e
  <2>1. Recorded("JOURNAL_ENTRY_POSTED", x)' = Recorded("JOURNAL_ENTRY_POSTED", x)
    BY <1>2, <1>8
  <2> QED
    BY <1>2, <1>3, <1>4, <1>5, <2>1 DEF EntryExplained
<1> QED
  BY <1>6, <1>7, <1>8

(* Reversing an entry leaves the one record of its reversal, which names   *)
(* the new entry, and none more of the original.                           *)
LEMMA ReverseExplained ==
  ASSUME Inv, \A x \in Entry : EntryExplained(x),
         NEW a \in Actor, NEW e \in Entry, NEW r \in Entry, NEW k \in Key,
         Reverse(e, r, a, k), NEW x \in Entry
  PROVE  EntryExplained(x)'
<1> DEFINE n == Len(audit) + 1
<1> USE DEF AuditAction
<1>1. TypeOK /\ Log(a, "JOURNAL_ENTRY_REVERSED", r)
  BY DEF Inv, Reverse
<1>2. /\ audit'[n].actor = a
      /\ \A i \in DOMAIN audit : audit'[i] = audit[i]
      /\ \A act, s : Recorded(act, s) \subseteq DOMAIN audit
      /\ n \notin DOMAIN audit
      /\ \A act, s : Recorded(act, s)' =
           IF act = "JOURNAL_ENTRY_REVERSED" /\ s = r THEN Recorded(act, s) \cup {n}
                                                      ELSE Recorded(act, s)
  BY <1>1, RecordedStep
<1> HIDE DEF n
<1>3. /\ e \in Rows(entry) /\ r \notin Rows(entry) /\ Rows(entry)' = Rows(entry) \cup {r}
      /\ entry[e].status = "POSTED"
      /\ \A y \in Rows(entry) \ {e} : entry'[y] = entry[y]
      /\ entry'[e].status = "REVERSED" /\ entry'[e].creator = entry[e].creator
      /\ entry'[e].poster = entry[e].poster /\ entry'[e].reversalOf = entry[e].reversalOf
      /\ entry'[r].creator = a /\ entry'[r].reversalOf = e
  BY <1>1, ReverseEffect DEF IsRow, Reversible
<1>4. e # None
  BY NoneAssumption
<1>5. CASE x = r
  <2>1. /\ Recorded("JOURNAL_ENTRY_CREATED", x)' = {}
        /\ Recorded("JOURNAL_ENTRY_REVERSED", x)' = {n}
    BY <1>2, <1>3, <1>5 DEF EntryExplained
  <2> QED
    BY <1>2, <1>3, <1>4, <1>5, <2>1 DEF EntryExplained
<1>6. CASE x # r
  <2>1. /\ Recorded("JOURNAL_ENTRY_CREATED", x)' = Recorded("JOURNAL_ENTRY_CREATED", x)
        /\ Recorded("JOURNAL_ENTRY_POSTED", x)' = Recorded("JOURNAL_ENTRY_POSTED", x)
        /\ Recorded("JOURNAL_ENTRY_REVERSED", x)' = Recorded("JOURNAL_ENTRY_REVERSED", x)
    BY <1>2, <1>6
  <2>2. CASE x \notin Rows(entry)
    BY <1>3, <1>6, <2>1, <2>2 DEF EntryExplained
  <2>3. CASE x \in Rows(entry)
    <3>1. /\ x \in Rows(entry)'
          /\ entry'[x].creator = entry[x].creator /\ entry'[x].poster = entry[x].poster
          /\ entry'[x].reversalOf = entry[x].reversalOf
          /\ entry'[x].status = "DRAFT" <=> entry[x].status = "DRAFT"
      BY <1>3, <2>3
    <3> QED
      BY <1>2, <2>1, <2>3, <3>1 DEF EntryExplained
  <2> QED
    BY <2>2, <2>3
<1> QED
  BY <1>5, <1>6

(* A period call explains the status it sets, by one record more.          *)
LEMMA PeriodCallExplained ==
  ASSUME TypeOK, NEW a \in Actor, NEW p \in Period, NEW q \in Period,
         PeriodExplained(q), ClosePeriod(p, a) \/ ReopenPeriod(p, a)
  PROVE  PeriodExplained(q)'
<1> DEFINE n == Len(audit) + 1
           Closes(s) == Recorded("FISCAL_PERIOD_CLOSED", s)
           Reopens(s) == Recorded("FISCAL_PERIOD_REOPENED", s)
<1> USE DEF AuditAction
<1>1. /\ IsFiniteSet(Closes(q)) /\ Cardinality(Closes(q)) \in Nat
      /\ IsFiniteSet(Reopens(q)) /\ Cardinality(Reopens(q)) \in Nat
  BY RecordedFinite
<1>2. CASE ClosePeriod(p, a)
  <2>1. /\ period[p] = "OPEN" /\ period' = [period EXCEPT ![p] = "CLOSED"]
        /\ Log(a, "FISCAL_PERIOD_CLOSED", p)
    BY <1>2 DEF ClosePeriod, Closable
  <2>2. /\ n \notin Closes(q)
        /\ Closes(q)' = IF q = p THEN Closes(q) \cup {n} ELSE Closes(q)
        /\ Reopens(q)' = Reopens(q)
    BY <2>1, RecordedStep
  <2> HIDE DEF n, Closes, Reopens
  <2>3. Cardinality(Closes(q) \cup {n}) = Cardinality(Closes(q)) + 1
    BY <1>1, <2>2, FS_AddElement
  <2>4. Cardinality(Closes(q)') =
          IF q = p THEN Cardinality(Closes(q)) + 1 ELSE Cardinality(Closes(q))
    BY <2>2, <2>3
  <2>5. period'[q] = IF q = p THEN "CLOSED" ELSE period[q]
    BY <2>1 DEF TypeOK
  <2> QED
    BY <1>1, <2>1, <2>2, <2>4, <2>5 DEF PeriodExplained, Closes, Reopens
<1>3. CASE ReopenPeriod(p, a)
  <2>1. /\ period[p] = "CLOSED" /\ period' = [period EXCEPT ![p] = "OPEN"]
        /\ Log(a, "FISCAL_PERIOD_REOPENED", p)
    BY <1>3 DEF ReopenPeriod
  <2>2. /\ n \notin Reopens(q)
        /\ Reopens(q)' = IF q = p THEN Reopens(q) \cup {n} ELSE Reopens(q)
        /\ Closes(q)' = Closes(q)
    BY <2>1, RecordedStep
  <2> HIDE DEF n, Closes, Reopens
  <2>3. Cardinality(Reopens(q) \cup {n}) = Cardinality(Reopens(q)) + 1
    BY <1>1, <2>2, FS_AddElement
  <2>4. Cardinality(Reopens(q)') =
          IF q = p THEN Cardinality(Reopens(q)) + 1 ELSE Cardinality(Reopens(q))
    BY <2>2, <2>3
  <2>5. period'[q] = IF q = p THEN "OPEN" ELSE period[q]
    BY <2>1 DEF TypeOK
  <2> QED
    BY <1>1, <2>1, <2>2, <2>4, <2>5 DEF PeriodExplained, Closes, Reopens
<1> QED
  BY <1>2, <1>3

(* A record of one kind leaves what explains the other kind as it is.      *)
LEMMA OtherRecords ==
  ASSUME TypeOK, NEW a \in Actor, NEW action \in AuditAction,
         NEW subject \in Entry \cup Period, Log(a, action, subject)
  PROVE  /\ (/\ action \in {"FISCAL_PERIOD_CLOSED", "FISCAL_PERIOD_REOPENED"}
             /\ entry' = entry) =>
              \A x \in Entry : EntryExplained(x) => EntryExplained(x)'
         /\ (/\ action \notin {"FISCAL_PERIOD_CLOSED", "FISCAL_PERIOD_REOPENED"}
             /\ period' = period) =>
              \A q \in Period : PeriodExplained(q) => PeriodExplained(q)'
<1>1. \A act, s : act # action => Recorded(act, s)' = Recorded(act, s)
  BY RecordedStep
<1>2. /\ \A act, s : Recorded(act, s) \subseteq DOMAIN audit
      /\ \A i \in DOMAIN audit : audit'[i] = audit[i]
  BY RecordedStep
<1>3. ASSUME action \in {"FISCAL_PERIOD_CLOSED", "FISCAL_PERIOD_REOPENED"},
             entry' = entry, NEW x \in Entry, EntryExplained(x)
      PROVE  EntryExplained(x)'
  <2>1. /\ Recorded("JOURNAL_ENTRY_CREATED", x)' = Recorded("JOURNAL_ENTRY_CREATED", x)
        /\ Recorded("JOURNAL_ENTRY_POSTED", x)' = Recorded("JOURNAL_ENTRY_POSTED", x)
        /\ Recorded("JOURNAL_ENTRY_REVERSED", x)' = Recorded("JOURNAL_ENTRY_REVERSED", x)
    BY <1>1, <1>3
  <2>2. Rows(entry)' = Rows(entry)
    BY <1>3 DEF Rows
  <2> QED
    BY <1>2, <1>3, <2>1, <2>2 DEF EntryExplained
<1>4. ASSUME action \notin {"FISCAL_PERIOD_CLOSED", "FISCAL_PERIOD_REOPENED"},
             period' = period, NEW q \in Period, PeriodExplained(q)
      PROVE  PeriodExplained(q)'
  BY <1>1, <1>4 DEF PeriodExplained
<1> QED
  BY <1>3, <1>4

(* The trail accounts for the books after any sequence of calls: who       *)
(* created, first posted or reversed each entry is in it, and a period is  *)
(* closed exactly when it was closed once more than it was reopened.       *)
THEOREM TrailAccounts == Spec => []TrailExplains
<1>1. Init => TrailExplains
  <2> SUFFICES ASSUME Init PROVE TrailExplains
    OBVIOUS
  <2>1. \A act, s : Recorded(act, s) = {}
    BY DEF Init, Recorded
  <2>2. \A x \in Entry : x \notin Rows(entry)
    BY DEF Init, Rows
  <2>3. \A p \in Period : period[p] # "CLOSED"
    BY DEF Init
  <2>4. Cardinality({}) = 0
    BY FS_EmptySet
  <2> QED
    BY <2>1, <2>2, <2>3, <2>4 DEF TrailExplains, EntryExplained, PeriodExplained
<1>2. Inv /\ TrailExplains /\ [Next]_books => TrailExplains'
  <2> SUFFICES ASSUME Inv, TrailExplains, [Next]_books PROVE TrailExplains'
    OBVIOUS
  <2> USE DEF AuditAction
  <2>1. TypeOK /\ (\A x \in Entry : EntryExplained(x)) /\ \A q \in Period : PeriodExplained(q)
    BY DEF Inv, TrailExplains
  <2>2. ASSUME NEW a \in Actor, NEW e \in Entry, NEW p \in Period, NEW l \in Lines,
               NEW k \in Key, Create(e, a, p, l, k)
        PROVE  TrailExplains'
    <3>1. Log(a, "JOURNAL_ENTRY_CREATED", e) /\ period' = period
      BY <2>2 DEF Create
    <3> QED
      BY <2>1, <2>2, <3>1, CreateExplained, OtherRecords DEF TrailExplains
  <2>3. ASSUME NEW a \in Actor, NEW e \in Entry, Post(e, a)
        PROVE  TrailExplains'
    <3>1. Log(a, "JOURNAL_ENTRY_POSTED", e) /\ period' = period
      BY <2>3 DEF Post
    <3> QED
      BY <2>1, <2>3, <3>1, PostExplained, OtherRecords DEF TrailExplains
  <2>4. ASSUME NEW a \in Actor, NEW e \in Entry, PostAgain(e, a)
        PROVE  TrailExplains'
    <3>1. Log(a, "JOURNAL_ENTRY_POSTED", e) /\ period' = period
      BY <2>4 DEF PostAgain
    <3> QED
      BY <2>1, <2>4, <3>1, PostAgainExplained, OtherRecords DEF TrailExplains
  <2>5. ASSUME NEW a \in Actor, NEW e \in Entry, NEW r \in Entry, NEW k \in Key,
               Reverse(e, r, a, k)
        PROVE  TrailExplains'
    <3>1. Log(a, "JOURNAL_ENTRY_REVERSED", r) /\ period' = period
      BY <2>5 DEF Reverse
    <3> QED
      BY <2>1, <2>5, <3>1, ReverseExplained, OtherRecords DEF TrailExplains
  <2>6. ASSUME NEW a \in Actor, NEW p \in Period, ClosePeriod(p, a)
        PROVE  TrailExplains'
    <3>1. Log(a, "FISCAL_PERIOD_CLOSED", p) /\ entry' = entry
      BY <2>6 DEF ClosePeriod
    <3> QED
      BY <2>1, <2>6, <3>1, PeriodCallExplained, OtherRecords DEF TrailExplains
  <2>7. ASSUME NEW a \in Actor, NEW p \in Period, ReopenPeriod(p, a)
        PROVE  TrailExplains'
    <3>1. Log(a, "FISCAL_PERIOD_REOPENED", p) /\ entry' = entry
      BY <2>7 DEF ReopenPeriod
    <3> QED
      BY <2>1, <2>7, <3>1, PeriodCallExplained, OtherRecords DEF TrailExplains
  <2>8. CASE UNCHANGED books
    BY <2>1, <2>8 DEF books, TrailExplains, EntryExplained, PeriodExplained, Recorded, Rows
  <2> QED
    BY <2>2, <2>3, <2>4, <2>5, <2>6, <2>7, <2>8 DEF Next
<1> QED
  BY <1>1, <1>2, Invariance, PTL DEF Spec

============================================================================
