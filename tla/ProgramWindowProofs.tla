-------------------------- MODULE ProgramWindowProofs --------------------------
(***************************************************************************)
(* Theorems about the window proof, for every window, page size, bound,    *)
(* batch size, number of attempts and history.                             *)
(***************************************************************************)
EXTENDS ProgramWindow, FiniteFacts, TLAPS

-----------------------------------------------------------------------------
(* The invariant.                                                          *)

\* Slots and block times never decrease along the history.
LedgerInv ==
    /\ ledger \in Seq(Tx) /\ Len(ledger) <= MaxLedger
    /\ \A i, j \in 1..Len(ledger) :
          i <= j => ledger[i].slot <= ledger[j].slot /\ ledger[i].time <= ledger[j].time

\* As long as no counter has moved, every row kept is one of the history, and so
\* is the cursor.
KeptInv ==
    flaws = {} =>
        /\ entries \in Seq(Row)
        /\ phase = "paging" => Len(entries) < MaxSignatures /\ before \in 0..Len(ledger)

\* What would still be verified of the rows if the scan ended now.
Unflawed ==
    /\ flaws = {}
    /\ SlotOrderVerified
    /\ \A k \in DOMAIN entries : entries[k].time # NoTime
    /\ \A j, k \in DOMAIN entries : j <= k => entries[j].time >= entries[k].time

\* The signatures of the n newest transactions there were.
Run(h, n) == (h + 1 - n)..h

Signatures(rows) == {rows[k].sig : k \in DOMAIN rows}

\* The rows are the newest transactions; which row is which may only be mixed up
\* among rows of one slot.
Newly(rows, h) ==
    /\ rows \in Seq(Row)
    /\ Len(rows) <= h
    /\ \A k \in DOMAIN rows :
          /\ rows[k].slot = ledger[h + 1 - k].slot
          /\ rows[k].time = ledger[h + 1 - k].time
          /\ rows[k].time = ledger[rows[k].sig].time
    /\ Signatures(rows) = Run(h, Len(rows))

\* The scan as long as nothing is wrong with its rows.  The cursor is one of them:
\* the oldest, or, after a page in the wrong order, one whose next page repeats
\* a row.
RowsInv ==
    Unflawed =>
        /\ Newly(entries, head)
        /\ phase = "paging" /\ before # 0 => before \in Run(head, Len(entries))
        /\ startReached \/ exhausted =>
              \A i \in 1..(head - Len(entries)) : ledger[i].time <= Start

ScanInv ==
    /\ phase \in {"paging", "scanned"}
    /\ head \in 0..Len(ledger)
    /\ phase = "paging" =>
          /\ ~startReached /\ ~exhausted
          /\ before = 0 => head = 0 /\ entries = <<>>

\* Each signature gets its own transaction or none.
FetchInv == \A i \in Signature : fetched[i].of \in {0, i}

StageInv ==
    /\ stage \in {"scan", "fetch", "done"}
    /\ stage = "fetch" => RangeProven
    /\ stage # "done" => report = None

Inv == LedgerInv /\ ScanInv /\ KeptInv /\ RowsInv /\ FetchInv /\ StageInv /\ TraceExact /\ ZeroExact

-----------------------------------------------------------------------------
(* The history grows.                                                      *)

\* Slots and times are numbers.
LEMMA LedgerType ==
    ASSUME LedgerInv
    PROVE  /\ Len(ledger) \in Nat
           /\ \A i \in 1..Len(ledger) : ledger[i].slot \in Int /\ ledger[i].time \in Int
<1>1. \A i \in 1..Len(ledger) : ledger[i] \in Tx
  BY DEF LedgerInv
<1>2. \A tx \in Tx : tx.slot \in Int /\ tx.time \in Int
  BY RangeAssumption DEF Tx
<1>. QED
  BY <1>1, <1>2 DEF LedgerInv

\* The order of slots and times is kept, and what was there stays.
LEMMA LedgerStep ==
    ASSUME LedgerInv, Grow
    PROVE  /\ LedgerInv'
           /\ Len(ledger') = Len(ledger) + 1
           /\ \A i \in 1..Len(ledger) : ledger'[i] = ledger[i]
<1>1. PICK tx \in Tx : /\ ledger # <<>> => Follows(tx, ledger[Len(ledger)])
                       /\ ledger' = Append(ledger, tx)
  BY DEF Grow
<1>2. /\ ledger \in Seq(Tx) /\ Len(ledger) \in Nat /\ Len(ledger) < MaxLedger
      /\ MaxLedger \in Nat
  BY RangeAssumption DEF LedgerInv, Grow
<1>3. /\ ledger' \in Seq(Tx)
      /\ Len(ledger') = Len(ledger) + 1
      /\ \A i \in 1..Len(ledger) : ledger'[i] = ledger[i]
      /\ ledger'[Len(ledger) + 1] = tx
  BY <1>1, <1>2
<1>4. ASSUME NEW i \in 1..Len(ledger'), NEW j \in 1..Len(ledger'), i <= j
      PROVE  ledger'[i].slot <= ledger'[j].slot /\ ledger'[i].time <= ledger'[j].time
  <2>1. tx.slot \in Int /\ tx.time \in Int
    BY RangeAssumption DEF Tx
  <2>2. \A k \in 1..Len(ledger) : ledger[k].slot \in Int /\ ledger[k].time \in Int
    BY LedgerType
  <2>3. CASE j \in 1..Len(ledger)
    BY <2>3, <1>3, <1>4 DEF LedgerInv
  <2>4. CASE j = Len(ledger) + 1 /\ i \in 1..Len(ledger)
    <3>1. ledger # <<>> /\ Len(ledger) \in 1..Len(ledger)
      BY <2>4, <1>2
    <3>2. Follows(tx, ledger[Len(ledger)])
      BY <3>1, <1>1
    <3>3. /\ ledger[i].slot <= ledger[Len(ledger)].slot
          /\ ledger[i].time <= ledger[Len(ledger)].time
      BY <2>4, <3>1, <1>2 DEF LedgerInv
    <3>. QED
      BY SMTT(30), <2>1, <2>2, <2>4, <3>1, <3>2, <3>3, <1>3 DEF Follows
  <2>5. CASE i = Len(ledger) + 1 /\ j = Len(ledger) + 1
    BY <2>1, <2>5, <1>3
  <2>. QED
    BY <2>3, <2>4, <2>5, <1>2, <1>3, <1>4
<1>. QED
  BY <1>2, <1>3, <1>4 DEF LedgerInv

\* Growth leaves the rows what they were.
LEMMA RowsKept ==
    ASSUME LedgerInv, ScanInv, KeptInv, RowsInv, Grow
    PROVE  ScanInv' /\ KeptInv' /\ RowsInv'
<1>1. /\ Len(ledger) \in Nat /\ Len(ledger') = Len(ledger) + 1
      /\ \A i \in 1..Len(ledger) : ledger'[i] = ledger[i]
  BY LedgerStep, LedgerType
<1>2. ScanInv'
  BY <1>1 DEF ScanInv, Grow
<1>3. ASSUME Unflawed PROVE Newly(entries, head)'
  <2>1. Newly(entries, head) /\ head \in 0..Len(ledger)
    BY <1>3 DEF RowsInv, ScanInv
  <2>2. ASSUME NEW k \in DOMAIN entries
        PROVE  /\ head + 1 - k \in 1..Len(ledger)
               /\ entries[k].sig \in 1..Len(ledger)
    <3>1. k \in 1..Len(entries) /\ Len(entries) \in Nat /\ Len(entries) <= head
      BY <2>1 DEF Newly
    <3>2. entries[k].sig \in Run(head, Len(entries))
      BY <2>1 DEF Newly, Signatures
    <3>. QED
      BY <3>1, <3>2, <2>1, <1>1 DEF Run
  <2>. QED
    BY SMTT(30), <2>1, <2>2, <1>1 DEF Newly, Grow, Signatures, Run
<1>4. Unflawed' <=> Unflawed
  BY DEF Unflawed, SlotOrderVerified, Grow
<1>6. KeptInv'
  BY <1>1 DEF KeptInv, Grow
<1>5. ASSUME Unflawed, startReached \/ exhausted, NEW i \in 1..(head - Len(entries))
      PROVE  ledger'[i].time <= Start
  BY <1>1, <1>5 DEF RowsInv, Newly, ScanInv
<1>. QED
  BY <1>2, <1>3, <1>4, <1>5, <1>6 DEF RowsInv, Grow


-----------------------------------------------------------------------------
(* A page.                                                                 *)

\* How many rows the next true page has.
PageRows == IF Limit <= Newest THEN Limit ELSE Newest

\* The true page and its size.
LEMMA PageType ==
    ASSUME LedgerInv, before \in 0..Len(ledger), Len(entries) \in Nat,
           Len(entries) < MaxSignatures
    PROVE  /\ PageRows \in Nat /\ Newest \in 0..Len(ledger)
           /\ PageRows <= Newest /\ PageRows <= Limit
           /\ Limit \in Nat /\ Limit > 0
           /\ PageRows < Limit => PageRows = Newest
           /\ TruePage \in Seq(Row) /\ Len(TruePage) = PageRows
           /\ \A k \in 1..PageRows :
                 /\ Newest + 1 - k \in 1..Len(ledger)
                 /\ TruePage[k] = Raw(Newest + 1 - k)
<1>1. /\ PageSize \in Nat /\ PageSize > 0 /\ MaxSignatures \in Nat
      /\ Len(ledger) \in Nat /\ before \in Nat
  BY RangeAssumption, LedgerType
<1>2. Limit \in Nat /\ Limit > 0
  BY <1>1 DEF Limit
<1>3. Newest \in 0..Len(ledger)
  BY <1>1 DEF Newest
<1>4. PageRows \in Nat /\ PageRows <= Newest /\ PageRows <= Limit
      /\ (PageRows < Limit => PageRows = Newest)
  BY <1>2, <1>3, <1>1 DEF PageRows
<1>5. \A i \in 1..Len(ledger) : Raw(i) \in Row
  <2>1. \A i \in 1..Len(ledger) : ledger[i] \in Tx
    BY DEF LedgerInv
  <2>. QED
    BY SMTT(30), <2>1, <1>1, RangeAssumption DEF Raw, Row, Tx, LedgerInv
<1>6. TruePage = [k \in 1..PageRows |-> Raw(Newest + 1 - k)]
  BY DEF TruePage, PageRows
<1>7. \A k \in 1..PageRows : Newest + 1 - k \in 1..Len(ledger)
  BY <1>1, <1>3, <1>4
<1>8. TruePage \in Seq(Row) /\ Len(TruePage) = PageRows
  BY <1>4, <1>5, <1>6, <1>7
<1>. QED
  BY <1>2, <1>3, <1>4, <1>6, <1>7, <1>8

\* What is kept of a page are rows of it, and at most all of them.
LEMMA KeptType ==
    ASSUME NEW page \in Seq(Row)
    PROVE  Kept(page) \in Seq(Row) /\ Len(Kept(page)) <= Len(page)
<1>. DEFINE S == {k \in DOMAIN page : page[k].shape = "valid" /\ page[k].sig \notin Known}
            at(k) == CHOOSE i \in S : Cardinality({j \in S : j < i}) = k - 1
<1>1. S \in SUBSET (1..Len(page)) /\ Len(page) \in Nat
  OBVIOUS
<1>2. Kept(page) = [k \in 1..Cardinality(S) |-> page[at(k)]]
  BY DEF Kept, RowsAt
<1>. HIDE DEF S
<1>3. /\ Cardinality(S) \in Nat /\ Cardinality(S) <= Len(page)
      /\ \A k \in 1..Cardinality(S) : \E i \in S : Cardinality({j \in S : j < i}) = k - 1
  BY <1>1, Ranked
<1>4. \A k \in 1..Cardinality(S) : at(k) \in S
  BY <1>3
<1>. HIDE DEF at
<1>5. \A i \in 1..Len(page) : page[i] \in Row
  OBVIOUS
<1>6. \A k \in 1..Cardinality(S) : page[at(k)] \in Row
  BY <1>1, <1>4, <1>5
<1>. QED
  BY <1>2, <1>3, <1>6

\* ... and all of them when every one is valid and new.
LEMMA KeptWhole ==
    ASSUME NEW page \in Seq(Row),
           \A k \in DOMAIN page : page[k].shape = "valid" /\ page[k].sig \notin Known
    PROVE  Kept(page) = page
<1>. DEFINE n == Len(page)
            at(k) == CHOOSE i \in 1..n : Cardinality({j \in 1..n : j < i}) = k - 1
<1>1. /\ n \in Nat /\ DOMAIN page = 1..n
      /\ {k \in DOMAIN page : page[k].shape = "valid" /\ page[k].sig \notin Known} = 1..n
  OBVIOUS
<1>2. Cardinality(1..n) = n
  BY <1>1, FS_Interval
<1>3. Kept(page) = [k \in 1..n |-> page[at(k)]]
  <2>1. Kept(page) = RowsAt(page, 1..n)
    BY <1>1 DEF Kept
  <2>2. RowsAt(page, 1..n) = [k \in 1..Cardinality(1..n) |-> page[at(k)]]
    BY DEF RowsAt
  <2>. HIDE DEF at, n
  <2>. QED
    BY <2>1, <2>2, <1>2
<1>4. \A k \in 1..n : at(k) = k
  <2>. HIDE DEF n
  <2>1. \A k, i \in 1..n : Cardinality({j \in 1..n : j < i}) = k - 1 <=> i = k
    BY <1>1, RankedAll
  <2>. QED
    BY <2>1
<1>. HIDE DEF at, n
<1>5. [k \in 1..n |-> page[at(k)]] = [k \in 1..n |-> page[k]]
  BY <1>4
<1>. QED
  BY <1>1, <1>3, <1>5

\* A page that leaves no flaw is kept whole, and its rows are of the history.
LEMMA PageKept ==
    ASSUME LedgerInv, KeptInv, phase = "paging", flaws = {},
           NEW page \in ServedPages, page # <<>>, PageFlaws(page) = {}
    PROVE  /\ page \in Seq(Row) /\ Len(page) = PageRows
           /\ Kept(page) = page
           /\ \A k \in DOMAIN page : /\ page[k].sig \in 1..Len(ledger)
                                    /\ page[k].shape = "valid"
                                    /\ page[k].sig \notin Known
           /\ \/ page = TruePage
              \/ page = Reverse(TruePage)
              \/ \E k \in DOMAIN page : page[k].time = NoTime
              \/ before # 0 /\ \E k \in DOMAIN page : page[k].sig = before
<1>1. /\ Len(ledger) \in Nat /\ entries \in Seq(Row) /\ Len(entries) \in Nat
      /\ before \in 0..Len(ledger) /\ Len(entries) < MaxSignatures
  BY LedgerType DEF KeptInv
<1>2. /\ PageRows \in Nat /\ TruePage \in Seq(Row) /\ Len(TruePage) = PageRows
      /\ \A k \in 1..PageRows : TruePage[k].sig \in 1..Len(ledger)
  <2>1. /\ PageRows \in Nat /\ TruePage \in Seq(Row) /\ Len(TruePage) = PageRows
        /\ \A k \in 1..PageRows : /\ Newest + 1 - k \in 1..Len(ledger)
                                 /\ TruePage[k] = Raw(Newest + 1 - k)
    BY <1>1, PageType
  <2>. QED
    BY <2>1 DEF Raw
<1>3. \A k \in DOMAIN page : page[k].shape = "valid" /\ page[k].sig \notin Known
  <2>1. /\ "malformed_entries" \notin PageFlaws(page)
        /\ "duplicate_signatures" \notin PageFlaws(page)
    OBVIOUS
  <2>2. \A k \in DOMAIN page : page[k].shape = "valid"
    BY <2>1 DEF PageFlaws
  <2>3. \A k \in DOMAIN page : ~(page[k].shape = "valid" /\ page[k].sig \in Known)
    BY <2>1 DEF PageFlaws
  <2>. QED
    BY <2>2, <2>3
<1>4. page \in Seq(Row) => Kept(page) = page
  BY <1>3, KeptWhole
<1>5. CASE page = TruePage
  BY <1>2, <1>3, <1>4, <1>5
<1>6. CASE page = Reverse(TruePage)
  <2>1. page \in Seq(Row) /\ Len(page) = PageRows
    BY <1>2, <1>6 DEF Reverse
  <2>2. \A k \in DOMAIN page : page[k].sig \in 1..Len(ledger)
    BY <2>1, <1>2, <1>6 DEF Reverse
  <2>. QED
    BY <2>1, <2>2, <1>3, <1>4, <1>6
<1>7. CASE \E k \in DOMAIN TruePage : page = [TruePage EXCEPT ![k].time = NoTime]
  <2>1. PICK k \in DOMAIN TruePage : page = [TruePage EXCEPT ![k].time = NoTime]
    BY <1>7
  <2>2. TruePage[k] \in Row
    BY <1>2, <2>1
  <2>3. [TruePage[k] EXCEPT !.time = NoTime] \in Row
    BY <2>2 DEF Row
  <2>4. page \in Seq(Row) /\ Len(page) = PageRows
    BY <1>2, <2>1, <2>3
  <2>5. k \in DOMAIN page /\ page[k].time = NoTime
    BY <2>1, <2>2, <1>2 DEF Row
  <2>6. \A j \in DOMAIN page : page[j].sig = TruePage[j].sig
    BY <2>1, <2>2, <1>2 DEF Row
  <2>. QED
    BY SMTT(30), <2>4, <2>5, <2>6, <1>2, <1>3, <1>4
<1>8. CASE \E k \in DOMAIN TruePage, shape \in {"malformed", "unsigned"} :
              page = [TruePage EXCEPT ![k].shape = shape]
  <2>1. PICK k \in DOMAIN TruePage, shape \in {"malformed", "unsigned"} :
               page = [TruePage EXCEPT ![k].shape = shape]
    BY <1>8
  <2>2. TruePage[k] \in Row
    BY <1>2, <2>1
  <2>3. k \in DOMAIN page /\ page[k].shape = shape
    BY <2>1, <2>2, <1>2 DEF Row
  <2>. QED
    BY <2>1, <2>3, <1>3
<1>9. CASE before # 0 /\ TruePage # <<>> /\ page = <<Raw(before)>> \o Front(TruePage)
  <2>1. /\ Front(TruePage) \in Seq(Row) /\ Len(Front(TruePage)) = PageRows - 1
        /\ \A k \in 1..(PageRows - 1) : Front(TruePage)[k] = TruePage[k]
    BY <1>2, <1>9 DEF Front
  <2>2. Raw(before) \in Row /\ before \in 1..Len(ledger)
    <3>1. before \in 1..Len(ledger)
      BY <1>1, <1>9
    <3>2. ledger[before] \in Tx
      BY <3>1 DEF LedgerInv
    <3>. QED
      BY SMTT(30), <3>1, <3>2, <1>1, RangeAssumption DEF Raw, Row, Tx, LedgerInv
  <2>3. /\ page \in Seq(Row) /\ Len(page) = PageRows
        /\ 1 \in DOMAIN page /\ page[1] = Raw(before)
        /\ \A k \in DOMAIN page : k > 1 => page[k] = TruePage[k - 1] /\ k - 1 \in 1..PageRows
    BY <2>1, <2>2, <1>2, <1>9
  <2>4. \A k \in DOMAIN page : page[k].sig \in 1..Len(ledger)
    <3>1. Raw(before).sig \in 1..Len(ledger)
      BY <2>2 DEF Raw
    <3>2. \A k \in DOMAIN page : k = 1 \/ k > 1
      BY <2>3
    <3>. QED
      BY <3>1, <3>2, <2>3, <1>2
  <2>5. before # 0 /\ page[1].sig = before
    BY <2>3, <1>9 DEF Raw
  <2>6. Kept(page) = page
    BY <2>3, <1>4
  <2>. QED
    BY <2>3, <2>4, <2>5, <2>6, <1>3
<1>. QED
  BY <1>5, <1>6, <1>7, <1>8, <1>9 DEF ServedPages

\* Where the newest row of a page belongs that repeats no row: right after the rows
\* so far.
LEMMA PagePlace ==
    ASSUME LedgerInv, ScanInv, KeptInv, RowsInv, phase = "paging", Unflawed,
           NEW page \in ServedPages, page # <<>>, PageFlaws(page) = {},
           page = TruePage \/ page = Reverse(TruePage)
    PROVE  /\ FirstCut \in 0..Len(ledger)
           /\ Newly(entries, FirstCut)
           /\ Newest = FirstCut - Len(entries)
           /\ before = 0 => Len(entries) = 0
           /\ before # 0 => FirstCut = head
<1>0. /\ Newly(entries, head) /\ Len(entries) < MaxSignatures
      /\ before # 0 => before \in Run(head, Len(entries))
      /\ entries \in Seq(Row) /\ Len(entries) \in Nat
      /\ Len(ledger) \in Nat /\ before \in 0..Len(ledger) /\ head \in 0..Len(ledger)
  BY LedgerType DEF RowsInv, KeptInv, Unflawed, Newly, ScanInv
<1>1. CASE before = 0
  <2>1. entries = <<>> /\ Len(entries) = 0 /\ FirstCut = Len(ledger) /\ Newest = Len(ledger)
    BY <1>0, <1>1 DEF ScanInv, FirstCut, Newest
  <2>2. Signatures(entries) = {} /\ Run(Len(ledger), 0) = {}
    BY <2>1, <1>0 DEF Signatures, Run
  <2>3. DOMAIN entries = {} /\ Len(entries) <= Len(ledger)
    BY <2>1, <1>0
  <2>4. Signatures(entries) = Run(Len(ledger), Len(entries))
    BY <2>1, <2>2
  <2>5. Newly(entries, Len(ledger))
    BY <2>3, <2>4, <1>0 DEF Newly
  <2>. QED
    BY <2>1, <2>5, <1>0, <1>1
<1>2. CASE before # 0
  <2>1. FirstCut = head /\ Newest = before - 1
    BY <1>2 DEF FirstCut, Newest
  <2>2. before \in 1..head /\ before >= head + 1 - Len(entries)
    BY <1>0, <1>2 DEF Run, Newly
  <2>3. /\ PageRows \in Nat /\ TruePage \in Seq(Row) /\ Len(TruePage) = PageRows
        /\ \A k \in 1..PageRows : TruePage[k] = Raw(Newest + 1 - k)
    BY <1>0, <2>2, PageType
  <2>4. PageRows >= 1
    BY <2>3 DEF Reverse
  <2>5. \E k \in DOMAIN page : page[k].sig = Newest
    <3>1. TruePage[1].sig = Newest
      BY <2>1, <2>2, <2>3, <2>4, <1>0 DEF Raw
    <3>2. CASE page = TruePage
      BY <3>1, <3>2, <2>3, <2>4
    <3>3. CASE page = Reverse(TruePage)
      <4>1. PageRows \in DOMAIN page /\ page[PageRows] = TruePage[(PageRows - PageRows) + 1]
        BY <3>3, <2>3, <2>4 DEF Reverse
      <4>2. (PageRows - PageRows) + 1 = 1
        BY <2>3
      <4>. QED
        BY <4>1, <4>2, <3>1
    <3>. QED
      BY <3>2, <3>3
  <2>6. Newest \notin Known
    BY <2>5, PageKept DEF Unflawed
  <2>7. Known = Run(head, Len(entries))
    BY <1>0 DEF Known, Newly, Signatures
  <2>. QED
    BY <2>1, <2>2, <2>6, <2>7, <1>0, <1>2 DEF Run
<1>. QED
  BY <1>1, <1>2

\* Rows of one slot in the wrong order pass for the right ones; any others do not.
LEMMA PageContent ==
    ASSUME LedgerInv, ScanInv, KeptInv, RowsInv, phase = "paging", Unflawed,
           NEW page \in ServedPages, page # <<>>, PageFlaws(page) = {},
           page = TruePage \/ page = Reverse(TruePage),
           \A j, k \in DOMAIN page : j <= k => page[j].slot >= page[k].slot,
           \A j, k \in DOMAIN page : j <= k => page[j].time >= page[k].time
    PROVE  /\ PageRows >= 1
           /\ \A k \in 1..PageRows :
                 /\ page[k].slot = ledger[Newest + 1 - k].slot
                 /\ page[k].time = ledger[Newest + 1 - k].time
                 /\ page[k].time = ledger[page[k].sig].time
           /\ Signatures(page) = (Newest + 1 - PageRows)..Newest
<1>0. /\ Newly(entries, head) /\ Len(entries) < MaxSignatures
      /\ before # 0 => before \in Run(head, Len(entries))
      /\ Len(entries) \in Nat
      /\ Len(ledger) \in Nat /\ before \in 0..Len(ledger) /\ head \in 0..Len(ledger)
  BY LedgerType DEF RowsInv, KeptInv, Unflawed, Newly, ScanInv
<1>2. /\ PageRows \in Nat /\ Newest \in 0..Len(ledger) /\ PageRows <= Newest
      /\ TruePage \in Seq(Row) /\ Len(TruePage) = PageRows
      /\ \A k \in 1..PageRows :
            /\ Newest + 1 - k \in 1..Len(ledger)
            /\ TruePage[k] = Raw(Newest + 1 - k)
  BY <1>0, PageType
<1>3. PageRows >= 1
  BY <1>2 DEF Reverse
<1>4. \A i \in 1..Len(ledger) : ledger[i].slot \in Int /\ ledger[i].time \in Int
  BY LedgerType
<1>5. CASE page = TruePage
  <2>1. \A k \in 1..PageRows :
           /\ page[k].sig = Newest + 1 - k
           /\ page[k].slot = ledger[Newest + 1 - k].slot
           /\ page[k].time = ledger[Newest + 1 - k].time
    BY <1>2, <1>5 DEF Raw
  <2>2. Signatures(page) = {Newest + 1 - k : k \in 1..PageRows}
    <3>1. DOMAIN page = 1..PageRows
      BY <1>2, <1>5
    <3>. QED
      BY <2>1, <3>1 DEF Signatures
  <2>3. {Newest + 1 - k : k \in 1..PageRows} = (Newest + 1 - PageRows)..Newest
    <3>1. ASSUME NEW i \in (Newest + 1 - PageRows)..Newest
          PROVE  i \in {Newest + 1 - k : k \in 1..PageRows}
      <4>1. Newest + 1 - i \in 1..PageRows /\ i = Newest + 1 - (Newest + 1 - i)
        BY <1>2
      <4>. QED
        BY <4>1
    <3>2. \A k \in 1..PageRows : Newest + 1 - k \in (Newest + 1 - PageRows)..Newest
      BY <1>2
    <3>. QED
      BY ZenonT(30), <3>1, <3>2
  <2>. QED
    BY <2>1, <2>2, <2>3, <1>3
<1>6. CASE page = Reverse(TruePage)
  <2>1. /\ Len(page) = PageRows /\ DOMAIN page = 1..PageRows
        /\ \A k \in 1..PageRows : page[k] = TruePage[PageRows - k + 1]
    BY <1>2, <1>6 DEF Reverse
  <2>2. \A k \in 1..PageRows :
           /\ Newest - PageRows + k \in 1..Len(ledger)
           /\ page[k] = Raw(Newest - PageRows + k)
    <3>. SUFFICES ASSUME NEW k \in 1..PageRows
                  PROVE  /\ Newest - PageRows + k \in 1..Len(ledger)
                         /\ page[k] = Raw(Newest - PageRows + k)
      OBVIOUS
    <3>1. PageRows - k + 1 \in 1..PageRows
      BY <1>2
    <3>2. Newest + 1 - (PageRows - k + 1) = Newest - PageRows + k
      BY <1>2
    <3>. QED
      BY <3>1, <3>2, <2>1, <1>2
  <2>3. ASSUME NEW k \in 1..PageRows
        PROVE  /\ page[k].slot = ledger[Newest + 1 - k].slot
               /\ page[k].time = ledger[Newest + 1 - k].time
               /\ page[k].time = ledger[page[k].sig].time
    <3>1. DEFINE j == PageRows + 1 - k
    <3>2. /\ j \in 1..PageRows /\ Newest - PageRows + j = Newest + 1 - k
      BY <1>2
    <3>3. /\ page[j] = Raw(Newest + 1 - k) /\ page[k] = Raw(Newest - PageRows + k)
          /\ Newest + 1 - k \in 1..Len(ledger) /\ Newest - PageRows + k \in 1..Len(ledger)
      BY <2>2, <3>2
    <3>. HIDE DEF j
    <3>4. CASE j <= k
      <4>1. page[j].slot >= page[k].slot /\ page[j].time >= page[k].time
        BY <2>1, <3>2, <3>4
      <4>2. Newest + 1 - k <= Newest - PageRows + k
        BY <1>2, <3>2, <3>4
      <4>3. /\ ledger[Newest + 1 - k].slot <= ledger[Newest - PageRows + k].slot
            /\ ledger[Newest + 1 - k].time <= ledger[Newest - PageRows + k].time
        BY <4>2, <3>3 DEF LedgerInv
      <4>. QED
        BY <4>1, <4>3, <3>3, <1>4 DEF Raw
    <3>5. CASE k <= j
      <4>1. page[k].slot >= page[j].slot /\ page[k].time >= page[j].time
        BY <2>1, <3>2, <3>5
      <4>2. Newest - PageRows + k <= Newest + 1 - k
        BY <1>2, <3>2, <3>5
      <4>3. /\ ledger[Newest - PageRows + k].slot <= ledger[Newest + 1 - k].slot
            /\ ledger[Newest - PageRows + k].time <= ledger[Newest + 1 - k].time
        BY <4>2, <3>3 DEF LedgerInv
      <4>. QED
        BY <4>1, <4>3, <3>3, <1>4 DEF Raw
    <3>. QED
      BY <3>2, <3>4, <3>5, <1>2
  <2>4. Signatures(page) = {Newest - PageRows + k : k \in 1..PageRows}
    <3>1. ASSUME NEW k \in 1..PageRows PROVE page[k].sig = Newest - PageRows + k
      <4>1. page[k] = Raw(Newest - PageRows + k)
        BY <2>2
      <4>. QED
        BY <4>1 DEF Raw
    <3>. QED
      BY ZenonT(30), <3>1, <2>1 DEF Signatures
  <2>5. {Newest - PageRows + k : k \in 1..PageRows} = (Newest + 1 - PageRows)..Newest
    <3>2. \A k \in 1..PageRows : Newest - PageRows + k \in (Newest + 1 - PageRows)..Newest
      BY <1>2
    <3>1. ASSUME NEW i \in (Newest + 1 - PageRows)..Newest
          PROVE  i \in {Newest - PageRows + k : k \in 1..PageRows}
      <4>1. i - Newest + PageRows \in 1..PageRows /\ i = Newest - PageRows + (i - Newest + PageRows)
        BY <1>2
      <4>. QED
        BY <4>1
    <3>. QED
      BY <3>1, <3>2
  <2>. QED
    BY <2>3, <2>4, <2>5, <1>3
<1>. QED
  BY <1>5, <1>6

\* The rows of a concatenation.
LEMMA Concatenation ==
    ASSUME NEW S, NEW first \in Seq(S), NEW second \in Seq(S)
    PROVE  /\ first \o second \in Seq(S)
           /\ Len(first) \in Nat /\ Len(second) \in Nat
           /\ Len(first \o second) = Len(first) + Len(second)
           /\ DOMAIN first = 1..Len(first)
           /\ DOMAIN second = 1..Len(second)
           /\ DOMAIN (first \o second) = 1..(Len(first) + Len(second))
           /\ \A k \in 1..Len(first) : (first \o second)[k] = first[k]
           /\ \A k \in 1..Len(second) : (first \o second)[Len(first) + k] = second[k]
<1>1. first \o second \in Seq(S)
  OBVIOUS
<1>2. Len(first) \in Nat /\ Len(second) \in Nat
  OBVIOUS
<1>3. Len(first \o second) = Len(first) + Len(second)
  OBVIOUS
<1>4. DOMAIN first = 1..Len(first) /\ DOMAIN second = 1..Len(second)
  OBVIOUS
<1>5. DOMAIN (first \o second) = 1..(Len(first) + Len(second))
  BY <1>1, <1>3
<1>6. \A k \in 1..Len(first) : (first \o second)[k] = first[k]
  OBVIOUS
<1>7. \A k \in 1..Len(second) : (first \o second)[Len(first) + k] = second[k]
  OBVIOUS
<1>. QED
  BY <1>1, <1>2, <1>3, <1>4, <1>5, <1>6, <1>7

\* The rows and the page after them are the newest transactions still.
LEMMA NewlyAppended ==
    ASSUME LedgerInv, NEW rows \in Seq(Row), NEW page \in Seq(Row),
           NEW h \in 0..Len(ledger), NEW m \in Nat, NEW n \in Nat,
           Newly(rows, h), Len(rows) = m, Len(page) = n, m + n <= h,
           \A k \in 1..n :
              /\ page[k].slot = ledger[h + 1 - (m + k)].slot
              /\ page[k].time = ledger[h + 1 - (m + k)].time
              /\ page[k].time = ledger[page[k].sig].time,
           Signatures(page) = (h + 1 - (m + n))..(h - m)
    PROVE  Newly(rows \o page, h)
<1>. DEFINE both == rows \o page
<1>1. /\ both \in Seq(Row) /\ Len(both) = m + n
      /\ \A k \in 1..m : both[k] = rows[k]
      /\ \A k \in 1..n : both[m + k] = page[k]
      /\ DOMAIN rows = 1..m /\ DOMAIN page = 1..n /\ DOMAIN both = 1..(m + n)
  <2>1. /\ both \in Seq(Row) /\ Len(both) = Len(rows) + Len(page)
        /\ \A k \in 1..Len(rows) : both[k] = rows[k]
        /\ \A k \in 1..Len(page) : both[Len(rows) + k] = page[k]
        /\ DOMAIN rows = 1..Len(rows) /\ DOMAIN page = 1..Len(page)
        /\ DOMAIN both = 1..(Len(rows) + Len(page))
    BY ONLY Concatenation, rows \in Seq(Row), page \in Seq(Row)
  <2>. QED
    BY ONLY <2>1, Len(rows) = m, Len(page) = n
<1>2. h \in Nat
  BY LedgerType
<1>3. /\ \A k \in 1..m : /\ rows[k].slot = ledger[h + 1 - k].slot
                         /\ rows[k].time = ledger[h + 1 - k].time
                         /\ rows[k].time = ledger[rows[k].sig].time
      /\ Signatures(rows) = (h + 1 - m)..h
  BY <1>1 DEF Newly, Run
<1>4. \A k \in 1..(m + n) : k \in 1..m \/ \E j \in 1..n : k = m + j
  <2>1. ASSUME NEW k \in 1..(m + n), k \notin 1..m PROVE \E j \in 1..n : k = m + j
    <3>1. k - m \in 1..n /\ k = m + (k - m)
      BY <2>1
    <3>. QED
      BY <3>1
  <2>. QED
    BY <2>1
<1>. HIDE DEF both
<1>5. ASSUME NEW k \in 1..(m + n)
      PROVE  /\ both[k].slot = ledger[h + 1 - k].slot
             /\ both[k].time = ledger[h + 1 - k].time
             /\ both[k].time = ledger[both[k].sig].time
  <2>1. CASE k \in 1..m
    BY SMTT(30), <1>1, <1>3, <2>1
  <2>2. CASE \E j \in 1..n : k = m + j
    <3>1. PICK j \in 1..n : k = m + j
      BY <2>2
    <3>2. both[k] = page[j]
      BY <3>1, <1>1
    <3>. QED
      BY <3>1, <3>2
  <2>. QED
    BY <2>1, <2>2, <1>4
<1>6. Signatures(both) = Signatures(rows) \cup Signatures(page)
  <2>1. ASSUME NEW k \in 1..(m + n)
        PROVE  both[k].sig \in Signatures(rows) \cup Signatures(page)
    <3>1. CASE k \in 1..m
      BY <1>1, <3>1 DEF Signatures
    <3>2. CASE \E j \in 1..n : k = m + j
      <4>1. PICK j \in 1..n : k = m + j
        BY <3>2
      <4>2. both[k] = page[j] /\ j \in DOMAIN page
        BY <4>1, <1>1
      <4>. QED
        BY <4>2 DEF Signatures
    <3>. QED
      BY <3>1, <3>2, <1>4
  <2>2. ASSUME NEW k \in 1..m PROVE rows[k].sig \in Signatures(both)
    <3>1. k \in 1..(m + n)
      OBVIOUS
    <3>. QED
      BY <3>1, <1>1 DEF Signatures
  <2>3. ASSUME NEW k \in 1..n PROVE page[k].sig \in Signatures(both)
    <3>1. m + k \in 1..(m + n)
      OBVIOUS
    <3>. QED
      BY <3>1, <1>1 DEF Signatures
  <2>4. Signatures(rows) \subseteq Signatures(both)
    <3>1. Signatures(rows) = {rows[k].sig : k \in 1..m}
      BY <1>1 DEF Signatures
    <3>. QED
      BY <3>1, <2>2
  <2>5. Signatures(page) \subseteq Signatures(both)
    <3>1. Signatures(page) = {page[k].sig : k \in 1..n}
      BY <1>1 DEF Signatures
    <3>. QED
      BY <2>3, <3>1
  <2>6. Signatures(both) \subseteq Signatures(rows) \cup Signatures(page)
    <3>1. Signatures(both) = {both[k].sig : k \in 1..(m + n)}
      BY <1>1 DEF Signatures
    <3>. QED
      BY <2>1, <3>1
  <2>. QED
    BY <2>4, <2>5, <2>6
<1>7. Signatures(both) = Run(h, m + n)
  BY <1>2, <1>3, <1>6 DEF Run
<1>8. Newly(both, h)
  BY <1>1, <1>5, <1>7 DEF Newly
<1>. QED
  BY <1>8 DEF both

\* One pass of the loop: either something is wrong with the rows now, or they are
\* the newest transactions still.
LEMMA ReadPageStep ==
    ASSUME LedgerInv, ScanInv, KeptInv, RowsInv,
           NEW page \in ServedPages, ReadPage(page)
    PROVE  ScanInv' /\ KeptInv' /\ RowsInv'
<1>. DEFINE rows == entries \o Kept(page)
            short == Len(page) < Limit
<1>1. /\ phase = "paging" /\ page # <<>> /\ entries' = rows
      /\ startReached' = PastStart(rows)
      /\ exhausted' = (~PastStart(rows) /\ short)
      /\ head' = FirstCut /\ ledger' = ledger
      /\ flaws \cup PageFlaws(page) \subseteq flaws'
  BY DEF ReadPage
<1>2. \/ /\ phase' = "scanned" /\ UNCHANGED <<before, cursors>>
      \/ /\ ~PastStart(rows) /\ ~short /\ ~Stalls(page)
         /\ before' = LastSignature(page)
         /\ phase' = IF Len(rows) >= MaxSignatures THEN "scanned" ELSE "paging"
  BY DEF ReadPage
<1>3. /\ Len(ledger) \in Nat /\ head \in 0..Len(ledger) /\ FirstCut \in 0..Len(ledger)
  BY LedgerType DEF ScanInv, FirstCut
<1>. HIDE DEF rows, short
<1>4. ScanInv'
  <2>1. phase' = "paging" => before' # 0 /\ ~startReached' /\ ~exhausted'
    BY <1>1, <1>2 DEF Stalls
  <2>2. phase' \in {"paging", "scanned"}
    BY <1>2
  <2>. QED
    BY <2>1, <2>2, <1>1, <1>3 DEF ScanInv
<1>5. ASSUME flaws' = {}
      PROVE  /\ flaws = {} /\ PageFlaws(page) = {}
             /\ entries \in Seq(Row) /\ page \in Seq(Row) /\ Len(page) = PageRows
             /\ rows = entries \o page
             /\ \A k \in DOMAIN page : page[k].sig \in 1..Len(ledger)
             /\ LastSignature(page) = page[Len(page)].sig
             /\ Len(page) \in DOMAIN page
  <2>1. flaws = {} /\ PageFlaws(page) = {}
    BY <1>1, <1>5
  <2>2. /\ page \in Seq(Row) /\ Len(page) = PageRows /\ Kept(page) = page
        /\ \A k \in DOMAIN page : page[k].sig \in 1..Len(ledger) /\ page[k].shape = "valid"
    BY <1>1, <2>1, PageKept
  <2>3. Len(page) \in DOMAIN page
    BY <1>1, <2>2
  <2>. QED
    BY <2>1, <2>2, <2>3, <1>1 DEF KeptInv, LastSignature, rows
<1>6. KeptInv'
  <2>. SUFFICES ASSUME flaws' = {} PROVE KeptInv'
    BY DEF KeptInv
  <2>1. rows \in Seq(Row) /\ Len(rows) \in Nat
    <3>1. entries \in Seq(Row) /\ page \in Seq(Row) /\ rows = entries \o page
      BY <1>5
    <3>. QED
      BY <3>1
  <2>2. phase' = "paging" => Len(rows) < MaxSignatures /\ before' \in 0..Len(ledger)
    BY <2>1, <1>2, <1>3, <1>5, RangeAssumption
  <2>. QED
    BY <2>1, <2>2, <1>1 DEF KeptInv
<1>7. ASSUME Unflawed'
      PROVE  /\ Unflawed
             /\ \A k \in DOMAIN page : page[k].time # NoTime
             /\ \A j, k \in DOMAIN page : j <= k => page[j].slot >= page[k].slot
             /\ \A j, k \in DOMAIN page : j <= k => page[j].time >= page[k].time
  <2>1. /\ entries \in Seq(Row) /\ page \in Seq(Row) /\ entries' = entries \o page
        /\ flaws = {}
    BY <1>1, <1>5, <1>7 DEF Unflawed
  <2>2. /\ \A k \in DOMAIN entries' : entries'[k].time # NoTime
        /\ \A j, k \in DOMAIN entries' : j <= k => entries'[j].time >= entries'[k].time
        /\ \A j, k \in DOMAIN entries' : j <= k => entries'[j].slot >= entries'[k].slot
    BY <1>7 DEF Unflawed, SlotOrderVerified
  <2>3. \A k \in DOMAIN entries : k \in DOMAIN entries' /\ entries'[k] = entries[k]
    BY <2>1
  <2>4. \A k \in DOMAIN page : /\ Len(entries) + k \in DOMAIN entries'
                              /\ entries'[Len(entries) + k] = page[k]
    BY <2>1
  <2>5. \A j, k \in DOMAIN page : j <= k => Len(entries) + j <= Len(entries) + k
    BY <2>1
  <2>6. Unflawed
    BY <2>1, <2>2, <2>3 DEF Unflawed, SlotOrderVerified
  <2>7. \A k \in DOMAIN page : page[k].time # NoTime
    BY <2>2, <2>4
  <2>8. ASSUME NEW j \in DOMAIN page, NEW k \in DOMAIN page, j <= k
        PROVE  page[j].slot >= page[k].slot /\ page[j].time >= page[k].time
    <3>1. Len(entries) + j <= Len(entries) + k
      BY <2>5, <2>8
    <3>2. /\ entries'[Len(entries) + j].slot >= entries'[Len(entries) + k].slot
          /\ entries'[Len(entries) + j].time >= entries'[Len(entries) + k].time
      BY <3>1, <2>2, <2>4
    <3>. QED
      BY <3>2, <2>4
  <2>. QED
    BY <2>6, <2>7, <2>8
<1>8. ASSUME Unflawed'
      PROVE  page = TruePage \/ page = Reverse(TruePage)
  <2>1. \/ page = TruePage \/ page = Reverse(TruePage)
        \/ before # 0 /\ \E k \in DOMAIN page : page[k].sig = before /\ page[k].sig \notin Known
    <3>1. flaws = {} /\ PageFlaws(page) = {}
      BY <1>5, <1>8 DEF Unflawed
    <3>. QED
      BY <3>1, <1>1, <1>7, <1>8, PageKept
  <2>2. before # 0 => before \in Known
    <3>1. Newly(entries, head) /\ (before # 0 => before \in Run(head, Len(entries)))
      BY <1>1, <1>7, <1>8 DEF RowsInv
    <3>. QED
      BY <3>1 DEF Newly, Signatures, Known
  <2>. QED
    BY <2>1, <2>2
<1>9. ASSUME Unflawed'
      PROVE  /\ Newly(entries', FirstCut)
             /\ Len(entries') = Len(entries) + PageRows
             /\ Newest = FirstCut - Len(entries)
             /\ phase' = "paging" => before' \in Run(FirstCut, Len(entries'))
  <2>1. /\ entries \in Seq(Row) /\ page \in Seq(Row) /\ entries' = entries \o page
        /\ Len(page) = PageRows /\ flaws = {} /\ PageFlaws(page) = {}
        /\ LastSignature(page) = page[Len(page)].sig /\ Len(page) \in DOMAIN page
    BY <1>1, <1>5, <1>9 DEF Unflawed
  <2>2. Newly(entries, FirstCut) /\ Newest = FirstCut - Len(entries)
    BY <2>1, <1>1, <1>7, <1>8, <1>9, PagePlace
  <2>3. /\ \A k \in 1..PageRows :
              /\ page[k].slot = ledger[Newest + 1 - k].slot
              /\ page[k].time = ledger[Newest + 1 - k].time
              /\ page[k].time = ledger[page[k].sig].time
        /\ Signatures(page) = (Newest + 1 - PageRows)..Newest
    BY <2>1, <1>1, <1>7, <1>8, <1>9, PageContent
  <2>4. PageRows \in Nat /\ PageRows <= Newest
    <3>1. before \in 0..Len(ledger) /\ Len(entries) \in Nat /\ Len(entries) < MaxSignatures
      BY <2>1, <1>1 DEF KeptInv
    <3>. QED
      BY <3>1, PageType
  <2>5. Newly(entries \o page, FirstCut)
    <3>1. Len(entries) \in Nat /\ Newest \in Nat /\ FirstCut \in Nat
      BY <2>1, <2>2, <2>4, <1>3 DEF Newly
    <3>2. /\ Len(entries) + PageRows <= FirstCut
          /\ Newest + 1 - PageRows = FirstCut + 1 - (Len(entries) + PageRows)
          /\ \A k \in 1..PageRows : Newest + 1 - k = FirstCut + 1 - (Len(entries) + k)
      BY <3>1, <2>2, <2>4
    <3>3. /\ \A k \in 1..PageRows :
                /\ page[k].slot = ledger[FirstCut + 1 - (Len(entries) + k)].slot
                /\ page[k].time = ledger[FirstCut + 1 - (Len(entries) + k)].time
                /\ page[k].time = ledger[page[k].sig].time
          /\ Signatures(page) = (FirstCut + 1 - (Len(entries) + PageRows))..(FirstCut - Len(entries))
      BY <3>2, <2>2, <2>3
    <3>. QED
      BY <3>1, <3>2, <3>3, <2>1, <2>2, <2>4, <1>3, NewlyAppended
  <2>6. Len(entries') = Len(entries) + PageRows
    BY <2>1
  <2>7. phase' = "paging" => before' \in Run(FirstCut, Len(entries'))
    <3>1. /\ Len(entries) + Len(page) \in DOMAIN entries'
          /\ entries'[Len(entries) + Len(page)] = page[Len(page)]
      BY <2>1
    <3>2. LastSignature(page) \in Signatures(entries')
      BY <3>1, <2>1 DEF Signatures
    <3>3. phase' = "paging" => before' = LastSignature(page)
      BY <1>2
    <3>. QED
      BY <3>2, <3>3, <2>1, <2>5 DEF Newly
  <2>. QED
    BY <2>1, <2>2, <2>5, <2>6, <2>7
<1>10. ASSUME Unflawed', startReached' \/ exhausted',
              NEW i \in 1..(FirstCut - Len(entries'))
       PROVE  ledger[i].time <= Start
  <2>0. /\ Newly(entries', FirstCut) /\ Len(entries') = Len(entries) + PageRows
        /\ Newest = FirstCut - Len(entries)
    BY <1>9, <1>10
  <2>1. /\ entries' \in Seq(Row) /\ Len(entries') \in Nat /\ Len(entries') <= FirstCut
        /\ DOMAIN entries' = 1..Len(entries')
    BY <2>0 DEF Newly
  <2>2. \A j \in 1..Len(ledger) : ledger[j].time \in Int
    BY LedgerType
  <2>3. Start \in Int
    BY RangeAssumption
  <2>4. CASE startReached'
    <3>1. PICK k \in DOMAIN entries' : entries'[k].time <= Start
      BY <2>4, <1>1 DEF PastStart
    <3>2. /\ FirstCut + 1 - k \in 1..Len(ledger) /\ i \in 1..Len(ledger)
          /\ i <= FirstCut + 1 - k
      BY <2>1, <1>3, <3>1, <1>10
    <3>3. ledger[i].time <= ledger[FirstCut + 1 - k].time
      BY <3>2 DEF LedgerInv
    <3>4. ledger[FirstCut + 1 - k].time = entries'[k].time
      BY <3>1, <2>0 DEF Newly
    <3>. QED
      BY <3>1, <3>2, <3>3, <3>4, <2>2, <2>3
  <2>5. CASE exhausted'
    <3>1. Len(page) = PageRows /\ Len(page) < Limit /\ Len(entries) \in Nat
      <4>1. Len(page) < Limit
        BY <2>5, <1>1 DEF short
      <4>2. Len(page) = PageRows /\ entries \in Seq(Row)
        BY <1>5, <1>10 DEF Unflawed
      <4>. QED
        BY <4>1, <4>2
    <3>2. PageRows = Newest
      <4>1. before \in 0..Len(ledger) /\ Len(entries) < MaxSignatures
        BY <1>1, <1>5, <1>10 DEF KeptInv, Unflawed
      <4>. QED
        BY <4>1, <3>1, PageType
    <3>. QED
      BY <3>1, <3>2, <2>0, <1>3, <1>10
  <2>. QED
    BY <2>4, <2>5, <1>10
<1>. QED
  <2>1. ASSUME Unflawed'
        PROVE  /\ Newly(entries', head')
               /\ phase' = "paging" /\ before' # 0 => before' \in Run(head', Len(entries'))
               /\ startReached' \/ exhausted' =>
                    \A i \in 1..(head' - Len(entries')) : ledger'[i].time <= Start
    BY <2>1, <1>1, <1>9, <1>10
  <2>2. RowsInv'
    BY <2>1, <1>1 DEF RowsInv, Newly, Signatures, Run
  <2>. QED
    BY <2>2, <1>4, <1>6

\* An empty page: the oldest row there is was already read.
LEMMA ReadEndStep ==
    ASSUME LedgerInv, ScanInv, KeptInv, RowsInv, ReadEnd
    PROVE  ScanInv' /\ KeptInv' /\ RowsInv'
<1>1. /\ phase = "paging" /\ TruePage = <<>> /\ exhausted' = TRUE /\ phase' = "scanned"
      /\ head' = FirstCut
      /\ UNCHANGED <<ledger, entries, before, flaws, startReached>>
  BY DEF ReadEnd
<1>2. /\ Len(ledger) \in Nat /\ head \in 0..Len(ledger) /\ FirstCut \in 0..Len(ledger)
  BY LedgerType DEF ScanInv, FirstCut
<1>3. ScanInv' /\ KeptInv'
  BY <1>1, <1>2 DEF ScanInv, KeptInv
<1>4. ASSUME Unflawed
      PROVE  Newly(entries, FirstCut) /\ Len(entries) = FirstCut
  <2>1. /\ entries \in Seq(Row) /\ Len(entries) \in Nat
        /\ before \in 0..Len(ledger) /\ Len(entries) < MaxSignatures
        /\ Newly(entries, head)
        /\ before # 0 => before \in Run(head, Len(entries))
    BY <1>1, <1>4 DEF KeptInv, Unflawed, RowsInv
  <2>2. Newest = 0
    <3>1. /\ PageRows \in Nat /\ Newest \in Nat /\ Limit \in Nat /\ Limit > 0
          /\ PageRows < Limit => PageRows = Newest
          /\ Len(TruePage) = PageRows
      BY <2>1, <1>2, PageType
    <3>2. PageRows = 0
      BY <3>1, <1>1
    <3>. QED
      BY <3>1, <3>2
  <2>3. CASE before = 0
    <3>1. entries = <<>> /\ head = 0 /\ FirstCut = Len(ledger) /\ Len(ledger) = 0
      BY <2>2, <2>3, <1>1 DEF ScanInv, FirstCut, Newest
    <3>2. FirstCut = head /\ Len(entries) = 0
      BY <3>1
    <3>. QED
      BY <2>1, <3>1, <3>2
  <2>4. CASE before # 0
    <3>1. FirstCut = head /\ before = 1
      BY <2>1, <2>2, <2>4, <1>2 DEF FirstCut, Newest
    <3>2. Len(entries) <= head /\ 1 >= head + 1 - Len(entries)
      BY <2>1, <3>1 DEF Newly, Run
    <3>. QED
      BY <2>1, <3>1, <3>2, <1>2
  <2>. QED
    BY <2>3, <2>4
<1>5. Unflawed' <=> Unflawed
  BY <1>1 DEF Unflawed, SlotOrderVerified
<1>6. Unflawed => \A i \in 1..(FirstCut - Len(entries)) : ledger[i].time <= Start
  BY <1>2, <1>4
<1>7. RowsInv'
  BY <1>1, <1>4, <1>5, <1>6 DEF RowsInv, Newly, Signatures, Run
<1>. QED
  BY <1>3, <1>7

\* A failed page is a flaw: nothing is claimed of the rows any more.
LEMMA PageFailsStep ==
    ASSUME ScanInv, PageFails
    PROVE  ScanInv' /\ KeptInv' /\ RowsInv'
<1>1. flaws' # {}
  BY DEF PageFails
<1>. QED
  BY <1>1 DEF PageFails, ScanInv, KeptInv, RowsInv, Unflawed

-----------------------------------------------------------------------------
(* What is verified.                                                       *)

\* The claim of a proven range.
LEMMA Proven ==
    ASSUME LedgerInv, ScanInv, RowsInv, RangeProven
    PROVE  /\ Newly(entries, head) /\ Len(entries) \in Nat
           /\ \A i \in 1..(head - Len(entries)) : ledger[i].time <= Start
           /\ RangeComplete
<1>1. Unflawed /\ (startReached \/ exhausted)
  BY DEF RangeProven, IntegrityVerified, BlockTimeOrderVerified, Unflawed
<1>2. /\ Newly(entries, head)
      /\ \A i \in 1..(head - Len(entries)) : ledger[i].time <= Start
  BY <1>1 DEF RowsInv
<1>3. Len(entries) \in Nat
  BY <1>2 DEF Newly
<1>. QED
  BY <1>2, <1>3 DEF RangeComplete, Newly, Signatures, Run

\* A response gives a request its own transaction or none.
LEMMA AnswerOwn ==
    ASSUME NEW chunk, NEW body \in Bodies(chunk), NEW k
    PROVE  /\ Answer(body, k).of \in {0, chunk[k]}
           /\ chunk[k] \in Signature => Answer(body, k) \in Fetched
<1>0. Unavailable \in Fetched /\ Signature \subseteq 0..MaxLedger
  BY RangeAssumption DEF Unavailable, Fetched, Signature
<1>1. CASE \E j \in DOMAIN body : body[j].id = k
  <2>. DEFINE j == CHOOSE j \in DOMAIN body : body[j].id = k
  <2>1. j \in DOMAIN body /\ body[j].id = k
    BY <1>1
  <2>2. Answer(body, k) = body[j].tx
    BY <1>1 DEF Answer
  <2>. HIDE DEF j
  <2>3. body[j] \in Item(chunk)
    BY <2>1 DEF Bodies, SeqOf
  <2>4. PICK n \in DOMAIN chunk :
            \/ body[j] = [id |-> n, tx |-> Unavailable]
            \/ \E s \in {"sound", "moved", "unverifiable"} :
                  body[j] = [id |-> n, tx |-> [of |-> chunk[n], state |-> s]]
    BY <2>3 DEF Item
  <2>5. n = k
    BY <2>1, <2>4
  <2>6. Answer(body, k).of \in {0, chunk[k]}
    BY <2>2, <2>4, <2>5 DEF Unavailable
  <2>7. ASSUME chunk[k] \in Signature PROVE Answer(body, k) \in Fetched
    <3>1. \A s \in {"sound", "moved", "unverifiable"} : [of |-> chunk[k], state |-> s] \in Fetched
      BY <1>0, <2>7 DEF Fetched
    <3>2. \/ body[j].tx = Unavailable
          \/ \E s \in {"sound", "moved", "unverifiable"} : body[j].tx = [of |-> chunk[k], state |-> s]
      BY <2>4, <2>5
    <3>. QED
      BY <3>1, <3>2, <1>0, <2>2
  <2>. QED
    BY <2>6, <2>7
<1>2. CASE ~\E j \in DOMAIN body : body[j].id = k
  BY <1>0, <1>2 DEF Answer, Unavailable
<1>. QED
  BY <1>1, <1>2

\* The report of a range that is proven and of transactions that are their own.
LEMMA ReportSound ==
    ASSUME LedgerInv, ScanInv, RowsInv, FetchInv, RangeProven
    PROVE  ReportOf.complete =>
              /\ {i \in 1..head : Target(i) /\ Strictly(i)} \subseteq ReportOf.active
              /\ ReportOf.active \subseteq {i \in 1..head : Target(i) /\ Inclusively(i)}
              /\ ReportOf.zero => \A i \in 1..head : Strictly(i) => ~Target(i)
<1>. SUFFICES ASSUME AllVerified
              PROVE  /\ {i \in 1..head : Target(i) /\ Strictly(i)} \subseteq ReportOf.active
                     /\ ReportOf.active \subseteq {i \in 1..head : Target(i) /\ Inclusively(i)}
                     /\ ReportOf.zero => \A i \in 1..head : Strictly(i) => ~Target(i)
  BY DEF ReportOf
<1>1. /\ Newly(entries, head) /\ Len(entries) \in Nat /\ Len(entries) <= head
      /\ \A i \in 1..(head - Len(entries)) : ledger[i].time <= Start
      /\ Signatures(entries) = Run(head, Len(entries))
  BY Proven DEF Newly
<1>2. /\ Len(ledger) \in Nat /\ head \in 0..Len(ledger) /\ Len(ledger) <= MaxLedger
      /\ MaxLedger \in Nat /\ Start \in Int /\ End \in Int /\ NoTime \notin Int
      /\ \A i \in 1..Len(ledger) : ledger[i].time \in Int
  BY LedgerType, RangeAssumption DEF LedgerInv, ScanInv
<1>3. ASSUME NEW i \in WantedSet
      PROVE  /\ i \in 1..head /\ Inclusively(i)
             /\ fetched[i].of = i
             /\ Active(i) <=> Target(i)
  <2>1. PICK k \in DOMAIN entries : entries[k].sig = i /\ Chosen(entries[k])
    BY DEF WantedSet
  <2>2. i \in 1..head
    <3>1. i \in Run(head, Len(entries))
      BY <2>1, <1>1 DEF Signatures
    <3>. QED
      BY <3>1, <1>1, <1>2 DEF Run
  <2>3. entries[k].time = ledger[i].time
    BY <2>1, <1>1 DEF Newly
  <2>4. Inclusively(i)
    BY <2>1, <2>3 DEF Chosen, InWindow, Inclusively
  <2>5. Verified(i)
    BY DEF AllVerified
  <2>6. fetched[i].of = i
    <3>1. i \in Signature
      BY <2>2, <1>2 DEF Signature
    <3>. QED
      BY <2>5, <3>1 DEF Verified, FetchInv
  <2>. QED
    BY <2>2, <2>4, <2>5, <2>6 DEF Active, Target
<1>4. ASSUME NEW i \in 1..head, Target(i), Strictly(i)
      PROVE  i \in WantedSet
  <2>1. i \in 1..Len(ledger)
    BY <1>2
  <2>2. i \in Run(head, Len(entries))
    <3>1. i \notin 1..(head - Len(entries))
      BY <2>1, <1>1, <1>2, <1>4 DEF Strictly
    <3>. QED
      BY <3>1, <1>1, <1>2 DEF Run
  <2>3. PICK k \in DOMAIN entries : entries[k].sig = i
    BY <2>2, <1>1 DEF Signatures
  <2>4. entries[k].time = ledger[i].time
    BY <2>3, <1>1 DEF Newly
  <2>5. InWindow(entries[k])
    BY <2>1, <2>4, <1>2, <1>4 DEF InWindow, Strictly
  <2>6. Chosen(entries[k])
    BY <2>3, <2>5, <1>4 DEF Chosen, Target
  <2>. QED
    BY <2>3, <2>6 DEF WantedSet
<1>5. {i \in 1..head : Target(i) /\ Strictly(i)} \subseteq ReportOf.active
  BY <1>3, <1>4 DEF ReportOf
<1>6. ReportOf.active \subseteq {i \in 1..head : Target(i) /\ Inclusively(i)}
  BY <1>3 DEF ReportOf
<1>7. ReportOf.zero => \A i \in 1..head : Strictly(i) => ~Target(i)
  BY <1>3, <1>4 DEF ReportOf
<1>. QED
  BY <1>5, <1>6, <1>7

-----------------------------------------------------------------------------
(* The steps.                                                              *)

LEMMA InitInv == Init => Inv
<1>. SUFFICES ASSUME Init PROVE Inv
  OBVIOUS
<1>1. /\ ledger = <<>> /\ entries = <<>> /\ head = 0 /\ before = 0 /\ flaws = {}
      /\ phase = "paging" /\ startReached = FALSE /\ exhausted = FALSE
      /\ stage = "scan" /\ report = None
      /\ fetched = [i \in Signature |-> Unavailable]
  BY DEF Init, RangeInit
<1>2. MaxLedger \in Nat /\ MaxSignatures \in Nat \ {0}
  BY RangeAssumption
<1>3. ledger \in Seq(Tx) /\ Len(ledger) = 0 /\ entries \in Seq(Row) /\ Len(entries) = 0
      /\ DOMAIN entries = {}
  BY <1>1
<1>4. LedgerInv
  BY <1>2, <1>3 DEF LedgerInv
<1>5. ScanInv /\ KeptInv
  BY <1>1, <1>2, <1>3 DEF ScanInv, KeptInv
<1>6. Signatures(entries) = {} /\ Run(head, Len(entries)) = {}
  BY <1>1, <1>3 DEF Signatures, Run
<1>7. RowsInv
  <2>1. Newly(entries, head)
    <3>1. head = 0 /\ Len(entries) <= 0 /\ entries \in Seq(Row)
      BY <1>1, <1>3
    <3>2. Signatures(entries) = Run(head, Len(entries))
      BY <1>6
    <3>. QED
      BY ONLY <3>1, <3>2, <1>3 DEF Newly
  <2>. QED
    BY <1>1, <2>1 DEF RowsInv
<1>8. FetchInv
  BY <1>1 DEF FetchInv, Unavailable
<1>9. StageInv /\ TraceExact /\ ZeroExact
  BY <1>1 DEF StageInv, TraceExact, ZeroExact, None
<1>. QED
  BY <1>4, <1>5, <1>7, <1>8, <1>9 DEF Inv

\* What holds of the rows depends on nothing but the scan.
LEMMA RangeUnchanged ==
    ASSUME LedgerInv, ScanInv, KeptInv, RowsInv, UNCHANGED rangeVars
    PROVE  /\ LedgerInv' /\ ScanInv' /\ KeptInv' /\ RowsInv'
           /\ RangeProven' <=> RangeProven
<1>1. LedgerInv' /\ ScanInv' /\ KeptInv'
  BY DEF rangeVars, LedgerInv, ScanInv, KeptInv
<1>2. RowsInv'
  BY DEF rangeVars, RowsInv, Unflawed, SlotOrderVerified, Newly, Signatures, Run
<1>3. RangeProven' <=> RangeProven
  BY DEF rangeVars, RangeProven, IntegrityVerified, SlotOrderVerified,
         BlockTimeOrderVerified, BoundReached
<1>. QED
  BY <1>1, <1>2, <1>3

LEMMA StepInv == Inv /\ [Next]_vars => Inv'
<1>. SUFFICES ASSUME Inv, [Next]_vars PROVE Inv'
  OBVIOUS
<1>. USE DEF Inv
<1>1. CASE LedgerGrows
  <2>1. Grow /\ UNCHANGED windowVars
    BY <1>1 DEF LedgerGrows
  <2>2. LedgerInv' /\ ScanInv' /\ KeptInv' /\ RowsInv'
    BY <2>1, LedgerStep, RowsKept
  <2>3. FetchInv'
    BY <2>1 DEF windowVars, FetchInv
  <2>4. StageInv'
    BY <2>1 DEF windowVars, StageInv, Grow, RangeProven, IntegrityVerified,
               SlotOrderVerified, BlockTimeOrderVerified, BoundReached
  <2>5. /\ head' = head /\ report' = report /\ head \in 0..Len(ledger)
        /\ Len(ledger) \in Nat
    BY <2>1, LedgerType DEF windowVars, Grow, ScanInv
  <2>6. \A i \in 1..head : ledger'[i] = ledger[i]
    BY <2>1, <2>5, LedgerStep
  <2>7. /\ {i \in 1..head : ledger'[i].kind = "target" /\ Start < ledger'[i].time
                             /\ ledger'[i].time <= End}
            = {i \in 1..head : Target(i) /\ Strictly(i)}
        /\ {i \in 1..head : ledger'[i].kind = "target" /\ Start <= ledger'[i].time
                             /\ ledger'[i].time <= End}
            = {i \in 1..head : Target(i) /\ Inclusively(i)}
    BY <2>6 DEF Target, Strictly, Inclusively
  <2>8. TraceExact'
    BY <2>5, <2>7 DEF TraceExact, Target, Strictly, Inclusively
  <2>9. ZeroExact'
    BY <2>5, <2>6 DEF ZeroExact, Target, Strictly
  <2>. QED
    BY <2>2, <2>3, <2>4, <2>8, <2>9
<1>2. CASE Scan
  <2>1. /\ stage = "scan" /\ UNCHANGED windowVars
        /\ PageFails \/ ReadEnd \/ \E page \in ServedPages : ReadPage(page)
    BY <1>2 DEF Scan, Page
  <2>2. ledger' = ledger
    BY <2>1 DEF PageFails, ReadEnd, ReadPage
  <2>3. LedgerInv'
    BY <2>2 DEF LedgerInv
  <2>4. ScanInv' /\ KeptInv' /\ RowsInv'
    BY <2>1, PageFailsStep, ReadEndStep, ReadPageStep
  <2>5. FetchInv' /\ StageInv' /\ TraceExact' /\ ZeroExact'
    BY <2>1 DEF windowVars, FetchInv, StageInv, TraceExact, ZeroExact, None
  <2>. QED
    BY <2>3, <2>4, <2>5
<1>3. CASE Unproven
  <2>1. LedgerInv' /\ ScanInv' /\ KeptInv' /\ RowsInv'
    BY <1>3, RangeUnchanged DEF Unproven
  <2>2. FetchInv' /\ StageInv' /\ TraceExact' /\ ZeroExact'
    BY <1>3 DEF Unproven, FetchInv, StageInv, TraceExact, ZeroExact, None
  <2>. QED
    BY <2>1, <2>2
<1>4. CASE StartFetch
  <2>1. LedgerInv' /\ ScanInv' /\ KeptInv' /\ RowsInv' /\ (RangeProven' <=> RangeProven)
    BY <1>4, RangeUnchanged DEF StartFetch
  <2>2. FetchInv' /\ StageInv' /\ TraceExact' /\ ZeroExact'
    BY <1>4, <2>1 DEF StartFetch, FetchInv, StageInv, TraceExact, ZeroExact, None
  <2>. QED
    BY <2>1, <2>2
<1>5. ASSUME NEW b \in Batch, BatchFails(b) \/ BatchGivesUp(b)
      PROVE  Inv'
  <2>1. LedgerInv' /\ ScanInv' /\ KeptInv' /\ RowsInv' /\ (RangeProven' <=> RangeProven)
    BY <1>5, RangeUnchanged DEF BatchFails, BatchGivesUp
  <2>2. stage = "fetch" /\ UNCHANGED <<stage, fetched, report>>
    BY <1>5 DEF BatchFails, BatchGivesUp
  <2>3. FetchInv' /\ StageInv' /\ TraceExact' /\ ZeroExact'
    BY <2>1, <2>2 DEF FetchInv, StageInv, TraceExact, ZeroExact, None
  <2>. QED
    BY <2>1, <2>3
<1>6. ASSUME NEW b \in Batch, BatchAnswers(b)
      PROVE  Inv'
  <2>1. LedgerInv' /\ ScanInv' /\ KeptInv' /\ RowsInv' /\ (RangeProven' <=> RangeProven)
    BY <1>6, RangeUnchanged DEF BatchAnswers
  <2>2. stage = "fetch" /\ UNCHANGED <<stage, report>>
    BY <1>6 DEF BatchAnswers
  <2>3. StageInv' /\ TraceExact' /\ ZeroExact'
    BY <2>1, <2>2 DEF StageInv, TraceExact, ZeroExact, None
  <2>4. FetchInv'
    <3>1. PICK body \in Bodies(Chunk(b)) :
            fetched' = [i \in Signature |->
              IF \E k \in DOMAIN Chunk(b) : Chunk(b)[k] = i
                THEN Answer(body, CHOOSE k \in DOMAIN Chunk(b) : Chunk(b)[k] = i)
                ELSE fetched[i]]
      BY <1>6 DEF BatchAnswers
    <3>2. ASSUME NEW i \in Signature PROVE fetched'[i].of \in {0, i}
      <4>1. CASE \E k \in DOMAIN Chunk(b) : Chunk(b)[k] = i
        <5>. DEFINE k == CHOOSE k \in DOMAIN Chunk(b) : Chunk(b)[k] = i
        <5>1. Chunk(b)[k] = i
          BY <4>1
        <5>2. fetched'[i] = Answer(body, k)
          BY <3>1, <4>1
        <5>. HIDE DEF k
        <5>. QED
          BY <5>1, <5>2, AnswerOwn
      <4>2. CASE ~\E k \in DOMAIN Chunk(b) : Chunk(b)[k] = i
        BY <3>1, <4>2 DEF FetchInv
      <4>. QED
        BY <4>1, <4>2
    <3>. QED
      BY <3>2 DEF FetchInv
  <2>. QED
    BY <2>1, <2>3, <2>4
<1>7. CASE Report
  <2>1. /\ LedgerInv' /\ ScanInv' /\ KeptInv' /\ RowsInv'
        /\ UNCHANGED rangeVars /\ fetched' = fetched
        /\ stage' = "done" /\ report' = ReportOf
    BY <1>7, RangeUnchanged DEF Report
  <2>2. RangeProven
    BY <1>7 DEF Report, StageInv
  <2>3. FetchInv' /\ StageInv'
    BY <2>1 DEF FetchInv, StageInv
  <2>4. /\ head' = head
        /\ \A i : /\ Target(i)' <=> Target(i)
                  /\ Strictly(i)' <=> Strictly(i)
                  /\ Inclusively(i)' <=> Inclusively(i)
    BY <2>1 DEF rangeVars, Target, Strictly, Inclusively
  <2>5. ReportOf.zero => ReportOf.complete
    BY DEF ReportOf
  <2>6. TraceExact' /\ ZeroExact'
    BY <2>1, <2>2, <2>4, <2>5, ReportSound DEF TraceExact, ZeroExact
  <2>. QED
    BY <2>1, <2>3, <2>6
<1>8. CASE UNCHANGED vars
  <2>1. UNCHANGED rangeVars /\ UNCHANGED windowVars
    BY <1>8 DEF vars, rangeVars, windowVars
  <2>2. LedgerInv' /\ ScanInv' /\ KeptInv' /\ RowsInv' /\ (RangeProven' <=> RangeProven)
    BY <2>1, RangeUnchanged
  <2>3. FetchInv' /\ StageInv'
    BY <2>1, <2>2 DEF windowVars, FetchInv, StageInv
  <2>4. TraceExact' /\ ZeroExact'
    BY <2>1 DEF windowVars, rangeVars, TraceExact, ZeroExact, Target, Strictly, Inclusively
  <2>. QED
    BY <2>2, <2>3, <2>4
<1>. QED
  BY <1>1, <1>2, <1>3, <1>4, <1>5, <1>6, <1>7, <1>8 DEF Next

\* The invariant holds of every state.
THEOREM Invariance == Spec => []Inv
BY InitInv, StepInv, PTL DEF Spec

-----------------------------------------------------------------------------
(* The theorems.                                                           *)

\* A proven range is the newest transactions of the address down to the start of the
\* window, whatever page the node mixed up, repeated or cut from a growing history.
THEOREM RangeCorrect == Spec => []RangeComplete
<1>1. Inv => RangeComplete
  BY Proven DEF Inv, RangeComplete
<1>. QED
  BY <1>1, Invariance, PTL

\* A complete trace holds all activity strictly inside the window and nothing else
\* than activity of the window, whichever batches failed, came late or mixed.
THEOREM TraceCorrect == Spec => []TraceExact
<1>1. Inv => TraceExact
  BY DEF Inv
<1>. QED
  BY <1>1, Invariance, PTL

\* A verified zero is one.
THEOREM ZeroCorrect == Spec => []ZeroExact
<1>1. Inv => ZeroExact
  BY DEF Inv
<1>. QED
  BY <1>1, Invariance, PTL

-----------------------------------------------------------------------------
(* The types.                                                              *)

\* The cursors are different signatures of the history as the first page showed
\* it, and every page before the last one read set one of them.
CursorInv ==
    /\ entries \in Seq(Row) /\ Len(entries) <= MaxSignatures
    /\ cursors \subseteq 1..head
    /\ before \in cursors \cup {0}
    /\ before = 0 => cursors = {}
    /\ phase = "paging" => Len(entries) < MaxSignatures /\ pages = Cardinality(cursors)
    /\ pages \in 0..(head + 1)
    /\ flaws \subseteq Flaw
    /\ startReached \in BOOLEAN /\ exhausted \in BOOLEAN

\* What was fetched, and the report.
WindowInv ==
    /\ pending \subseteq Batch
    /\ tries \in [Batch -> 0..Retries]
    /\ fetched \in [Signature -> Fetched]
    /\ report \in [complete : BOOLEAN, active : SUBSET Signature, zero : BOOLEAN]

\* Every page there may be has the size of the true one, and no signature newer
\* than the cursor.
LEMMA ServedType ==
    ASSUME LedgerInv, before \in 0..Len(ledger), Len(entries) \in Nat,
           Len(entries) < MaxSignatures, NEW page \in ServedPages
    PROVE  /\ page \in Seq(Row) /\ Len(page) = PageRows
           /\ \A k \in DOMAIN page :
                 /\ page[k].sig \in 1..Len(ledger)
                 /\ before # 0 => page[k].sig <= before
<1>0. /\ MaxSignatures \in Nat /\ Len(ledger) \in Nat /\ before \in Nat
  BY RangeAssumption, LedgerType
<1>. DEFINE Old(i) == i \in 1..Len(ledger) /\ (before # 0 => i <= before)
<1>1. /\ PageRows \in Nat /\ TruePage \in Seq(Row) /\ Len(TruePage) = PageRows
      /\ \A k \in 1..PageRows : TruePage[k] \in Row /\ Old(TruePage[k].sig)
  <2>1. /\ PageRows \in Nat /\ TruePage \in Seq(Row) /\ Len(TruePage) = PageRows
        /\ \A k \in 1..PageRows : /\ Newest + 1 - k \in 1..Len(ledger)
                                 /\ TruePage[k] = Raw(Newest + 1 - k)
    BY PageType
  <2>2. \A k \in 1..PageRows : TruePage[k].sig = Newest + 1 - k
    BY <2>1 DEF Raw
  <2>3. before # 0 => Newest = before - 1
    BY DEF Newest
  <2>4. \A k \in 1..PageRows : before # 0 => Newest + 1 - k <= before
    BY <2>1, <2>3, <1>0
  <2>. QED
    BY <2>1, <2>2, <2>4
<1>. HIDE DEF Old
<1>2. CASE page = TruePage
  BY <1>1, <1>2 DEF Old
<1>3. CASE page = Reverse(TruePage)
  <2>1. page = [k \in 1..PageRows |-> TruePage[(PageRows - k) + 1]]
    BY <1>1, <1>3 DEF Reverse
  <2>2. \A k \in 1..PageRows : (PageRows - k) + 1 \in 1..PageRows
    BY <1>1
  <2>3. /\ page \in Seq(Row) /\ Len(page) = PageRows /\ DOMAIN page = 1..PageRows
        /\ \A k \in 1..PageRows : Old(page[k].sig)
    BY <2>1, <2>2, <1>1
  <2>. QED
    BY <2>3 DEF Old
<1>4. CASE \E k \in DOMAIN TruePage : page = [TruePage EXCEPT ![k].time = NoTime]
  <2>1. PICK k \in DOMAIN TruePage : page = [TruePage EXCEPT ![k].time = NoTime]
    BY <1>4
  <2>2. TruePage[k] \in Row /\ [TruePage[k] EXCEPT !.time = NoTime] \in Row
    <3>1. TruePage[k] \in Row
      BY <1>1, <2>1
    <3>. QED
      BY <3>1 DEF Row
  <2>3. page \in Seq(Row) /\ Len(page) = PageRows /\ DOMAIN page = 1..PageRows
    BY <1>1, <2>1, <2>2
  <2>4. \A j \in 1..PageRows : page[j].sig = TruePage[j].sig
    BY <2>1, <2>2, <1>1 DEF Row
  <2>. QED
    BY <2>3, <2>4, <1>1 DEF Old
<1>5. CASE \E k \in DOMAIN TruePage, shape \in {"malformed", "unsigned"} :
              page = [TruePage EXCEPT ![k].shape = shape]
  <2>1. PICK k \in DOMAIN TruePage, shape \in {"malformed", "unsigned"} :
               page = [TruePage EXCEPT ![k].shape = shape]
    BY <1>5
  <2>2. TruePage[k] \in Row /\ [TruePage[k] EXCEPT !.shape = shape] \in Row
    <3>1. TruePage[k] \in Row
      BY <1>1, <2>1
    <3>. QED
      BY <3>1 DEF Row
  <2>3. page \in Seq(Row) /\ Len(page) = PageRows /\ DOMAIN page = 1..PageRows
    BY <1>1, <2>1, <2>2
  <2>4. \A j \in 1..PageRows : page[j].sig = TruePage[j].sig
    BY <2>1, <2>2, <1>1 DEF Row
  <2>. QED
    BY <2>3, <2>4, <1>1 DEF Old
<1>6. CASE before # 0 /\ TruePage # <<>> /\ page = <<Raw(before)>> \o Front(TruePage)
  <2>1. /\ Front(TruePage) \in Seq(Row) /\ Len(Front(TruePage)) = PageRows - 1
        /\ \A k \in 1..(PageRows - 1) : Front(TruePage)[k] = TruePage[k]
    BY <1>1, <1>6 DEF Front
  <2>2. Raw(before) \in Row /\ Old(Raw(before).sig)
    <3>1. before \in 1..Len(ledger)
      BY <1>0, <1>6
    <3>2. ledger[before] \in Tx
      BY <3>1 DEF LedgerInv
    <3>3. Raw(before) \in Row
      BY SMTT(30), <3>1, <3>2, <1>0, RangeAssumption DEF Raw, Row, Tx, LedgerInv
    <3>. QED
      BY <3>1, <3>3 DEF Raw, Old
  <2>3. /\ page \in Seq(Row) /\ Len(page) = PageRows /\ DOMAIN page = 1..PageRows
        /\ page[1] = Raw(before)
        /\ \A k \in 1..PageRows : k > 1 => page[k] = TruePage[k - 1] /\ k - 1 \in 1..PageRows
    BY <2>1, <2>2, <1>1, <1>6
  <2>4. \A k \in 1..PageRows : Old(page[k].sig)
    <3>1. \A k \in 1..PageRows : k = 1 \/ k > 1
      BY <1>1
    <3>. QED
      BY <3>1, <2>2, <2>3, <1>1
  <2>. QED
    BY <2>3, <2>4 DEF Old
<1>. QED
  BY <1>2, <1>3, <1>4, <1>5, <1>6 DEF ServedPages

\* A page read moves the cursor to a signature that was none before, or is the last.
LEMMA CursorMoves ==
    ASSUME LedgerInv, ScanInv, CursorInv, NEW page \in ServedPages, ReadPage(page)
    PROVE  CursorInv'
<1>. DEFINE rows == entries \o Kept(page)
            last == LastSignature(page)
<1>1. /\ phase = "paging" /\ page # <<>> /\ entries' = rows /\ head' = FirstCut
      /\ pages' = pages + 1 /\ flaws' \subseteq flaws \cup PageFlaws(page) \cup {"cursor_stalls"}
      /\ startReached' \in BOOLEAN /\ exhausted' \in BOOLEAN
      /\ \/ phase' = "scanned" /\ UNCHANGED <<before, cursors>>
         \/ /\ ~Stalls(page)
            /\ before' = last /\ cursors' = cursors \cup {last}
            /\ phase' = IF Len(rows) >= MaxSignatures THEN "scanned" ELSE "paging"
  BY DEF ReadPage, PastStart
<1>2. /\ Len(ledger) \in Nat /\ head \in 0..Len(ledger) /\ MaxSignatures \in Nat
      /\ entries \in Seq(Row) /\ Len(entries) \in Nat /\ Len(entries) < MaxSignatures
      /\ cursors \subseteq 1..head /\ before \in cursors \cup {0} /\ before \in 0..Len(ledger)
      /\ pages = Cardinality(cursors) /\ (before = 0 => cursors = {})
  BY <1>1, RangeAssumption, LedgerType DEF ScanInv, CursorInv
<1>3. /\ page \in Seq(Row) /\ Len(page) = PageRows
      /\ \A k \in DOMAIN page : page[k].sig \in 1..Len(ledger) /\ (before # 0 => page[k].sig <= before)
  BY <1>2, ServedType
<1>4. PageRows \in Nat /\ PageRows <= Limit /\ Limit \in Nat
  BY <1>2, PageType
<1>5. Limit <= MaxSignatures - Len(entries)
  BY <1>2, RangeAssumption DEF Limit
<1>6. Kept(page) \in Seq(Row) /\ Len(Kept(page)) \in Nat /\ Len(Kept(page)) <= Len(page)
  BY <1>3, KeptType
<1>7. rows \in Seq(Row) /\ Len(rows) \in Nat /\ Len(rows) <= MaxSignatures
  <2>1. rows \in Seq(Row) /\ Len(rows) = Len(entries) + Len(Kept(page))
    BY <1>2, <1>6
  <2>. QED
    BY <2>1, <1>2, <1>3, <1>4, <1>5, <1>6
<1>8. head' \in Nat /\ cursors \subseteq 1..head' /\ head \in Nat /\ head <= head'
  BY <1>1, <1>2 DEF FirstCut
<1>9. last \in 0..head'
  <2>1. Len(page) \in DOMAIN page
    BY <1>1, <1>3
  <2>2. page[Len(page)].sig \in 1..head'
    BY <2>1, <1>1, <1>2, <1>3 DEF FirstCut
  <2>. QED
    BY <2>2, <1>8 DEF LastSignature
<1>10. flaws' \subseteq Flaw
  BY <1>1 DEF CursorInv, PageFlaws, Flaw
<1>11. /\ IsFiniteSet(cursors) /\ Cardinality(cursors) \in Nat /\ Cardinality(cursors) <= head'
  <2>1. IsFiniteSet(1..head') /\ Cardinality(1..head') = head'
    BY <1>8, FS_Interval
  <2>. QED
    BY <2>1, <1>8, FS_Subset, FS_CardinalityType
<1>. HIDE DEF rows, last
<1>12. CASE phase' = "scanned" /\ UNCHANGED <<before, cursors>>
  <2>1. pages' \in 0..(head' + 1)
    BY <1>1, <1>2, <1>8, <1>11
  <2>. QED
    BY <2>1, <1>1, <1>2, <1>7, <1>8, <1>10, <1>12 DEF CursorInv
<1>13. CASE /\ ~Stalls(page)
            /\ before' = last /\ cursors' = cursors \cup {last}
            /\ phase' = IF Len(rows) >= MaxSignatures THEN "scanned" ELSE "paging"
  <2>1. last \notin cursors /\ last # 0
    BY <1>13 DEF Stalls, last
  <2>2. Cardinality(cursors') = Cardinality(cursors) + 1
    BY <2>1, <1>11, <1>13, FS_AddElement
  <2>3. cursors' \subseteq 1..head'
    BY <2>1, <1>8, <1>9, <1>13
  <2>4. pages' \in 0..(head' + 1) /\ pages' = Cardinality(cursors')
    BY <2>2, <1>1, <1>2, <1>8, <1>11
  <2>5. phase' = "paging" => Len(rows) < MaxSignatures
    BY <1>2, <1>7, <1>13
  <2>. QED
    BY <2>1, <2>3, <2>4, <2>5, <1>1, <1>7, <1>10, <1>13 DEF CursorInv
<1>. QED
  BY <1>1, <1>12, <1>13

\* So do the other steps of a scan.
LEMMA CursorStep ==
    ASSUME LedgerInv, ScanInv, CursorInv,
           Grow \/ PageFails \/ Page \/ UNCHANGED rangeVars
    PROVE  CursorInv'
<1>1. CASE Grow \/ UNCHANGED rangeVars
  BY <1>1 DEF Grow, rangeVars, CursorInv
<1>2. CASE PageFails
  BY <1>2 DEF PageFails, CursorInv, Flaw
<1>3. CASE ReadEnd
  <2>1. /\ phase = "paging" /\ phase' = "scanned" /\ head' = FirstCut /\ pages' = pages + 1
        /\ exhausted' = TRUE
        /\ UNCHANGED <<ledger, entries, before, cursors, flaws, startReached>>
    BY <1>3 DEF ReadEnd
  <2>2. /\ head \in 0..Len(ledger) /\ Len(ledger) \in Nat
        /\ cursors \subseteq 1..head /\ pages = Cardinality(cursors)
        /\ (before = 0 => cursors = {})
    BY <2>1, LedgerType DEF ScanInv, CursorInv
  <2>3. head' \in Nat /\ head <= head' /\ head \in Nat
    BY <2>1, <2>2 DEF FirstCut
  <2>4. Cardinality(cursors) \in Nat /\ Cardinality(cursors) <= head
    <3>1. PICK n \in Nat : n = head
      BY <2>3
    <3>2. IsFiniteSet(1..n) /\ Cardinality(1..n) = n
      BY FS_Interval
    <3>. QED
      BY <3>1, <3>2, <2>2, FS_Subset, FS_CardinalityType
  <2>5. pages' \in 0..(head' + 1) /\ cursors' \subseteq 1..head'
    BY <2>1, <2>2, <2>3, <2>4
  <2>. QED
    BY <2>1, <2>5 DEF CursorInv
<1>4. CASE \E page \in ServedPages : ReadPage(page)
  BY <1>4, CursorMoves
<1>. QED
  BY <1>1, <1>2, <1>3, <1>4 DEF Page

\* The fetched transactions, and the report.
LEMMA WindowStep ==
    ASSUME Inv, CursorInv, WindowInv, [Next]_vars
    PROVE  WindowInv'
<1>1. CASE LedgerGrows \/ Scan \/ Unproven \/ UNCHANGED vars
  BY <1>1 DEF LedgerGrows, Scan, Unproven, vars, windowVars, WindowInv
<1>2. CASE StartFetch
  BY <1>2 DEF StartFetch, Batches, WindowInv
<1>3. ASSUME NEW b \in Batch, BatchFails(b) PROVE WindowInv'
  <2>1. tries[b] + 1 \in 0..Retries
    BY <1>3, WindowAssumption DEF BatchFails, WindowInv
  <2>2. tries' \in [Batch -> 0..Retries]
    BY <2>1, <1>3 DEF BatchFails, WindowInv
  <2>. QED
    BY <2>2, <1>3 DEF BatchFails, WindowInv
<1>4. ASSUME NEW b \in Batch, BatchGivesUp(b) PROVE WindowInv'
  BY <1>4 DEF BatchGivesUp, WindowInv
<1>5. ASSUME NEW b \in Batch, BatchAnswers(b) PROVE WindowInv'
  <2>1. PICK body \in Bodies(Chunk(b)) :
            fetched' = [i \in Signature |->
              IF \E k \in DOMAIN Chunk(b) : Chunk(b)[k] = i
                THEN Answer(body, CHOOSE k \in DOMAIN Chunk(b) : Chunk(b)[k] = i)
                ELSE fetched[i]]
    BY <1>5 DEF BatchAnswers
  <2>2. ASSUME NEW i \in Signature PROVE fetched'[i] \in Fetched
    <3>1. CASE \E k \in DOMAIN Chunk(b) : Chunk(b)[k] = i
      <4>. DEFINE k == CHOOSE k \in DOMAIN Chunk(b) : Chunk(b)[k] = i
      <4>1. k \in DOMAIN Chunk(b) /\ Chunk(b)[k] = i
        BY <3>1
      <4>2. fetched'[i] = Answer(body, k)
        BY <2>1, <3>1
      <4>. HIDE DEF k
      <4>3. Answer(body, k) \in Fetched
        BY <4>1, AnswerOwn
      <4>. QED
        BY <4>2, <4>3
    <3>2. CASE ~\E k \in DOMAIN Chunk(b) : Chunk(b)[k] = i
      BY <2>1, <3>2 DEF WindowInv
    <3>. QED
      BY <3>1, <3>2
  <2>3. fetched' \in [Signature -> Fetched]
    BY <2>1, <2>2
  <2>. QED
    BY <2>3, <1>5 DEF BatchAnswers, WindowInv
<1>6. CASE Report
  <2>1. WantedSet \subseteq Signature
    <3>1. ASSUME NEW k \in DOMAIN entries PROVE entries[k].sig \in Signature
      <4>1. entries[k] \in Row
        BY DEF CursorInv
      <4>. QED
        BY <4>1 DEF Row, Signature
    <3>. QED
      BY <3>1 DEF WantedSet
  <2>2. AllVerified \in BOOLEAN /\ (AllVerified /\ \A i \in WantedSet : ~Active(i)) \in BOOLEAN
    BY DEF AllVerified
  <2>3. {i \in WantedSet : Active(i)} \in SUBSET Signature
    BY <2>1
  <2>4. ReportOf \in [complete : BOOLEAN, active : SUBSET Signature, zero : BOOLEAN]
    BY <2>2, <2>3 DEF ReportOf
  <2>. QED
    BY <2>4, <1>6 DEF Report, WindowInv
<1>. QED
  BY <1>1, <1>2, <1>3, <1>4, <1>5, <1>6 DEF Next

\* The state is of its types: whatever pages the node serves, no more rows are kept
\* than max_signatures, and no more pages are fetched than the history had
\* signatures and one, because every page sets a new cursor (seen_cursors).
THEOREM TypeCorrect == Spec => []TypeOK
<1>1. Init => CursorInv /\ WindowInv
  <2>. SUFFICES ASSUME Init PROVE CursorInv /\ WindowInv
    OBVIOUS
  <2>1. /\ entries = <<>> /\ cursors = {} /\ before = 0 /\ pages = 0 /\ head = 0 /\ flaws = {}
        /\ startReached = FALSE /\ exhausted = FALSE
    BY DEF Init, RangeInit
  <2>2. MaxSignatures \in Nat \ {0} /\ Cardinality({}) = 0
    BY RangeAssumption, FS_EmptySet
  <2>3. CursorInv
    <3>1. entries \in Seq(Row) /\ Len(entries) = 0 /\ 0 <= MaxSignatures /\ 0 < MaxSignatures
      BY <2>1, <2>2
    <3>2. cursors \subseteq 1..head /\ pages \in 0..(head + 1) /\ pages = Cardinality(cursors)
      BY <2>1, <2>2
    <3>. QED
      BY <2>1, <3>1, <3>2 DEF CursorInv
  <2>4. Unavailable \in Fetched /\ 0 \in 0..Retries
    BY RangeAssumption, WindowAssumption DEF Unavailable, Fetched
  <2>5. None \in [complete : BOOLEAN, active : SUBSET Signature, zero : BOOLEAN]
    BY DEF None
  <2>6. WindowInv
    BY <2>4, <2>5 DEF Init, WindowInv
  <2>. QED
    BY <2>3, <2>6
<1>2. Inv /\ CursorInv /\ WindowInv /\ [Next]_vars => CursorInv' /\ WindowInv'
  <2>. SUFFICES ASSUME Inv, CursorInv, WindowInv, [Next]_vars PROVE CursorInv' /\ WindowInv'
    OBVIOUS
  <2>1. Grow \/ PageFails \/ Page \/ UNCHANGED rangeVars
    BY DEF Next, LedgerGrows, Scan, Unproven, StartFetch, BatchFails, BatchGivesUp,
           BatchAnswers, Report, vars, rangeVars
  <2>2. CursorInv'
    BY <2>1, CursorStep DEF Inv
  <2>. QED
    BY <2>2, WindowStep
<1>3. Inv /\ CursorInv /\ WindowInv => TypeOK
  <2>. SUFFICES ASSUME Inv, CursorInv, WindowInv PROVE TypeOK
    OBVIOUS
  <2>1. /\ ledger \in Seq(Tx) /\ Len(ledger) <= MaxLedger /\ Len(ledger) \in Nat
        /\ MaxLedger \in Nat /\ head \in 0..Len(ledger) /\ phase \in {"paging", "scanned"}
        /\ stage \in {"scan", "fetch", "done"}
    BY LedgerType, RangeAssumption DEF Inv, LedgerInv, ScanInv, StageInv
  <2>2. head \in 0..MaxLedger /\ cursors \subseteq 1..MaxLedger /\ before \in 0..MaxLedger
    BY <2>1 DEF CursorInv
  <2>3. RangeTypeOK
    BY <2>1, <2>2 DEF CursorInv, RangeTypeOK
  <2>. QED
    BY <2>1, <2>3 DEF WindowInv, TypeOK
<1>. QED
  BY <1>1, <1>2, <1>3, Invariance, PTL DEF Spec
=============================================================================
