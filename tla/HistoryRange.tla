---------------------------- MODULE HistoryRange ----------------------------
(***************************************************************************)
(* scan_address_history_range (providers/x1/history_range.py): it pages    *)
(* the signatures of one address newest to oldest until a start time is    *)
(* reached or the history ends, and says whether the range is proven.      *)
(*                                                                         *)
(* The ledger is the address's history, oldest first; a signature is a     *)
(* position in it.  The RPC node may answer a page with an error, a row    *)
(* without a block time, a row that does not parse, rows in the wrong      *)
(* order or a row it served before.  It never leaves rows out of a page.   *)
(***************************************************************************)
EXTENDS Integers, FiniteSets, Sequences, SequencesExt

CONSTANTS
    PageSize, MaxSignatures,    \* page_size and max_signatures
    Start, End,                 \* start_epoch and end_epoch, in seconds
    NoTime,                     \* a blockTime of null
    MaxLedger, MaxSlot, MaxTime \* bounds: ledger length, slots, block times

ASSUME RangeAssumption ==
    /\ PageSize \in Nat \ {0} /\ MaxSignatures \in Nat \ {0}
    /\ Start \in Nat /\ End \in Nat /\ Start <= End
    /\ NoTime \notin Int
    /\ MaxLedger \in Nat /\ MaxSlot \in Nat /\ MaxTime \in Nat

VARIABLES
    ledger,         \* the address's transactions, oldest first
    phase,          \* "paging" until the loop breaks, then "scanned"
    head,           \* length of the ledger when the first page was cut
    entries,        \* the rows kept so far
    before,         \* the cursor of the next page, 0 for None
    cursors,        \* seen_cursors
    pages,          \* pages_fetched
    flaws,          \* which of the four integrity counters are not zero
    startReached,   \* start_boundary_reached
    exhausted       \* history_exhausted

rangeVars == <<ledger, phase, head, entries, before, cursors, pages, flaws,
               startReached, exhausted>>

Flaw == {"rpc_errors", "malformed_entries", "duplicate_signatures",
         "cursor_stalls"}

\* A transaction: it failed, succeeded, or succeeded and moved the target mint.
Tx == [slot : 0..MaxSlot, time : 0..MaxTime,
       kind : {"failed", "plain", "target"}]

\* Slots and block times never decrease; a slot has one block time.
Follows(new, old) ==
    /\ new.slot >= old.slot
    /\ new.time >= old.time
    /\ new.slot = old.slot => new.time = old.time

\* A row of a page.  An "unsigned" row is malformed and has no signature.
Row == [sig : 1..MaxLedger, slot : 0..MaxSlot, time : 0..MaxTime \cup {NoTime},
        shape : {"valid", "malformed", "unsigned"}]

RangeTypeOK ==
    /\ ledger \in Seq(Tx) /\ Len(ledger) <= MaxLedger
    /\ phase \in {"paging", "scanned"}
    /\ head \in 0..MaxLedger
    /\ entries \in Seq(Row) /\ Len(entries) <= MaxSignatures
    /\ before \in 0..MaxLedger
    /\ cursors \subseteq 1..MaxLedger
    /\ pages \in 0..(head + 1)    \* seen cursors end the loop
    /\ flaws \subseteq Flaw
    /\ startReached \in BOOLEAN /\ exhausted \in BOOLEAN

RangeInit ==
    /\ ledger = <<>>
    /\ phase = "paging"
    /\ head = 0
    /\ entries = <<>>
    /\ before = 0
    /\ cursors = {}
    /\ pages = 0
    /\ flaws = {}
    /\ startReached = FALSE
    /\ exhausted = FALSE
-----------------------------------------------------------------------------
\* A transaction is finalised.
Grow ==
    /\ Len(ledger) < MaxLedger
    /\ \E tx \in Tx :
        /\ ledger # <<>> => Follows(tx, ledger[Len(ledger)])
        /\ ledger' = Append(ledger, tx)
    /\ UNCHANGED <<phase, head, entries, before, cursors, pages, flaws,
                   startReached, exhausted>>
-----------------------------------------------------------------------------
(* What getSignaturesForAddress serves.                                    *)

Raw(i) == [sig |-> i, slot |-> ledger[i].slot, time |-> ledger[i].time,
           shape |-> "valid"]

Newest == IF before = 0 THEN Len(ledger) ELSE before - 1

Limit == IF PageSize <= MaxSignatures - Len(entries)
           THEN PageSize ELSE MaxSignatures - Len(entries)

TruePage == [k \in 1..(IF Limit <= Newest THEN Limit ELSE Newest)
                |-> Raw(Newest + 1 - k)]

\* The pages a node may answer with: the true one, or one with a fault.
ServedPages ==
    {TruePage, Reverse(TruePage)}
    \cup {[TruePage EXCEPT ![k].time = NoTime] : k \in DOMAIN TruePage}
    \cup {[TruePage EXCEPT ![k].shape = s] :
            k \in DOMAIN TruePage, s \in {"malformed", "unsigned"}}
    \cup (IF before = 0 \/ TruePage = <<>> THEN {}
            ELSE {<<Raw(before)>> \o Front(TruePage)})
-----------------------------------------------------------------------------
(* The scan.                                                               *)

Known == {entries[k].sig : k \in DOMAIN entries}

\* The rows at some places of a page, in their order.
RowsAt(page, places) ==
    [k \in 1..Cardinality(places) |->
        page[CHOOSE i \in places : Cardinality({j \in places : j < i}) = k - 1]]

\* Rows the loop over a batch appends.
Kept(page) ==
    RowsAt(page, {k \in DOMAIN page : page[k].shape = "valid" /\ page[k].sig \notin Known})

\* Mutant: a row that does not parse is skipped and not counted.
PageFlawsDuplicatesOnly(page) ==
    {f \in {"duplicate_signatures"} : \E k \in DOMAIN page :
            page[k].shape = "valid" /\ page[k].sig \in Known}

PageFlaws(page) ==
    {f \in {"malformed_entries"} : \E k \in DOMAIN page : page[k].shape # "valid"}
    \cup {f \in {"duplicate_signatures"} : \E k \in DOMAIN page :
            page[k].shape = "valid" /\ page[k].sig \in Known}

\* min(valid_times) <= start_epoch
PastStart(rows) ==
    \E k \in DOMAIN rows : rows[k].time # NoTime /\ rows[k].time <= Start

\* last_raw_signature, 0 when it is None.
LastSignature(page) ==
    IF page[Len(page)].shape = "unsigned" THEN 0 ELSE page[Len(page)].sig

\* Mutant: only a missing signature stalls.
StallsOnlyUnsigned(page) == LastSignature(page) = 0

\* The page did not move the cursor.
Stalls(page) == LastSignature(page) \in cursors \cup {0, before}

\* Only the first page is asked for without a cursor.
FirstCut == IF before = 0 THEN Len(ledger) ELSE head

\* The call raises, or its result is not a list.
PageFails ==
    /\ phase = "paging"
    /\ flaws' = flaws \cup {"rpc_errors"}
    /\ phase' = "scanned"
    /\ UNCHANGED <<ledger, head, entries, before, cursors, pages, startReached,
                   exhausted>>

\* A page without a row: there is nothing older.
ReadEnd ==
    /\ phase = "paging"
    /\ TruePage = <<>>
    /\ exhausted' = TRUE
    /\ phase' = "scanned"
    /\ head' = FirstCut
    /\ pages' = pages + 1
    /\ UNCHANGED <<ledger, entries, before, cursors, flaws, startReached>>

\* One pass of the loop over a page with rows.
ReadPage(page) ==
    LET rows == entries \o Kept(page)
        short == Len(page) < Limit
    IN /\ phase = "paging"
       /\ page # <<>>
       /\ entries' = rows
       /\ startReached' = PastStart(rows)
       /\ exhausted' = (~PastStart(rows) /\ short)
       /\ IF PastStart(rows) \/ short
            THEN /\ flaws' = flaws \cup PageFlaws(page)
                 /\ phase' = "scanned"
                 /\ UNCHANGED <<before, cursors>>
            ELSE IF Stalls(page)
            THEN /\ flaws' = flaws \cup PageFlaws(page) \cup {"cursor_stalls"}
                 /\ phase' = "scanned"
                 /\ UNCHANGED <<before, cursors>>
            ELSE /\ flaws' = flaws \cup PageFlaws(page)
                 /\ before' = LastSignature(page)
                 /\ cursors' = cursors \cup {LastSignature(page)}
                 /\ phase' = IF Len(rows) >= MaxSignatures
                               THEN "scanned" ELSE "paging"
       /\ head' = FirstCut
       /\ pages' = pages + 1
       /\ UNCHANGED ledger

Page == ReadEnd \/ \E page \in ServedPages : ReadPage(page)

RangeNext == Grow \/ PageFails \/ Page
-----------------------------------------------------------------------------
(* What the scan reports.                                                  *)

BoundReached ==
    Len(entries) >= MaxSignatures /\ ~startReached /\ ~exhausted

SlotOrderVerified ==
    \A j, k \in DOMAIN entries : j <= k => entries[j].slot >= entries[k].slot

BlockTimeOrderVerified ==
    /\ entries # <<>>
    /\ \A k \in DOMAIN entries : entries[k].time # NoTime
    /\ \A j, k \in DOMAIN entries : j <= k => entries[j].time >= entries[k].time

IntegrityVerified ==
    /\ phase = "scanned"
    /\ flaws = {}
    /\ SlotOrderVerified
    /\ BlockTimeOrderVerified

RangeProven ==
    IntegrityVerified /\ (startReached \/ exhausted) /\ ~BoundReached
=============================================================================
