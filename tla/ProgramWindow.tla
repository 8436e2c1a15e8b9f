---------------------------- MODULE ProgramWindow ----------------------------
(***************************************************************************)
(* prove_xdex_program_asset_window_activity                                *)
(* (services/cmis_xdex_program_window_activity.py): scan the history of    *)
(* the XDEX program across a window, fetch every successful transaction of *)
(* the window in JSON-RPC batches, verify each against the row it came     *)
(* from, and authorise "zero activity of this mint" only when nothing is   *)
(* missing.                                                                *)
(*                                                                         *)
(* Token deltas are abstracted to whether a transaction moves the target   *)
(* mint (kind "target").                                                   *)
(***************************************************************************)
EXTENDS HistoryRange

CONSTANTS
    BatchSize,  \* batch_fetch_size
    Retries     \* attempts per batch

ASSUME WindowAssumption ==
    /\ Start < End
    /\ BatchSize \in Nat \ {0}
    /\ Retries \in Nat \ {0}

VARIABLES
    stage,      \* "scan", then "fetch", then "done"
    pending,    \* batches whose thread has not returned
    tries,      \* attempts each batch has used
    fetched,    \* per signature, the transaction _batch_fetch_transactions gave
    report      \* what was returned, None before

vars == <<ledger, phase, head, entries, before, cursors, pages, flaws,
          startReached, exhausted, stage, pending, tries, fetched, report>>
windowVars == <<stage, pending, tries, fetched, report>>

Signature == 1..MaxLedger
Batch == 1..MaxLedger

\* A getTransaction result: which transaction it describes and whether it is
\* fit to be verified, sits in another slot than its row, or does not verify.
\* "of" is 0 when there is none.
Fetched == [of : 0..MaxLedger, state : {"sound", "moved", "unverifiable"}]
Unavailable == [of |-> 0, state |-> "sound"]

None == [complete |-> FALSE, active |-> {}, zero |-> FALSE]

TypeOK ==
    /\ RangeTypeOK
    /\ stage \in {"scan", "fetch", "done"}
    /\ pending \subseteq Batch
    /\ tries \in [Batch -> 0..Retries]
    /\ fetched \in [Signature -> Fetched]
    /\ report \in [complete : BOOLEAN, active : SUBSET Signature, zero : BOOLEAN]

Init ==
    /\ RangeInit
    /\ stage = "scan"
    /\ pending = {}
    /\ tries = [b \in Batch |-> 0]
    /\ fetched = [i \in Signature |-> Unavailable]
    /\ report = None
-----------------------------------------------------------------------------
(* Which transactions are fetched.                                         *)

InWindow(row) == row.time # NoTime /\ Start <= row.time /\ row.time <= End

Chosen(row) == InWindow(row) /\ ledger[row.sig].kind # "failed"

\* successful_rows, newest first.
Wanted == SelectSeq(entries, Chosen)

Batches == {b \in Batch : (b - 1) * BatchSize < Len(Wanted)}

\* The signatures of batch b; the JSON-RPC id of each is its position.
Chunk(b) ==
    LET first == (b - 1) * BatchSize
        size == IF Len(Wanted) - first < BatchSize
                  THEN Len(Wanted) - first ELSE BatchSize
    IN [k \in 1..size |-> Wanted[first + k].sig]

\* Bodies a node may answer a batch with: some of the items, in any order, each
\* the transaction asked for or nothing usable.
Item(chunk) ==
    UNION {{[id |-> k, tx |-> Unavailable]} \cup
           {[id |-> k, tx |-> [of |-> chunk[k], state |-> s]] :
                s \in {"sound", "moved", "unverifiable"}} : k \in DOMAIN chunk}

Bodies(chunk) ==
    {body \in SeqOf(Item(chunk), Len(chunk)) :
        \A j, k \in DOMAIN body : body[j].id = body[k].id => j = k}

\* Mutant: the n-th item answers the n-th request.
AnswerByPosition(body, k) ==
    IF k \in DOMAIN body THEN body[k].tx ELSE Unavailable

\* indexed.get(k)
Answer(body, k) ==
    IF \E j \in DOMAIN body : body[j].id = k
      THEN body[CHOOSE j \in DOMAIN body : body[j].id = k].tx
      ELSE Unavailable
-----------------------------------------------------------------------------
\* The scanner runs; nothing else moves.
Scan ==
    /\ stage = "scan"
    /\ PageFails \/ Page
    /\ UNCHANGED windowVars

LedgerGrows == Grow /\ UNCHANGED windowVars

\* The range is not proven: report that and stop.
Unproven ==
    /\ stage = "scan" /\ phase = "scanned"
    /\ ~RangeProven
    /\ stage' = "done"
    /\ UNCHANGED <<rangeVars, pending, tries, fetched, report>>

\* The batches are handed to the thread pool.
StartFetch ==
    /\ stage = "scan" /\ phase = "scanned"
    /\ RangeProven
    /\ stage' = "fetch"
    /\ pending' = Batches
    /\ UNCHANGED <<rangeVars, tries, fetched, report>>

\* A call raises, is refused, or its body is not a batch response.
BatchFails(b) ==
    /\ stage = "fetch" /\ b \in pending
    /\ tries[b] < Retries
    /\ tries' = [tries EXCEPT ![b] = @ + 1]
    /\ UNCHANGED <<rangeVars, stage, pending, fetched, report>>

\* Mutant: one attempt too many is waited for.
BatchWaitsOn(b) ==
    /\ stage = "fetch" /\ b \in pending
    /\ tries[b] > Retries
    /\ pending' = pending \ {b}
    /\ UNCHANGED <<rangeVars, stage, tries, fetched, report>>

\* Every attempt failed: the signatures of the batch stay unavailable.
BatchGivesUp(b) ==
    /\ stage = "fetch" /\ b \in pending
    /\ tries[b] = Retries
    /\ pending' = pending \ {b}
    /\ UNCHANGED <<rangeVars, stage, tries, fetched, report>>

BatchAnswers(b) ==
    /\ stage = "fetch" /\ b \in pending
    /\ tries[b] < Retries
    /\ \E body \in Bodies(Chunk(b)) :
        fetched' = [i \in Signature |->
            IF \E k \in DOMAIN Chunk(b) : Chunk(b)[k] = i
              THEN Answer(body, CHOOSE k \in DOMAIN Chunk(b) : Chunk(b)[k] = i)
              ELSE fetched[i]]
    /\ pending' = pending \ {b}
    /\ UNCHANGED <<rangeVars, stage, tries, report>>
-----------------------------------------------------------------------------
(* The verification of what was fetched, and the report.                   *)

WantedSet == {entries[k].sig : k \in {k \in DOMAIN entries : Chosen(entries[k])}}

\* A transaction that is there, verifies as succeeded and has the slot and the
\* time of its row.
Verified(i) ==
    LET tx == fetched[i]
    IN /\ tx.of # 0
       /\ tx.state = "sound"
       /\ ledger[tx.of].kind # "failed"
       /\ ledger[tx.of].slot = ledger[i].slot
       /\ ledger[tx.of].time = ledger[i].time

Active(i) == Verified(i) /\ ledger[fetched[i].of].kind = "target"

\* Mutant: a signature nobody could fetch is skipped.
AllVerifiedButUnavailable ==
    \A i \in WantedSet : fetched[i].of = 0 \/ Verified(i)

\* all_successful_transactions_verified
AllVerified == \A i \in WantedSet : Verified(i)

ReportOf ==
    [complete |-> AllVerified,
     active |-> {i \in WantedSet : Active(i)},
     zero |-> AllVerified /\ \A i \in WantedSet : ~Active(i)]

Report ==
    /\ stage = "fetch" /\ pending = {}
    /\ report' = ReportOf
    /\ stage' = "done"
    /\ UNCHANGED <<rangeVars, pending, tries, fetched>>

Next ==
    \/ LedgerGrows
    \/ Scan
    \/ Unproven
    \/ StartFetch
    \/ \E b \in Batch : BatchFails(b) \/ BatchGivesUp(b) \/ BatchAnswers(b)
    \/ Report

Spec == Init /\ [][Next]_vars

\* Every network call returns or times out, and the caller's thread runs on.
Progress ==
    Scan \/ Unproven \/ StartFetch \/ Report
        \/ \E b \in Batch : BatchFails(b) \/ BatchGivesUp(b) \/ BatchAnswers(b)

FairSpec == Spec /\ WF_vars(Progress)
-----------------------------------------------------------------------------
(* Properties.                                                             *)

Strictly(i) == Start < ledger[i].time /\ ledger[i].time <= End
Inclusively(i) == Start <= ledger[i].time /\ ledger[i].time <= End
Target(i) == ledger[i].kind = "target"

\* range_proven: whatever the node mixed into the pages, the rows are exactly
\* the newest transactions of the address in order, down to some point at or
\* before the start time, or to the first one the node has.
RangeComplete ==
    RangeProven =>
        /\ Len(entries) <= head
        /\ \A k \in DOMAIN entries :
            /\ entries[k].slot = ledger[head + 1 - k].slot
            /\ entries[k].time = ledger[head + 1 - k].time
        /\ {entries[k].sig : k \in DOMAIN entries} = (head + 1 - Len(entries))..head
        /\ \A i \in 1..(head - Len(entries)) : ledger[i].time <= Start

\* window_trace_complete_verified: the transactions reported as activity of the
\* mint are all those of the window, from just after its start to its end,
\* and nothing that is not activity in the window.
TraceExact ==
    report.complete =>
        /\ {i \in 1..head : Target(i) /\ Strictly(i)} \subseteq report.active
        /\ report.active \subseteq {i \in 1..head : Target(i) /\ Inclusively(i)}

\* program_scoped_asset_activity_zero_verified: no failed page, missing batch
\* item, exhausted retry or moved transaction lets activity pass as zero.
ZeroExact ==
    report.zero => \A i \in 1..head : Strictly(i) => ~Target(i)

\* What the module says of itself: the window is exact, and a fetch gap never
\* authorises zero.  Membership is Start <= time <= End.
ZeroExactWindow ==
    report.zero => \A i \in 1..head : Inclusively(i) => ~Target(i)

\* Whatever the node answers, the scan ends and a report is returned.
ReportReturned == <>(stage = "done")
=============================================================================
