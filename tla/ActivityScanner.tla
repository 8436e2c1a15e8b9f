--------------------------- MODULE ActivityScanner ---------------------------
(***************************************************************************)
(* The X1 token-activity scanner: scan_token_activity and the SQLite cache *)
(* it keeps (liquidity_scout/providers/x1/activity_scanner.py), together   *)
(* with the coverage decision of liquidity_scout/tokenomics/activity.py.   *)
(*                                                                         *)
(* A scan pages the address history newest-to-oldest, keeps the successful *)
(* signatures, skips those whose cache row is strictly validated, fetches  *)
(* the others, commits once, reads the window back and publishes a report  *)
(* in which net issuance is a verified fact or is withheld.  Several       *)
(* scanners share the database and the ledger grows while they run.        *)
(*                                                                         *)
(* A signature is the position of its transaction in the ledger (larger is *)
(* newer), so a selection, which the code keeps newest first, is a set.    *)
(* Counts that the code only compares with zero are Booleans; the count of *)
(* retrieved transactions is the set it counts.                            *)
(***************************************************************************)
EXTENDS Integers, Sequences

CONSTANTS
    Scanner,    \* processes running scan_token_activity on the same database
    Event,      \* parsed mint and burn events of one transaction
    PageLimit,  \* entries asked for per getSignaturesForAddress call (1000)
    Bounds,     \* values of max_signatures callers pass, NoBound for None
    NoBound,
    NoTime,     \* an absent or non-integer blockTime
    Nobody,     \* no process holds the SQLite write lock
    MaxChain,   \* bound: length of the ledger
    MaxTime,    \* bound: block times, in seconds
    MaxScans    \* bound: no scan starts once so many are recorded

ASSUME ScannerAssumption ==
    /\ PageLimit \in Nat \ {0}
    /\ Bounds \subseteq Nat \cup {NoBound}
    /\ NoBound \notin Int
    /\ NoTime \notin Int
    /\ Nobody \notin Scanner
    /\ MaxChain \in Nat
    /\ MaxTime \in Nat
    /\ MaxScans \in Nat

VARIABLES
    chain,      \* the address history, oldest first
    disk,       \* the committed cache: one record per signature
    work,       \* what the open write transaction sees, else equal to disk
    lock,       \* who has that write transaction open
    phase,      \* where each scanner is in scan_token_activity
    bound,      \* its max_signatures
    remaining,  \* max_signatures - examined; NoBound for None
    head,       \* length of the ledger its first page was cut from
    cursor,     \* oldest entry examined, the next "before"; 0 for None
    selected,   \* signatures selected so far
    malformed,  \* malformed_history_entries > 0
    selError,   \* selection_rpc_errors > 0
    ended,      \* history_exhausted \/ reached_bound
    todo,       \* selected signatures the fetch loop has not visited
    got,        \* retrieved signatures: cache hits and fetched ones
    txError,    \* transaction_errors > 0
    events,     \* _load_window_events: what was read back for the window
    times,      \* _load_window_block_times: likewise
    scans       \* rows of token_activity_scans, with the report they belong to

dbVars    == <<disk, work, lock>>
pageVars  == <<bound, remaining, head, cursor, selected, malformed, selError, ended>>
fetchVars == <<todo, got, txError>>
readVars  == <<events, times>>
vars == <<chain, dbVars, phase, pageVars, fetchVars, readVars, scans>>

Pos    == 1..MaxChain
Time   == 0..MaxTime
Stamp  == Time \cup {NoTime}
Tx     == {tx \in [time : Time, ok : BOOLEAN, events : SUBSET Event] :
              tx.ok \/ tx.events = {}}
Status == {"absent", "unverified", "verified"}
Row    == [status : Status, time : Stamp, events : SUBSET Event]
Report == [head : 0..MaxChain, low : 1..(MaxChain + 1), selected : SUBSET Pos,
           verified : BOOLEAN, events : [Pos -> SUBSET Event],
           timed : BOOLEAN, start : Stamp, end : Stamp]
Phase  == {"idle", "page", "cache", "fetch", "events", "times", "record"}

TypeOK ==
    /\ chain \in Seq(Tx) /\ Len(chain) <= MaxChain
    /\ disk \in [Pos -> Row] /\ work \in [Pos -> Row]
    /\ lock \in Scanner \cup {Nobody}
    /\ phase \in [Scanner -> Phase]
    /\ bound \in [Scanner -> Nat \cup {NoBound}]
    /\ remaining \in [Scanner -> Nat \cup {NoBound}]
    /\ head \in [Scanner -> 0..MaxChain]
    /\ cursor \in [Scanner -> 0..MaxChain]
    /\ selected \in [Scanner -> SUBSET Pos]
    /\ malformed \in [Scanner -> BOOLEAN]
    /\ selError \in [Scanner -> BOOLEAN]
    /\ ended \in [Scanner -> BOOLEAN]
    /\ todo \in [Scanner -> SUBSET Pos]
    /\ got \in [Scanner -> SUBSET Pos]
    /\ txError \in [Scanner -> BOOLEAN]
    /\ events \in [Scanner -> [Pos -> SUBSET Event]]
    /\ times \in [Scanner -> [Pos -> Stamp]]
    /\ scans \in Seq(Report)
-----------------------------------------------------------------------------
NoRow    == [status |-> "absent", time |-> NoTime, events |-> {}]
NoEvents == [s \in Pos |-> {}]
NoTimes  == [s \in Pos |-> NoTime]

(* Block times never decrease along the ledger. *)
Monotone(c) == \A i, j \in 1..Len(c) : i <= j => c[i].time <= c[j].time

(* Rows written before block times were validated: the migration leaves    *)
(* them unverified, with the events an older parser stored and the block   *)
(* time it was given, if any.                                              *)
LegacyRow == [status : {"unverified"}, time : Stamp, events : SUBSET Event]

Init ==
    /\ \E n \in 0..MaxChain : chain \in [1..n -> Tx]
    /\ Monotone(chain)
    /\ disk \in [Pos -> {NoRow} \cup LegacyRow]
    /\ \A s \in Pos : disk[s] # NoRow => /\ s <= Len(chain) /\ chain[s].ok
                                         /\ disk[s].time \in {NoTime, chain[s].time}
    /\ work = disk /\ lock = Nobody
    /\ phase = [p \in Scanner |-> "idle"]
    /\ bound = [p \in Scanner |-> NoBound]
    /\ remaining = [p \in Scanner |-> NoBound]
    /\ head = [p \in Scanner |-> 0]
    /\ cursor = [p \in Scanner |-> 0]
    /\ selected = [p \in Scanner |-> {}]
    /\ malformed = [p \in Scanner |-> FALSE]
    /\ selError = [p \in Scanner |-> FALSE]
    /\ ended = [p \in Scanner |-> FALSE]
    /\ todo = [p \in Scanner |-> {}]
    /\ got = [p \in Scanner |-> {}]
    /\ txError = [p \in Scanner |-> FALSE]
    /\ events = [p \in Scanner |-> NoEvents]
    /\ times = [p \in Scanner |-> NoTimes]
    /\ scans = <<>>

(* Environment: a transaction touching the mint is finalised. *)
Grow ==
    /\ Len(chain) < MaxChain
    /\ \E tx \in Tx : /\ \A i \in 1..Len(chain) : chain[i].time <= tx.time
                      /\ chain' = Append(chain, tx)
    /\ UNCHANGED <<dbVars, phase, pageVars, fetchVars, readVars, scans>>

(* The locals of a call that has returned or raised. *)
Forget(p) ==
    /\ phase' = [phase EXCEPT ![p] = "idle"]
    /\ bound' = [bound EXCEPT ![p] = NoBound]
    /\ remaining' = [remaining EXCEPT ![p] = NoBound]
    /\ head' = [head EXCEPT ![p] = 0]
    /\ cursor' = [cursor EXCEPT ![p] = 0]
    /\ selected' = [selected EXCEPT ![p] = {}]
    /\ malformed' = [malformed EXCEPT ![p] = FALSE]
    /\ selError' = [selError EXCEPT ![p] = FALSE]
    /\ ended' = [ended EXCEPT ![p] = FALSE]
    /\ todo' = [todo EXCEPT ![p] = {}]
    /\ got' = [got EXCEPT ![p] = {}]
    /\ txError' = [txError EXCEPT ![p] = FALSE]
    /\ events' = [events EXCEPT ![p] = NoEvents]
    /\ times' = [times EXCEPT ![p] = NoTimes]
-----------------------------------------------------------------------------
(* scan_token_activity is called.  max_signatures = 0 selects nothing and  *)
(* counts as a complete selection.                                         *)
StartScan(p) ==
    /\ phase[p] = "idle" /\ Len(scans) < MaxScans
    /\ \E b \in Bounds :
        /\ bound' = [bound EXCEPT ![p] = b]
        /\ remaining' = [remaining EXCEPT ![p] = b]
        /\ phase' = [phase EXCEPT ![p] = IF b = 0 THEN "cache" ELSE "page"]
        /\ ended' = [ended EXCEPT ![p] = (b = 0)]
    /\ UNCHANGED <<chain, dbVars, head, cursor, selected, malformed, selError,
                   fetchVars, readVars, scans>>

\* Mutant: "before" is never passed on.
TopWithoutCursor(p) == Len(chain)

(* The newest entry the next page may hold, and how many entries this page *)
(* asks for.                                                               *)
Top(p)   == IF cursor[p] = 0 THEN Len(chain) ELSE cursor[p] - 1
Limit(p) == IF remaining[p] # NoBound /\ remaining[p] < PageLimit
            THEN remaining[p] ELSE PageLimit

(* examined += len(batch), as what is left of max_signatures. *)
Left(p, size) == IF remaining[p] = NoBound THEN NoBound ELSE remaining[p] - size

(* One iteration of the paging loop whose call answered with the entries   *)
(* low..top.  Entries in bad are malformed: not selected, and remembered   *)
(* as a fault.  When the oldest one carries no signature (lost) there is   *)
(* nothing to page from and the loop breaks.                               *)
Page(p, low, top) ==
    /\ phase[p] = "page"
    /\ \E bad \in SUBSET (low..top), lost \in BOOLEAN :
       LET size == top - low + 1
           left == Left(p, size)
       IN
       /\ size <= Limit(p)
       /\ lost => low \in bad /\ size = Limit(p)
       /\ selected' = [selected EXCEPT
             ![p] = @ \cup {s \in (low..top) \ bad : chain[s].ok}]
       /\ malformed' = [malformed EXCEPT ![p] = @ \/ bad # {}]
       /\ remaining' = [remaining EXCEPT ![p] = left]
       /\ ended' = [ended EXCEPT ![p] = size < Limit(p) \/ (~lost /\ left = 0)]
       /\ phase' = [phase EXCEPT
             ![p] = IF ended'[p] \/ lost THEN "cache" ELSE "page"]
       /\ cursor' = [cursor EXCEPT ![p] = IF size = 0 THEN @ ELSE low]
    /\ head' = [head EXCEPT ![p] = IF cursor[p] = 0 THEN Len(chain) ELSE @]
    /\ UNCHANGED <<chain, dbVars, bound, selError, fetchVars, readVars, scans>>

(* The node answers with the next page, short only at the ledger's start.  *)
FetchPage(p) ==
    \E low \in 1..(Top(p) + 1) :
        /\ Top(p) - low + 1 < Limit(p) => low = 1
        /\ Page(p, low, Top(p))

(* The node answers with a full page it has sent before: the one that ends *)
(* at the cursor.  Its signatures are in seen and the cursor stays, so of  *)
(* the loop's state only examined moves.                                   *)
RepeatedPage(p) ==
    /\ cursor[p] # 0 /\ cursor[p] + Limit(p) - 1 <= head[p]
    /\ Page(p, cursor[p], cursor[p] + Limit(p) - 1)

(* getSignaturesForAddress raises, or answers with something that is not a *)
(* list: the loop breaks with what it has.                                 *)
PageError(p) ==
    /\ phase[p] = "page"
    /\ selError' = [selError EXCEPT ![p] = TRUE]
    /\ phase' = [phase EXCEPT ![p] = "cache"]
    /\ UNCHANGED <<chain, dbVars, bound, remaining, head, cursor, selected, malformed,
                   ended, fetchVars, readVars, scans>>

\* Mutant: malformed entries are skipped and forgotten.
SelectionCompleteDespiteMalformed(p) == ~selError[p] /\ ended[p]

SelectionComplete(p) == ~selError[p] /\ ~malformed[p] /\ ended[p]
-----------------------------------------------------------------------------
\* Mutant: any stored row is a cache hit, legacy ones too.
AnyRowIsHit(p) == {s \in selected[p] : disk[s].status # "absent"}

(* _processed_signatures: only strictly validated rows are cache hits. *)
CacheHits(p) == {s \in selected[p] : disk[s].status = "verified"}

ReadCache(p) ==
    /\ phase[p] = "cache"
    /\ got' = [got EXCEPT ![p] = CacheHits(p)]
    /\ todo' = [todo EXCEPT ![p] = selected[p] \ CacheHits(p)]
    /\ phase' = [phase EXCEPT ![p] = "fetch"]
    /\ UNCHANGED <<chain, dbVars, pageVars, txError, readVars, scans>>

(* The fetch loop visits its signatures newest first. *)
NextToFetch(p, s) == s \in todo[p] /\ \A i \in todo[p] : i <= s

(* getTransaction raises, or the answer is not a successful transaction. *)
FetchError(p) ==
    /\ phase[p] = "fetch"
    /\ \E s \in todo[p] : /\ NextToFetch(p, s)
                         /\ todo' = [todo EXCEPT ![p] = @ \ {s}]
    /\ txError' = [txError EXCEPT ![p] = TRUE]
    /\ UNCHANGED <<chain, dbVars, phase, pageVars, got, readVars, scans>>

\* Mutant: the stored events are not deleted first.
PersistedOverOldEvents(r, tx, t) ==
    [status |-> IF t = NoTime THEN "unverified" ELSE "verified",
     time |-> t, events |-> r.events \cup tx.events]

(* _persist_transaction on the row r of tx: delete the stored events,      *)
(* insert the parsed ones, replace the row; the time is validated only     *)
(* when the answer carries an integer blockTime t.                         *)
Persisted(r, tx, t) ==
    [status |-> IF t = NoTime THEN "unverified" ELSE "verified",
     time |-> t, events |-> tx.events]

(* The first write opens the transaction and takes SQLite's write lock;    *)
(* the lock is then held across the remaining getTransaction calls.        *)
FetchTransaction(p) ==
    /\ phase[p] = "fetch" /\ lock \in {Nobody, p}
    /\ \E s \in todo[p] : \E t \in {chain[s].time, NoTime} :
        /\ NextToFetch(p, s)
        /\ work' = [work EXCEPT ![s] = Persisted(@, chain[s], t)]
        /\ todo' = [todo EXCEPT ![p] = @ \ {s}]
        /\ got' = [got EXCEPT ![p] = @ \cup {s}]
    /\ lock' = p
    /\ UNCHANGED <<chain, disk, phase, pageVars, txError, readVars, scans>>

(* db.commit() after the loop. *)
Commit(p) ==
    /\ phase[p] = "fetch" /\ todo[p] = {}
    /\ disk' = IF lock = p THEN work ELSE disk
    /\ lock' = IF lock = p THEN Nobody ELSE lock
    /\ phase' = [phase EXCEPT ![p] = "events"]
    /\ UNCHANGED <<chain, work, pageVars, fetchVars, readVars, scans>>

LoadEvents(p) ==
    /\ phase[p] = "events"
    /\ events' = [events EXCEPT
          ![p] = [s \in Pos |-> IF s \in selected[p] THEN disk[s].events ELSE {}]]
    /\ phase' = [phase EXCEPT ![p] = "times"]
    /\ UNCHANGED <<chain, dbVars, pageVars, fetchVars, times, scans>>

LoadTimes(p) ==
    /\ phase[p] = "times"
    /\ times' = [times EXCEPT
          ![p] = [s \in Pos |-> IF s \in selected[p] THEN disk[s].time ELSE NoTime]]
    /\ phase' = [phase EXCEPT ![p] = "record"]
    /\ UNCHANGED <<chain, dbVars, pageVars, fetchVars, events, scans>>
-----------------------------------------------------------------------------
\* Mutant: a failed getTransaction does not count against the window.
CoverageDespiteFetchErrors(p) == bound[p] # 0 /\ SelectionComplete(p)

(* _coverage_state: may net issuance be stated as a fact? *)
CoverageVerified(p) ==
    /\ bound[p] # 0
    /\ SelectionComplete(p)
    /\ ~selError[p] /\ ~txError[p]
    /\ got[p] = selected[p]

(* _time_coverage_state: every time is known and they never increase from  *)
(* newest to oldest.                                                       *)
TimesVerified(p) ==
    /\ CoverageVerified(p)
    /\ selected[p] # {}
    /\ \A s \in selected[p] : times[p][s] # NoTime
    /\ \A i, j \in selected[p] : i < j => times[p][i] <= times[p][j]

\* Mutant: an empty history is not told apart from one examined to its end.
WindowFromCursor(p) == cursor[p]

(* The oldest entry examined. *)
WindowLow(p) == IF cursor[p] = 0 THEN head[p] + 1 ELSE cursor[p]

ReportOf(p, start, end) ==
    [head |-> head[p], low |-> WindowLow(p), selected |-> selected[p],
     verified |-> CoverageVerified(p), events |-> events[p],
     timed |-> TimesVerified(p), start |-> start, end |-> end]

(* summarize_token_events, _time_coverage_state and _record_scan.  The     *)
(* INSERT needs the write lock and commits at once.                        *)
RecordScan(p) ==
    /\ phase[p] = "record" /\ lock = Nobody
    /\ \/ /\ ~TimesVerified(p)
          /\ scans' = Append(scans, ReportOf(p, NoTime, NoTime))
       \/ /\ TimesVerified(p)
          /\ \E old, new \in selected[p] :
              /\ \A s \in selected[p] : old <= s /\ s <= new
              /\ scans' = Append(scans,
                             ReportOf(p, times[p][old], times[p][new]))
    /\ Forget(p)
    /\ UNCHANGED <<chain, dbVars>>

(* A write waited five seconds for another process's transaction: SQLite   *)
(* raises and the exception leaves scan_token_activity.                    *)
LockTimeout(p) ==
    /\ lock \notin {Nobody, p}
    /\ phase[p] = "record" \/ (phase[p] = "fetch" /\ todo[p] # {})
    /\ Forget(p)
    /\ UNCHANGED <<chain, dbVars, scans>>

(* The process dies: its open transaction is rolled back. *)
Crash(p) ==
    /\ phase[p] # "idle"
    /\ work' = IF lock = p THEN disk ELSE work
    /\ lock' = IF lock = p THEN Nobody ELSE lock
    /\ Forget(p)
    /\ UNCHANGED <<chain, disk, scans>>
-----------------------------------------------------------------------------
Step(p) ==
    \/ FetchPage(p) \/ RepeatedPage(p) \/ PageError(p) \/ ReadCache(p)
    \/ FetchError(p) \/ FetchTransaction(p) \/ Commit(p)
    \/ LoadEvents(p) \/ LoadTimes(p) \/ RecordScan(p) \/ LockTimeout(p)

Next == Grow \/ \E p \in Scanner : StartScan(p) \/ Step(p) \/ Crash(p)

Spec     == Init /\ [][Next]_vars

(* Fairness: a running call keeps executing and its requests are answered; *)
(* nothing promises that they ever fail or come back malformed.  A page    *)
(* sent again changes nothing in a call without max_signatures, which has  *)
(* no stall check: that the next page comes at last is an assumption for   *)
(* such a call.  A call with max_signatures needs no such assumption: every *)
(* page it is answered with, old or new, counts against its bound.         *)
Progress(p) ==
    \/ FetchPage(p) /\ malformed' = malformed
    \/ ReadCache(p) \/ FetchTransaction(p) \/ Commit(p)
    \/ LoadEvents(p) \/ LoadTimes(p) \/ RecordScan(p) \/ LockTimeout(p)

FairSpec == Spec /\ \A p \in Scanner : WF_vars(Progress(p))
-----------------------------------------------------------------------------
(* The entries of the window low..h whose transaction succeeded. *)
Successful(low, h) == {i \in low..h : chain[i].ok}

(* A row marked strictly validated carries exactly the ledger's events and *)
(* block time, whatever older parser, crash or other scanner wrote it: the *)
(* cache lookup relies on it and never looks at the ledger again.          *)
CacheSound ==
    \A s \in Pos : disk[s].status = "verified" =>
        /\ s <= Len(chain) /\ chain[s].ok
        /\ disk[s].time = chain[s].time
        /\ disk[s].events = chain[s].events

(* Net issuance is stated only for a gap-free run of the address history,  *)
(* and over exactly the events of its successful transactions: no failed   *)
(* page, malformed entry, failed fetch, stale cache row, crash or          *)
(* concurrent scan can slip through the coverage decision.                 *)
VerifiedReportExact ==
    \A n \in 1..Len(scans) : scans[n].verified =>
        /\ scans[n].head <= Len(chain)
        /\ scans[n].selected = Successful(scans[n].low, scans[n].head)
        /\ \A s \in scans[n].selected : scans[n].events[s] = chain[s].events

(* The recorded fact-time interval (start, end] is complete for the ledger *)
(* the scan saw: no successful transaction inside it was left out, even    *)
(* when the signature-count cutoff falls inside a second.                  *)
TimeIntervalComplete ==
    \A n \in 1..Len(scans) : scans[n].timed =>
        \A i \in 1..scans[n].head :
            chain[i].ok /\ scans[n].start < chain[i].time
                        /\ chain[i].time <= scans[n].end
            => i \in scans[n].selected

(* A scan that has started publishes a report or raises: a ledger that     *)
(* grows between its pages, a node that repeats pages of a bounded scan    *)
(* and another scanner's open transaction do not hang it.                  *)
ScanEnds == \A p \in Scanner : phase[p] # "idle" ~> phase[p] = "idle"

(* The scanners together implement an atomic observer of the ledger. *)
Facts == INSTANCE IssuanceFacts WITH ledger <- chain, facts <- scans
ImplementsFacts == Facts!Spec
=============================================================================
