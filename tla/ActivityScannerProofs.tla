------------------------ MODULE ActivityScannerProofs ------------------------
(***************************************************************************)
(* Proofs about ActivityScanner, for every ledger, page size, number of    *)
(* scanners and set of bounds: the model is well typed, the cache is       *)
(* sound, and a verified report states exactly the events of a gap-free    *)
(* window whose recorded time interval is complete.                        *)
(***************************************************************************)
EXTENDS ActivityScanner, TLAPS

(* A row, committed or not, that agrees with the ledger. *)
Faithful(r, s) ==
    /\ s <= Len(chain) /\ chain[s].ok
    /\ r.events = chain[s].events
    /\ r.time \in {NoTime, chain[s].time}
    /\ r.status = "verified" => r.time = chain[s].time

(* Whatever is marked validated is faithful, and an open transaction only  *)
(* ever replaces rows by faithful ones.                                    *)
DbInv ==
    /\ \A s \in Pos : disk[s].status = "verified" => Faithful(disk[s], s)
    /\ \A s \in Pos : work[s] = disk[s] \/ Faithful(work[s], s)
    /\ lock = Nobody => work = disk
    /\ lock # Nobody => phase[lock] = "fetch"

(* A selection is contained in the run of entries examined so far, and is  *)
(* all of its successful entries unless a malformed entry was met.         *)
WindowInv(p) ==
    /\ head[p] <= Len(chain) /\ cursor[p] <= head[p]
    /\ cursor[p] = 0 => selected[p] = {}
    /\ selected[p] \subseteq Successful(WindowLow(p), head[p])
    /\ ~malformed[p] => selected[p] = Successful(WindowLow(p), head[p])

(* A signature counted as retrieved has a faithful row: committed, or      *)
(* written by this scanner's own transaction.                              *)
FetchInv(p) ==
    phase[p] \in {"fetch", "events", "times", "record"} =>
        /\ got[p] \subseteq selected[p] /\ todo[p] \subseteq selected[p]
        /\ \A s \in got[p] : \/ Faithful(disk[s], s)
                             \/ lock = p /\ Faithful(work[s], s)

(* What was read back for a retrieved signature agrees with the ledger. *)
ReadInv(p) ==
    /\ phase[p] \in {"times", "record"} =>
           \A s \in got[p] : events[p][s] = chain[s].events
    /\ phase[p] = "record" =>
           \A s \in got[p] : times[p][s] \in {NoTime, chain[s].time}

ReportInv ==
    /\ VerifiedReportExact
    /\ TimeIntervalComplete
    /\ \A n \in 1..Len(scans) : scans[n].timed => scans[n].verified

(* The inductive invariant. *)
Inv ==
    /\ TypeOK
    /\ Monotone(chain)
    /\ DbInv
    /\ \A p \in Scanner : WindowInv(p) /\ FetchInv(p) /\ ReadInv(p)
    /\ ReportInv
-----------------------------------------------------------------------------
(* What one page does to a scanner, when it holds the entries low..top of  *)
(* which bad are malformed.                                                *)
Paged(p, low, top, bad) ==
    /\ selected' = [selected EXCEPT
          ![p] = @ \cup {s \in (low..top) \ bad : chain[s].ok}]
    /\ malformed' = [malformed EXCEPT ![p] = @ \/ bad # {}]
    /\ head' = [head EXCEPT ![p] = IF cursor[p] = 0 THEN Len(chain) ELSE @]
    /\ cursor' = [cursor EXCEPT ![p] = IF top - low + 1 = 0 THEN @ ELSE low]
    /\ remaining' \in [Scanner -> Nat \cup {NoBound}]
    /\ ended' \in [Scanner -> BOOLEAN]
    /\ phase' \in [Scanner -> Phase]
    /\ \A q \in Scanner \ {p} : phase'[q] = phase[q]
    /\ phase'[p] \in {"page", "cache"}

(* An answered page has the effect Paged. *)
LEMMA PageStep ==
    ASSUME TypeOK, NEW p \in Scanner, NEW low \in Nat, NEW top \in Nat,
           low <= top + 1, Page(p, low, top)
    PROVE  \E bad \in SUBSET (low..top) : Paged(p, low, top, bad)
<1>. USE ScannerAssumption
<1>1. PICK bad \in SUBSET (low..top), lost \in BOOLEAN :
          /\ top - low + 1 <= Limit(p)
          /\ selected' = [selected EXCEPT
                ![p] = @ \cup {s \in (low..top) \ bad : chain[s].ok}]
          /\ malformed' = [malformed EXCEPT ![p] = @ \/ bad # {}]
          /\ remaining' = [remaining EXCEPT ![p] = Left(p, top - low + 1)]
          /\ ended' = [ended EXCEPT ![p] = top - low + 1 < Limit(p)
               \/ (~lost /\ Left(p, top - low + 1) = 0)]
          /\ phase' = [phase EXCEPT
                ![p] = IF ended'[p] \/ lost THEN "cache" ELSE "page"]
          /\ cursor' = [cursor EXCEPT ![p] = IF top - low + 1 = 0 THEN @ ELSE low]
  BY DEF Page
<1>2. ended' \in [Scanner -> BOOLEAN]
  BY <1>1 DEF TypeOK
<1>3. /\ phase' \in [Scanner -> Phase]
      /\ \A q \in Scanner \ {p} : phase'[q] = phase[q]
      /\ phase'[p] \in {"page", "cache"}
  BY <1>1 DEF TypeOK, Phase
<1>4. Left(p, top - low + 1) \in Nat \cup {NoBound}
  <2>1. remaining[p] \in Nat \cup {NoBound}
    BY DEF TypeOK
  <2>2. CASE remaining[p] = NoBound
    BY <2>2 DEF Left
  <2>3. CASE remaining[p] # NoBound
    <3>1. /\ remaining[p] \in Nat /\ Limit(p) <= remaining[p]
          /\ Left(p, top - low + 1) = remaining[p] - (top - low + 1)
      BY <2>1, <2>3 DEF Limit, Left
    <3>2. Limit(p) \in Nat
      BY <3>1 DEF Limit
    <3>. QED  BY <1>1, <3>1, <3>2
  <2>. QED  BY <2>2, <2>3
<1>5. remaining' \in [Scanner -> Nat \cup {NoBound}]
  BY <1>1, <1>4 DEF TypeOK
<1>6. head' = [head EXCEPT ![p] = IF cursor[p] = 0 THEN Len(chain) ELSE @]
  BY DEF Page
<1>7. Paged(p, low, top, bad)
  BY <1>1, <1>2, <1>3, <1>5, <1>6 DEF Paged
<1>. QED  BY <1>7

(* Which entries a page holds: the run that continues at the cursor, or    *)
(* entries between the cursor and the head that were examined before.      *)
Run(p, low, top) ==
    \/ low \in 1..(Top(p) + 1) /\ top = Top(p)
    \/ cursor[p] # 0 /\ low = cursor[p] /\ top <= head[p]

(* Either kind of page has the effect Paged on such a run. *)
LEMMA PageRun ==
    ASSUME TypeOK, NEW p \in Scanner, FetchPage(p) \/ RepeatedPage(p)
    PROVE  \E low \in Nat, top \in Nat :
             /\ low <= top + 1 /\ Page(p, low, top) /\ Run(p, low, top)
             /\ \E bad \in SUBSET (low..top) : Paged(p, low, top, bad)
<1>. USE ScannerAssumption
<1>1. /\ Top(p) \in Nat /\ cursor[p] \in Nat /\ Limit(p) \in Nat
  <2>1. Len(chain) \in Nat /\ cursor[p] \in Nat /\ remaining[p] \in Nat \cup {NoBound}
    BY DEF TypeOK
  <2>. QED  BY <2>1 DEF Top, Limit
<1>2. CASE FetchPage(p)
  <2>1. PICK low \in 1..(Top(p) + 1) : Page(p, low, Top(p))
    BY <1>2 DEF FetchPage
  <2>2. low \in Nat /\ low <= Top(p) + 1 /\ Run(p, low, Top(p))
    BY <1>1, <2>1 DEF Run
  <2>. QED  BY <1>1, <2>1, <2>2, PageStep
<1>3. CASE RepeatedPage(p)
  <2>. DEFINE top == cursor[p] + Limit(p) - 1
  <2>1. /\ cursor[p] # 0 /\ top <= head[p] /\ Page(p, cursor[p], top)
    BY <1>3 DEF RepeatedPage
  <2>2. top \in Nat /\ cursor[p] <= top + 1 /\ Run(p, cursor[p], top)
    BY <1>1, <2>1 DEF Run
  <2>. QED  BY <1>1, <2>1, <2>2, PageStep
<1>. QED  BY <1>2, <1>3

(* Initially the state has the declared shape. *)
LEMMA TypeInit == Init => TypeOK
<1>. USE ScannerAssumption
<1>. SUFFICES ASSUME Init PROVE TypeOK
  OBVIOUS
<1>1. chain \in Seq(Tx) /\ Len(chain) <= MaxChain
  <2>1. PICK n \in 0..MaxChain : chain \in [1..n -> Tx]
    BY DEF Init
  <2>. QED  BY <2>1
<1>2. disk \in [Pos -> Row] /\ work \in [Pos -> Row]
  BY DEF Init, NoRow, LegacyRow, Row, Status, Stamp
<1>3. lock \in Scanner \cup {Nobody} /\ phase \in [Scanner -> Phase]
  BY DEF Init, Phase
<1>4. events \in [Scanner -> [Pos -> SUBSET Event]]
  BY DEF Init, NoEvents
<1>5. times \in [Scanner -> [Pos -> Stamp]]
  BY DEF Init, NoTimes, Stamp
<1>6. /\ bound \in [Scanner -> Nat \cup {NoBound}]
      /\ remaining \in [Scanner -> Nat \cup {NoBound}]
      /\ head \in [Scanner -> 0..MaxChain]
      /\ cursor \in [Scanner -> 0..MaxChain]
      /\ selected \in [Scanner -> SUBSET Pos]
      /\ malformed \in [Scanner -> BOOLEAN]
      /\ selError \in [Scanner -> BOOLEAN]
      /\ ended \in [Scanner -> BOOLEAN]
  BY DEF Init
<1>7. /\ todo \in [Scanner -> SUBSET Pos]
      /\ got \in [Scanner -> SUBSET Pos]
      /\ txError \in [Scanner -> BOOLEAN]
      /\ scans \in Seq(Report)
  BY DEF Init
<1>. QED  BY <1>1, <1>2, <1>3, <1>4, <1>5, <1>6, <1>7 DEF TypeOK

(* Returning or raising leaves well-typed locals. *)
LEMMA TypeForget ==
    ASSUME TypeOK, NEW p \in Scanner, Forget(p)
    PROVE
    /\ phase' \in [Scanner -> Phase]
    /\ bound' \in [Scanner -> Nat \cup {NoBound}]
    /\ remaining' \in [Scanner -> Nat \cup {NoBound}]
    /\ head' \in [Scanner -> 0..MaxChain]
    /\ cursor' \in [Scanner -> 0..MaxChain]
    /\ selected' \in [Scanner -> SUBSET Pos]
    /\ malformed' \in [Scanner -> BOOLEAN]
    /\ selError' \in [Scanner -> BOOLEAN]
    /\ ended' \in [Scanner -> BOOLEAN]
    /\ todo' \in [Scanner -> SUBSET Pos]
    /\ got' \in [Scanner -> SUBSET Pos]
    /\ txError' \in [Scanner -> BOOLEAN]
    /\ events' \in [Scanner -> [Pos -> SUBSET Event]]
    /\ times' \in [Scanner -> [Pos -> Stamp]]
<1>1. NoEvents \in [Pos -> SUBSET Event] /\ NoTimes \in [Pos -> Stamp]
  BY DEF NoEvents, NoTimes, Stamp
<1>. QED  BY <1>1, ScannerAssumption DEF Forget, TypeOK, Phase

(* Every step keeps the declared shape.  FetchTransaction needs the window *)
(* invariant: what it looks up is on the ledger.                           *)
LEMMA TypeStep == ASSUME Inv, [Next]_vars PROVE TypeOK'
<1>. USE ScannerAssumption
<1>. TypeOK
  BY DEF Inv
<1>1. CASE Grow
  BY <1>1 DEF Grow, TypeOK, dbVars, pageVars, fetchVars, readVars
<1>2. ASSUME NEW p \in Scanner, StartScan(p) PROVE TypeOK'
  BY <1>2 DEF StartScan, TypeOK, dbVars, fetchVars, readVars, Phase
<1>3. ASSUME NEW p \in Scanner, FetchPage(p) \/ RepeatedPage(p) PROVE TypeOK'
  <2>1. PICK low \in Nat, top \in Nat :
          /\ low <= top + 1 /\ Page(p, low, top) /\ Run(p, low, top)
          /\ \E bad \in SUBSET (low..top) : Paged(p, low, top, bad)
    BY <1>3, PageRun
  <2>2. PICK bad \in SUBSET (low..top) : Paged(p, low, top, bad)
    BY <2>1
  <2>3. /\ Top(p) \in 0..MaxChain /\ Len(chain) \in 0..MaxChain
        /\ cursor[p] \in 0..MaxChain /\ head[p] \in 0..MaxChain
    BY DEF Top, TypeOK
  <2>4. low..top \subseteq Pos /\ (top - low + 1 # 0 => low \in 0..MaxChain)
    BY <2>1, <2>3 DEF Pos, Run
  <2>5. /\ selected' \in [Scanner -> SUBSET Pos]
        /\ malformed' \in [Scanner -> BOOLEAN]
        /\ head' \in [Scanner -> 0..MaxChain]
        /\ cursor' \in [Scanner -> 0..MaxChain]
    BY <2>2, <2>3, <2>4 DEF Paged, TypeOK
  <2>6. /\ ended' \in [Scanner -> BOOLEAN] /\ phase' \in [Scanner -> Phase]
        /\ remaining' \in [Scanner -> Nat \cup {NoBound}]
    BY <2>2 DEF Paged
  <2>. QED
    BY <2>1, <2>5, <2>6 DEF Page, TypeOK, dbVars, fetchVars, readVars
<1>4. ASSUME NEW p \in Scanner, PageError(p) PROVE TypeOK'
  BY <1>4 DEF PageError, TypeOK, dbVars, fetchVars, readVars, Phase
<1>5. ASSUME NEW p \in Scanner, ReadCache(p) PROVE TypeOK'
  BY <1>5 DEF ReadCache, CacheHits, TypeOK, dbVars, pageVars, readVars, Phase
<1>6. ASSUME NEW p \in Scanner, FetchError(p) PROVE TypeOK'
  BY <1>6 DEF FetchError, TypeOK, dbVars, pageVars, readVars
<1>7. ASSUME NEW p \in Scanner, FetchTransaction(p) PROVE TypeOK'
  <2>1. PICK s \in todo[p] : \E t \in {chain[s].time, NoTime} :
           /\ work' = [work EXCEPT ![s] = Persisted(@, chain[s], t)]
           /\ todo' = [todo EXCEPT ![p] = @ \ {s}]
           /\ got' = [got EXCEPT ![p] = @ \cup {s}]
    BY <1>7 DEF FetchTransaction
  <2>2. PICK t \in {chain[s].time, NoTime} :
           work' = [work EXCEPT ![s] = Persisted(@, chain[s], t)]
    BY <2>1
  <2>3. s \in Pos /\ chain[s] \in Tx
    BY <1>7 DEF Inv, FetchInv, WindowInv, Successful, WindowLow, TypeOK, Pos,
                FetchTransaction
  <2>4. Persisted(work[s], chain[s], t) \in Row
    BY <2>2, <2>3 DEF Persisted, Row, Tx, Stamp, Status
  <2>5. work' \in [Pos -> Row]
    BY <2>2, <2>3, <2>4 DEF TypeOK
  <2>6. todo' \in [Scanner -> SUBSET Pos] /\ got' \in [Scanner -> SUBSET Pos]
    BY <2>1, <2>3 DEF TypeOK
  <2>. QED
    BY <1>7, <2>5, <2>6 DEF FetchTransaction, TypeOK, pageVars, readVars
<1>8. ASSUME NEW p \in Scanner, Commit(p) PROVE TypeOK'
  BY <1>8 DEF Commit, TypeOK, pageVars, fetchVars, readVars, Phase
<1>9. ASSUME NEW p \in Scanner, LoadEvents(p) PROVE TypeOK'
  BY <1>9 DEF LoadEvents, TypeOK, Row, dbVars, pageVars, fetchVars, Phase
<1>10. ASSUME NEW p \in Scanner, LoadTimes(p) PROVE TypeOK'
  BY <1>10 DEF LoadTimes, TypeOK, Row, Stamp, dbVars, pageVars, fetchVars, Phase
<1>11. ASSUME NEW p \in Scanner, RecordScan(p) PROVE TypeOK'
  <2>1. WindowLow(p) \in 1..(MaxChain + 1)
    BY DEF WindowLow, TypeOK
  <2>2. CoverageVerified(p) \in BOOLEAN /\ TimesVerified(p) \in BOOLEAN
    BY DEF CoverageVerified, TimesVerified
  <2>3. ASSUME NEW a \in Stamp, NEW b \in Stamp PROVE ReportOf(p, a, b) \in Report
    BY <2>1, <2>2 DEF ReportOf, Report, TypeOK
  <2>4. NoTime \in Stamp /\ \A s \in selected[p] : times[p][s] \in Stamp
    BY DEF TypeOK, Stamp
  <2>5. scans' \in Seq(Report)
    <3>1. CASE scans' = Append(scans, ReportOf(p, NoTime, NoTime))
      BY <3>1, <2>3, <2>4 DEF TypeOK
    <3>2. ASSUME NEW old \in selected[p], NEW new \in selected[p],
                 scans' = Append(scans, ReportOf(p, times[p][old], times[p][new]))
          PROVE  scans' \in Seq(Report)
      BY <3>2, <2>3, <2>4 DEF TypeOK
    <3>. QED  BY <1>11, <3>1, <3>2 DEF RecordScan
  <2>. QED  BY <1>11, <2>5, TypeForget DEF RecordScan, TypeOK, dbVars
<1>12. ASSUME NEW p \in Scanner, LockTimeout(p) PROVE TypeOK'
  BY <1>12, TypeForget DEF LockTimeout, TypeOK, dbVars
<1>13. ASSUME NEW p \in Scanner, Crash(p) PROVE TypeOK'
  <2>1. work' \in [Pos -> Row] /\ lock' \in Scanner \cup {Nobody}
    BY <1>13 DEF Crash, TypeOK
  <2>. QED  BY <1>13, <2>1, TypeForget DEF Crash, TypeOK
<1>14. CASE UNCHANGED vars
  BY <1>14 DEF vars, TypeOK, dbVars, pageVars, fetchVars, readVars
<1>. QED
  BY <1>1, <1>2, <1>3, <1>4, <1>5, <1>6, <1>7, <1>8, <1>9, <1>10, <1>11,
     <1>12, <1>13, <1>14 DEF Next, Step

(* Initially there is nothing to be wrong about but the legacy rows, which *)
(* no one has validated.                                                   *)
LEMMA InvInit == Init => Inv
<1>. USE ScannerAssumption
<1>. SUFFICES ASSUME Init PROVE Inv
  OBVIOUS
<1>1. TypeOK /\ Monotone(chain)
  BY TypeInit DEF Init
<1>2. DbInv
  BY DEF Init, DbInv, NoRow, LegacyRow
<1>3. ASSUME NEW p \in Scanner PROVE WindowInv(p) /\ FetchInv(p) /\ ReadInv(p)
  <2>1. head[p] = 0 /\ cursor[p] = 0 /\ selected[p] = {} /\ phase[p] = "idle"
    BY DEF Init
  <2>2. Successful(WindowLow(p), head[p]) = {}
    BY <2>1 DEF Successful, WindowLow
  <2>3. Len(chain) \in Nat
    BY <1>1 DEF TypeOK
  <2>. QED  BY <2>1, <2>2, <2>3 DEF WindowInv, FetchInv, ReadInv
<1>4. ReportInv
  BY DEF Init, ReportInv, VerifiedReportExact, TimeIntervalComplete
<1>. QED  BY <1>1, <1>2, <1>3, <1>4 DEF Inv

(* The ledger only grows, so whatever agreed with it still does. *)
LEMMA GrowStep == ASSUME Inv, Grow PROVE Inv'
<1>. USE ScannerAssumption DEF Inv
<1>1. TypeOK'
  BY TypeStep DEF Next
<1>2. PICK tx \in Tx : /\ \A i \in 1..Len(chain) : chain[i].time <= tx.time
                      /\ chain' = Append(chain, tx)
  BY DEF Grow
<1>3. /\ Len(chain') = Len(chain) + 1 /\ Len(chain) \in Nat
      /\ \A i \in 1..Len(chain) : chain'[i] = chain[i]
      /\ chain'[Len(chain) + 1] = tx
  BY <1>2 DEF TypeOK
<1>4. UNCHANGED <<disk, work, lock, phase, bound, head, cursor, selected, malformed,
                 selError, ended, todo, got, txError, events, times, scans>>
  BY DEF Grow, dbVars, pageVars, fetchVars, readVars
<1>5. Monotone(chain)'
  <2>. SUFFICES ASSUME NEW i \in 1..Len(chain'), NEW j \in 1..Len(chain'), i <= j
                PROVE  chain'[i].time <= chain'[j].time
    BY DEF Monotone
  <2>1. CASE j <= Len(chain)
    BY <1>3, <2>1 DEF Monotone
  <2>2. CASE j = Len(chain) + 1 /\ i <= Len(chain)
    BY <1>2, <1>3, <2>2
  <2>3. CASE i = Len(chain) + 1 /\ j = Len(chain) + 1
    BY <1>3, <2>3 DEF Tx, Time
  <2>. QED  BY <1>3, <2>1, <2>2, <2>3
<1>6. \A r, s : s \in Pos /\ Faithful(r, s) => Faithful(r, s)'
  BY <1>3 DEF Faithful, Pos
<1>7. DbInv'
  BY <1>4, <1>6 DEF DbInv
<1>8. ASSUME NEW low \in Nat \ {0}, NEW h \in Nat, h <= Len(chain)
      PROVE  Successful(low, h)' = Successful(low, h)
  BY <1>3, <1>8 DEF Successful
<1>9. ASSUME NEW p \in Scanner PROVE (WindowInv(p) /\ FetchInv(p) /\ ReadInv(p))'
  <2>1. WindowLow(p) \in Nat \ {0} /\ head[p] \in Nat /\ WindowLow(p)' = WindowLow(p)
    BY <1>4 DEF WindowLow, TypeOK
  <2>2. WindowInv(p)'
    BY <1>3, <1>4, <1>8, <2>1 DEF WindowInv
  <2>3. got[p] \subseteq Pos
    BY DEF TypeOK
  <2>4. FetchInv(p)'
    BY <1>4, <1>6, <2>3 DEF FetchInv
  <2>5. phase[p] \in {"times", "record"} => got[p] \subseteq 1..Len(chain)
    BY <2>1 DEF FetchInv, WindowInv, Successful, TypeOK
  <2>6. ReadInv(p)'
    BY <1>3, <1>4, <2>5 DEF ReadInv
  <2>. QED  BY <2>2, <2>4, <2>6
<1>10. ReportInv'
  <2>. SUFFICES ASSUME NEW n \in 1..Len(scans)
       PROVE  /\ scans[n].verified =>
                   /\ scans[n].head <= Len(chain')
                   /\ scans[n].selected = Successful(scans[n].low, scans[n].head)'
                   /\ \A s \in scans[n].selected : scans[n].events[s] = chain'[s].events
              /\ scans[n].timed =>
                   \A i \in 1..scans[n].head :
                     chain'[i].ok /\ scans[n].start < chain'[i].time
                                  /\ chain'[i].time <= scans[n].end
                     => i \in scans[n].selected
    BY <1>4 DEF ReportInv, VerifiedReportExact, TimeIntervalComplete, Successful
  <2>0. scans[n] \in Report
    BY DEF TypeOK
  <2>1. scans[n].low \in Nat \ {0} /\ scans[n].head \in Nat
    BY <2>0 DEF Report
  <2>2. scans[n].verified => Successful(scans[n].low, scans[n].head)
                             \subseteq 1..Len(chain)
    BY <2>1 DEF ReportInv, VerifiedReportExact, Successful
  <2>3. scans[n].verified =>
          /\ scans[n].head <= Len(chain')
          /\ scans[n].selected = Successful(scans[n].low, scans[n].head)'
          /\ \A s \in scans[n].selected : scans[n].events[s] = chain'[s].events
    <3>. SUFFICES ASSUME scans[n].verified
                  PROVE  /\ scans[n].head <= Len(chain')
                         /\ scans[n].selected
                              = Successful(scans[n].low, scans[n].head)'
                         /\ \A s \in scans[n].selected :
                               scans[n].events[s] = chain'[s].events
      OBVIOUS
    <3>1. /\ scans[n].head <= Len(chain)
          /\ scans[n].selected = Successful(scans[n].low, scans[n].head)
          /\ \A s \in scans[n].selected : scans[n].events[s] = chain[s].events
      BY DEF ReportInv, VerifiedReportExact
    <3>2. Successful(scans[n].low, scans[n].head)'
            = Successful(scans[n].low, scans[n].head)
      BY <1>3, <1>4, <2>1, <3>1 DEF Successful
    <3>3. \A s \in scans[n].selected : chain'[s] = chain[s]
      BY <1>3, <2>2, <3>1
    <3>. QED  BY <1>3, <2>1, <3>1, <3>2, <3>3
  <2>4. scans[n].timed => scans[n].head <= Len(chain)
    BY DEF ReportInv, VerifiedReportExact
  <2>5. scans[n].timed => \A i \in 1..scans[n].head :
          chain'[i].ok /\ scans[n].start < chain'[i].time
                       /\ chain'[i].time <= scans[n].end
          => i \in scans[n].selected
    BY SMTT(30), <1>3, <2>1, <2>4 DEF ReportInv, TimeIntervalComplete
  <2>. QED  BY <2>3, <2>5
<1>. QED  BY <1>1, <1>5, <1>7, <1>9, <1>10

-----------------------------------------------------------------------------
ScannerInv(q) == WindowInv(q) /\ FetchInv(q) /\ ReadInv(q)

(* The locals of scanner q that the invariant mentions do not change. *)
Kept(q) ==
    /\ phase'[q] = phase[q] /\ head'[q] = head[q] /\ cursor'[q] = cursor[q]
    /\ selected'[q] = selected[q] /\ malformed'[q] = malformed[q]
    /\ todo'[q] = todo[q] /\ got'[q] = got[q]
    /\ events'[q] = events[q] /\ times'[q] = times[q]

(* A scanner that does not move keeps its invariant while another changes  *)
(* the database, as long as faithful rows stay faithful and its own open   *)
(* transaction is left alone.                                              *)
LEMMA Bystander ==
    ASSUME Inv, chain' = chain, NEW q \in Scanner, Kept(q),
           \A s \in Pos : Faithful(disk[s], s) => Faithful(disk'[s], s),
           lock = q => lock' = q /\ work' = work
    PROVE  ScannerInv(q)'
<1>. USE DEF Inv
<1>1. WindowInv(q)'
  BY DEF WindowInv, Kept, WindowLow, Successful
<1>2. FetchInv(q)'
  <2>1. got[q] \subseteq Pos
    BY DEF TypeOK
  <2>2. \A s \in Pos : Faithful(disk[s], s) => Faithful(disk[s], s)'
    BY DEF Faithful
  <2>3. lock = q => \A s \in Pos : Faithful(work[s], s) => Faithful(work[s], s)'
    BY DEF Faithful
  <2>. QED  BY <2>1, <2>2, <2>3 DEF FetchInv, Kept
<1>3. ReadInv(q)'
  BY DEF ReadInv, Kept
<1>. QED  BY <1>1, <1>2, <1>3 DEF ScannerInv

(* Reports are judged against the ledger alone. *)
LEMMA ReportsKept ==
    ASSUME Inv, chain' = chain, scans' = scans
    PROVE  ReportInv' /\ Monotone(chain)'
BY DEF Inv, ReportInv, VerifiedReportExact, TimeIntervalComplete, Successful, Monotone

(* A step that touches only the locals of one scanner. *)
LEMMA LocalStep ==
    ASSUME Inv, TypeOK', NEW p \in Scanner,
           UNCHANGED <<chain, disk, work, lock, scans>>,
           lock = p => phase'[p] = "fetch",
           \A q \in Scanner \ {p} : Kept(q),
           ScannerInv(p)'
    PROVE  Inv'
<1>1. DbInv'
  <2>1. lock # Nobody => phase'[lock] = "fetch"
    BY DEF Inv, DbInv, TypeOK, Kept
  <2>. QED  BY <2>1 DEF Inv, DbInv, Faithful
<1>2. \A q \in Scanner : ScannerInv(q)'
  BY Bystander
<1>3. ReportInv' /\ Monotone(chain)'
  BY ReportsKept
<1>. QED  BY <1>1, <1>2, <1>3 DEF Inv, ScannerInv

(* Steps of the paging loop and of the read-back: only locals change. *)
LEMMA StartStep == ASSUME Inv, NEW p \in Scanner, StartScan(p) PROVE Inv'
<1>1. TypeOK'
  BY TypeStep DEF Next
<1>2. /\ UNCHANGED <<chain, disk, work, lock, scans, head, cursor, selected,
                    malformed, todo, got, events, times>>
      /\ phase[p] = "idle" /\ phase'[p] \in {"cache", "page"}
      /\ \A q \in Scanner \ {p} : phase'[q] = phase[q]
  BY DEF StartScan, dbVars, fetchVars, readVars, Inv, TypeOK
<1>3. lock # p
  BY <1>2, ScannerAssumption DEF Inv, DbInv
<1>4. ScannerInv(p)'
  BY <1>2 DEF Inv, ScannerInv, WindowInv, FetchInv, ReadInv, WindowLow, Successful
<1>. QED  BY <1>1, <1>2, <1>3, <1>4, LocalStep DEF Kept

(* A page extends the run of examined entries downwards without a gap, and *)
(* a page sent again adds nothing to it.                                   *)
LEMMA PageInv ==
    ASSUME Inv, NEW p \in Scanner, FetchPage(p) \/ RepeatedPage(p)
    PROVE  Inv'
<1>. USE ScannerAssumption
<1>1. TypeOK /\ TypeOK'
  BY TypeStep DEF Next, Step, Inv
<1>2. PICK low \in Nat, top \in Nat :
        /\ low <= top + 1 /\ Page(p, low, top) /\ Run(p, low, top)
        /\ \E bad \in SUBSET (low..top) : Paged(p, low, top, bad)
  BY <1>1, PageRun
<1>3. PICK bad \in SUBSET (low..top) : Paged(p, low, top, bad)
  BY <1>2
<1>4. UNCHANGED <<chain, disk, work, lock, scans, todo, got, events, times>>
  BY <1>2 DEF Page, dbVars, fetchVars, readVars
<1>5. \A q \in Scanner \ {p} : Kept(q)
  BY <1>1, <1>3, <1>4 DEF Paged, Kept, TypeOK
<1>6. lock # p
  BY <1>2 DEF Inv, DbInv, Page
<1>7. WindowInv(p)'
  <2>1. /\ head[p] \in Nat /\ cursor[p] \in Nat /\ Len(chain) \in Nat /\ Top(p) \in Nat
    <3>1. head[p] \in Nat /\ cursor[p] \in Nat /\ Len(chain) \in Nat
      BY <1>1 DEF TypeOK
    <3>. QED  BY <3>1 DEF Top
  <2>2. /\ head'[p] = IF cursor[p] = 0 THEN Len(chain) ELSE head[p]
        /\ cursor'[p] = IF top - low + 1 = 0 THEN cursor[p] ELSE low
        /\ selected'[p] = selected[p] \cup {s \in (low..top) \ bad : chain[s].ok}
        /\ malformed'[p] = (malformed[p] \/ bad # {})
    BY <1>1, <1>3 DEF Paged, TypeOK
  <2>3. WindowInv(p)
    BY DEF Inv
  <2>4. head'[p] <= Len(chain)' /\ cursor'[p] <= head'[p]
    BY <1>2, <1>4, <2>1, <2>2, <2>3 DEF WindowInv, Top, Run
  <2>5. cursor'[p] = 0 => selected'[p] = {}
    <3>. SUFFICES ASSUME cursor'[p] = 0 PROVE selected'[p] = {}
      OBVIOUS
    <3>1. cursor[p] = 0 /\ top - low + 1 = 0
      BY <1>2, <2>1, <2>2 DEF Run
    <3>2. selected[p] = {}
      BY <2>3, <3>1 DEF WindowInv
    <3>3. low..top = {}
      BY <3>1
    <3>. QED  BY <2>2, <3>2, <3>3
  <2>6. Successful(WindowLow(p), head[p])' =
          Successful(WindowLow(p), head[p]) \cup {s \in low..top : chain[s].ok}
    <3>1. CASE cursor[p] = 0
      BY <1>2, <1>4, <2>1, <2>2, <2>3, <3>1
         DEF Successful, WindowLow, Top, WindowInv, Run
    <3>2. CASE cursor[p] # 0 /\ top = Top(p)
      <4>1. /\ head'[p] = head[p] /\ WindowLow(p) = top + 1 /\ WindowLow(p)' = low
            /\ top <= head[p]
        <5>1. top + 1 = cursor[p] /\ cursor[p] <= head[p] /\ low # 0
          BY <1>2, <2>1, <2>3, <3>2 DEF Top, WindowInv, Run
        <5>2. cursor'[p] = low /\ head'[p] = head[p]
          BY <1>2, <2>1, <2>2, <3>2, <5>1
        <5>. QED  BY <2>1, <3>2, <5>1, <5>2 DEF WindowLow
      <4>2. low..head[p] = (top + 1)..head[p] \cup low..top
        BY <1>2, <2>1, <4>1
      <4>. QED  BY <1>4, <4>1, <4>2 DEF Successful
    <3>3. CASE cursor[p] # 0 /\ low = cursor[p] /\ top <= head[p]
      <4>1. WindowLow(p)' = WindowLow(p) /\ head'[p] = head[p] /\ WindowLow(p) = low
        BY <2>1, <2>2, <2>4, <3>3 DEF WindowLow
      <4>2. \A s \in low..top : s \in low..head[p]
        BY <2>1, <3>3
      <4>. QED  BY <1>4, <4>1, <4>2 DEF Successful
    <3>. QED  BY <1>2, <3>1, <3>2, <3>3 DEF Run
  <2>7. selected'[p] \subseteq Successful(WindowLow(p), head[p])'
    BY <2>2, <2>3, <2>6 DEF WindowInv
  <2>8. ~malformed'[p] => selected'[p] = Successful(WindowLow(p), head[p])'
    BY <1>1, <2>2, <2>3, <2>6 DEF WindowInv, TypeOK
  <2>. QED  BY <2>4, <2>5, <2>7, <2>8 DEF WindowInv
<1>8. FetchInv(p)' /\ ReadInv(p)'
  BY <1>3 DEF Paged, FetchInv, ReadInv
<1>. QED  BY <1>1, <1>4, <1>5, <1>6, <1>7, <1>8, LocalStep DEF ScannerInv

LEMMA PageErrorStep == ASSUME Inv, NEW p \in Scanner, PageError(p) PROVE Inv'
<1>1. TypeOK'
  BY TypeStep DEF Next, Step
<1>2. /\ UNCHANGED <<chain, disk, work, lock, scans, head, cursor, selected,
                    malformed, todo, got, events, times>>
      /\ phase[p] = "page" /\ phase'[p] = "cache"
      /\ \A q \in Scanner \ {p} : phase'[q] = phase[q]
  BY DEF PageError, dbVars, fetchVars, readVars, Inv, TypeOK
<1>3. lock # p
  BY <1>2, ScannerAssumption DEF Inv, DbInv
<1>4. ScannerInv(p)'
  BY <1>2 DEF Inv, ScannerInv, WindowInv, FetchInv, ReadInv, WindowLow, Successful
<1>. QED  BY <1>1, <1>2, <1>3, <1>4, LocalStep DEF Kept

(* A cache hit is a validated row, hence a faithful one. *)
LEMMA CacheStep == ASSUME Inv, NEW p \in Scanner, ReadCache(p) PROVE Inv'
<1>1. TypeOK'
  BY TypeStep DEF Next, Step
<1>2. /\ UNCHANGED <<chain, disk, work, lock, scans, head, cursor, selected,
                    malformed, events, times>>
      /\ phase[p] = "cache" /\ phase'[p] = "fetch"
      /\ got'[p] = CacheHits(p) /\ todo'[p] = selected[p] \ CacheHits(p)
      /\ \A q \in Scanner \ {p} : /\ phase'[q] = phase[q]
                                 /\ got'[q] = got[q] /\ todo'[q] = todo[q]
  BY DEF ReadCache, dbVars, pageVars, readVars, Inv, TypeOK
<1>3. selected[p] \subseteq Pos
  BY DEF Inv, TypeOK
<1>4. WindowInv(p)'
  BY <1>2 DEF Inv, WindowInv, WindowLow, Successful
<1>5. FetchInv(p)'
  <2>1. \A s \in CacheHits(p) : Faithful(disk[s], s)'
    BY <1>2, <1>3 DEF CacheHits, Inv, DbInv, Faithful
  <2>. QED  BY <1>2, <2>1 DEF FetchInv, CacheHits
<1>6. ReadInv(p)'
  BY <1>2 DEF ReadInv
<1>. QED  BY <1>1, <1>2, <1>4, <1>5, <1>6, LocalStep DEF Kept, ScannerInv

LEMMA FetchErrorStep == ASSUME Inv, NEW p \in Scanner, FetchError(p) PROVE Inv'
<1>1. TypeOK'
  BY TypeStep DEF Next, Step
<1>2. /\ UNCHANGED <<chain, disk, work, lock, scans, phase, head, cursor, selected,
                    malformed, got, events, times>>
      /\ phase[p] = "fetch" /\ todo'[p] \subseteq todo[p]
      /\ \A q \in Scanner \ {p} : todo'[q] = todo[q]
  BY DEF FetchError, dbVars, pageVars, readVars, Inv, TypeOK
<1>3. WindowInv(p)' /\ ReadInv(p)'
  BY <1>2 DEF Inv, WindowInv, WindowLow, Successful, ReadInv
<1>4. FetchInv(p)'
  BY <1>2 DEF Inv, FetchInv, Faithful
<1>. QED  BY <1>1, <1>2, <1>3, <1>4, LocalStep DEF Kept, ScannerInv

(* The fetched row is faithful; the scanner now owns the transaction. *)
LEMMA FetchStep == ASSUME Inv, NEW p \in Scanner, FetchTransaction(p) PROVE Inv'
<1>. USE ScannerAssumption
<1>1. TypeOK /\ TypeOK'
  BY TypeStep DEF Next, Step, Inv
<1>2. /\ UNCHANGED <<chain, disk, scans, phase, head, cursor, selected, malformed,
                    events, times>>
      /\ phase[p] = "fetch" /\ lock \in {Nobody, p} /\ lock' = p
  BY DEF FetchTransaction, pageVars, readVars
<1>3. PICK s \in todo[p] : \E t \in {chain[s].time, NoTime} :
         /\ work' = [work EXCEPT ![s] = Persisted(@, chain[s], t)]
         /\ todo' = [todo EXCEPT ![p] = @ \ {s}]
         /\ got' = [got EXCEPT ![p] = @ \cup {s}]
  BY DEF FetchTransaction
<1>4. PICK t \in {chain[s].time, NoTime} :
         work' = [work EXCEPT ![s] = Persisted(@, chain[s], t)]
  BY <1>3
<1>5. /\ s \in selected[p] /\ s \in Pos /\ s <= Len(chain) /\ chain[s].ok
      /\ chain[s] \in Tx
  BY <1>1, <1>2 DEF Inv, FetchInv, WindowInv, Successful, WindowLow, TypeOK, Pos
<1>6. /\ work'[s] = Persisted(work[s], chain[s], t)
      /\ \A i \in Pos \ {s} : work'[i] = work[i]
  BY <1>1, <1>4, <1>5 DEF TypeOK
<1>7. Faithful(work[s], s)'
  BY <1>2, <1>5, <1>6 DEF Faithful, Persisted
<1>8. /\ todo'[p] = todo[p] \ {s} /\ got'[p] = got[p] \cup {s}
      /\ \A q \in Scanner \ {p} : todo'[q] = todo[q] /\ got'[q] = got[q]
  BY <1>1, <1>3 DEF TypeOK
<1>9. DbInv'
  <2>1. \A i \in Pos : disk'[i].status = "verified" => Faithful(disk[i], i)'
    BY <1>2 DEF Inv, DbInv, Faithful
  <2>2. \A i \in Pos : work'[i] = disk'[i] \/ Faithful(work[i], i)'
    BY <1>2, <1>6, <1>7 DEF Inv, DbInv, Faithful
  <2>. QED  BY <1>2, <2>1, <2>2 DEF DbInv
<1>10. ASSUME NEW q \in Scanner, q # p PROVE ScannerInv(q)'
  BY <1>2, <1>8, <1>10, Bystander DEF Kept
<1>11. WindowInv(p)' /\ ReadInv(p)'
  BY <1>2 DEF Inv, WindowInv, WindowLow, Successful, ReadInv
<1>12. FetchInv(p)'
  <2>1. ASSUME NEW i \in got'[p]
        PROVE  Faithful(disk[i], i)' \/ (lock' = p /\ Faithful(work[i], i)')
    <3>1. CASE i = s
      BY <1>2, <1>7, <3>1
    <3>2. CASE i # s /\ i \in Pos /\ i \in got[p]
      BY <1>2, <1>6, <3>2 DEF Inv, FetchInv, Faithful
    <3>. QED  BY <1>1, <1>8, <3>1, <3>2 DEF TypeOK
  <2>. QED  BY <1>2, <1>5, <1>8, <2>1 DEF Inv, FetchInv
<1>13. ReportInv' /\ Monotone(chain)'
  BY <1>2, ReportsKept
<1>. QED  BY <1>1, <1>9, <1>10, <1>11, <1>12, <1>13 DEF Inv, ScannerInv

(* The commit makes the transaction's faithful rows durable, all at once. *)
LEMMA CommitStep == ASSUME Inv, NEW p \in Scanner, Commit(p) PROVE Inv'
<1>. USE ScannerAssumption
<1>1. TypeOK /\ TypeOK'
  BY TypeStep DEF Next, Step, Inv
<1>2. /\ UNCHANGED <<chain, work, scans, head, cursor, selected, malformed, todo,
                    got, events, times>>
      /\ phase[p] = "fetch" /\ phase'[p] = "events"
      /\ \A q \in Scanner \ {p} : phase'[q] = phase[q]
      /\ disk' = IF lock = p THEN work ELSE disk
      /\ lock' = IF lock = p THEN Nobody ELSE lock
  BY <1>1 DEF Commit, pageVars, fetchVars, readVars, TypeOK
<1>3. \A s \in Pos : Faithful(disk[s], s) => Faithful(disk'[s], s)
  BY <1>2 DEF Inv, DbInv
<1>4. DbInv'
  <2>1. CASE lock = p
    <3>1. disk' = work /\ work' = work /\ lock' = Nobody
      BY <1>2, <2>1
    <3>2. \A s \in Pos : work[s].status = "verified" => Faithful(work[s], s)
      BY DEF Inv, DbInv
    <3>3. \A s \in Pos : disk'[s].status = "verified" => Faithful(disk[s], s)'
      BY <1>2, <3>1, <3>2 DEF Faithful
    <3>. QED  BY <3>1, <3>3 DEF DbInv
  <2>2. CASE lock # p
    <3>1. lock' # Nobody => phase'[lock'] = "fetch"
      BY <1>1, <1>2, <2>2 DEF Inv, DbInv, TypeOK
    <3>. QED  BY <1>2, <2>2, <3>1 DEF Inv, DbInv, Faithful
  <2>. QED  BY <2>1, <2>2
<1>5. ASSUME NEW q \in Scanner, q # p PROVE ScannerInv(q)'
  BY <1>2, <1>3, <1>5, Bystander DEF Kept
<1>6. WindowInv(p)' /\ ReadInv(p)'
  BY <1>2 DEF Inv, WindowInv, WindowLow, Successful, ReadInv
<1>7. FetchInv(p)'
  <2>1. got[p] \subseteq Pos
    BY <1>1 DEF TypeOK
  <2>2. \A s \in got[p] : Faithful(disk'[s], s)
    BY <1>2, <1>3, <2>1 DEF Inv, FetchInv
  <2>3. \A s \in got[p] : Faithful(disk[s], s)'
    BY <1>2, <2>2 DEF Faithful
  <2>. QED  BY <1>2, <2>3 DEF Inv, FetchInv
<1>8. ReportInv' /\ Monotone(chain)'
  BY <1>2, ReportsKept
<1>. QED  BY <1>1, <1>4, <1>5, <1>6, <1>7, <1>8 DEF Inv, ScannerInv

(* Outside its own transaction, a scanner's retrieved rows are committed.  *)
LEMMA Committed ==
    ASSUME Inv, NEW p \in Scanner, phase[p] \in {"events", "times", "record"}
    PROVE  /\ lock # p
           /\ got[p] \subseteq selected[p] /\ selected[p] \subseteq Pos
           /\ \A s \in got[p] : Faithful(disk[s], s)
<1>1. lock # p
  BY ScannerAssumption DEF Inv, DbInv
<1>. QED  BY <1>1 DEF Inv, FetchInv, TypeOK

LEMMA LoadEventsStep == ASSUME Inv, NEW p \in Scanner, LoadEvents(p) PROVE Inv'
<1>1. TypeOK /\ TypeOK'
  BY TypeStep DEF Next, Step, Inv
<1>2. /\ UNCHANGED <<chain, disk, work, lock, scans, head, cursor, selected,
                    malformed, todo, got, times>>
      /\ phase[p] = "events" /\ phase'[p] = "times"
      /\ \A s \in selected[p] : events'[p][s] = disk[s].events
      /\ \A q \in Scanner \ {p} : phase'[q] = phase[q] /\ events'[q] = events[q]
  BY <1>1 DEF LoadEvents, dbVars, pageVars, fetchVars, TypeOK
<1>3. ReadInv(p)'
  BY <1>2, Committed DEF ReadInv, Faithful
<1>4. FetchInv(p)' /\ WindowInv(p)'
  BY <1>2 DEF Inv, FetchInv, WindowInv, WindowLow, Successful, Faithful
<1>5. lock # p
  BY <1>2, Committed
<1>. QED  BY <1>1, <1>2, <1>3, <1>4, <1>5, LocalStep DEF Kept, ScannerInv

LEMMA LoadTimesStep == ASSUME Inv, NEW p \in Scanner, LoadTimes(p) PROVE Inv'
<1>1. TypeOK /\ TypeOK'
  BY TypeStep DEF Next, Step, Inv
<1>2. /\ UNCHANGED <<chain, disk, work, lock, scans, head, cursor, selected,
                    malformed, todo, got, events>>
      /\ phase[p] = "times" /\ phase'[p] = "record"
      /\ \A s \in selected[p] : times'[p][s] = disk[s].time
      /\ \A q \in Scanner \ {p} : phase'[q] = phase[q] /\ times'[q] = times[q]
  BY <1>1 DEF LoadTimes, dbVars, pageVars, fetchVars, TypeOK
<1>3. ReadInv(p)'
  BY <1>2, Committed DEF Inv, ReadInv, Faithful
<1>4. FetchInv(p)' /\ WindowInv(p)'
  BY <1>2 DEF Inv, FetchInv, WindowInv, WindowLow, Successful, Faithful
<1>5. lock # p
  BY <1>2, Committed
<1>. QED  BY <1>1, <1>2, <1>3, <1>4, <1>5, LocalStep DEF Kept, ScannerInv

(* A call that returns or raises leaves nothing to be wrong about. *)
LEMMA Forgotten ==
    ASSUME Inv, NEW p \in Scanner, Forget(p), chain' = chain
    PROVE  /\ ScannerInv(p)'
           /\ \A q \in Scanner \ {p} : Kept(q)
           /\ phase'[p] = "idle"
<1>1. /\ head'[p] = 0 /\ cursor'[p] = 0 /\ selected'[p] = {} /\ phase'[p] = "idle"
      /\ \A q \in Scanner \ {p} : Kept(q)
  BY DEF Forget, Kept, Inv, TypeOK
<1>2. Len(chain') \in Nat
  BY DEF Inv, TypeOK
<1>3. Successful(WindowLow(p), head[p])' = {}
  BY <1>1 DEF Successful, WindowLow
<1>4. WindowInv(p)'
  BY <1>1, <1>2, <1>3 DEF WindowInv
<1>. QED  BY <1>1, <1>4 DEF ScannerInv, FetchInv, ReadInv

(* The coverage decision: what it lets through is exact, and the interval  *)
(* it states is complete because block times never decrease.               *)
LEMMA RecordStep == ASSUME Inv, NEW p \in Scanner, RecordScan(p) PROVE Inv'
<1>. USE ScannerAssumption
<1>1. TypeOK /\ TypeOK'
  BY TypeStep DEF Next, Step, Inv
<1>2. /\ UNCHANGED <<chain, disk, work, lock>> /\ phase[p] = "record" /\ lock = Nobody
      /\ Forget(p)
  BY DEF RecordScan, dbVars
<1>3. PICK a \in Stamp, b \in Stamp :
        /\ scans' = Append(scans, ReportOf(p, a, b))
        /\ TimesVerified(p) => \E old, new \in selected[p] :
              /\ \A s \in selected[p] : old <= s /\ s <= new
              /\ a = times[p][old] /\ b = times[p][new]
  <2>1. NoTime \in Stamp /\ \A s \in selected[p] : times[p][s] \in Stamp
    BY <1>1 DEF TypeOK, Stamp
  <2>2. CASE ~TimesVerified(p)
    BY <2>1, <2>2 DEF RecordScan
  <2>3. CASE TimesVerified(p)
    <3>1. PICK old, new \in selected[p] :
              /\ \A s \in selected[p] : old <= s /\ s <= new
              /\ scans' = Append(scans, ReportOf(p, times[p][old], times[p][new]))
      BY <2>3 DEF RecordScan
    <3>. QED  BY <2>1, <3>1
  <2>. QED  BY <2>2, <2>3
<1>. DEFINE r == ReportOf(p, a, b)
<1>4. /\ r.head = head[p] /\ r.low = WindowLow(p) /\ r.selected = selected[p]
      /\ r.verified = CoverageVerified(p) /\ r.events = events[p]
      /\ r.timed = TimesVerified(p) /\ r.start = a /\ r.end = b
  BY DEF ReportOf
<1>5. r.timed => r.verified
  BY <1>4 DEF TimesVerified
<1>6. /\ Len(scans') = Len(scans) + 1 /\ Len(scans) \in Nat
      /\ \A n \in 1..Len(scans) : scans'[n] = scans[n]
      /\ scans'[Len(scans) + 1] = r
  BY SMTT(30), <1>1, <1>3 DEF TypeOK
<1>7. CoverageVerified(p) =>
        /\ head[p] <= Len(chain)
        /\ selected[p] = Successful(WindowLow(p), head[p])
        /\ \A s \in selected[p] : events[p][s] = chain[s].events
        /\ \A s \in selected[p] : times[p][s] \in {NoTime, chain[s].time}
  BY <1>2 DEF CoverageVerified, SelectionComplete, Inv, WindowInv, ReadInv
<1>8. ASSUME TimesVerified(p), NEW i \in 1..head[p],
             chain[i].ok, a < chain[i].time, chain[i].time <= b
      PROVE  i \in selected[p]
  <2>1. PICK old \in selected[p] : /\ \A s \in selected[p] : old <= s
                                  /\ a = times[p][old]
    BY <1>3, <1>8
  <2>2. CoverageVerified(p) /\ times[p][old] # NoTime
    BY <1>8 DEF TimesVerified
  <2>3. a = chain[old].time /\ head[p] <= Len(chain)
        /\ selected[p] = Successful(WindowLow(p), head[p])
    BY <1>7, <2>1, <2>2
  <2>4. /\ old \in 1..Len(chain) /\ i \in 1..Len(chain) /\ WindowLow(p) <= old
        /\ WindowLow(p) \in Nat /\ head[p] \in Nat /\ Len(chain) \in Nat
    <3>1. head[p] \in 0..MaxChain /\ cursor[p] \in 0..MaxChain /\ chain \in Seq(Tx)
      BY <1>1 DEF TypeOK
    <3>2. WindowLow(p) \in Nat \ {0} /\ head[p] \in Nat /\ Len(chain) \in Nat
      BY <3>1 DEF WindowLow
    <3>3. old \in WindowLow(p)..head[p]
      BY <2>1, <2>3 DEF Successful
    <3>. QED  BY <2>3, <3>2, <3>3
  <2>5. chain[i].time \in Int /\ chain[old].time \in Int
    <3>1. chain \in Seq(Tx)
      BY <1>1 DEF TypeOK
    <3>2. chain[i] \in Tx /\ chain[old] \in Tx
      BY <2>4, <3>1
    <3>. QED  BY <3>2 DEF Tx, Time
  <2>6. ~(i <= old)
    BY <1>8, <2>3, <2>4, <2>5 DEF Inv, Monotone
  <2>. QED  BY <1>8, <2>3, <2>4, <2>6 DEF Successful
<1>9. ReportInv'
  <2>1. ASSUME NEW n \in 1..Len(scans'), scans'[n].verified
        PROVE  /\ scans'[n].head <= Len(chain)'
               /\ scans'[n].selected = Successful(scans[n].low, scans[n].head)'
               /\ \A s \in scans'[n].selected : scans'[n].events[s] = chain'[s].events
    <3>1. CASE n \in 1..Len(scans)
      BY <1>2, <1>6, <2>1, <3>1 DEF Inv, ReportInv, VerifiedReportExact, Successful
    <3>2. CASE n = Len(scans) + 1
      BY <1>2, <1>4, <1>6, <1>7, <2>1, <3>2 DEF Successful
    <3>. QED  BY <1>6, <3>1, <3>2
  <2>2. ASSUME NEW n \in 1..Len(scans'), scans'[n].timed,
               NEW i \in 1..scans'[n].head, chain[i].ok,
               scans'[n].start < chain[i].time, chain[i].time <= scans'[n].end
        PROVE  i \in scans'[n].selected
    <3>1. CASE n \in 1..Len(scans)
      BY <1>6, <2>2, <3>1 DEF Inv, ReportInv, TimeIntervalComplete
    <3>2. CASE n = Len(scans) + 1
      BY <1>4, <1>6, <1>8, <2>2, <3>2
    <3>. QED  BY <1>6, <3>1, <3>2
  <2>3. \A n \in 1..Len(scans') : scans'[n].timed => scans'[n].verified
    BY <1>5, <1>6 DEF Inv, ReportInv
  <2>. QED  BY <1>2, <2>1, <2>2, <2>3
            DEF ReportInv, VerifiedReportExact, TimeIntervalComplete
<1>10. DbInv'
  BY <1>2 DEF Inv, DbInv, Faithful
<1>11. \A q \in Scanner : ScannerInv(q)'
  BY <1>2, Forgotten, Bystander
<1>12. Monotone(chain)'
  BY <1>2 DEF Inv, Monotone
<1>. QED  BY <1>1, <1>9, <1>10, <1>11, <1>12 DEF Inv, ScannerInv

LEMMA LockTimeoutStep == ASSUME Inv, NEW p \in Scanner, LockTimeout(p) PROVE Inv'
<1>1. TypeOK'
  BY TypeStep DEF Next, Step
<1>2. UNCHANGED <<chain, disk, work, lock, scans>> /\ lock # p /\ Forget(p)
  BY DEF LockTimeout, dbVars
<1>. QED  BY <1>1, <1>2, Forgotten, LocalStep

(* The rollback drops the uncommitted rows, and nothing else. *)
LEMMA CrashStep == ASSUME Inv, NEW p \in Scanner, Crash(p) PROVE Inv'
<1>. USE ScannerAssumption
<1>1. TypeOK'
  BY TypeStep DEF Next
<1>2. /\ UNCHANGED <<chain, disk, scans>> /\ Forget(p)
      /\ work' = IF lock = p THEN disk ELSE work
      /\ lock' = IF lock = p THEN Nobody ELSE lock
  BY DEF Crash
<1>3. /\ ScannerInv(p)'
      /\ \A q \in Scanner \ {p} : Kept(q)
  BY <1>2, Forgotten
<1>4. \A q \in Scanner : ScannerInv(q)'
  BY <1>2, <1>3, Bystander
<1>5. DbInv'
  <2>1. lock' # Nobody => phase'[lock'] = "fetch"
    BY <1>2, <1>3 DEF Inv, DbInv, TypeOK, Kept
  <2>2. \A s \in Pos : Faithful(work[s], s) => (lock # p => Faithful(work[s], s)')
    BY <1>2 DEF Faithful
  <2>3. \A s \in Pos : Faithful(disk[s], s) => Faithful(disk[s], s)'
    BY <1>2 DEF Faithful
  <2>. QED  BY <1>2, <2>1, <2>2, <2>3 DEF Inv, DbInv
<1>6. ReportInv' /\ Monotone(chain)'
  BY <1>2, ReportsKept
<1>. QED  BY <1>1, <1>4, <1>5, <1>6 DEF Inv, ScannerInv
-----------------------------------------------------------------------------
(* Inv is inductive. *)
LEMMA InvStep == Inv /\ [Next]_vars => Inv'
<1>. SUFFICES ASSUME Inv, [Next]_vars PROVE Inv'
  OBVIOUS
<1>1. CASE Grow
  BY <1>1, GrowStep
<1>2. ASSUME NEW p \in Scanner, StartScan(p) \/ Step(p) \/ Crash(p) PROVE Inv'
  BY <1>2, StartStep, PageInv, PageErrorStep, CacheStep, FetchErrorStep, FetchStep,
     CommitStep, LoadEventsStep, LoadTimesStep, RecordStep, LockTimeoutStep, CrashStep
     DEF Step
<1>3. CASE UNCHANGED vars
  BY SMTT(30), <1>3 DEF vars, dbVars, pageVars, fetchVars, readVars, Inv, TypeOK, Monotone,
     DbInv, Faithful, WindowInv, FetchInv, ReadInv, ReportInv, VerifiedReportExact,
     TimeIntervalComplete, Successful, WindowLow
<1>. QED  BY <1>1, <1>2, <1>3 DEF Next

(* Every reachable state satisfies the inductive invariant. *)
THEOREM InvCorrect == Spec => []Inv
<1>. QED  BY InvInit, InvStep, PTL DEF Spec

(* The state of the model always has the shape TypeOK declares. *)
THEOREM TypeCorrect == Spec => []TypeOK
<1>1. Inv => TypeOK
  BY DEF Inv
<1>. QED  BY InvCorrect, <1>1, PTL

(* A validated cache row always agrees with the ledger, for any number of  *)
(* scanners writing and crashing.                                          *)
THEOREM CacheCorrect == Spec => []CacheSound
<1>1. Inv => CacheSound
  <2>. SUFFICES ASSUME Inv, NEW s \in Pos, disk[s].status = "verified"
                PROVE  /\ s <= Len(chain) /\ chain[s].ok
                       /\ disk[s].time = chain[s].time
                       /\ disk[s].events = chain[s].events
    BY DEF CacheSound
  <2>. QED  BY DEF Inv, DbInv, Faithful
<1>. QED  BY InvCorrect, <1>1, PTL

(* Verified net issuance is always a fact about a gap-free window. *)
THEOREM ReportCorrect == Spec => []VerifiedReportExact
<1>1. Inv => VerifiedReportExact
  BY DEF Inv, ReportInv
<1>. QED  BY InvCorrect, <1>1, PTL

(* A recorded interval leaves out nothing of the ledger the scan observed. *)
THEOREM IntervalCorrect == Spec => []TimeIntervalComplete
<1>1. Inv => TimeIntervalComplete
  BY DEF Inv, ReportInv
<1>. QED  BY InvCorrect, <1>1, PTL

(* A recorded scan is one atomic observation of the ledger. *)
LEMMA RecordPublishes ==
    ASSUME Inv, Inv', NEW p \in Scanner, RecordScan(p)
    PROVE  Facts!Publish
<1>1. PICK r : scans' = Append(scans, r)
  BY DEF RecordScan
<1>2. /\ Len(scans') = Len(scans) + 1 /\ Len(scans) \in Nat
      /\ \A n \in 1..Len(scans) : scans'[n] = scans[n]
  <2>1. scans \in Seq(Report) /\ scans' \in Seq(Report)
    BY DEF Inv, TypeOK
  <2>. QED  BY <1>1, <2>1
<1>3. chain' = chain
  BY DEF RecordScan
<1>. DEFINE new == scans'[Len(scans')]
<1>4. Len(scans') \in 1..Len(scans')
  BY <1>2
<1>5. new \in Report /\ Len(chain) \in Nat
  BY SMTT(30), <1>4 DEF Inv, TypeOK
<1>6. new.verified =>
        /\ new.head <= Len(chain)
        /\ new.selected = Facts!Window(new.low, new.head)
        /\ \A s \in new.selected : new.events[s] = chain[s].events
  BY <1>3, <1>4 DEF Inv, ReportInv, VerifiedReportExact, Successful, Facts!Window
<1>7. new.timed => new.verified /\ Facts!Complete(new)
  BY <1>3, <1>4 DEF Inv, ReportInv, TimeIntervalComplete, Facts!Complete
<1>. QED  BY <1>2, <1>3, <1>6, <1>7 DEF Facts!Publish, Facts!Promise

(* The scanners, cache, crashes and retries included, implement the atomic *)
(* observer: reports are only appended, and each keeps its promise at the  *)
(* moment it is published.                                                 *)
THEOREM Refinement == Spec => ImplementsFacts
<1>1. Inv /\ Init => Facts!Init
  BY DEF Inv, TypeOK, Init, Facts!Init, Facts!Tx, Tx, Time
<1>2. Inv /\ Inv' /\ [Next]_vars => [Facts!Next]_<<chain, scans>>
  <2>. SUFFICES ASSUME Inv, Inv', [Next]_vars
                PROVE  [Facts!Next]_<<chain, scans>>
    OBVIOUS
  <2>1. CASE Grow
    BY <2>1 DEF Grow, Facts!Next, Facts!Extend, Facts!Tx, Tx, Time
  <2>2. ASSUME NEW p \in Scanner, RecordScan(p) PROVE Facts!Next
    BY <2>2, RecordPublishes DEF Facts!Next
  <2>3. ASSUME NEW p \in Scanner,
               StartScan(p) \/ Crash(p) \/ (Step(p) /\ ~RecordScan(p))
        PROVE  UNCHANGED <<chain, scans>>
    BY <2>3 DEF StartScan, Crash, Step, FetchPage, RepeatedPage, Page, PageError, ReadCache, FetchError,
       FetchTransaction, Commit, LoadEvents, LoadTimes, LockTimeout
  <2>4. CASE UNCHANGED vars
    BY <2>4 DEF vars
  <2>. QED  BY <2>1, <2>2, <2>3, <2>4 DEF Next, Step
<1>3. Init => Inv
  BY InvInit
<1>. QED  BY <1>1, <1>2, <1>3, InvCorrect, PTL DEF Spec, ImplementsFacts, Facts!Spec
=============================================================================
