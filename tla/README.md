# CMIS: TLA+ specifications and proofs

CMIS (Cross-Chain Market Intelligence Service) answers market and token questions about
Solana-style ledgers (X1, Solana and others) from evidence it can verify, and withholds an
answer when the evidence has a gap. This directory models the parts of the repository that
keep state, run concurrently or can fail half way, checks them with TLC on small instances,
and proves the core of them with TLAPS for every value of the constants.

Sections: 1 the system, 2 the modules and how they correspond to the code, 3 the runs,
4 fairness, 5 the proofs, 6 findings, 7 what else was seen, 8 what is not modelled, 9 the plan.

## 1. The system

One pattern runs through the repository. A collector reads a ledger that goes on growing,
through a node that may err, in pages, with bounds on everything; then it decides whether what
it holds *proves* a statement ("net issuance is exactly this", "nobody traded this mint in the
window", "no bridge message was lost"). A wrong *yes* is the failure that matters: the callers
turn absence into a verified zero. Around it stand long-lived processes that write small
files and databases (metric store, listener, agent memory, issue tracker).

Paths are below `src/`.

| Component | State it keeps | Operations and interactions | What is hard | What makes it correct |
|---|---|---|---|---|
| **Token activity scanner** `liquidity_scout/providers/x1/activity_scanner.py`, `tokenomics/activity.py` | SQLite cache of transactions and events; table of scans | page signatures, look rows up, fetch the missing ones, one commit, read back, decide coverage and time coverage, record. Called by the tokenomics services; talks to the RPC transport | rows of older parsers, failures in the middle, crash before the commit, several scanners on one file, a ledger that grows | a verified report is exact; its interval is complete; the cache is sound; scans end |
| **Address history range** `providers/x1/history_range.py` | one scan's rows, cursors, integrity counters | `scan_address_history_range`: page backwards to a time | repeated, reordered, damaged rows; page cut inside a second; the row bound met exactly at the boundary; a node that repeats a page | a proven range has every row; the loop ends |
| **Program window activity** `services/cmis_xdex_program_window_activity.py` | bodies fetched by a pool of threads, attempts per batch | range scan, batched fetch, verification of each body against its row, zero authorisation | missing items, answers in another order, retries, a moved transaction | zero only when there was none |
| **MoltGrid listener** `moltgrid_signal_v12_ollama.py`, `integrations/moltgrid_roberta.py` | a JSON state file (answered ids, two mode starts), the cycle's queue | launch, poll, choose, post, mark, save. Talks to MoltGrid, to Ollama, to the gateway | crash between post and save, file truncated by a crash, ambiguous post, its own replies in the feed | no second answer without a fault, no question lost, no self-reply loop, old posts left alone |
| **HXMP memory** `integrations/hxmp/scripts/hxmp_tools.mjs` | memos on a ledger: chunks and pointers per lane | `write-soul`, `read-soul` | interrupted writes, late transactions, two writers, a scan window | a reader gets the newest memory or an error, never a mixture; the chain of pointers continues |
| **Historical metrics store** `historical_metrics.py`, `services/historical_compare.py`, `providers/x1/xdex_price_history_import.py` | two SQLite tables: own snapshots, imported provider prices | throttled and plain snapshot, import, series, value at a time. Written by every request thread of the gateway and by the import | read-then-write throttle, late observations, two tables read in two connections, conflicting prices | a burst has at most one of each thread; answers stand; a comparison looks back |
| **Warp message retention** `providers/x1/warp_message_*retention*.py`, `current_market_freshness_producer.py` | one collection: counters, accounts, signature history, bodies | read counters and accounts, check closure, page, fetch bodies, verdict; used by the Warp flow to count zero | messages made, closed, recycled between the readings; lagging web API; pruned node; bounded pages | positive evidence covers every message, none closed or made twice in the window |
| **Warp flow and parity** `providers/x1/warp_onchain_transfer_history.py`, `warp_bridged_supply_evidence.py`, `warp_bridge_flow_integration.py`, `services/cmis_bridge_flow_intelligence.py`, `trade_time_usd_valuation.py` | eleven readings of two chains | read accounts, counters, balances in one of two orders; check counters and backing; sum settled transfers per window, or wind balances back to the second of a trade | transfers sent, held, settled, closed between any two readings | totals are exactly the transfers paid out; reserve and supply bound what they were |
| **Market freshness** `providers/x1/current_market_freshness_producer.py`, `liquidity_freshness*.py`, `rolling_24h_market_activity.py`, `trade_time_usd_valuation.py`, ... | one production: a snapshot, two passes over the windows | scope, snapshot of vaults, liquidity verdicts, windows of swaps, parity context, values, rolling verdict. Uses the range scan, the Warp parity | vaults read one after the other while pools trade; a second pass that finds other rows; slots against seconds | reserves of one instant; the count exact; each swap valued at its own slot |
| **XDEX price history completeness** `providers/x1/xdex_archive_start_exhaustion.py`, `xdex_forward_bar_continuity.py`, `xdex_history_current_end.py`, `xdex_supported_lifetime_range.py`, `xdex_price_history_range.py` | one proof: windows, cursor, found bars | four windows around the first bar, a scan forward, the tail, the seam; a sweep backwards | bars that close, or arrive late, between requests; answers that hide rows; windows off the grid | a start has nothing before it; a lifetime has every bar; a sweep found all |
| Sentinel issue tracker `sentinel_issues.py` | two JSON files, active and archive | open, update, resolve, archive | crash between the two saves, two commands at once, ids given twice | no issue lost, ids unique |
| XDEX catalogue cache `providers/x1/market.py`, `gateway` threads | cached pools, price, time | refresh, read | fields replaced one by one under readers; refreshes finishing in either order; offset paging over a moving list | a reader sees one snapshot; time never runs back |
| HTTP gateway, private core adapter, evidence persistence | none of their own | authenticate, route, wrap | threads over the shared providers and store | (where it bites: metrics store, catalogue cache) |
| RPC transport | none | one request, bounded retries | time-outs | an answer or an error |
| Market resolver, rankings, pools, oracle, risk, tokenomics, discovery, other chains, probes, report builders | none | pure functions of one captured response | decimals, absent values | unit-tested arithmetic |

`PROJECT.json` lists every component with its status, and under `hazards` every place where
something can go wrong that a test would hardly reach, with the properties aimed at it.

## 2. Modules

| Module | Role |
|---|---|
| `ActivityScanner` | the scanner, any number of processes on one database |
| `IssuanceFacts` | abstract: an observer that looks at the ledger at one instant and publishes true facts |
| `ActivityScannerProofs` | theorems about the two |
| `MCActivityScanner` | constants of their runs |
| `HistoryRange` | one paged range scan against a node that misbehaves |
| `ProgramWindow` | composes: extends `HistoryRange` with fetch, verification and zero |
| `ProgramWindowProofs` | theorems about the two |
| `MoltGridListener` | the polling loop, its state file and the board |
| `MoltGridListenerProofs` | theorems about it |
| `HxmpMemory` | writers and readers of memories on one wallet's ledger |
| `MetricsStore`, `MCMetricsStore` | the store, gateway threads, the import |
| `StoreProofs` | theorems about `HxmpMemory` and `MetricsStore` |
| `WarpRetention`, `MCWarpRetention` | the bridge, and one collection of evidence |
| `WarpRetentionProofs` | theorems about it |
| `WarpFlow`, `MCWarpFlow` | both chains of the bridge, and the two jobs that calculate from it |
| `WarpFlowProofs` | theorems about it |
| `MarketFreshness`, `MCMarketFreshness` | pools that trade, and one production of freshness evidence |
| `PriceHistory` | the archive of bars, the lifetime proof and the sweep |
| `PriceProofs` | theorems about `MarketFreshness` and `PriceHistory` |
| `FiniteFacts` | for the proofs: the least and the greatest of finitely many, places of a sequence, sums over a finite set |

Two modules of proofs are about two components each. So that both can be extended together, the
state machines of `MetricsStore` and `PriceHistory` are `StoreInit`, `StoreNext`, `StoreSpec`,
`StoreTypeOK` and `HistoryInit`, `HistoryNext`, `HistorySpec`, `HistoryTypeOK`; elsewhere they are
`Init`, `Next`, `Spec`, `TypeOK`.

Rows picked from a sequence are written as the set of their places (`ImportsAt`, `PricedAt` in
`MetricsStore`, `RowsAt` in `HistoryRange`), and totals as `SumFunctionOnSet`: the prover can
reason about both, and not about `SelectSeq`.

### ActivityScanner

A signature is its position in the ledger. Entries carry `ok`, a block time (never decreasing)
and the parsed events. `disk` is the committed cache, `work` the view of the open write
transaction, `lock` its owner: the first `INSERT` takes SQLite's write lock and the single
`commit` after the loop ends it, so a crash throws `work` away.

| Action | Code |
|---|---|
| `StartScan` | entry of `scan_token_activity`; the first page fixes `head` |
| `FetchPage`, `PageError` | `_select_signatures`: pages with `before`, malformed entries, both ends of the loop |
| `RepeatedPage` | the node sends a full page again: `before` stays where it was, and of a bounded call `remaining` goes down |
| `ReadCache` | the one look at the cache that splits cached from unverified |
| `FetchTransaction`, `FetchError` | fetch loop, `_persist_transaction` (old events deleted and rewritten) |
| `Commit` | `connection.commit()` |
| `LoadEvents`, `LoadTimes` | the two read-backs |
| `RecordScan` | `_coverage_state`, `_time_coverage_state`, `_record_scan` |
| `LockTimeout`, `Crash`, `Grow` | SQLite gives up after its timeout; the process dies; a transaction is finalized |

Initially any signature may have a legacy row (an older parser, arbitrary events, its block time or
none, unverified). Token amounts are abstracted to the set of events of a transaction: the report is
exact when it is over exactly the right events.

### HistoryRange and ProgramWindow

`HistoryRange` is `scan_address_history_range` whole: page size, row bound, `before`, the set of
seen cursors, every integrity counter that makes the verdict fail (`flaws`), both exits, and
`RangeProven`. `ServedPages` is what a node may return for a page: the true one, or that page
with rows swapped, repeated, replaced by rows of other places, without block time or signature.
`ProgramWindow` adds the batches: each is pending, answered in any order and with missing items
or retried until `Retries` is spent; `Verified` is the check of a body against its row (slot,
programs); `Report` is the summary and `program_scoped_asset_activity_zero_verified`.

### MoltGridListener

One action per point at which the process can die: `Launch`/`Started` (load the state, start
implicit mode), `Fetch`, `EnsureThread`/`ThreadSaved` (start thread mode), `Collect`
(`find_unanswered_messages` and the batch of the oldest), `Confirmed` / `Unconfirmed` /
`CycleFails` (a post), `Mark`/`Marked` (save). A save is two steps, because `write_text` empties
the file before it fills it; a file that does not parse reads as an empty state, so the first
step leaves `Blank`. People post Signals that name the bot (`explicit`), asset questions of the
owner that do not (`implicit`), comments and chatter. `faults` counts crashes, failed saves and
ambiguous posts.

### HxmpMemory

A memory is the number of its chunks. The ledger holds chunks and pointers of the two kinds of
memos; a transaction may be refused, confirmed, or time out and land later or never. `Start`
scans the window, of which it may miss any part (`Losable`: a scan or a fetch that fails is passed
over), and fixes the pointer's sequence number and `prev` (`nextMemoryMeta`); `seen`, a ghost field
of the pointer, is how much of the chain that scan showed whole;
`Confirmed` sends chunk by chunk and the pointer last; `ReadSoul` is the read with
`validateSnapshotParts` and decryption.

### MetricsStore

`Profile` is a throttled observation (`record_snapshot_if_due` reads the last time, `Record`
inserts), `Compare` the plain one of a comparison, `ReadSnaps` and `ReadImports` the two reads of
`historical_series`, `Backfill` the import's `INSERT OR IGNORE`. `Merged` is the precedence of
own snapshots over providers and the agreement of providers, `Nearest` the lookup of a value at a
time. One metric of one mint. `sure`, `due` and `by` are ghost fields of a snapshot: whether its
price was verified, whether it came through the throttle, and which thread stored it.

### WarpRetention

The ledger is the list of the bridge program's transactions, each doing one thing to one
message: `deploy`, `create`, `close`, a touch that leaves it zero, or a failed one. What the
collector reads is a function of a prefix of it. The stages follow the code:
readings (`ReadOfficial`, `ReadConfig`, `ReadOutgoing`, `ReadIncoming` in the order of the
constant `Reads`) → `Accept`/`Refuse` (counter closure) → `BeginLifecycle` / `BeginInterval` →
`Page` → `ReadArchive` → `FetchBatch`/`BodyMissing` → `Evaluate`. Any call may fail and drop
everything. `readAt` is a ghost: how long the ledger was when the accounts were read.

Sources of doubt that are in the model: the web API's counter may be that of any earlier time;
the newest transactions may not be finalized yet; the node's address index may be cut anywhere;
a row may have no block time; bodies may be missing for a while or for good; the first available
block may be unknown.

### WarpFlow

The ledger is what the bridge did to one route, on both chains, in the order it happened: `send`,
the making of the destination account (`settle`, `hold` for a delayed claim, `stray` for another
mint, `unclear` for what the code cannot decide), `claim`, and accounts closed or made anew. A
reading is the last entry it shows and the second it was taken in. `Order` has the two orders the
code reads in: the flow job takes accounts and counters before the balances, the parity job after
them. `Read`/`Refused` take a reading and apply what is checked at once (`Closed`, the counter
closure; `Backed`, the supply proof); `ReadRetention` takes what `WarpRetention` shows
(`UniverseRetained`) for an interval that ends now: none of the accounts read was closed or made
anew after the first second, as far as the finalized history goes (`Lag` seconds back); `Fails`
drops everything. From the finished readings, `Settled`, `Unresolved` and `Safe` are
`normalize_warp_route_events`, `Counted` the totals of a window, `Verified` the verdict of the
integration, `SourceReserve` and `DestinationSupply` the bounds of
`evaluate_historical_usdcx_parity`.

### MarketFreshness

Transactions (swap, deposit, plain transfer into a vault, an undecidable one, others) happen on
the pools in slots; a reading shows complete slots only. `Scope`, `Before`, `Rows`,
`ReadVault`/`PoolFails`, `After`, `Assess` are the first half: one RPC account at a time, the
comparison with the provider's rows, both versions of the liquidity evidence. `Identify`,
`Reconstruct`, `Context`, `Value`/`Valued`/`ValuesFail`, `ActivityFails`, `Rolling` are the
second, which runs whatever became of the first. `Reached` is what a proven range has: every row
after its start second, and of that second the newest it got to. `Anchors` are the reference
transactions a vault may be given, by where in its start second the scan for them ended. `snap` is
dropped once it is not used any more, as in the code.

### PriceHistory

A bar is its number; `archive` is what the provider has of them, which grows in any order.
An answer is the set of bars of its rows, whole or with rows hidden (`hides` counts those);
everything the code refuses is `Unusable`. The lifetime proof is the sequence of the live tests,
its only callers: `PreWindow`, `CrossingWindow`, `PostWindow`, `RepeatWindow` with the gates of
`StartExhausted`; `ForwardWindow`, `ForwardDone`; `Aim`, `ReadTail`, `Evaluate`, which reads again
when a bar has closed since its clock was read; `Seam`. The discovery is `BeginSweep`,
`SweepWindow`, `SweepDone`, in ticks, off the grid of the bars. `known` is a ghost: what the
archive had in the range in question when it was first asked.

### Abstractions that several modules share

- A JSON-RPC node may answer with an error, late or damaged rows, but does not silently leave a
  row out of the middle of a page: no client can detect that, and the code's own documentation
  excludes it. (`WarpRetention` does have an index cut at any point.)
- Block times never decrease along the ledger. The code checks this for what it reads.
- Wording, formatting, decimals and key material are not modelled.

## 3. Runs

`tlc -workers 2 -config X.cfg M` in this directory. All runs say `CHECK_DEADLOCK FALSE`, because
the bounded worlds really stop: the ledger is full, the clock is at its end, the report is made.

| Run | Module / cfg | Asks | Bounds, and why they are enough |
|---|---|---|---|
| `activity_one` | `MCActivityScanner` / `ActivityScanner_one.cfg` | `TypeOK`, `TimeIntervalComplete`, `ScanEnds` | 3 entries, pages of 2, `max_signatures` none, 0, 1 or 3, two block times: a page boundary inside a second and inside the window, a bound met before, at and after the end, growth between pages, pages sent again |
| `activity_two` | `MCActivityScanner` / `ActivityScanner_two.cfg` | `CacheSound`, `VerifiedReportExact`, `ImplementsFacts` | two scanners, one scan each, two entries, one event: every interleaving of their look-ups, writes, commits, time-outs and crashes over two rows, while the ledger grows |
| `window_exact` | `ProgramWindow` / `ProgramWindow_exact.cfg` | `TypeOK`, `RangeComplete`, `TraceExact`, `ZeroExact`, `ReportReturned` | 3 transactions, pages of 2, bound 3, times before, at the start of, in and after the window, two slots, two batches, two attempts |
| `listener_faults` | `MoltGridListener` / `MoltGridListener_faults.cfg` | `TypeOK`, `RepliesBounded`, `MarkedIsAnswered`, `NeverItself`, `HistoryLeftAlone`, `SignalServed` | two messages of any kind, one fault of any kind at any point, a look-back of one tick of three: old and fresh messages, a batch of two that a fault splits |
| `listener_once` | `MoltGridListener` / `MoltGridListener_once.cfg` | `AnsweredOnce`, violated | one message, one unconfirmed post |
| `hxmp_torn` | `HxmpMemory` / `HxmpMemory_torn.cfg` | `TypeOK`, `Recoverable`, `ValidatedIsWhole`, `Chained` | two writers, two lanes, memories of one and of two chunks, two writes, six transactions: one write interrupted, late or in parallel with the other, after scans that missed any part of the chain |
| `metrics_store` | `MCMetricsStore` / `MetricsStore_pass.cfg` | `StoreTypeOK`, `ThrottledEach`, `ComparesWithPast`, `AnswersStand` | two threads, two snapshots, two provider rows of one time, of one pair or of two, with three prices of which neighbours agree and ends do not, before, between and after the reads of either thread |
| `metrics_race` | `MetricsStore` / `MetricsStore_race.cfg` | `Throttled`, violated | two threads |
| `warp_retention` | `MCWarpRetention` / `WarpRetention_pass.cfg` | `TypeOK`, `UniverseWhole`, `UniverseRetained`, `StampsHonest` | three bridge transactions after the deployment, two outgoing and one incoming message, three times, pages of two, two pages, batches of three, two attempts, one transaction not yet finalized |
| `warp_flow` | `MCWarpFlow` / `WarpFlow_pass.cfg` | `TypeOK`, `FlowExact`, `ParityBounds` | two transfers to X1 and one from it, three bridge steps, four seconds, one account closed or made anew, windows of one second, final after one second: every step of a transfer before, between and after any two of the eleven readings of either job |
| `market` | `MCMarketFreshness` / `MarketFreshness_pass.cfg` | `TypeOK`, `LiquidityOfOneInstant`, `ActivityExact`, `PricedAtTrade` | the reference pool and one other, two transactions, four slots of which two share a second, a window, an age and a lookback of one second: a trade between two vault readings, between two passes, in the slot and in the second of a swap; a scan that ends anywhere in its start second |
| `price_history` | `PriceHistory` / `PriceHistory_pass.cfg` | `HistoryTypeOK`, `StartExact`, `LifetimeWhole`, `SweepWhole` | seven bars of two ticks, two windows of two bars, two readings of the tail, sweep windows on and off the grid, two answers that hide rows |

What they show: `activity_*` that no failed page, repeated page, malformed entry, failed fetch,
stale row, crash or concurrent scan reaches a verified report. `window_exact` that within the
window (its first second apart) zero means zero. `listener_faults` that every second answer has a
fault behind it, that marking after posting loses no question, and that nothing the state file
goes through makes the bot answer itself or the owner's old posts. `hxmp_torn` that a write is
seen whole or not at all, and that a lane whose scans fail is begun anew or continued, never
broken. `metrics_store` that a burst leaves at most one snapshot of each thread, that what was
answered from the provider's rows stays the answer whatever is imported later, and that a
comparison does not find the row it has just written. `warp_retention` that, with accounts read
before the Config account, the counter closure and the trace leave no message out. `warp_flow`
that window totals, up to the reading of the Config account, and parity bounds stand up to every
interleaving of the bridge with the readings, where the retention evidence looks (section 7).
`market` that a comparison of two separately read vaults with one provider row is worth a reading
at one instant, that the number of transactions is exact after the start second in whichever pass
it was found, and that no swap is valued at a rate of a later slot, of an earlier one than the
last in which the vault took part, or a parity of another time. `price_history` that repeated
windows, the seam and the repeated tail leave no bar out while bars close.

The mutants in the modules (each named "Mutant: ..." before the definition it replaces) are
plausible bugs of that code. For each property of a passing run, one of them makes TLC find it
violated under the same configuration.

## 4. Fairness

- `ActivityScanner!FairSpec`: weak fairness of each scanner's own steps. A running call goes on
  and its requests are answered (the transport has time-outs). Nothing promises a failure, and an
  answer that is malformed does not count as progress. Neither does a page sent again: a call with
  `max_signatures` ends all the same, since every page counts against it, but a call without has
  no stall check (`activity_scanner.py:212-265`), and a node that sends one full page for ever
  keeps it going for ever. That the node sends the next page at last is for such a call an
  assumption. `LockTimeout` is among the steps: SQLite gives up after its timeout.
- `ProgramWindow!FairSpec`: weak fairness of the caller's steps: each request returns or times
  out and attempts are bounded.
- `MoltGridListener!FairSpec`: weak fairness of the loop, with the restart by the service
  manager (`Launch`), and strong fairness of `Confirmed`: MoltGrid may refuse replies for as long
  as it likes, not for ever. Crashes and refusals themselves are never forced.

The other specifications have safety properties only and no fairness.

## 5. Proofs

### The activity scanner

`ActivityScannerProofs` proves for every set of scanners and events, every page limit, set of
bounds and size of the ledger, from `ScannerAssumption` alone (bounds are naturals or
`NoBound`, the page limit is positive, the model values are not integers and `Nobody` is not a
scanner):

| Theorem | States |
|---|---|
| `TypeCorrect` | `Spec => []TypeOK` |
| `CacheCorrect` | `Spec => []CacheSound` |
| `ReportCorrect` | `Spec => []VerifiedReportExact` |
| `IntervalCorrect` | `Spec => []TimeIntervalComplete` |
| `Refinement` | `Spec => ImplementsFacts`: initial states map to initial states; `RecordScan` maps to `Publish`, `Grow` to `Extend`, every other step to a stutter |

None of the invariants is inductive. `Inv` adds what each decision of the code silently relies on:

- `Monotone(chain)`: block times of the ledger never decrease. Without it the ends of a window
  say nothing about what lies outside.
- `DbInv`: a validated row is *faithful* (a successful entry of the ledger, its events, its time);
  the open transaction differs from the committed rows only by faithful ones; without a lock
  they are equal; the owner of the lock is in its fetch loop. This is what makes another
  scanner's commit, or a rollback, harmless.
- `WindowInv`: the selection lies within the run of entries examined so far and, unless a
  malformed entry was met, is all of its successful ones.
- `FetchInv`: whatever is counted as retrieved has a faithful row, committed or in the scanner's
  own transaction. The look-up is made once and used after network calls; this is why that
  is sound: a faithful row is never made unfaithful, only replaced by a faithful one.
- `ReadInv`: what was read back agrees with the ledger for every retrieved signature.
- `ReportInv`: the two report properties, and that a timed report is a verified one.

There is one lemma per action. `Bystander` and `LocalStep` carry what the other scanners
know past a step of one; `Forgotten` handles every way a scan ends; `PageStep` is the set
arithmetic of one page.

### The listener

`MoltGridListenerProofs` proves for every number of messages, length of the clock, batch,
look-back, and number and choice of faults, from `ListenerAssumption` (the bounds are naturals,
the batch is positive, the faults are of the three kinds):

| Theorem | States |
|---|---|
| `TypeCorrect` | `Spec => []TypeOK` |
| `RepliesCorrect` | `Spec => []RepliesBounded`: at most one reply more than there were faults |
| `MarkedCorrect` | `Spec => []MarkedIsAnswered` |
| `SelfCorrect` | `Spec => []NeverItself` |
| `HistoryCorrect` | `Spec => []HistoryLeftAlone` |

`Inv` has one part per idea: `BoardInv` (a reply names an earlier post, only comments hang under
one), `QueueInv` (the messages chosen are of people and not older than the mode), `ModeInv` (no
start of the mode, in memory or on disk, lies before the first launch, and there is no reply
before it), `MarkInv` (whatever is marked, or about to be, has a reply) and `CountInv`. The last
one is the argument for `RepliesBounded`, which alone is not inductive: a message that the state
file does not remember has had no more replies than there were faults, and one it remembers at
most one more. One crash may forget every mark at once; it is one fault for all of them, so every
message is back under the bound. `Pen` is what the file remembers, also while it is being written.
`Grown` says what a step does to the board and is all the other lemmas need of it.

### The program window

`ProgramWindowProofs` proves for every window, page size, row bound, batch size, number of
attempts and history, from `RangeAssumption` and `WindowAssumption` (bounds are naturals, sizes
positive, the model values are not numbers):

| Theorem | States |
|---|---|
| `TypeCorrect` | `Spec => []TypeOK`: among it that there is at most one page more than signatures |
| `RangeCorrect` | `Spec => []RangeComplete` |
| `TraceCorrect` | `Spec => []TraceExact` |
| `ZeroCorrect` | `Spec => []ZeroExact` |

`Inv` follows the data from the node to the verdict. `LedgerInv`: slots and times never decrease.
`KeptInv`: while no integrity counter has moved, the rows kept are rows of the history and so is
the cursor. `RowsInv` is the argument of the scan: as long as nothing found so far would fail the
verdict, the rows are exactly the newest transactions, in the order of the history except that
rows of one slot may have changed places (which neither the slot check nor the time check can
see), and the cursor is one of them. A page that starts from a row which is not the oldest
repeats a row, and the counter of repeated rows moves. `FetchInv`: whatever order the answers
of a batch come in, a signature has its own transaction or none. `StageInv` says that only a proven
range is fetched and reported.

`TypeCorrect` is about the paging loop, which has no bound on its pages: it ends because a page that
does not set a new cursor stops it. `CursorInv` counts: the cursors are different signatures of
the history as the first page showed it, and while paging there are as many of them as pages.

### HXMP memory

`StoreProofs` proves for any number of writers, memories of any size, any lanes, and any number
of writes, refusals, time-outs and late transactions, from `HxmpAssumption`:

| Theorem | States |
|---|---|
| `TypeCorrect` | `Spec => []TypeOK` |
| `ValidatedCorrect` | `Spec => []ValidatedIsWhole` |
| `RecoverableCorrect` | `ReadWindow >= MaxChain` implies `Spec => []Recoverable` |
| `ChainedCorrect` | `Spec => []Chained` |

The premise of `RecoverableCorrect` is a limit of the code stated openly: it reads 80 signatures
back. `Chained` has none, for a scan may miss anything and its window may be short: a pointer
begins its lane anew or continues an earlier one, and it continues the newest if its scan missed
nothing. That it always continues the newest is what the documentation says and the code does not
keep (`Consecutive`, section 6). `Inv` is: `NumberInv` (no snapshot id is above the number of
writes), `OwnerInv` (a snapshot id belongs to one write of one memory), `OnceInv` (no chunk is on
the chain twice, or there and in flight, and what a writer has yet to send is not out:
`validateSnapshotParts` counts parts, and one chunk that landed twice would make a memory
unreadable for good), `WholeInv` (no pointer, on the chain or in flight, precedes its chunks). A
cardinality argument (`FS_Bijection`) then gives that a complete scan finds exactly as many parts
as the pointer says. `LinkInv` adds for `Chained` that every pointer, also one in flight or yet to
be sent, has below it what it continues (`Back`), and continues the newest of what its scan showed
whole; `LinksKept` and `LandedKept` that a longer chain does not change that.

### The metrics store

`StoreProofs` proves for any number of threads, every clock, period, slack, interval, set of prices
and number of rows, from `StoreAssumption`:

| Theorem | States |
|---|---|
| `StoreTypeCorrect` | `StoreSpec => []StoreTypeOK` |
| `ThrottleCorrect` | `StoreSpec => []ThrottledEach` |
| `PastCorrect` | `StoreSpec => []ComparesWithPast` |
| `AnswersCorrect` | `StoreSpec => []AnswersStand` |

`ThrottledEach` is what is left of the throttle when threads store at once; the whole of it
(`Throttled`) fails, as run `metrics_race` shows. Its invariant, `DueInv`, says that an
observation about to be stored keeps its distance to the rows its own thread has stored: no other
thread can add to those between the question and the insert. `StoreAssumption` has `Slack <
Period` (six hours, `historical_metrics.py:527`, against periods of at least a day, `:14`);
`PastCorrect` is where it is used. `TableInv` bounds the imported rows: each row offered has one
stored of its key and time, so there are no more stored than were offered. `AnswersCorrect` is an
argument over time, because two answers are given in two steps with imports between them:
`FirstInv`, what was answered from the provider's rows is the price of the first row of its time,
and `FirstStays`, the import never puts another row before it.

### Market freshness

`PriceProofs` proves for every set of pools, length and speed of the clock, window,
lookback, age and order of signatures, from `MarketAssumption`:

| Theorem | States |
|---|---|
| `TypeCorrect` | `Spec => []TypeOK` |
| `LiquidityCorrect` | `Spec => []LiquidityOfOneInstant` |
| `ActivityCorrect` | `Spec => []ActivityExact` |
| `PricedCorrect` | `Spec => []PricedAtTrade` |

`ActivityExact` is about the window without its start second, of which the scan may have a part
only (`ActivityWhole`, section 6), and `PricedAtTrade` about the last slot in which a vault took
part, not about the order inside that slot (`AnchorLatest`, section 6). `Inv` has `ChainInv`
(nothing happened in a slot still to come), `SnapInv` (a row of the provider is of one instant:
this, and the comparison with it, is what makes two separately read vaults worth one reading) and
`WindowInv`: both passes are `Honest` (they count only trades of complete slots, and all of them
after the start second when they say so), `Worth` (what was valued has a rate, inside the interval
of the parity) and `Unvalued` (nothing is valued before there is a context). `Anchored` is the
rest of `PricedAtTrade`: an anchor exists whenever the vault had a transaction (`GreatestMeasure`
of `FiniteFacts`), and wherever the scan ended in its start second it had got to the last slot of
the vault. `TypeInv` is the rest of the types: which readings there are in which step of the
snapshot, and that a balance, which is a sum over the transactions of a pool, is an integer
(`SumInt`).

### The price history

`PriceProofs` proves for every length of bar, reach, bound, width of a window and number of
answers that hide rows, from `HistoryAssumption`:

| Theorem | States |
|---|---|
| `HistoryTypeCorrect` | `HistorySpec => []HistoryTypeOK` |
| `StartCorrect` | `HistorySpec => []StartExact` |
| `LifetimeCorrect` | `HistorySpec => []LifetimeWhole` |
| `SweepCorrect` | `HistorySpec => []SweepWhole` |

`HistoryInv` counts: in `StartInv` each window that did not show a bar before the anchor has cost one
answer that hid it, so a verified start with such a bar costs three. `ForwardInv`: below the
cursor of the forward scan the archive has every bar; `SweepInv`: at and above the cursor
of the sweep everything known has been found, although the windows touch off the grid of the
bars; `EndInv` and `HistoryTypeOK` complete it.

### The Warp retention evidence

`WarpRetentionProofs` proves for all sets of messages, page and batch sizes, page caps, attempts,
windows, lags and ledgers, from `WarpAssumption`:

| Theorem | States |
|---|---|
| `TypeCorrect` | `Spec => []TypeOK` |
| `UniverseCorrect` | `Covered(Len(Reads))` implies `Spec => []UniverseWhole` |
| `RetainedCorrect` | `Spec => []UniverseRetained` |
| `StampsCorrect` | `Spec => []StampsHonest` |

`Covered` says of the order of readings that each reading of accounts is followed by one of the
Config account: the order of `current_market_freshness_producer.py` and of the run. It is needed:
for the order of the lifecycle workflow TLC refutes `UniverseWhole` (section 7). The argument is
one of counting. `AccountsInv`: every account read had been made when its side was. `CountersInv`: at
least that many had been made when the Config account was read, whose counter is that of *some*
prefix of the ledger, no shorter than the accounts'. `ClosureInv`: the sizes agree after all. So the
accounts read are, by `FS_Subset`, all the messages there were, although messages may have been
closed and made in between: one that is missing cannot be made up for by one made later.

For the other two, `HistoryInv` describes the pages read so far as a run of the ledger with the
row it stops at: either that row reached the start of the window, or it is inside or without a
time. `TraceShows` then says that a trace with positive evidence shows every transaction in the
window to each message of the universe, wherever pages were cut and whatever the node
dropped: the verdict would not be positive. `StageInv` keeps a verdict out of the stages before it.

### The Warp flow

`WarpFlowProofs` proves for any number of transfers, any amounts, ledgers, windows and
interleavings of the bridge with the readings of either job, from `FlowAssumption`:

| Theorem | States |
|---|---|
| `TypeCorrect` | `Spec => []TypeOK` |
| `FlowCorrect` | `Spec => []FlowExact` |
| `ParityCorrect` | `Spec => []ParityBounds` |

`OrderInv` says that a later reading shows whatever an earlier one showed and concerns it;
`TimedInv`, what a reading of a known second shows; `ChainInv`, in which order the bridge works
(an account is made once, first on the source chain; only a held transfer is claimed). The core is
`ClosedInv`: once all counters agree with each other and with the accounts, every message the
counters count was known to the web API and has its account (`ClosedWhole`). Since readings only
grow, equal numbers are equal sets, and nothing can have been closed or made in between.
`RetentionInv` is what the retention evidence says, in terms of the accounts read: an entry that
closed or remade one of them is `Unseen`, that is, not after the first second or not final yet.
With the two premises in `FlowExact`, `FirstSecondQuiet` and `ReadFinal`, no account read was made
anew in the interval, so a timestamp read is that of the transfer. Both premises are needed: TLC
refutes the formula without either, and with `Retained` left out. The totals are compared with the
transfers paid out up to the reading of the Config account of their destination chain, not up to
`as_of` (`ZeroWindowComplete`, section 6). `FlowTotals` then equates the sum over the accounts
with the sum over the ledger, and `SentBound` and `PaidBound` show that what winding back adds and
takes away errs on one side only. Each is a comparison of two sums over sets of which one includes
the other, after `SumWithin` and `SumApart`.

### Sums and places

`FiniteFacts` has what the other modules need of finite sets. A sum of the library is a fold, which
is defined by recursion over the set. The library's induction theorems cannot be used (section
"What stays with TLC"), so `SubsetInduction` is stated for the subsets of one set with a given
property as a set, and proved from `LeastNatural` by the least cardinality at which it fails.
`AddsUnique` and `AddsExists` show with it that there is exactly one function that adds up as a
sum does; `SumFirst` (one element apart), `SumAny`, `SumApart` (two disjoint sets) and `SumWithin`
(a smaller set has the smaller sum) follow. `Ranked` says that of finitely many places one has
any given number before it: so `RowsAt` is defined for each of its rows.

### What stays with TLC

- Liveness under fairness: `ScanEnds`, `ReportReturned`, `SignalServed`.
- The two violation runs, whose properties do not hold.

Every invariant of a passing run, and the refinement, has a theorem.
What those theorems assume beyond the assumptions on the constants stands in their statements and
in the tables above: a window that spans the ledger (`RecoverableCorrect`) and an order of readings
(`UniverseCorrect`). `FlowExact` and `ParityBounds` have their premises in the formula the runs check
(`FirstSecondQuiet`, `ReadFinal`).

What the prover cannot do, and how the modules avoid it: it cannot instantiate a theorem whose
parameter is an operator, so inductions over data are made from least counterexamples; it knows
nothing of `SelectSeq`, so rows are picked by their places (`ProgramWindow!Wanted` still has
one: it fixes the order of the rows in the batches, which the proofs do not depend on).

No module uses a recursive operator.

## 6. Findings

Two are runs whose property states what the repository says and that TLC refutes; the quotation
and the line are in `PROJECT.json`.

- `listener_once`: a post that lands without a confirmed link stays unmarked and is answered
  again in every cycle. The bridge document says an ambiguous post cannot create a second reply.
- `metrics_race`: the throttle reads in one connection and writes in another. Two gateway
  threads record the same observation.

Seven more are kept as configurations to run by hand
(`tlc -workers 2 -config X.cfg M`); TLC refutes each within a minute.

- `ProgramWindow_edge.cfg`, module `ProgramWindow`, property `ZeroExactWindow`: the window is
  inclusive at its start (`cmis_xdex_program_window_activity.py:291`), but the range scan stops at
  the first row at or before the start (`history_range.py:240`). Activity of the start second that
  lies on the next page is neither scanned nor a gap, and zero is authorised. The module's
  docstring (lines 3-10) speaks of "an exact requested window" and says "Any
  fetch/identity/verification gap fails closed and zero is not authorized".
- `HxmpMemory_lane.cfg`, `HxmpMemory`, `ReadbackOwn`: the readback of `write-soul` passes no lane
  (`hxmp_tools.mjs:751`), so `readSoul` reads `core` (`:917`). After a write to another lane it verifies
  another memory. `integrations/hxmp/TOOL_MANIFEST.json:70`: "Encrypt and write HXMP memory chunks plus
  latest pointer, then verify readback."
- `HxmpMemory_fork.cfg`, `HxmpMemory`, `Consecutive`: a scan that fails gives an empty list
  (`hxmp_tools.mjs:709`) and a transaction that cannot be fetched is dropped (`:847`), so a lane
  with memories may be begun again at number 1, or continued at an older memory.
  `integrations/hxmp/API.md:212`: "the agent scans existing HXMP records for the newest pointer in
  the lane, sets `seq` to previous sequence plus one, and sets `prev` to the previous memory
  hash."
- `MetricsStore_upgrade.cfg`, `MetricsStore`, `NotUpgraded`: a comparison records the current price
  whether or not it was verified (`historical_compare.py:804`), and a later one returns it as verified
  history (`:828`). Line 96 there: "they are not silently upgraded to verified facts for downstream risk
  use".
- `WarpFlow_gap.cfg`, `MCWarpFlow`, `ZeroWindowComplete`: coverage ends at the `as_of` of the retention
  evidence (`warp_bridge_flow_integration.py:256`), which is taken after the accounts and counters were
  read. A transfer that settles in between is in no total, and the newest window may show a verified
  zero. `docs/WARP_BRIDGE_FLOW_FINAL_INTEGRATION_V1.md:28`: "This permits numeric zero totals for
  genuinely complete no-event windows."
- `MarketFreshness_anchor.cfg`, `MCMarketFreshness`, `AnchorLatest`: of several transactions of
  one slot the one with the largest signature text is the anchor
  (`trade_time_usd_valuation.py:265`), whichever came last.
  `docs/X1_ROLLING_24H_TRADE_TIME_USD_V1.md:20`: "Each reference vault is independently anchored
  by its latest successful vault-account transaction at or before the swap slot."
- `MarketFreshness_edge.cfg`, `MCMarketFreshness`, `ActivityWhole`: as for the program window, the scan
  stops at the first row at or before the start (`history_range.py:240`), while the market's window
  takes in the start second (`rolling_24h_market_activity.py:272`) and trusts `range_proven`
  (`:262`): a verified number may miss trades of that second.

## 7. Seen while modelling, without a run

- Activity scanner: a call without `max_signatures` never ends against a node that repeats a full page
  (section 4). The recorded interval is inclusive at its newest second, and a transaction of
  that second may be finalized after the scan. `TimeIntervalComplete` speaks of the ledger the scan saw.
- History range: a load-balanced node that does not know the cursor answers `[]`, which ends the
  scan as if the history did (`history_range.py:212`). No client can tell; the docstring excludes
  archival completeness.
- Listener: the threads that count for follow-ups are those the bot has posted in by now, not by
  the time of the message. A message that always fails holds back the later ones until it is too
  old. `save_answered` (`moltgrid_signal_v12_ollama.py:241`) rewrites the file without a lock; the
  bridge document forbids a second listener.
- HXMP: building the receipt calls `objSeq(latest.object)` on a pointer that has no `object`
  (`hxmp_tools.mjs:761`), which raises after a successful write. A scan that misses a transaction
  (`:847`), or one whose window of 80 signatures other transactions have filled (`:844`), may return an
  older memory and restart the numbering. Scans that miss transactions are in the run; its windows
  are as long as its chain, which `Recoverable` needs.
- Metrics: a provider's revised price of a time is ignored (`historical_metrics.py:350`, `INSERT OR
  IGNORE`). A snapshot without a price holds back the next one (`:586`). Closeness of prices is
  not transitive and only the first row is compared with the others, so whether a time is usable
  depends on the order of import: a later import may turn an answer into none, but not into another
  price (`AnswersStand`). An own snapshot stored later does replace it.
- Warp retention: with the order of readings of the lifecycle evidence workflow (counter, Config
  account, then accounts) `UniverseWhole` does not hold: one message is closed and another sent between
  the last two. The checked order is the one of `current_market_freshness_producer.py`. To see it, set
  `Reads` to `<<"official", "onchain", "outgoing", "incoming">>` in `MCWarpRetention`.
- Warp retention: closures of messages outside the universe read are never counted, although
  `docs/WARP_MESSAGE_LIFECYCLE_RETENTION_V1.md` lists any closure of a message account as a
  blocker. It says nothing of the first second of its interval, hence `FirstSecondQuiet` in
  `WarpFlow`. Accounts are read at "confirmed" commitment and histories as finalized: an account
  remade just before it was read is not in the history yet, hence `ReadFinal`. The lag is in the
  retention evidence only; the balances of vault and mint are modelled as read at once.
- Market: the balances of the vaults are read with the RPC's default commitment (finalized,
  `rpc.py:668`), the slots around them with "confirmed" (`ninja_price_fact_time.py:68`). The reserves of
  the reference pool are compared with nothing of one instant (`liquidity_freshness.py:437`), so the
  independent USD figure of the second version may rest on a ratio that never was; it also takes over
  the freshness of the first version's bracket.
- Market: a swap and a deposit in one transaction count as a liquidity event. A second pass that
  proves less than the first loses the number of transactions the first had.
- Price history: where the forward scan and the tail (or the windows around the start) overlap, no
  gate compares their content. An age of exactly two intervals is within the freshness bound
  although one more bar has closed; `evaluate_xdex_history_current_end` does not check that the
  requested bar is closed. Only the loop of the live tests rules both out. With a bar
  before the anchor that is published late, between the windows, one hidden answer is enough.
- Issue tracker: archiving saves the active file without the issues before it writes the archive
  (`sentinel_issues.py:281`): a crash in between loses them. The next id is one more than the
  largest active one (`:59`): that of an archived newest issue is given out again.
- Catalogue: a refresh replaces pools, price and time one after the other under request threads
  that read them (`providers/x1/market.py:117`), and two refreshes may finish in either order.

## 8. Not modelled, and why

The issue tracker (a developers' command, run by hand) and the catalogue cache have no module.
What is at stake in them is short and known: section 7 names the crash between the tracker's two
saves and the fields that the cache replaces one by one, and the hazards have their lines. The
code has nothing that guards against either, so there is no property of it to check, only these
two facts.

The gateway, adapter and evidence wrappers keep no state; their threads appear in
`MetricsStore`. The transport is the choice between an answer and an error in every
model. Market selection, rankings, the decoding of pools and reserves, the oracle policy, risk
reports, tokenomics arithmetic and discovery are pure functions of one response with decimals and
wording, which are unit-tested and give a model checker nothing to interleave. The private core is
not in the repository. Earlier versions of the listener are no longer started.

Of the modelled components the following is left out:

- range scan: `compare_provider_rows_to_chain` and `summarize_entries_for_window` (pure);
- HXMP: identity-hash and manifest records, key files, `soul-status`, the older locator;
- metrics store: pair comparisons, drawdown and gap statistics;
- Warp retention and flow: decoding and address verification of the accounts, log fragments,
  decimals (a transfer is one unit), the report wrappers;
- market freshness: decimals and the arithmetic of the USD values (a swap is valued at a slot and a
  parity), the other freshness policies, the rendering of the evidence;
- price history: prices of the bars (only which bars there are), provider metadata.

The component list has the reason of each. Hazards without a property say why in their note.

## 9. Plan

Done: the scanner with its abstract specification, range and window, listener, HXMP memory, market
freshness, price history, the metrics store, Warp retention and Warp flow, each model-checked and
each safety property proved.

What is left, in the order of its worth:

1. What `WarpFlow` takes from `WarpRetention` (`Retained`) as a theorem that relates the two
   modules: today it is one definition that says of the ledger of one what `UniverseRetained` says
   of the other's, and the two are read side by side.
2. An abstract specification of the metrics store (a query answered at one instant) with
   `AnswersStand` as a consequence of the refinement.
3. An abstract specification of the range scan, of which the program window uses the promise only.

The runs stay few: a new question takes the place of a shallower one, or joins a run of the same
module.
