----------------------------- MODULE MetricsStore -----------------------------
(***************************************************************************)
(* The store of observed metrics (historical_metrics.py) and the requests  *)
(* that fill and read it (services/historical_compare.py): gateway threads *)
(* answering profile and window requests, the catalogue snapshot job and   *)
(* the import of provider prices, on one SQLite file.                      *)
(*                                                                         *)
(* One mint and the metric "price"; each call of the store is a connection *)
(* and a transaction of its own, so other processes come in between calls. *)
(* A price is a small integer and 0 is NULL; prices are close when they    *)
(* differ by at most Tolerance, which like math.isclose is not transitive. *)
(***************************************************************************)
EXTENDS Integers, FiniteSets, SequencesExt

CONSTANTS
    Threads,    \* threads of the gateway
    Kinds,      \* requests they serve: "profile", "window"
    Keys,       \* (source, provider pair) of imported prices
    Prices,     \* prices observed
    Quotes,     \* prices imported
    MaxNow,     \* the clock runs from 0 to MaxNow
    MaxSnaps,   \* bound on snapshots
    MaxOffers,  \* bound on different rows the import offers
    Candles,    \* times the provider has prices for
    Interval,   \* min_interval_seconds
    Period,     \* length of the window of a comparison
    Slack,      \* tolerance_seconds of historical_value
    Tolerance,  \* of math.isclose
    Lag         \* how old a cached observation may be

ASSUME StoreAssumption ==
    /\ Kinds \subseteq {"profile", "window"}
    /\ Prices \subseteq Nat \ {0} /\ Quotes \subseteq Nat \ {0}
    /\ Candles \subseteq Nat
    /\ MaxNow \in Nat /\ MaxSnaps \in Nat /\ MaxOffers \in Nat
    /\ Interval \in Nat /\ Tolerance \in Nat
    /\ Lag \in Nat /\ Slack \in Nat /\ Period \in Nat /\ Slack < Period

VARIABLES
    now,
    snaps,    \* the table snapshots
    imports,  \* the table verified_price_observations
    offered,  \* rows the import has offered so far
    doing,    \* per thread
    request,  \* per thread, the observation its request carries
    held,     \* per thread, the snapshot rows it has read
    series,   \* per thread, the prices it answered with
    point     \* per thread, the time of the price it compared with

storeVars == <<now, snaps, imports, offered, doing, request, held, series, point>>

Never == -1
Time == 0..MaxNow
NULL == 0
Price == Prices \cup {NULL}

\* Not columns: "sure", the observation's completeness flag was true, "due", it
\* came through record_snapshot_if_due, and "by", the thread that stored it.
Snap == [ts : Time, price : Price, sure : BOOLEAN, due : BOOLEAN, by : Threads]
Import == [ts : Time, price : Quotes, key : Keys]
Request == [kind : {"none", "profile", "window"}, at : Time, price : Price, sure : BOOLEAN]
NoRequest == [kind |-> "none", at |-> 0, price |-> NULL, sure |-> FALSE]
Empty == [ts \in Time |-> NULL]

StoreTypeOK ==
    /\ now \in Time
    /\ snaps \in Seq(Snap) /\ Len(snaps) \in 0..MaxSnaps
    /\ imports \in Seq(Import) /\ Len(imports) \in 0..MaxOffers
    /\ offered \subseteq Import
    /\ doing \in [Threads -> {"idle", "write", "snaps", "imports"}]
    /\ request \in [Threads -> Request]
    /\ \A t \in Threads : held[t] \in Seq(Snap)
    /\ series \in [Threads -> [Time -> Price \cup Quotes]]
    /\ point \in [Threads -> Time \cup {Never}]

StoreInit ==
    /\ now = 0
    /\ snaps = <<>>
    /\ imports = <<>>
    /\ offered = {}
    /\ doing = [t \in Threads |-> "idle"]
    /\ request = [t \in Threads |-> NoRequest]
    /\ held = [t \in Threads |-> <<>>]
    /\ series = [t \in Threads |-> Empty]
    /\ point = [t \in Threads |-> Never]
-----------------------------------------------------------------------------
(* Reading.                                                                *)

Close(a, b) == a - b <= Tolerance /\ b - a <= Tolerance

\* The rows of a time, by their places in the table.
ImportsAt(ts) == {i \in DOMAIN imports : imports[i].ts = ts}
FirstAt(ts) == imports[Min(ImportsAt(ts))].price

\* Provider prices of one time are usable when all are close to the first.
Usable(ts) ==
    /\ ImportsAt(ts) # {}
    /\ \A i \in ImportsAt(ts) : Close(FirstAt(ts), imports[i].price)

PricedAt(rows, ts) == {i \in DOMAIN rows : rows[i].ts = ts /\ rows[i].price # NULL}

\* historical_series: what it has for a time.
Merged(rows, ts) ==
    IF PricedAt(rows, ts) # {} THEN rows[Max(PricedAt(rows, ts))].price
    ELSE IF Usable(ts) THEN FirstAt(ts)
    ELSE NULL

Distance(ts, target) == IF ts < target THEN target - ts ELSE ts - target

\* Mutant: the nearest point counts however far it is.
NearestAtAll(points, target) ==
    LET times == {ts \in Time : points[ts] # NULL}
        best == {ts \in times : \A u \in times : Distance(ts, target) <= Distance(u, target)}
    IN IF best = {} THEN Never ELSE Min(best)

\* Mutant: without a point near enough the wanted time itself is answered.
NearestOrTarget(points, target) ==
    LET times == {ts \in Time : points[ts] # NULL /\ Distance(ts, target) <= Slack}
        best == {ts \in times : \A u \in times : Distance(ts, target) <= Distance(u, target)}
    IN IF best = {} THEN target ELSE Min(best)

\* historical_value_at: the nearest point, the earlier of two, within Slack.
Nearest(points, target) ==
    LET times == {ts \in Time : points[ts] # NULL /\ Distance(ts, target) <= Slack}
        best == {ts \in times : \A u \in times : Distance(ts, target) <= Distance(u, target)}
    IN IF best = {} THEN Never ELSE Min(best)

\* latest_snapshot_time
Latest == Max({Never} \cup {snaps[i].ts : i \in DOMAIN snaps})

\* Mutant: the distance is taken in both directions.
DueEitherWay(at) == Interval = 0 \/ Latest = Never \/ Distance(at, Latest) >= Interval

\* record_snapshot_if_due's condition; an interval of 0 throttles nothing.
Due(at) == Interval = 0 \/ Latest = Never \/ at - Latest >= Interval
-----------------------------------------------------------------------------
(* Requests.                                                               *)

\* A profile request reads the time of the last snapshot.  Its observation may
\* be older than now: the catalogue is cached.
Profile(t) ==
    /\ doing[t] = "idle"
    /\ "profile" \in Kinds
    /\ \E at \in {ts \in Time : now - Lag <= ts /\ ts <= now}, price \in Price :
          /\ request' = [request EXCEPT ![t] = [kind |-> "profile", at |-> at,
                                                price |-> price, sure |-> TRUE]]
          /\ doing' = [doing EXCEPT ![t] = IF Due(at) THEN "write" ELSE "snaps"]
    /\ UNCHANGED <<now, snaps, imports, offered, held, series, point>>

\* build_historical_comparison with a current price, checked or not.
Compare(t) ==
    /\ doing[t] = "idle"
    /\ "window" \in Kinds
    /\ \E price \in Prices, sure \in BOOLEAN :
          request' = [request EXCEPT ![t] = [kind |-> "window", at |-> now,
                                             price |-> price, sure |-> sure]]
    /\ doing' = [doing EXCEPT ![t] = "write"]
    /\ UNCHANGED <<now, snaps, imports, offered, held, series, point>>

RowOf(t) == [ts |-> request[t].at, price |-> request[t].price,
             sure |-> request[t].sure, due |-> request[t].kind = "profile", by |-> t]

\* record_snapshot
Record(t) ==
    /\ doing[t] = "write"
    /\ Len(snaps) < MaxSnaps
    /\ snaps' = Append(snaps, RowOf(t))
    /\ doing' = [doing EXCEPT ![t] = "snaps"]
    /\ UNCHANGED <<now, imports, offered, request, held, series, point>>

\* historical_series reads its tables one after the other.
ReadSnaps(t) ==
    /\ doing[t] = "snaps"
    /\ held' = [held EXCEPT ![t] = snaps]
    /\ request' = [request EXCEPT ![t].at = now]
    /\ doing' = [doing EXCEPT ![t] = "imports"]
    /\ UNCHANGED <<now, snaps, imports, offered, series, point>>

\* The second read, and the answer; a comparison looks Period back.
ReadImports(t) ==
    /\ doing[t] = "imports"
    /\ series' = [series EXCEPT ![t] = [ts \in Time |-> Merged(held[t], ts)]]
    /\ point' = [point EXCEPT ![t] =
                    IF request[t].kind = "window"
                      THEN Nearest(series'[t], request[t].at - Period) ELSE Never]
    /\ doing' = [doing EXCEPT ![t] = "idle"]
    /\ UNCHANGED <<now, snaps, imports, offered, request, held>>

\* Mutant: INSERT OR REPLACE.
BackfillReplaces ==
    /\ \E row \in Import :
          /\ row.ts <= now /\ row.ts \in Candles
          /\ offered' = offered \cup {row}
          /\ Cardinality(offered') <= MaxOffers
          /\ imports' = Append(SelectSeq(imports, LAMBDA old : old.ts # row.ts \/ old.key # row.key), row)
    /\ UNCHANGED <<now, snaps, doing, request, held, series, point>>

\* record_verified_price_observation: INSERT OR IGNORE.
Backfill ==
    /\ \E row \in Import :
          /\ row.ts <= now /\ row.ts \in Candles
          /\ offered' = offered \cup {row}
          /\ Cardinality(offered') <= MaxOffers
          /\ imports' =
                IF \E i \in DOMAIN imports : imports[i].ts = row.ts /\ imports[i].key = row.key
                  THEN imports ELSE Append(imports, row)
    /\ UNCHANGED <<now, snaps, doing, request, held, series, point>>

Tick ==
    /\ now < MaxNow
    /\ now' = now + 1
    /\ UNCHANGED <<snaps, imports, offered, doing, request, held, series, point>>

StoreNext ==
    \/ \E t \in Threads :
          Profile(t) \/ Compare(t) \/ Record(t) \/ ReadSnaps(t) \/ ReadImports(t)
    \/ Backfill
    \/ Tick

StoreSpec == StoreInit /\ [][StoreNext]_storeVars
-----------------------------------------------------------------------------
(* Properties.                                                             *)

\* A throttled snapshot lies at least Interval after every snapshot stored
\* before it, whoever stored those (record_snapshot_if_due, "without creating
\* high-frequency duplicates").
Throttled ==
    \A i, j \in DOMAIN snaps :
        Interval > 0 /\ i < j /\ snaps[j].due => snaps[j].ts >= snaps[i].ts + Interval

\* A throttled snapshot lies at least Interval after every snapshot that the same
\* thread stored before it, however many threads store at once and however late
\* its observation came: a burst has at most one of each thread.
ThrottledEach ==
    \A i, j \in DOMAIN snaps :
        Interval > 0 /\ i < j /\ snaps[j].due /\ snaps[i].by = snaps[j].by =>
            snaps[j].ts >= snaps[i].ts + Interval

\* What a thread has answered for a time came from the provider's rows.
Imported(t, ts) ==
    doing[t] # "imports" /\ series[t][ts] # NULL /\ PricedAt(held[t], ts) = {}

\* Answers that came from the provider's rows stand: any two for one time are the
\* same price, although they were given at different times, the import offered
\* revised prices and prices of other pairs in between, and each was made of two
\* reads (historical_series, record_verified_price_observation).
AnswersStand ==
    \A t, u \in Threads, ts \in Time :
        Imported(t, ts) /\ Imported(u, ts) => series[t][ts] = series[u][ts]

\* A comparison never takes the observation it has just recorded, or any other
\* of this end of its window, for the historical one (historical_value).
ComparesWithPast ==
    \A t \in Threads :
        doing[t] = "idle" /\ point[t] # Never =>
            Distance(point[t], request[t].at - Period) <= Slack /\ point[t] < request[t].at

\* What historical_compare.py says: values that were not verified are not turned
\* into verified ones.  The price a comparison reports as verified history was
\* verified when it was recorded.
NotUpgraded ==
    \A t \in Threads :
        point[t] # Never =>
            LET mine == {i \in DOMAIN held[t] :
                            held[t][i].ts = point[t] /\ held[t][i].price # NULL}
            IN mine # {} => held[t][Max(mine)].sure
=============================================================================
