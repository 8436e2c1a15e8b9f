--------------------------- MODULE MarketFreshness ---------------------------
(***************************************************************************)
(* One production of freshness evidence for a market on X1:                *)
(* produce_x1_current_market_freshness_evidence.                           *)
(*                                                                         *)
(* The market names its pools; a catalogue read later must name the same.  *)
(* The first half reads, account by account, the reserves of those pools   *)
(* and of the reference pool XNT/USDC.X and compares them with the rows of *)
(* the provider (liquidity_freshness.py, liquidity_freshness_v2.py).       *)
(* Whatever becomes of it, the second half reconstructs the swaps of the   *)
(* last window from the history of each pool, once to find the oldest, and *)
(* once more to value each at the rate of the reference pool at its slot   *)
(* (rolling_24h_market_activity.py, trade_time_usd_valuation.py).          *)
(*                                                                         *)
(* All the while the chain goes on.  The ledger is what happened to the    *)
(* pools in the order it did; a reading shows the slots that are complete. *)
(* What the provider says of liquidity, volume and number of transactions  *)
(* may be anything: that it agrees is a choice.  A scan of a history that   *)
(* proved its range has every row after the second it starts at, and of    *)
(* that second the newest it got to: this much HistoryRange is checked to  *)
(* keep (RangeComplete), and no more is used of it (Reached).              *)
(***************************************************************************)
EXTENDS Integers, Sequences, FiniteSetsExt

CONSTANTS
    Pool,         \* the pools there are
    Reference,    \* XNT/USDC.X, one of them
    Quoted,       \* those whose counter mint is wrapped XNT
    Reserves,     \* of every pool, at first
    SlotTime,     \* the second of each slot
    Rank,         \* the order of signatures as text, by place in the ledger
    Window,       \* WINDOW_SECONDS
    MaxAge,       \* DEFAULT_MAX_RPC_AGE_SECONDS
    Lookback,     \* DEFAULT_REFERENCE_LOOKBACK_SECONDS
    MaxLedger     \* bound of the model

Slot == DOMAIN SlotTime

ASSUME MarketAssumption ==
    /\ Reference \in Pool /\ Quoted \subseteq Pool
    /\ Reserves \in Nat \X Nat
    /\ SlotTime \in Seq(Nat) /\ Len(SlotTime) > 0
    /\ \A s, t \in Slot : s <= t => SlotTime[s] <= SlotTime[t]
    /\ {Window, MaxAge, Lookback, MaxLedger} \subseteq Nat
    /\ Rank \in [1..MaxLedger -> Nat]
    /\ \A j, k \in 1..MaxLedger : Rank[j] = Rank[k] => j = k

\* What a transaction does to the vaults of its pool.  A transfer into a vault
\* does not name the pool.  An unclear one invokes the AMM in a way that the
\* proof of membership does not decide.  The others (a failed one, one without
\* the AMM) name the pool and do nothing.
Effect == [swap |-> <<1, -1>>, deposit |-> <<1, 1>>, transfer |-> <<1, 0>>,
           unclear |-> <<1, -1>>, other |-> <<0, 0>>]

VARIABLES
    ledger,   \* the transactions on the pools, oldest first
    slot,     \* the slot that is being filled; its second is everyone's clock
    step,     \* where the production is
    market,   \* market_contributing_pool_addresses
    snap,     \* the snapshot: provider rows, reserves read, failed pools, slot before
    claims,   \* what the liquidity evidence has verified
    ended,    \* the slot in whose second end_epoch was taken
    windows,  \* per pool, the reconstruction that is used
    again,    \* per pool, the one with values, as far as it got
    oldest,   \* oldest_fact_time, the start of the parity context
    result    \* what the rolling evidence has verified

chainVars == <<ledger, slot>>
liquidityVars == <<market, snap, claims>>
activityVars == <<ended, windows, again, oldest, result>>
vars == <<chainVars, step, liquidityVars, activityVars>>

Entry == [pool : Pool, does : DOMAIN Effect, slot : Slot]
Pair == Int \X Int
WindowOf == [swaps : SUBSET (1..MaxLedger), ok : BOOLEAN, valued : BOOLEAN]
Step == {"scope", "before", "rows", "vaults", "assess", "identify", "windows", "context",
         "values", "rolling", "done"}

Requested == market \cup {Reference}

NoSnap == [before |-> 1, row |-> <<>>, rpc |-> <<>>, failed |-> {}]
Liquid == {"v1", "nominal", "independent"}

TypeOK ==
    /\ ledger \in Seq(Entry) /\ Len(ledger) <= MaxLedger
    /\ slot \in Slot
    /\ step \in Step
    /\ market \in SUBSET Pool
    /\ snap.before \in Slot /\ snap.failed \in SUBSET Pool
    /\ DOMAIN snap.row \in SUBSET Pool /\ \A p \in DOMAIN snap.row : snap.row[p] \in Pair
    /\ \A p \in DOMAIN snap.rpc :
          /\ snap.rpc[p] \in Seq(Int) /\ Len(snap.rpc[p]) <= 2
          /\ p \in snap.failed => snap.rpc[p] = <<>>
    /\ claims \in SUBSET Liquid
    /\ ended \in Slot /\ oldest \in 0..SlotTime[Len(SlotTime)]
    /\ \A w \in {windows, again} : DOMAIN w \subseteq market /\ \A p \in DOMAIN w : w[p] \in WindowOf
    /\ result \in SUBSET {"transactions", "volume"}

Init ==
    /\ ledger = <<>> /\ slot = 1
    /\ step = "scope"
    /\ market \in SUBSET Pool \ {{}}
    /\ snap = NoSnap
    /\ claims = {} /\ result = {}
    /\ ended = 1 /\ oldest = 0
    /\ windows = <<>> /\ again = <<>>
-----------------------------------------------------------------------------
(* The chain.                                                              *)

Time(k) == SlotTime[ledger[k].slot]
Complete == {k \in DOMAIN ledger : ledger[k].slot < slot}

\* Vault i of the pool after the first n transactions.
Balance(p, i, n) ==
    LET moves == {k \in 1..n : ledger[k].pool = p}
    IN Reserves[i] + SumFunctionOnSet([k \in moves |-> Effect[ledger[k].does][i]], moves)

Visible == Cardinality(Complete)
Clock == SlotTime[slot]

Transact ==
    /\ Len(ledger) < MaxLedger
    /\ \E p \in Pool, does \in DOMAIN Effect :
          ledger' = Append(ledger, [pool |-> p, does |-> does, slot |-> slot])
    /\ UNCHANGED slot

NextSlot ==
    /\ slot < Len(SlotTime)
    /\ slot' = slot + 1
    /\ UNCHANGED ledger

Chain == step # "done" /\ (Transact \/ NextSlot) /\ UNCHANGED <<step, liquidityVars, activityVars>>
-----------------------------------------------------------------------------
(* The snapshot, and the liquidity evidence.                               *)

\* evaluate_x1_ninja_current_pool_scope: the catalogue may name other pools.
Scope ==
    /\ step = "scope"
    /\ step' \in {"before", "done"}
    /\ UNCHANGED <<chainVars, liquidityVars, activityVars>>

Before ==
    /\ step = "before"
    /\ step' = "rows"
    /\ snap' = [snap EXCEPT !.before = slot]
    /\ UNCHANGED <<chainVars, market, claims, activityVars>>

\* The provider's rows: reserves as of its last synchronisation of the pool.  A
\* pool that has no row is not read.
Rows ==
    /\ step = "rows"
    /\ step' = "vaults"
    /\ \E named \in SUBSET Requested : \E synced \in [named -> 0..Visible] :
          snap' = [snap EXCEPT
              !.row = [p \in named |-> <<Balance(p, 1, synced[p]), Balance(p, 2, synced[p])>>],
              !.rpc = [p \in named |-> <<>>],
              !.failed = Requested \ named]
    /\ UNCHANGED <<chainVars, market, claims, activityVars>>

Unread(p) == p \in DOMAIN snap.rpc \ snap.failed /\ Len(snap.rpc[p]) < 2

\* The pools are read one after the other, the reference pool last unless the
\* market has it, and of each pool one vault after the other.
Ahead(p) ==
    /\ Unread(p)
    /\ \A q \in Pool \ {p} :
          Unread(q) => snap.rpc[q] = <<>> /\ (q \in market => p \in market)

ReadVault(p) ==
    /\ step = "vaults" /\ Ahead(p)
    /\ snap' = [snap EXCEPT !.rpc[p] = Append(@, Balance(p, Len(@) + 1, Visible))]
    /\ UNCHANGED <<chainVars, step, market, claims, activityVars>>

\* Mutant: a pool that fails half way keeps its first reserve.
PoolFailsHalfway(p) ==
    /\ step = "vaults" /\ Ahead(p)
    /\ snap' = [snap EXCEPT !.failed = @ \cup {p}]
    /\ UNCHANGED <<chainVars, step, market, claims, activityVars>>

PoolFails(p) ==
    /\ step = "vaults" /\ Ahead(p)
    /\ snap' = [snap EXCEPT !.failed = @ \cup {p}, !.rpc[p] = <<>>]
    /\ UNCHANGED <<chainVars, step, market, claims, activityVars>>

After ==
    /\ step = "vaults" /\ \A p \in Pool : ~Unread(p)
    /\ step' = "assess"
    /\ UNCHANGED <<chainVars, liquidityVars, activityVars>>

\* Mutant: only the base reserve is compared.
MatchesBase(p) == snap.row[p][1] = snap.rpc[p][1]

\* pooledBase_rpc_comparison and pooledQuote_rpc_comparison
Matches(p) == snap.row[p] = snap.rpc[p]

\* Both halves of the bracket are fresh when the earlier is.
Supported ==
    /\ Clock - SlotTime[snap.before] <= MaxAge
    /\ \A p \in Pool : p \in market => p \notin snap.failed /\ Matches(p)
    /\ Reference \notin snap.failed

\* The three verdicts need this and figures that agree.  An error in between
\* is caught, and the second half begins.
Assess ==
    /\ step = "assess"
    /\ step' = "identify"
    /\ claims' \in IF Supported THEN SUBSET Liquid ELSE {{}}
    /\ UNCHANGED <<chainVars, market, snap, activityVars>>
-----------------------------------------------------------------------------
(* The windows.                                                            *)

\* end_epoch; the identity of each pool is taken from the snapshot.
Identify ==
    /\ step = "identify"
    /\ ended' = slot
    /\ step' = IF market \cap snap.failed = {} THEN "windows" ELSE "done"
    /\ snap' = NoSnap /\ claims' = {}
    /\ UNCHANGED <<chainVars, market, windows, again, oldest, result>>

End == SlotTime[ended]
InWindow(k) == End - Window <= Time(k) /\ Time(k) <= End

\* The rows of the history of a pool that are in the window.
History(p) ==
    {k \in Complete : ledger[k].pool = p /\ ledger[k].does # "transfer" /\ InWindow(k)}

\* Pages come newest first, and the scan ends with the page that gets to its
\* start: rows after that second are all there, those of it down to some row.
Reached(rows, all, start) ==
    /\ \A k \in all : Time(k) > start => k \in rows
    /\ \A j \in rows, k \in all : ledger[k].slot > ledger[j].slot => k \in rows

Swaps(rows) == {k \in rows : ledger[k].does = "swap"}

\* range_proven: the scan got to the second the window begins with.
Fetched(p, rows) ==
    /\ Reached(rows, History(p), End - Window)
    /\ \A k \in History(p) : \E j \in rows : Time(j) <= Time(k)

\* Mutant: what is not decided is taken for no swap.
WholeFetched(p, rows) == Fetched(p, rows)

\* all_successful_transactions_verified and all_pool_relevant_transactions_classified
Whole(p, rows) == Fetched(p, rows) /\ \A k \in rows : ledger[k].does # "unclear"

\* The last successful transaction of vault i of the reference pool at or
\* before a swap.
VaultTransaction(i, k) ==
    ledger[k].pool = Reference /\ ledger[k].does \notin {"other"} \cup
        IF i = 2 THEN {"transfer"} ELSE {}

\* Mutant: all of the second of the swap is eligible.
EligibleSecond(i, s) ==
    {k \in Complete : VaultTransaction(i, k) /\ Time(k) <= Time(s)}

Eligible(i, s) ==
    {k \in Complete : /\ VaultTransaction(i, k)
                      /\ \/ Time(k) < Time(s)
                         \/ Time(k) = Time(s) /\ ledger[k].slot <= ledger[s].slot}

\* eligible.sort(reverse=True): by second, slot and signature.
Later(j, k) ==
    \/ ledger[j].slot > ledger[k].slot
    \/ ledger[j].slot = ledger[k].slot /\ Rank[j] > Rank[k]

\* What may be the first of them, by where the scan, which starts Lookback before
\* the swap, comes to its end.
Anchors(i, s) ==
    {k \in Eligible(i, s) : \E rows \in SUBSET Eligible(i, s) :
        /\ Reached(rows, Eligible(i, s), Time(s) - Lookback)
        /\ k \in rows /\ \A j \in rows \ {k} : Later(k, j)}

\* capture_historical_xnt_usdcx_reference_rate
Priced(s) == \A i \in 1..2 : Eligible(i, s) # {}

\* resolve_xnt_quote_usd_value: rate, parity (of its interval only) and quote mint.
Valuable(p, s) == p \in Quoted /\ Priced(s) /\ oldest <= Time(s)

\* A reconstruction, from what could be fetched of the history.  A window with
\* no swap has its value without a rate.
Reconstructs(p, valuing, w) ==
    \E rows \in SUBSET History(p) :
        /\ w.swaps = Swaps(rows)
        /\ w.ok => Whole(p, rows)
        /\ w.valued => /\ w.ok
                       /\ w.swaps # {} => valuing /\ \A s \in w.swaps : Valuable(p, s)
        /\ w.ok /\ w.swaps = {} => w.valued

Candidates(p) == [swaps : SUBSET Swaps(History(p)), ok : BOOLEAN, valued : BOOLEAN]

With(f, p, w) == [q \in DOMAIN f \cup {p} |-> IF q = p THEN w ELSE f[q]]

Reconstruct(p) ==
    /\ step = "windows" /\ p \in market \ DOMAIN windows
    /\ \E w \in Candidates(p) : Reconstructs(p, FALSE, w) /\ windows' = With(windows, p, w)
    /\ UNCHANGED <<chainVars, step, liquidityVars, ended, again, oldest, result>>

Found == UNION {windows[p].swaps : p \in DOMAIN windows}

\* build_x1_historical_usd_context, from the oldest swap found; without swaps
\* there is nothing to value.
Context ==
    /\ step = "windows" /\ DOMAIN windows = market
    /\ IF Found = {} THEN step' = "rolling" /\ UNCHANGED oldest
       ELSE step' = "values" /\ oldest' = Min({Time(s) : s \in Found})
    /\ UNCHANGED <<chainVars, liquidityVars, ended, windows, again, result>>

Value(p) ==
    /\ step = "values" /\ p \in market \ DOMAIN again
    /\ \E w \in Candidates(p) : Reconstructs(p, TRUE, w) /\ again' = With(again, p, w)
    /\ UNCHANGED <<chainVars, step, liquidityVars, ended, windows, oldest, result>>

Valued ==
    /\ step = "values" /\ DOMAIN again = market
    /\ windows' = again /\ again' = <<>>
    /\ step' = "rolling"
    /\ UNCHANGED <<chainVars, liquidityVars, ended, oldest, result>>

\* historical_usd_production_failed keeps the windows without values.
ValuesFail ==
    /\ step = "values"
    /\ again' = <<>>
    /\ step' = "rolling"
    /\ UNCHANGED <<chainVars, liquidityVars, ended, windows, oldest, result>>

\* rolling_production_failed
ActivityFails ==
    /\ step = "windows"
    /\ step' = "done"
    /\ windows' = <<>>
    /\ UNCHANGED <<chainVars, liquidityVars, ended, again, oldest, result>>

\* evaluate_x1_rolling_24h_market_activity
Rolling ==
    /\ step = "rolling"
    /\ step' = "done"
    /\ result' \in SUBSET
          ((IF \A p \in market : windows[p].ok THEN {"transactions"} ELSE {}) \cup
           (IF \A p \in market : windows[p].ok /\ windows[p].valued THEN {"volume"} ELSE {}))
    /\ UNCHANGED <<chainVars, liquidityVars, ended, windows, again, oldest>>

Producer ==
    \/ Scope \/ Before \/ Rows \/ After \/ Assess
    \/ \E p \in Pool : ReadVault(p) \/ PoolFails(p)
    \/ Identify \/ Context \/ Valued \/ ValuesFail \/ ActivityFails \/ Rolling
    \/ \E p \in Pool : Reconstruct(p) \/ Value(p)

Next == Chain \/ Producer
Spec == Init /\ [][Next]_vars
-----------------------------------------------------------------------------
(* Properties.                                                             *)

\* Liquidity evidence of any of the three kinds is over reserves that each pool
\* of the market had at one and the same instant, although the two vaults are
\* read one after the other while the pool trades.
LiquidityOfOneInstant ==
    claims # {} =>
        \A p \in market : \E n \in DOMAIN ledger \cup {0} :
            snap.rpc[p] = <<Balance(p, 1, n), Balance(p, 2, n)>>

\* What traded on the market's pools in the window, in slots before the given
\* one, and of that what came after the second the window begins with.
TradesBefore(s) ==
    {k \in DOMAIN ledger : /\ ledger[k].pool \in market
                           /\ ledger[k].does \in {"swap", "unclear"}
                           /\ InWindow(k) /\ ledger[k].slot < s}
AfterStart(trades) == {k \in trades : Time(k) > End - Window}

\* A verified number of transactions counts every trade on the market's pools
\* after the second the window begins with, of the slots complete when it was
\* closed, and nothing that was none or was outside of the window, whichever of
\* the two passes it comes from.
ActivityExact ==
    "transactions" \in result =>
        /\ AfterStart(TradesBefore(ended)) \subseteq Found
        /\ Found \subseteq TradesBefore(slot)

\* rolling_24h_market_activity.py calls this exact and its windows complete, and
\* takes the trades of the second start_epoch into them.
ActivityWhole == "transactions" \in result => TradesBefore(ended) \subseteq Found

\* A verified volume values each swap at reserves that followed a transaction of
\* the last slot, up to that of the swap, in which each vault took part: wherever
\* the scan for it ended, and which transaction of that slot is not said.  And the
\* parity it uses covers the second of the swap, although its interval was set by
\* an earlier pass over what then could be fetched.
PricedAtTrade ==
    "volume" \in result =>
        \A s \in Found :
            /\ oldest <= Time(s)
            /\ \A i \in 1..2 :
                  /\ Anchors(i, s) # {}
                  /\ \A a \in Anchors(i, s) :
                        /\ ledger[a].slot <= ledger[s].slot
                        /\ \A k \in DOMAIN ledger :
                              VaultTransaction(i, k) /\ ledger[k].slot <= ledger[s].slot =>
                                  ledger[k].slot <= ledger[a].slot

\* docs/X1_ROLLING_24H_TRADE_TIME_USD_V1.md: each reference vault is anchored by
\* its latest successful transaction at or before the swap slot.
AnchorLatest ==
    "volume" \in result =>
        \A s \in Found, i \in 1..2 : \A a \in Anchors(i, s), k \in DOMAIN ledger :
            VaultTransaction(i, k) /\ ledger[k].slot <= ledger[s].slot => k <= a
=============================================================================
