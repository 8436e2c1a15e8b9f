------------------------------ MODULE WarpFlow ------------------------------
(***************************************************************************)
(* What is calculated from the Warp bridge's messages on both chains.      *)
(*                                                                         *)
(* The "flow" job binds settled transfers, retention evidence and bridged  *)
(* supply into totals per time window (warp_onchain_transfer_history.py,   *)
(* warp_bridged_supply_evidence.py, warp_bridge_flow_integration.py,       *)
(* cmis_bridge_flow_intelligence.py).  The "parity" job winds the reserve  *)
(* of the vault on Solana and the supply of the wrapped token on X1 back   *)
(* to the second of a trade (current_market_freshness_producer.py,         *)
(* trade_time_usd_valuation.py).                                           *)
(*                                                                         *)
(* Both take one reading after another while the bridge works on.  The     *)
(* ledger is what the bridge did to one route, on either chain, in the     *)
(* order it happened; a reading is told by the last entry it shows and the *)
(* second it was taken in.  The retention evidence is here what            *)
(* WarpRetention!UniverseRetained says of it: it is of the accounts read,  *)
(* of what is final, and not of the first second.                          *)
(***************************************************************************)
EXTENDS Integers, Sequences, FiniteSetsExt

CONSTANTS
    Inflows, Outflows,  \* transfers Solana -> X1 and X1 -> Solana, by sequence
    Amount,             \* amount_raw of each
    Reserve, Supply,    \* of the vault and of the wrapped mint, at first
    Lengths,            \* the lengths of the windows
    Lookback,           \* lookback_seconds of the retention evidence
    MaxSkew,            \* max_observation_skew_seconds
    Lag,                \* seconds until a transaction is final
    MaxLedger, MaxTime, \* bounds of the model
    MaxRemoved          \* ... closed or recycled message accounts

Transfer == Inflows \cup Outflows

ASSUME FlowAssumption ==
    /\ Inflows \cap Outflows = {}
    /\ Amount \in [Transfer -> Nat \ {0}]
    /\ Reserve \in Nat /\ Supply \in Nat /\ Supply <= Reserve
    /\ Lengths \subseteq Nat \ {0}
    /\ {Lookback, MaxSkew, Lag, MaxLedger, MaxTime, MaxRemoved} \subseteq Nat
    /\ \A l \in Lengths : 2 * l <= Lookback

VARIABLES
    ledger,  \* what happened to the route's message accounts, oldest first
    clock,   \* the time of both chains and of the collector
    job,     \* what the readings are taken for
    step,    \* readings taken, -1 once a reading or a check has failed
    seen,    \* per reading, the last entry of the ledger it shows and, if that
             \* is used, when it was taken
    start    \* requested_start of the retention evidence

chainVars == <<ledger, clock>>
vars == <<ledger, clock, job, step, seen, start>>

Time == 0..MaxTime

\* The account of a transfer on its source chain, and on its destination.
Message == {"out", "in"} \X Transfer

\* What is done to it.  The destination account of a transfer is made settled,
\* with a delayed claim, for another mint, or in a way that does not tell
\* whether it has settled (an old layout, another sender, ...) though it has.
Makes == {"send", "settle", "hold", "stray", "unclear"}
Entry == [msg : Message, does : Makes \cup {"claim", "close", "remake"}, time : Time]

Order == [flow |-> <<"official", "sol_out", "sol_in", "x1_out", "x1_in", "sol_config",
                     "x1_config", "as_of", "vault", "mint", "supply">>,
          parity |-> <<"official", "vault", "mint", "supply", "sol_out", "sol_in",
                       "x1_out", "x1_in", "sol_config", "x1_config", "as_of">>]

Reading == {Order.flow[k] : k \in DOMAIN Order.flow}
Unread == [r \in Reading |-> [n |-> 0, at |-> 0]]

TypeOK ==
    /\ ledger \in Seq(Entry) /\ Len(ledger) <= MaxLedger
    /\ clock \in Time
    /\ job \in DOMAIN Order
    /\ step \in -1..Len(Order[job])
    /\ seen \in [Reading -> [n : 0..MaxLedger, at : Time]]
    /\ start \in -Lookback..MaxTime
    /\ step = -1 => seen = Unread /\ start = 0

Init ==
    /\ ledger = <<>>
    /\ clock = 0
    /\ job \in DOMAIN Order
    /\ step = 0
    /\ seen = Unread
    /\ start = 0
-----------------------------------------------------------------------------
(* The chains after the first n entries of the ledger.                     *)

Done(m, does, n) == \E k \in 1..n : ledger[k].msg = m /\ ledger[k].does \in does

Made(m, n) == Done(m, Makes, n)

\* The entry that made the account as it is, or closed it.
Latest(m, n) ==
    CHOOSE k \in 1..n :
        /\ ledger[k].msg = m /\ ledger[k].does # "claim"
        /\ \A j \in (k + 1)..n : ledger[j].msg = m => ledger[j].does = "claim"

Alive(m, n) == Made(m, n) /\ ledger[Latest(m, n)].does # "close"

\* Its timestamp (outgoing) or executed_timestamp (incoming).
Stamp(m, n) == ledger[Latest(m, n)].time

\* An incoming account that was made as this, and not anew since.
MadeAs(i, does, n) == Done(<<"in", i>>, does, n)

\* The amount of the transfer has been paid out on its destination chain.
Pays(k, i) == ledger[k].msg = <<"in", i>> /\ ledger[k].does \in {"settle", "unclear", "claim"}
Paid(i, n) == \E k \in 1..n : Pays(k, i)

Total(transfers) == SumFunctionOnSet(Amount, transfers)

\* A transfer to X1 locks in the vault and mints; one from X1 burns and releases.
Vault(n) ==
    Reserve + Total({i \in Inflows : Made(<<"out", i>>, n)})
            - Total({i \in Outflows : Paid(i, n)})

Minted(n) ==
    Supply + Total({i \in Inflows : Paid(i, n)})
           - Total({i \in Outflows : Made(<<"out", i>>, n)})
-----------------------------------------------------------------------------
(* The bridge: code of others.                                             *)

Now == Len(ledger)

Happens(m, does) ==
    /\ Now < MaxLedger
    /\ ledger' = Append(ledger, [msg |-> m, does |-> does, time |-> clock])
    /\ UNCHANGED clock

Send(i) ==
    /\ ~Made(<<"out", i>>, Now)
    /\ i \in Outflows => Amount[i] <= Minted(Now)
    /\ Happens(<<"out", i>>, "send")

Execute(i) ==
    /\ Made(<<"out", i>>, Now) /\ ~Made(<<"in", i>>, Now)
    /\ \E does \in Makes \ {"send"} : Happens(<<"in", i>>, does)

Claim(i) ==
    /\ MadeAs(i, {"hold"}, Now) /\ ~Paid(i, Now)
    /\ Happens(<<"in", i>>, "claim")

\* The account of a message is closed, or closed and made anew.
Remove(m) ==
    /\ Alive(m, Now)
    /\ Cardinality({k \in 1..Now : ledger[k].does \in {"close", "remake"}}) < MaxRemoved
    /\ \E does \in {"close", "remake"} : Happens(m, does)

Tick ==
    /\ clock < MaxTime
    /\ clock' = clock + 1
    /\ UNCHANGED ledger

Bridge ==
    /\ step \in 0..(Len(Order[job]) - 1)
    /\ \/ \E i \in Transfer : Send(i) \/ Execute(i) \/ Claim(i)
       \/ \E m \in Message : Remove(m)
       \/ Tick
    /\ UNCHANGED <<job, step, seen, start>>
-----------------------------------------------------------------------------
(* The readings, and what is refused at once.                              *)

\* The reading of a message's accounts, and that of the counters of its chain.
AccountsRead(m) ==
    CASE m[1] = "out" /\ m[2] \in Inflows -> "sol_out"
      [] m[1] = "out" /\ m[2] \in Outflows -> "x1_out"
      [] m[1] = "in" /\ m[2] \in Inflows -> "x1_in"
      [] m[1] = "in" /\ m[2] \in Outflows -> "sol_in"

ConfigRead(m) == IF AccountsRead(m) \in {"sol_out", "sol_in"} THEN "sol_config" ELSE "x1_config"

\* Entry k changes what the reading returns.
Shows(r, k) ==
    LET e == ledger[k]
        onSource == (e.msg[1] = "out") = (e.msg[2] \in Inflows)  \* on Solana
        moves == e.does = "send" \/ Pays(k, e.msg[2])
    IN CASE r \in {"sol_out", "sol_in", "x1_out", "x1_in"} ->
                AccountsRead(e.msg) = r /\ e.does # "claim"
         [] r \in {"sol_config", "x1_config"} -> ConfigRead(e.msg) = r /\ e.does \in Makes
         [] r = "official" -> e.does \in Makes
         [] r = "vault" -> onSource /\ moves
         [] r \in {"mint", "supply"} -> ~onSource /\ moves
         [] r = "as_of" -> FALSE

\* The accounts of a side of a chain that its reading returned.
Accounts(s, r) == {m \in Message : AccountsRead(m) = r /\ Alive(m, s[r].n)}

\* A counter as of n counts the messages there have been.
Counter(r, n) == Cardinality({m \in Message : AccountsRead(m) = r /\ Made(m, n)})

\* Mutant: the counters are compared with each other only.
ClosedCounters(s) ==
    \A m \in Message :
        Counter(AccountsRead(m), s.official.n) = Counter(AccountsRead(m), s[ConfigRead(m)].n)

\* evaluate_warp_message_counter_closure
Closed(s) ==
    \A m \in Message :
        LET r == AccountsRead(m)
        IN /\ Counter(r, s.official.n) = Counter(r, s[ConfigRead(m)].n)
           /\ Counter(r, s.official.n) = Cardinality(Accounts(s, r))

Apart(s, a, b) == IF s[a].at <= s[b].at THEN s[b].at - s[a].at ELSE s[a].at - s[b].at

\* observation_time_compatible; the later of the two readings of the mint counts.
Compatible(s) == Apart(s, "vault", "supply") <= MaxSkew

\* The parity job goes on from a reserve that covers the supply, the flow job
\* from one that equals it.
Backed(s) ==
    /\ Minted(s.mint.n) = Minted(s.supply.n)
    /\ Compatible(s)
    /\ IF job = "flow" THEN Vault(s.vault.n) = Minted(s.supply.n)
                       ELSE Vault(s.vault.n) >= Minted(s.supply.n)

\* What a reading must satisfy together with those before it.
Passes(r, s) ==
    /\ r = "x1_config" => Closed(s)
    /\ r = "supply" => Backed(s)

\* Mutant: a job that fails leaves behind what it has read.
RaiseHalfway == step' = -1 /\ UNCHANGED <<chainVars, job, seen, start>>

\* An error leaves no evidence behind.
Raise ==
    /\ step' = -1 /\ seen' = Unread /\ start' = 0
    /\ UNCHANGED <<chainVars, job>>

Ahead(r) == step \in 0..(Len(Order[job]) - 1) /\ Order[job][step + 1] = r

\* The last of the first n entries that a reading shows, 0 if there is none.
Shown(r, n) ==
    CHOOSE k \in 0..n : (k = 0 \/ Shows(r, k)) /\ \A j \in (k + 1)..n : ~Shows(r, j)

With(r, n) ==
    [seen EXCEPT ![r] = [n |-> Shown(r, n),
                         at |-> IF r \in {"as_of", "vault", "supply"} THEN clock ELSE 0]]

Take(r, n) ==
    /\ Passes(r, With(r, n))
    /\ seen' = With(r, n)
    /\ step' = step + 1
    /\ UNCHANGED <<chainVars, job>>

Refused(r) == ~Passes(r, With(r, Now)) /\ Raise

\* fetch_official_warp_config: the API answers from a state it has seen.
ReadOfficial ==
    /\ Ahead("official")
    /\ \E n \in 0..Now : Take("official", n)
    /\ UNCHANGED start

\* Accounts, counters, balances.
Read(r) ==
    /\ r \notin {"official", "as_of"}
    /\ Ahead(r)
    /\ \/ Take(r, Now) /\ UNCHANGED start
       \/ Refused(r)

\* The reading of its chain returned the account.
There(m) == Alive(m, seen[AccountsRead(m)].n)

\* The retention evidence from the given second to now: of the accounts read, the
\* finalized history shows none closed or made anew in between.
Retained(from) ==
    ~\E k \in 1..Now :
        /\ ledger[k].does \in {"close", "remake"} /\ There(ledger[k].msg)
        /\ from < ledger[k].time /\ ledger[k].time + Lag <= clock

\* as_of = now; the window goes back by the lookback, or to the oldest trade.
ReadRetention ==
    /\ Ahead("as_of")
    /\ \E from \in IF job = "flow" THEN {clock - Lookback} ELSE 0..(clock - 1) :
          Retained(from) /\ start' = from
    /\ Take("as_of", Now)

\* A call fails, evidence is negative, there is no such window.
Fails == step \in 0..(Len(Order[job]) - 1) /\ Raise

Collector == ReadOfficial \/ (\E r \in Reading : Read(r)) \/ ReadRetention \/ Fails

Next == Bridge \/ Collector
Spec == Init /\ [][Next]_vars

Finished(j) == job = j /\ step = Len(Order[j])
-----------------------------------------------------------------------------
(* normalize_warp_route_events                                             *)

SentAt(i) == Stamp(<<"out", i>>, seen[AccountsRead(<<"out", i>>)].n)
SettledAt(i) == Stamp(<<"in", i>>, seen[AccountsRead(<<"in", i>>)].n)
SeenAs(i, does) == There(<<"in", i>>) /\ MadeAs(i, does, seen[AccountsRead(<<"in", i>>)].n)

\* The incoming account bears the time at which the transfer was sent first.
FirstSent(i) ==
    ledger[CHOOSE k \in 1..Now : ledger[k].msg = <<"out", i>> /\ ledger[k].does = "send"].time

Candidate == {i \in Transfer : There(<<"out", i>>)}

\* Mutant: a claim that is still to come is taken for settled.
SettledOrHeld ==
    {i \in Candidate : SeenAs(i, {"settle", "hold"}) /\ FirstSent(i) = SentAt(i)}

Settled == {i \in Candidate : SeenAs(i, {"settle"}) /\ FirstSent(i) = SentAt(i)}

Unresolved == Candidate \ Settled

\* missing_destination_incoming, destination_mint_mismatch
Safe == {i \in Unresolved : ~There(<<"in", i>>) \/ SeenAs(i, {"stray"})}
-----------------------------------------------------------------------------
(* build_bridge_flow_intelligence and its integration.                     *)

AsOf == seen.as_of.at

Window ==
    UNION {{[from |-> AsOf - l, to |-> AsOf], [from |-> AsOf - 2 * l, to |-> AsOf - l]} :
              l \in Lengths}

In(t, w) == w.from <= t /\ t < w.to

CoverageComplete == \A w \in Window : start <= w.from /\ w.to <= AsOf

\* The settled transfers a window's totals are made of.
Counted(w) ==
    {i \in Settled : SettledAt(i) < AsOf /\ start <= SettledAt(i) /\ In(SettledAt(i), w)}

\* integration_verified
Verified == Finished("flow") /\ CoverageComplete /\ Unresolved = {}
-----------------------------------------------------------------------------
(* evaluate_historical_usdcx_parity                                        *)

SourceObserved == seen.vault.at
DestinationObserved == seen.supply.at

\* Facts that are valued: traded in the covered interval, before the readings.
Fact == {t \in start..AsOf : t <= SourceObserved /\ t <= DestinationObserved}

Between(fact, t, observed) == fact < t /\ t <= observed

\* historical_source_reserve_lower_bound_raw
SourceReserve(fact) ==
    Vault(seen.vault.n)
        - Total({i \in Inflows \cap Candidate : Between(fact, SentAt(i), SourceObserved)})
        + Total({i \in Outflows \cap Settled : Between(fact, SettledAt(i), SourceObserved)})

\* historical_destination_supply_upper_bound_raw
DestinationSupply(fact) ==
    Minted(seen.supply.n)
        - Total({i \in Inflows \cap Settled : Between(fact, SettledAt(i), DestinationObserved)})
        + Total({i \in Outflows \cap Candidate : Between(fact, SentAt(i), DestinationObserved)})

\* Every unresolved transfer sent between the fact and the reading is bounded.
Bounded(fact) ==
    \A i \in Unresolved \ Safe :
        ~Between(fact, SentAt(i), IF i \in Inflows THEN SourceObserved ELSE DestinationObserved)

Evaluated(fact) == Bounded(fact) /\ SourceReserve(fact) >= 0 /\ DestinationSupply(fact) >= 0
-----------------------------------------------------------------------------
(* Properties.                                                             *)

\* The transfers paid out in a window, up to the entry n(i) of the ledger.
PaidIn(w, n(_)) ==
    {i \in Transfer : \E k \in 1..n(i) : Pays(k, i) /\ In(ledger[k].time, w)}

\* What the retention evidence says nothing of: an account made anew in the first
\* second of its interval, or one read as it was made anew before that is final.
FirstSecondQuiet ==
    \A k \in 1..Now : ledger[k].does \in {"close", "remake"} => ledger[k].time # start

ReadFinal ==
    \A m \in Message : \A k \in 1..seen[AccountsRead(m)].n :
        ledger[k].msg = m /\ ledger[k].does = "remake" => ledger[k].time + Lag <= AsOf

\* integration_verified: whatever the bridge did between the readings, every
\* window's totals count exactly the transfers paid out in it, as far as the
\* counters of their destination chain had been read; unless an account was made
\* anew where the retention evidence does not look.
FlowExact ==
    Verified /\ FirstSecondQuiet /\ ReadFinal =>
        \A w \in Window : Counted(w) = PaidIn(w, LAMBDA i : seen[ConfigRead(<<"in", i>>)].n)

\* docs/WARP_BRIDGE_FLOW_FINAL_INTEGRATION_V1.md: numeric zero totals only for
\* genuinely complete no-event windows, the last of which ends at as_of.
ZeroWindowComplete ==
    Verified => \A w \in Window : Counted(w) = {} => PaidIn(w, LAMBDA i : Now) = {}

\* The chain at the end of a second.
EndOf(t) == Cardinality({k \in 1..Now : ledger[k].time <= t})

\* The reserve and supply a trade is valued with are a lower and an upper bound
\* of what they were at the end of its second, through every transfer that was
\* under way, held, lost or unclear between it and the readings; unless an account
\* was read as made anew before that is final.
ParityBounds ==
    Finished("parity") /\ ReadFinal =>
        \A fact \in Fact :
            Evaluated(fact) /\ fact < SourceObserved /\ fact < DestinationObserved =>
                /\ SourceReserve(fact) <= Vault(EndOf(fact))
                /\ DestinationSupply(fact) >= Minted(EndOf(fact))
=============================================================================
