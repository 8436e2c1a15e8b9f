--------------------------- MODULE WarpFlowProofs ---------------------------
(***************************************************************************)
(* Totals that count what was paid out, and bounds that hold, for any      *)
(* number of transfers, any amounts, any ledger and any order of the       *)
(* bridge's work and the readings.                                         *)
(*                                                                         *)
(* A reading never misses what an earlier one has shown, so counters that  *)
(* agree, and agree with the accounts, leave no room for a message closed  *)
(* or made in between: every message there had been is there (Whole).      *)
(* What the retention evidence excludes is that an account that is there   *)
(* was made anew since, unless where it does not look; so a timestamp that *)
(* is read is that of the transfer itself.                                 *)
(***************************************************************************)
EXTENDS WarpFlow, FiniteFacts

Sides == {"sol_out", "sol_in", "x1_out", "x1_in"}
Configs == {"sol_config", "x1_config"}
Timed == {"as_of", "vault", "supply"}

\* The p-th reading of the job.
Nth(p) == Order[job][p]

\* The ledger: times go up, an account is made once, first on the source chain,
\* and only a transfer that is held is claimed.
ChainInv ==
    /\ \A k \in 1..Now : ledger[k].time <= clock
    /\ \A k \in 1..Now : \A j \in 1..k : ledger[j].time <= ledger[k].time
    /\ \A j, k \in 1..Now :
          /\ ledger[j].msg = ledger[k].msg
          /\ ledger[j].does \in Makes /\ ledger[k].does \in Makes
          => j = k
    /\ \A k \in 1..Now :
          ledger[k].does \in Makes /\ ledger[k].msg[1] = "in" =>
              \E j \in 1..(k - 1) : /\ ledger[j].msg = <<"out", ledger[k].msg[2]>>
                                    /\ ledger[j].does \in Makes
    /\ \A k \in 1..Now :
          ledger[k].does = "claim" =>
              \E j \in 1..(k - 1) : ledger[j].msg = ledger[k].msg /\ ledger[j].does = "hold"

\* A timed reading shows what there was before its second, nothing after it.
TimedInv ==
    \A p \in 1..step : Nth(p) \in Timed =>
        /\ seen[Nth(p)].at <= clock
        /\ \A k \in 1..seen[Nth(p)].n : ledger[k].time <= seen[Nth(p)].at
        /\ \A k \in 1..Now :
              Shows(Nth(p), k) /\ ledger[k].time < seen[Nth(p)].at => k <= seen[Nth(p)].n

\* Of what reading r shows, reading c shows all that concerns it.
Within(s, r, c) == \A k \in 1..s[r].n : Shows(c, k) => k <= s[c].n

OrderInv == \A p, q \in 1..step : p < q => Within(seen, Nth(p), Nth(q))

\* Entry k made account m what it is after the first n entries, or closed it.
Lasts(m, n, k) ==
    /\ ledger[k].msg = m /\ ledger[k].does # "claim"
    /\ \A j \in (k + 1)..n : ledger[j].msg = m => ledger[j].does = "claim"

Present(m, n) == Made(m, n) /\ \E k \in 1..n : Lasts(m, n, k) /\ ledger[k].does # "close"

\* A message the counters count was known to the web API and has its account.
Whole(s, m) ==
    Made(m, s[ConfigRead(m)].n) =>
        Made(m, s.official.n) /\ Present(m, s[AccountsRead(m)].n)

\* Entry k is old enough, or too new, for the retention evidence, or is of an
\* account that was not there.
Unseen(k) ==
    /\ ledger[k].does \in {"close", "remake"}
    /\ Present(ledger[k].msg, seen[AccountsRead(ledger[k].msg)].n)
    => ledger[k].time <= start \/ ledger[k].time + Lag > seen["as_of"].at

RetentionInv ==
    \A p \in 1..step : Nth(p) = "as_of" =>
        \A r \in Sides : \A k \in 1..seen[r].n : Unseen(k)

ClosedInv ==
    \A p \in 1..step : Nth(p) = "x1_config" => \A m \in Message : Whole(seen, m)

Inv ==
    /\ TypeOK
    /\ \A r \in Reading : seen[r].n <= Now
    /\ ChainInv /\ TimedInv /\ OrderInv /\ RetentionInv /\ ClosedInv

-----------------------------------------------------------------------------
(* The jobs and their readings.                                            *)

LEMMA Types ==
    /\ MaxLedger \in Nat /\ MaxTime \in Nat /\ Lookback \in Nat /\ Lag \in Nat
    /\ Inflows \cap Outflows = {}
    /\ \A i \in Transfer : Amount[i] \in Nat
    /\ 0 \in Time /\ Time \subseteq Nat
  BY FlowAssumption DEF Time

\* Both jobs take the same eleven readings.
LEMMA OrderIs ==
    /\ DOMAIN Order = {"flow", "parity"}
    /\ \A j \in {"flow", "parity"} : Len(Order[j]) = 11
    /\ Order["flow"] = <<"official", "sol_out", "sol_in", "x1_out", "x1_in", "sol_config",
                         "x1_config", "as_of", "vault", "mint", "supply">>
    /\ Order["parity"] = <<"official", "vault", "mint", "supply", "sol_out", "sol_in",
                           "x1_out", "x1_in", "sol_config", "x1_config", "as_of">>
  BY DEF Order

LEMMA ReadingIs ==
    Reading = {"official", "sol_out", "sol_in", "x1_out", "x1_in", "sol_config",
               "x1_config", "as_of", "vault", "mint", "supply"}
<1>1. Reading = {Order["flow"][k] : k \in 1..11}
  BY OrderIs DEF Reading
<1>2. 1..11 = {1, 2, 3, 4, 5, 6, 7, 8, 9, 10, 11}
  OBVIOUS
<1>. QED
  BY <1>1, <1>2, OrderIs

LEMMA NthType ==
    ASSUME job \in DOMAIN Order, NEW p \in 1..11
    PROVE  Nth(p) \in Reading /\ (Nth(p) = "official" <=> p = 1)
<1>1. p \in {1, 2, 3, 4, 5, 6, 7, 8, 9, 10, 11}
  OBVIOUS
<1>2. CASE job = "flow"
  BY <1>1, <1>2, OrderIs, ReadingIs DEF Nth
<1>3. CASE job = "parity"
  BY <1>1, <1>3, OrderIs, ReadingIs DEF Nth
<1>. QED
  BY <1>2, <1>3, OrderIs

\* Every reading is taken, and none twice.
LEMMA NthAll ==
    ASSUME job \in DOMAIN Order, NEW r \in Reading
    PROVE  \E p \in 1..11 : Nth(p) = r
<1>1. CASE job = "flow"
  <2>1. {1, 2, 3, 4, 5, 6, 7, 8, 9, 10, 11} \subseteq 1..11
    OBVIOUS
  <2>2. \E p \in {1, 2, 3, 4, 5, 6, 7, 8, 9, 10, 11} : Nth(p) = r
    BY <1>1, OrderIs, ReadingIs DEF Nth
  <2>. QED
    BY <2>1, <2>2
<1>2. CASE job = "parity"
  <2>1. {1, 2, 3, 4, 5, 6, 7, 8, 9, 10, 11} \subseteq 1..11
    OBVIOUS
  <2>2. \E p \in {1, 2, 3, 4, 5, 6, 7, 8, 9, 10, 11} : Nth(p) = r
    BY <1>2, OrderIs, ReadingIs DEF Nth
  <2>. QED
    BY <2>1, <2>2
<1>. QED
  BY <1>1, <1>2, OrderIs

LEMMA NthOnce ==
    ASSUME job \in DOMAIN Order, NEW p \in 1..11, NEW q \in 1..11, Nth(p) = Nth(q)
    PROVE  p = q
<1>1. /\ p \in {1, 2, 3, 4, 5, 6, 7, 8, 9, 10, 11}
      /\ q \in {1, 2, 3, 4, 5, 6, 7, 8, 9, 10, 11}
  OBVIOUS
<1>2. CASE job = "flow"
  BY <1>1, <1>2, OrderIs DEF Nth
<1>3. CASE job = "parity"
  BY <1>1, <1>3, OrderIs DEF Nth
<1>. QED
  BY <1>2, <1>3, OrderIs

\* The accounts are read before the counters of X1, those before as_of.
LEMMA NthBefore ==
    ASSUME job \in DOMAIN Order, NEW p \in 1..11, NEW q \in 1..11
    PROVE  /\ Nth(p) \in Sides /\ Nth(q) = "as_of" => p < q
           /\ Nth(p) \in Sides \cup {"official"} /\ Nth(q) \in Configs => p < q
           /\ Nth(p) = "sol_config" /\ Nth(q) = "x1_config" => p < q
<1>1. /\ p \in {1, 2, 3, 4, 5, 6, 7, 8, 9, 10, 11}
      /\ q \in {1, 2, 3, 4, 5, 6, 7, 8, 9, 10, 11}
  OBVIOUS
<1>2. CASE job = "flow"
  BY <1>1, <1>2, OrderIs DEF Nth, Sides, Configs
<1>3. CASE job = "parity"
  BY <1>1, <1>3, OrderIs DEF Nth, Sides, Configs
<1>. QED
  BY <1>2, <1>3, OrderIs

-----------------------------------------------------------------------------
(* What an entry concerns, and which entry a reading ends with.            *)

LEMMA EntryType ==
    ASSUME ledger \in Seq(Entry), NEW k \in 1..Now
    PROVE  /\ ledger[k] \in Entry
           /\ ledger[k].msg \in Message
           /\ ledger[k].does \in Makes \cup {"claim", "close", "remake"}
           /\ ledger[k].time \in Time
<1>1. ledger[k] \in Entry
  BY DEF Now
<1>. QED
  BY <1>1 DEF Entry

LEMMA MessageIs ==
    ASSUME NEW m \in Message
    PROVE  /\ m[1] \in {"out", "in"} /\ m[2] \in Transfer /\ m = <<m[1], m[2]>>
           /\ AccountsRead(m) \in Sides
           /\ ConfigRead(m) \in {"sol_config", "x1_config"}
           /\ \A x \in Message : AccountsRead(x) = AccountsRead(m) => ConfigRead(x) = ConfigRead(m)
<1>1. m[1] \in {"out", "in"} /\ m[2] \in Transfer /\ m = <<m[1], m[2]>>
  BY DEF Message
<1>2. AccountsRead(m) \in Sides
  BY <1>1 DEF AccountsRead, Sides, Transfer
<1>. QED
  BY <1>1, <1>2 DEF ConfigRead

LEMMA ShowsIs ==
    ASSUME ledger \in Seq(Entry), NEW k \in 1..Now
    PROVE  /\ \A r \in Sides :
                 Shows(r, k) <=> AccountsRead(ledger[k].msg) = r /\ ledger[k].does # "claim"
           /\ \A c \in {"sol_config", "x1_config"} :
                 Shows(c, k) <=> ConfigRead(ledger[k].msg) = c /\ ledger[k].does \in Makes
           /\ Shows("official", k) <=> ledger[k].does \in Makes
           /\ ~Shows("as_of", k)
           /\ \A i \in Inflows : Pays(k, i) => Shows("supply", k)
           /\ \A i \in Outflows : Pays(k, i) => Shows("vault", k)
<1>1. ASSUME NEW r \in Sides
      PROVE  Shows(r, k) <=> AccountsRead(ledger[k].msg) = r /\ ledger[k].does # "claim"
  BY DEF Shows, Sides
<1>2. ASSUME NEW c \in {"sol_config", "x1_config"}
      PROVE  Shows(c, k) <=> ConfigRead(ledger[k].msg) = c /\ ledger[k].does \in Makes
  BY DEF Shows
<1>3. Shows("official", k) <=> ledger[k].does \in Makes
  BY DEF Shows
<1>4. ~Shows("as_of", k)
  BY DEF Shows
<1>5. ASSUME NEW i \in Inflows, Pays(k, i) PROVE Shows("supply", k)
  <2>1. ledger[k].msg = <<"in", i>>
    BY <1>5 DEF Pays
  <2>2. ledger[k].msg[1] = "in" /\ ledger[k].msg[2] = i
    BY <2>1
  <2>. QED
    BY <1>5, <2>2 DEF Shows
<1>6. ASSUME NEW i \in Outflows, Pays(k, i) PROVE Shows("vault", k)
  <2>1. ledger[k].msg = <<"in", i>>
    BY <1>6 DEF Pays
  <2>2. ledger[k].msg[1] = "in" /\ ledger[k].msg[2] = i /\ i \notin Inflows
    BY <2>1, Types
  <2>. QED
    BY <1>6, <2>2 DEF Shows
<1>. QED
  BY <1>1, <1>2, <1>3, <1>4, <1>5, <1>6

\* A set of positions in the ledger has a last one.
LEMMA LastPosition ==
    ASSUME NEW n \in Nat, NEW T \in SUBSET (0..n), T # {}
    PROVE  \E k \in T : \A j \in T : j <= k
<1>. DEFINE D == {n - k : k \in T}
<1>1. D \in SUBSET Nat /\ D # {}
  <2>1. \A k \in T : n - k \in Nat
    OBVIOUS
  <2>. QED
    BY <2>1
<1>2. PICK d \in D : \A e \in D : d <= e
  <2>. HIDE DEF D
  <2>. QED
    BY <1>1, LeastNatural
<1>3. PICK k \in T : d = n - k
  OBVIOUS
<1>4. \A j \in T : d <= n - j
  BY <1>2
<1>. QED
  BY <1>3, <1>4

LEMMA ShownIs ==
    ASSUME NEW r, NEW n \in Nat
    PROVE  /\ Shown(r, n) \in 0..n
           /\ Shown(r, n) = 0 \/ Shows(r, Shown(r, n))
           /\ \A j \in 1..n : Shows(r, j) => j <= Shown(r, n)
<1>. DEFINE T == {k \in 0..n : k = 0 \/ Shows(r, k)}
<1>1. T \in SUBSET (0..n) /\ T # {}
  OBVIOUS
<1>2. PICK k \in T : \A j \in T : j <= k
  <2>. HIDE DEF T
  <2>. QED
    BY <1>1, LastPosition
<1>3. \A j \in (k + 1)..n : ~Shows(r, j)
  BY <1>2
<1>4. \E x \in 0..n : (x = 0 \/ Shows(r, x)) /\ \A j \in (x + 1)..n : ~Shows(r, j)
  BY <1>2, <1>3
<1>5. /\ Shown(r, n) \in 0..n
      /\ Shown(r, n) = 0 \/ Shows(r, Shown(r, n))
      /\ \A j \in (Shown(r, n) + 1)..n : ~Shows(r, j)
  BY <1>4 DEF Shown
<1>. QED
  BY <1>5

LEMMA LatestIs ==
    ASSUME ledger \in Seq(Entry), NEW m, NEW n \in 0..Now, Made(m, n)
    PROVE  Latest(m, n) \in 1..n /\ Lasts(m, n, Latest(m, n))
<1>. DEFINE T == {k \in 1..n : ledger[k].msg = m /\ ledger[k].does # "claim"}
<1>1. Now \in Nat /\ n \in Nat
  BY DEF Now
<1>2. T \in SUBSET (0..n) /\ T # {}
  BY <1>1 DEF Made, Done, Makes
<1>3. PICK k \in T : \A j \in T : j <= k
  <2>. HIDE DEF T
  <2>. QED
    BY <1>1, <1>2, LastPosition
<1>4. \A j \in (k + 1)..n : ledger[j].msg = m => ledger[j].does = "claim"
  BY <1>1, <1>3
<1>5. \E x \in 1..n : /\ ledger[x].msg = m /\ ledger[x].does # "claim"
                      /\ \A j \in (x + 1)..n : ledger[j].msg = m => ledger[j].does = "claim"
  BY <1>3, <1>4
<1>6. /\ Latest(m, n) \in 1..n
      /\ ledger[Latest(m, n)].msg = m /\ ledger[Latest(m, n)].does # "claim"
      /\ \A j \in (Latest(m, n) + 1)..n : ledger[j].msg = m => ledger[j].does = "claim"
  BY <1>5 DEF Latest
<1>. QED
  BY <1>6 DEF Lasts

LEMMA LastsOnce ==
    ASSUME NEW m, NEW n \in Nat, NEW j \in 1..n, NEW k \in 1..n, Lasts(m, n, j), Lasts(m, n, k)
    PROVE  j = k
<1>1. j < k => ledger[k].does = "claim"
  BY DEF Lasts
<1>2. k < j => ledger[j].does = "claim"
  BY DEF Lasts
<1>. QED
  BY <1>1, <1>2 DEF Lasts

\* An account that is there is one of which something is present.
LEMMA AliveIs ==
    ASSUME ledger \in Seq(Entry), NEW m, NEW n \in 0..Now
    PROVE  Alive(m, n) <=> Present(m, n)
<1>. SUFFICES ASSUME Made(m, n) PROVE Alive(m, n) <=> Present(m, n)
  BY DEF Alive, Present
<1>1. Latest(m, n) \in 1..n /\ Lasts(m, n, Latest(m, n))
  BY LatestIs
<1>2. \A k \in 1..n : Lasts(m, n, k) => k = Latest(m, n)
  BY <1>1, LastsOnce DEF Now
<1>. QED
  BY <1>1, <1>2 DEF Alive, Present

-----------------------------------------------------------------------------
(* The bridge goes on: what has been read stays as it was read.            *)

LEMMA Stable ==
    ASSUME Now \in Nat, \A k \in 1..Now : ledger'[k] = ledger[k]
    PROVE  /\ \A r : \A k \in 1..Now : Shows(r, k)' <=> Shows(r, k)
           /\ \A m : \A n \in 0..Now : Made(m, n)' <=> Made(m, n)
           /\ \A m : \A n \in 0..Now : Present(m, n)' <=> Present(m, n)
<1>1. ASSUME NEW r, NEW k \in 1..Now PROVE Shows(r, k)' <=> Shows(r, k)
  BY DEF Shows, Pays
<1>2. ASSUME NEW m, NEW n \in 0..Now PROVE Made(m, n)' <=> Made(m, n)
  <2>1. \A k \in 1..n : k \in 1..Now
    OBVIOUS
  <2>. QED
    BY <2>1 DEF Made, Done
<1>3. ASSUME NEW m, NEW n \in 0..Now PROVE Present(m, n)' <=> Present(m, n)
  <2>1. \A k \in 1..n : k \in 1..Now
    OBVIOUS
  <2>2. \A k \in 1..n : \A j \in (k + 1)..n : j \in 1..Now
    OBVIOUS
  <2>3. \A k \in 1..n : Lasts(m, n, k)' <=> Lasts(m, n, k)
    BY <2>1, <2>2 DEF Lasts
  <2>. QED
    BY <1>2, <2>1, <2>3 DEF Present
<1>. QED
  BY <1>1, <1>2, <1>3

LEMMA Appends ==
    ASSUME TypeOK, NEW m \in Message, NEW does \in Makes \cup {"claim", "close", "remake"},
           Happens(m, does)
    PROVE  /\ ledger' \in Seq(Entry) /\ Now \in Nat /\ Now < MaxLedger
           /\ Len(ledger') = Now + 1 /\ Now' = Now + 1
           /\ \A k \in 1..Now : ledger'[k] = ledger[k]
           /\ ledger'[Now + 1] = [msg |-> m, does |-> does, time |-> clock]
           /\ clock' = clock
<1>. DEFINE e == [msg |-> m, does |-> does, time |-> clock]
<1>1. ledger' = Append(ledger, e) /\ clock' = clock /\ Now < MaxLedger
  BY DEF Happens
<1>2. e \in Entry /\ ledger \in Seq(Entry)
  BY DEF Entry, TypeOK
<1>. HIDE DEF e
<1>3. /\ ledger' \in Seq(Entry) /\ Len(ledger') = Len(ledger) + 1
      /\ \A k \in 1..Len(ledger) : ledger'[k] = ledger[k]
      /\ ledger'[Len(ledger) + 1] = e
  BY <1>1, <1>2
<1>. QED
  BY <1>1, <1>2, <1>3 DEF e, Now

LEMMA ChainStep ==
    ASSUME TypeOK, ChainInv, NEW m \in Message, NEW does \in Makes \cup {"claim", "close", "remake"},
           Happens(m, does),
           does \in Makes => ~Made(m, Now) /\ (m[1] = "in" => Made(<<"out", m[2]>>, Now)),
           does = "claim" => \E j \in 1..Now : ledger[j].msg = m /\ ledger[j].does = "hold"
    PROVE  ChainInv'
<1>. DEFINE n == Now + 1
<1>0. /\ Now \in Nat /\ Now' = n /\ clock' = clock
      /\ \A k \in 1..Now : ledger'[k] = ledger[k]
      /\ ledger'[n].msg = m /\ ledger'[n].does = does /\ ledger'[n].time = clock
      /\ 1..n = 1..Now \cup {n} /\ 1..(n - 1) = 1..Now
  <2>1. /\ Now \in Nat /\ Now' = Now + 1 /\ clock' = clock
        /\ \A k \in 1..Now : ledger'[k] = ledger[k]
        /\ ledger'[Now + 1] = [msg |-> m, does |-> does, time |-> clock]
    BY Appends
  <2>2. 1..(Now + 1) = 1..Now \cup {Now + 1}
    BY <2>1
  <2>3. (Now + 1) - 1 = Now
    BY <2>1
  <2>. QED
    BY <2>1, <2>2, <2>3
<1>. HIDE DEF n
<1>1. \A k \in 1..n : ledger'[k].time <= clock
  BY <1>0, Types DEF ChainInv, TypeOK
<1>2. \A k \in 1..n : \A j \in 1..k : ledger'[j].time <= ledger'[k].time
  <2>. SUFFICES ASSUME NEW k \in 1..n, NEW j \in 1..k
                PROVE  ledger'[j].time <= ledger'[k].time
    OBVIOUS
  <2>1. CASE k = n
    BY <1>0, <1>1, <2>1
  <2>2. CASE k \in 1..Now
    <3>1. j \in 1..Now
      BY <1>0, <2>2
    <3>. QED
      BY <1>0, <2>2, <3>1 DEF ChainInv
  <2>. QED
    BY <1>0, <2>1, <2>2
<1>3. ASSUME NEW j \in 1..n, NEW k \in 1..n, ledger'[j].msg = ledger'[k].msg,
             ledger'[j].does \in Makes, ledger'[k].does \in Makes
      PROVE  j = k
  <2>1. CASE j \in 1..Now /\ k \in 1..Now
    BY <1>0, <1>3, <2>1 DEF ChainInv
  <2>2. CASE j = n /\ k \in 1..Now
    BY <1>0, <1>3, <2>2 DEF Made, Done
  <2>3. CASE k = n /\ j \in 1..Now
    BY <1>0, <1>3, <2>3 DEF Made, Done
  <2>. QED
    BY <1>0, <2>1, <2>2, <2>3
<1>4. ASSUME NEW k \in 1..n, ledger'[k].does \in Makes, ledger'[k].msg[1] = "in"
      PROVE  \E j \in 1..(k - 1) : /\ ledger'[j].msg = <<"out", ledger'[k].msg[2]>>
                                   /\ ledger'[j].does \in Makes
  <2>1. CASE k \in 1..Now
    <3>1. PICK j \in 1..(k - 1) : /\ ledger[j].msg = <<"out", ledger[k].msg[2]>>
                                  /\ ledger[j].does \in Makes
      BY <1>0, <1>4, <2>1 DEF ChainInv
    <3>2. j \in 1..Now
      BY <1>0, <2>1
    <3>. QED
      BY <1>0, <2>1, <3>1, <3>2
  <2>2. CASE k = n
    <3>1. PICK j \in 1..Now : ledger[j].msg = <<"out", m[2]>> /\ ledger[j].does \in Makes
      BY <1>0, <1>4, <2>2 DEF Made, Done
    <3>. QED
      BY <1>0, <2>2, <3>1
  <2>. QED
    BY <1>0, <2>1, <2>2
<1>5. ASSUME NEW k \in 1..n, ledger'[k].does = "claim"
      PROVE  \E j \in 1..(k - 1) : ledger'[j].msg = ledger'[k].msg /\ ledger'[j].does = "hold"
  <2>1. CASE k \in 1..Now
    <3>1. PICK j \in 1..(k - 1) : ledger[j].msg = ledger[k].msg /\ ledger[j].does = "hold"
      BY <1>0, <1>5, <2>1 DEF ChainInv
    <3>2. j \in 1..Now
      BY <1>0, <2>1
    <3>. QED
      BY <1>0, <2>1, <3>1, <3>2
  <2>2. CASE k = n
    BY <1>0, <1>5, <2>2
  <2>. QED
    BY <1>0, <2>1, <2>2
<1>. QED
  BY <1>0, <1>1, <1>2, <1>3, <1>4, <1>5 DEF ChainInv

LEMMA InvTypes ==
    ASSUME Inv
    PROVE  /\ Now \in Nat /\ Now <= MaxLedger /\ job \in DOMAIN Order
           /\ step \in -1..11 /\ clock \in Nat
           /\ \A r \in Reading : /\ seen[r].n \in 0..Now /\ seen[r].at \in Nat
                                 /\ \A k \in 1..seen[r].n : k \in 1..Now
           /\ \A p \in 1..step : Nth(p) \in Reading
<1>1. Now \in Nat /\ Now <= MaxLedger
  BY DEF Inv, TypeOK, Now
<1>2. job \in DOMAIN Order /\ step \in -1..11 /\ clock \in Nat
  BY OrderIs, Types DEF Inv, TypeOK
<1>3. ASSUME NEW r \in Reading PROVE seen[r].n \in 0..Now /\ seen[r].at \in Nat
  <2>1. seen[r] \in [n : 0..MaxLedger, at : Time]
    BY DEF Inv, TypeOK
  <2>2. seen[r].n \in 0..MaxLedger /\ seen[r].n <= Now
    BY <2>1 DEF Inv
  <2>3. seen[r].at \in Nat
    BY <2>1, Types
  <2>. QED
    BY <1>1, <2>2, <2>3, Types
<1>4. ASSUME NEW r \in Reading, NEW k \in 1..seen[r].n PROVE k \in 1..Now
  BY <1>1, <1>3
<1>5. \A p \in 1..step : Nth(p) \in Reading
  BY <1>2, NthType
<1>. QED
  BY <1>1, <1>2, <1>3, <1>4, <1>5

\* What has been read is not disturbed by an entry or a second more.
LEMMA ReadStep ==
    ASSUME Inv, UNCHANGED <<job, step, seen, start>>, Now <= Now', Now' \in Nat,
           \A k \in 1..Now : ledger'[k] = ledger[k],
           \A k \in (Now + 1)..Now' : ledger'[k].time \in Nat /\ clock <= ledger'[k].time,
           clock <= clock', clock' \in Nat
    PROVE  TimedInv' /\ OrderInv' /\ RetentionInv' /\ ClosedInv'
<1>0. /\ Now \in Nat /\ step \in -1..11 /\ clock \in Nat
      /\ \A r \in Reading : /\ seen[r].n \in 0..Now /\ seen[r].at \in Nat
                            /\ \A k \in 1..seen[r].n : k \in 1..Now
      /\ job' = job /\ step' = step /\ seen' = seen /\ start' = start
  BY InvTypes
<1>1. \A p \in 1..step : Nth(p)' = Nth(p) /\ Nth(p) \in Reading
  BY <1>0, InvTypes DEF Nth
<1>2. /\ \A r : \A k \in 1..Now : Shows(r, k)' <=> Shows(r, k)
      /\ \A m : \A n \in 0..Now : Made(m, n)' <=> Made(m, n)
      /\ \A m : \A n \in 0..Now : Present(m, n)' <=> Present(m, n)
  BY <1>0, Stable
<1>3. TimedInv'
  <2>. SUFFICES ASSUME NEW p \in 1..step, Nth(p) \in Timed
                PROVE  /\ seen[Nth(p)].at <= clock'
                       /\ \A k \in 1..seen[Nth(p)].n : ledger'[k].time <= seen[Nth(p)].at
                       /\ \A k \in 1..Now' :
                            Shows(Nth(p), k)' /\ ledger'[k].time < seen[Nth(p)].at
                                => k <= seen[Nth(p)].n
    BY <1>0, <1>1 DEF TimedInv
  <2>1. /\ seen[Nth(p)].at <= clock /\ seen[Nth(p)].at \in Nat
        /\ \A k \in 1..seen[Nth(p)].n : ledger[k].time <= seen[Nth(p)].at
        /\ \A k \in 1..Now : Shows(Nth(p), k) /\ ledger[k].time < seen[Nth(p)].at
                                => k <= seen[Nth(p)].n
    <3>1. seen[Nth(p)].at \in Nat
      BY <1>0, <1>1
    <3>. QED
      BY <3>1 DEF Inv, TimedInv
  <2>2. \A k \in (Now + 1)..Now' : ~(ledger'[k].time < seen[Nth(p)].at)
    <3>. TAKE k \in (Now + 1)..Now'
    <3>1. clock <= ledger'[k].time /\ ledger'[k].time \in Nat
      OBVIOUS
    <3>. QED
      BY <1>0, <2>1, <3>1
  <2>. QED
    BY <1>0, <1>1, <1>2, <2>1, <2>2
<1>4. OrderInv'
  <2>. SUFFICES ASSUME NEW p \in 1..step, NEW q \in 1..step, p < q,
                       NEW k \in 1..seen[Nth(p)].n, Shows(Nth(q), k)'
                PROVE  k <= seen[Nth(q)].n
    BY <1>0, <1>1 DEF OrderInv, Within
  <2>1. k \in 1..Now
    BY <1>0, <1>1
  <2>2. Within(seen, Nth(p), Nth(q))
    BY DEF Inv, OrderInv
  <2>. QED
    BY <1>0, <1>1, <1>2, <2>1, <2>2 DEF Within
<1>5. RetentionInv'
  <2>. SUFFICES ASSUME NEW p \in 1..step, Nth(p) = "as_of", NEW r \in Sides,
                       NEW k \in 1..seen[r].n
                PROVE  Unseen(k)'
    BY <1>0, <1>1 DEF RetentionInv
  <2>1. k \in 1..Now /\ ledger'[k] = ledger[k]
    BY <1>0, ReadingIs DEF Sides
  <2>2. Unseen(k)
    BY DEF Inv, RetentionInv
  <2>3. ledger[k].msg \in Message
    BY <2>1, EntryType DEF Inv, TypeOK
  <2>4. seen[AccountsRead(ledger[k].msg)].n \in 0..Now
    BY <1>0, <2>3, MessageIs, ReadingIs DEF Sides
  <2>5. /\ AccountsRead(ledger[k].msg)' = AccountsRead(ledger[k].msg)
        /\ seen'[AccountsRead(ledger[k].msg)] = seen[AccountsRead(ledger[k].msg)]
    BY <1>0, <2>1 DEF AccountsRead
  <2>. QED
    BY <1>0, <1>2, <2>1, <2>2, <2>4, <2>5 DEF Unseen
<1>6. ClosedInv'
  <2>. SUFFICES ASSUME NEW p \in 1..step, Nth(p) = "x1_config", NEW m \in Message
                PROVE  Whole(seen, m)'
    BY <1>0, <1>1 DEF ClosedInv
  <2>1. Whole(seen, m)
    BY DEF Inv, ClosedInv
  <2>2. {ConfigRead(m), AccountsRead(m), "official"} \subseteq Reading
    BY MessageIs, ReadingIs DEF Sides
  <2>3. /\ seen[ConfigRead(m)].n \in 0..Now /\ seen[AccountsRead(m)].n \in 0..Now
        /\ seen.official.n \in 0..Now
    BY <1>0, <2>2
  <2>. QED
    BY <1>0, <1>2, <2>1, <2>3 DEF Whole
<1>. QED
  BY <1>3, <1>4, <1>5, <1>6

LEMMA BridgeStep ==
    ASSUME Inv, Bridge
    PROVE  Inv'
<1>0. /\ Now \in Nat /\ clock \in Nat /\ clock \in Time /\ step # -1
      /\ \A r \in Reading : seen[r].n \in 0..Now
      /\ UNCHANGED <<job, step, seen, start>>
  BY InvTypes DEF Bridge, Inv, TypeOK
<1>1. ASSUME NEW m \in Message, NEW does \in Makes \cup {"claim", "close", "remake"},
             Happens(m, does),
             does \in Makes => ~Made(m, Now) /\ (m[1] = "in" => Made(<<"out", m[2]>>, Now)),
             does = "claim" => \E j \in 1..Now : ledger[j].msg = m /\ ledger[j].does = "hold"
      PROVE  Inv'
  <2>1. /\ ledger' \in Seq(Entry) /\ Now < MaxLedger /\ clock' = clock
        /\ Len(ledger') = Now + 1 /\ Now' = Now + 1
        /\ \A k \in 1..Now : ledger'[k] = ledger[k]
        /\ ledger'[Now + 1].time = clock
    <3>1. ledger'[Now + 1] = [msg |-> m, does |-> does, time |-> clock]
      BY <1>1, Appends DEF Inv
    <3>. QED
      BY <1>1, <3>1, Appends DEF Inv
  <2>2. Len(ledger') <= MaxLedger
    BY <1>0, <2>1, Types
  <2>3. TypeOK'
    BY <1>0, <2>1, <2>2 DEF Inv, TypeOK
  <2>4. ChainInv'
    BY <1>1, ChainStep DEF Inv
  <2>5. \A k \in (Now + 1)..Now' : ledger'[k].time \in Nat /\ clock <= ledger'[k].time
    BY <1>0, <2>1
  <2>6. TimedInv' /\ OrderInv' /\ RetentionInv' /\ ClosedInv'
    BY <1>0, <2>1, <2>5, ReadStep
  <2>7. \A r \in Reading : seen'[r].n <= Now'
    BY <1>0, <2>1
  <2>. QED
    BY <2>3, <2>4, <2>6, <2>7 DEF Inv
<1>2. ASSUME Tick PROVE Inv'
  <2>1. clock' = clock + 1 /\ ledger' = ledger /\ clock < MaxTime
    BY <1>2 DEF Tick
  <2>2. clock' \in Time /\ clock' \in Nat /\ clock <= clock'
    BY <1>0, <2>1, Types DEF Time
  <2>3. TypeOK'
    BY <1>0, <2>1, <2>2 DEF Inv, TypeOK
  <2>4. ChainInv'
    <3>1. \A k \in 1..Now : ledger[k].time \in Nat /\ ledger[k].time <= clock
      BY EntryType, Types DEF Inv, TypeOK, ChainInv
    <3>2. \A k \in 1..Now : ledger[k].time <= clock'
      BY <1>0, <2>1, <3>1
    <3>. QED
      BY <2>1, <3>2 DEF Inv, ChainInv, Now
  <2>5. Now' = Now /\ (Now + 1)..Now = {}
    BY <1>0, <2>1 DEF Now
  <2>6. TimedInv' /\ OrderInv' /\ RetentionInv' /\ ClosedInv'
    BY <1>0, <2>1, <2>2, <2>5, ReadStep
  <2>. QED
    BY <1>0, <2>3, <2>4, <2>5, <2>6 DEF Inv
<1>3. ASSUME NEW i \in Transfer, Send(i) PROVE Inv'
  <2>1. <<"out", i>> \in Message /\ "send" \in Makes /\ <<"out", i>>[1] # "in"
    BY DEF Message, Makes
  <2>2. "send" # "claim"
    OBVIOUS
  <2>. QED
    BY <1>1, <1>3, <2>1, <2>2 DEF Send
<1>4. ASSUME NEW i \in Transfer, Execute(i) PROVE Inv'
  <2>1. PICK does \in Makes \ {"send"} : Happens(<<"in", i>>, does)
    BY <1>4 DEF Execute
  <2>2. <<"in", i>> \in Message /\ <<"in", i>>[2] = i /\ does # "claim"
    BY DEF Message, Makes
  <2>. QED
    BY <1>1, <1>4, <2>1, <2>2 DEF Execute
<1>5. ASSUME NEW i \in Transfer, Claim(i) PROVE Inv'
  <2>1. <<"in", i>> \in Message /\ "claim" \notin Makes
    BY DEF Message, Makes
  <2>2. \E j \in 1..Now : ledger[j].msg = <<"in", i>> /\ ledger[j].does = "hold"
    BY <1>5 DEF Claim, MadeAs, Done
  <2>. QED
    BY <1>1, <1>5, <2>1, <2>2 DEF Claim
<1>6. ASSUME NEW m \in Message, Remove(m) PROVE Inv'
  <2>1. PICK does \in {"close", "remake"} : Happens(m, does)
    BY <1>6 DEF Remove
  <2>2. does \notin Makes /\ does # "claim"
    BY DEF Makes
  <2>. QED
    BY <1>1, <2>1, <2>2
<1>. QED
  BY <1>2, <1>3, <1>4, <1>5, <1>6 DEF Bridge

-----------------------------------------------------------------------------
(* A reading is taken.                                                     *)

LEMMA MadeFinite ==
    ASSUME ledger \in Seq(Entry), NEW n \in 0..Now, NEW X
    PROVE  IsFiniteSet({x \in X : Made(x, n)})
<1>. DEFINE msg == [k \in 1..n |-> ledger[k].msg]
            T == {ledger[k].msg : k \in 1..n}
<1>1. IsFiniteSet(T)
  <2>1. IsFiniteSet(1..n)
    BY FS_Interval DEF Now
  <2>2. msg \in Surjection(1..n, T)
    BY DEF Surjection
  <2>. HIDE DEF msg, T
  <2>. QED
    BY <2>1, <2>2, FS_Surjection
<1>2. {x \in X : Made(x, n)} \subseteq T
  BY DEF Made, Done
<1>. HIDE DEF T
<1>. QED
  BY <1>1, <1>2, FS_Subset

\* Counters that agree leave no message out.
LEMMA ClosedWhole ==
    ASSUME ledger \in Seq(Entry), NEW s, \A r \in Reading : s[r].n \in 0..Now,
           \A r \in Sides \cup {"official"} : \A c \in Configs : Within(s, r, c),
           Closed(s), NEW m \in Message
    PROVE  Whole(s, m)
<1>. SUFFICES ASSUME Made(m, s[ConfigRead(m)].n)
              PROVE  Made(m, s.official.n) /\ Present(m, s[AccountsRead(m)].n)
  BY DEF Whole
<1>. DEFINE r == AccountsRead(m)
            c == ConfigRead(m)
            Side == {x \in Message : AccountsRead(x) = r}
            S(n) == {x \in Side : Made(x, n)}
<1>1. /\ r \in Sides /\ c \in Configs /\ {r, c, "official"} \subseteq Reading
      /\ \A x \in Side : ConfigRead(x) = c
  BY MessageIs, ReadingIs DEF Sides, Configs
<1>2. s[r].n \in 0..Now /\ s[c].n \in 0..Now /\ s.official.n \in 0..Now /\ Now \in Nat
  BY <1>1 DEF Now
<1>3. /\ Cardinality(S(s.official.n)) = Cardinality(S(s[c].n))
      /\ Cardinality(S(s.official.n)) = Cardinality(Accounts(s, r))
  <2>1. \A n : Counter(r, n) = Cardinality(S(n))
    <3>. TAKE n
    <3>1. {x \in Message : AccountsRead(x) = r /\ Made(x, n)} = S(n)
      OBVIOUS
    <3>. QED
      BY <3>1 DEF Counter
  <2>. QED
    BY <2>1 DEF Closed
<1>4. IsFiniteSet(S(s[c].n))
  BY <1>2, MadeFinite
<1>5. ASSUME NEW a \in Sides \cup {"official"}, a \in Reading,
             NEW x \in Side, Made(x, s[a].n)
      PROVE  x \in S(s[c].n)
  <2>1. PICK k \in 1..s[a].n : ledger[k].msg = x /\ ledger[k].does \in Makes
    BY <1>5 DEF Made, Done
  <2>2. k \in 1..Now
    BY <1>2, <1>5
  <2>3. Shows(c, k)
    BY <1>1, <2>1, <2>2, ShowsIs DEF Configs
  <2>4. k \in 1..s[c].n
    BY <1>1, <1>2, <2>2, <2>3 DEF Within
  <2>. QED
    BY <2>1, <2>4 DEF Made, Done
<1>6. S(s.official.n) \in SUBSET S(s[c].n)
  BY <1>1, <1>5
<1>7. Accounts(s, r) \in SUBSET S(s[c].n)
  BY <1>1, <1>5 DEF Accounts, Alive
<1>8. m \in S(s[c].n)
  OBVIOUS
<1>9. m \in S(s.official.n) /\ m \in Accounts(s, r)
  <2>. HIDE DEF S
  <2>. QED
    BY <1>3, <1>4, <1>6, <1>7, <1>8, FS_Subset
<1>10. Made(m, s.official.n) /\ Alive(m, s[r].n)
  BY <1>9 DEF Accounts
<1>. QED
  BY <1>2, <1>10, AliveIs

LEMMA WithIs ==
    ASSUME Inv, NEW r \in Reading, NEW n \in 0..Now
    PROVE  /\ With(r, n) \in [Reading -> [n : 0..MaxLedger, at : Time]]
           /\ With(r, n)[r].n = Shown(r, n) /\ Shown(r, n) \in 0..n
           /\ r \in Timed => With(r, n)[r].at = clock
           /\ \A x \in Reading : x # r => With(r, n)[x] = seen[x]
           /\ \A x \in Reading : With(r, n)[x].n \in 0..Now
<1>1. /\ Now \in Nat /\ Now <= MaxLedger /\ n \in Nat /\ clock \in Time
      /\ seen \in [Reading -> [n : 0..MaxLedger, at : Time]]
      /\ \A x \in Reading : seen[x].n \in 0..Now
  BY InvTypes DEF Inv, TypeOK
<1>2. Shown(r, n) \in 0..n
  BY <1>1, ShownIs
<1>3. Shown(r, n) \in 0..MaxLedger /\ Shown(r, n) \in 0..Now
  BY <1>1, <1>2, Types
<1>4. [n |-> Shown(r, n), at |-> IF r \in {"as_of", "vault", "supply"} THEN clock ELSE 0]
         \in [n : 0..MaxLedger, at : Time]
  BY <1>1, <1>3, Types
<1>. QED
  BY <1>1, <1>2, <1>3, <1>4 DEF With, Timed

\* Readings come in the order of the job, each over the ledger there then is.
LEMMA TakeStep ==
    ASSUME Inv, NEW r \in Reading, NEW n \in 0..Now, Ahead(r), Take(r, n),
           r # "official" => n = Now,
           r # "as_of" => UNCHANGED start,
           r = "as_of" => Retained(start') /\ start' \in -Lookback..MaxTime
    PROVE  Inv'
<1>. DEFINE p == step + 1
<1>1. /\ step \in 0..10 /\ p \in 1..11 /\ Nth(p) = r /\ job \in DOMAIN Order
      /\ Now \in Nat /\ clock \in Nat
      /\ 1..p = 1..step \cup {p} /\ \A q \in 1..step : q \in 1..11 /\ q < p
  <2>0. job \in DOMAIN Order /\ Now \in Nat /\ clock \in Nat /\ Len(Order[job]) = 11
    BY InvTypes, OrderIs
  <2>1. /\ step \in 0..10 /\ Nth(step + 1) = r
        /\ job \in DOMAIN Order /\ Now \in Nat /\ clock \in Nat
    BY <2>0 DEF Ahead, Nth
  <2>2. 1..(step + 1) = 1..step \cup {step + 1}
    BY <2>1
  <2>3. \A q \in 1..step : q \in 1..11 /\ q < step + 1
    BY <2>1
  <2>. QED
    BY <2>1, <2>2, <2>3
<1>2. step' = p /\ seen' = With(r, n) /\ ledger' = ledger /\ clock' = clock /\ job' = job
  BY DEF Take, chainVars
<1>3. /\ seen' \in [Reading -> [n : 0..MaxLedger, at : Time]]
      /\ seen'[r].n = Shown(r, n) /\ Shown(r, n) \in 0..n
      /\ r \in Timed => seen'[r].at = clock
      /\ \A x \in Reading : x # r => seen'[x] = seen[x]
      /\ \A x \in Reading : seen'[x].n \in 0..Now
  BY <1>2, WithIs
<1>4. /\ \A q \in 1..p : Nth(q)' = Nth(q) /\ Nth(q) \in Reading
      /\ \A q \in 1..step : Nth(q) # r
  BY <1>1, <1>2, NthType, NthOnce DEF Nth
<1>5. Now' = Now /\ \A x, k : Shows(x, k)' <=> Shows(x, k)
  BY <1>2 DEF Now, Shows, Pays
<1>6. \A x \in Reading : seen[x].n \in 0..Now /\ \A k \in 1..seen[x].n : k \in 1..Now
  BY InvTypes
<1>7. \A q \in 1..step : n = Now
  <2>. TAKE q \in 1..step
  <2>1. p # 1
    BY <1>1
  <2>. QED
    BY <1>1, <2>1, NthType
<1>8. \A k \in 1..n : k \in 1..Now
  BY <1>1
<1>. HIDE DEF p
<1>9. TypeOK'
  <2>0. Len(Order[job]) = 11 /\ step' \in 1..11
    BY <1>1, <1>2, OrderIs
  <2>1. step' \in -1..Len(Order[job]) /\ step' # -1
    BY <2>0
  <2>2. start' \in -Lookback..MaxTime
    BY DEF Inv, TypeOK
  <2>. QED
    BY <1>2, <1>3, <2>1, <2>2 DEF Inv, TypeOK
<1>10. ChainInv'
  BY <1>2, <1>5 DEF Inv, ChainInv
<1>11. TimedInv'
  <2>. SUFFICES ASSUME NEW q \in 1..p, Nth(q) \in Timed
                PROVE  /\ seen'[Nth(q)].at <= clock
                       /\ \A k \in 1..seen'[Nth(q)].n : ledger[k].time <= seen'[Nth(q)].at
                       /\ \A k \in 1..Now :
                            Shows(Nth(q), k) /\ ledger[k].time < seen'[Nth(q)].at
                                => k <= seen'[Nth(q)].n
    BY <1>1, <1>2, <1>4, <1>5 DEF TimedInv
  <2>1. CASE q \in 1..step
    BY <1>3, <1>4, <2>1 DEF Inv, TimedInv
  <2>2. CASE q = p
    <3>1. r \in Timed /\ n = Now /\ seen'[r].at = clock /\ seen'[r].n = Shown(r, Now)
      BY <1>1, <1>3, <2>2 DEF Timed
    <3>2. \A k \in 1..Now : ledger[k].time <= clock
      BY DEF Inv, ChainInv
    <3>3. \A k \in 1..Now : Shows(r, k) => k <= Shown(r, Now)
      BY <1>1, ShownIs
    <3>4. \A k \in 1..Shown(r, Now) : k \in 1..Now
      BY <1>1, <1>3, <3>1
    <3>. QED
      BY <1>1, <2>2, <3>1, <3>2, <3>3, <3>4
  <2>. QED
    BY <1>1, <2>1, <2>2
<1>12. OrderInv'
  <2>. SUFFICES ASSUME NEW a \in 1..p, NEW b \in 1..p, a < b,
                       NEW k \in 1..seen'[Nth(a)].n, Shows(Nth(b), k)
                PROVE  k <= seen'[Nth(b)].n
    BY <1>1, <1>2, <1>4, <1>5 DEF OrderInv, Within
  <2>0. a \in 1..step
    BY <1>1
  <2>1. a \in 1..step /\ seen'[Nth(a)] = seen[Nth(a)] /\ k \in 1..Now
    BY <1>3, <1>4, <1>6, <2>0
  <2>2. CASE b \in 1..step
    <3>1. Within(seen, Nth(a), Nth(b))
      BY <2>1, <2>2 DEF Inv, OrderInv
    <3>. QED
      BY <1>3, <1>4, <2>1, <2>2, <3>1 DEF Within
  <2>3. CASE b = p
    <3>1. n = Now /\ Shows(r, k) /\ seen'[Nth(b)].n = Shown(r, Now)
      BY <1>1, <1>3, <1>7, <2>1, <2>3
    <3>. QED
      BY <1>1, <2>1, <3>1, ShownIs
  <2>. QED
    BY <1>1, <2>2, <2>3
<1>13. RetentionInv'
  <2>. SUFFICES ASSUME NEW q \in 1..p, Nth(q) = "as_of", NEW x \in Sides,
                       NEW k \in 1..seen'[x].n, ledger[k].does \in {"close", "remake"},
                       Present(ledger[k].msg, seen'[AccountsRead(ledger[k].msg)].n)
                PROVE  ledger[k].time <= start' \/ ledger[k].time + Lag > seen'["as_of"].at
    <3>1. \A m, j : Present(m, j)' <=> Present(m, j)
      BY <1>2 DEF Present, Made, Done, Lasts
    <3>2. \A m : AccountsRead(m)' = AccountsRead(m)
      BY DEF AccountsRead
    <3>. QED
      BY <1>1, <1>2, <1>4, <3>1, <3>2 DEF RetentionInv, Unseen
  <2>1. x \in Reading /\ x # "as_of" /\ "as_of" \in Reading
    BY ReadingIs DEF Sides
  <2>0. /\ k \in 1..Now /\ ledger[k].msg \in Message
        /\ AccountsRead(ledger[k].msg) \in Sides /\ AccountsRead(ledger[k].msg) \in Reading
    <3>1. k \in 1..Now
      BY <1>1, <1>3, <2>1
    <3>2. ledger[k].msg \in Message
      BY <3>1, EntryType DEF Inv, TypeOK
    <3>. QED
      BY <3>1, <3>2, MessageIs, ReadingIs DEF Sides
  <2>2. CASE q \in 1..step
    <3>1. r \notin Sides
      <4>1. q < p /\ q \in 1..11
        BY <1>1, <2>2
      <4>. QED
        BY <1>1, <4>1, NthBefore
    <3>2. r # "as_of"
      BY <1>4, <2>2
    <3>3. /\ seen'[x] = seen[x] /\ seen'["as_of"] = seen["as_of"] /\ start' = start
          /\ seen'[AccountsRead(ledger[k].msg)] = seen[AccountsRead(ledger[k].msg)]
      BY <1>3, <2>0, <2>1, <3>1, <3>2
    <3>4. Unseen(k)
      BY <2>2, <3>3 DEF Inv, RetentionInv
    <3>. QED
      BY <3>3, <3>4 DEF Unseen
  <2>3. CASE q = p
    <3>1. /\ r = "as_of" /\ seen'["as_of"].at = clock
          /\ seen'[AccountsRead(ledger[k].msg)] = seen[AccountsRead(ledger[k].msg)]
      BY <1>1, <1>3, <2>0, <2>3 DEF Timed, Sides
    <3>2. Retained(start') /\ start' \in Int
      BY <3>1, Types
    <3>3. ledger[k].time \in Nat
      BY <2>0, EntryType, Types DEF Inv, TypeOK
    <3>4. There(ledger[k].msg)
      BY <2>0, <3>1, InvTypes, AliveIs DEF There, Inv, TypeOK
    <3>5. ~(start' < ledger[k].time /\ ledger[k].time + Lag <= clock)
      BY <2>0, <3>2, <3>4 DEF Retained
    <3>. QED
      BY <1>1, <3>1, <3>2, <3>3, <3>5, Types
  <2>. QED
    BY <1>1, <2>2, <2>3
<1>14. ClosedInv'
  <2>. SUFFICES ASSUME NEW q \in 1..p, Nth(q) = "x1_config", NEW m \in Message
                PROVE  Whole(seen', m)
    <3>1. \A m \in Message : Whole(seen, m)' <=> Whole(seen', m)
      BY <1>2 DEF Whole, Present, Made, Done, Lasts, ConfigRead, AccountsRead
    <3>. QED
      BY <1>1, <1>2, <1>4, <3>1 DEF ClosedInv
  <2>1. CASE q \in 1..step
    <3>1. q \in 1..11 /\ q < p
      BY <1>1, <2>1
    <3>2. r \notin Sides \cup Configs \cup {"official"}
      BY <1>1, <1>4, <2>1, <3>1, NthBefore DEF Configs
    <3>3. \A x \in Sides \cup Configs \cup {"official"} : seen'[x] = seen[x]
      BY <1>3, <3>2, ReadingIs DEF Sides, Configs
    <3>4. AccountsRead(m) \in Sides /\ ConfigRead(m) \in Configs
      BY MessageIs DEF Configs
    <3>5. Whole(seen, m)
      BY <2>1 DEF Inv, ClosedInv
    <3>. QED
      BY <3>3, <3>4, <3>5 DEF Whole
  <2>2. CASE q = p
    <3>1. r = "x1_config" /\ Closed(seen')
      BY <1>1, <1>2, <2>2 DEF Take, Passes
    <3>2. ASSUME NEW x \in Sides \cup {"official"}, NEW c \in Configs
          PROVE  Within(seen', x, c)
      <4>1. x \in Reading /\ c \in Reading
        BY ReadingIs DEF Sides, Configs
      <4>2. PICK a \in 1..11 : Nth(a) = x
        BY <1>1, <4>1, NthAll
      <4>3. PICK b \in 1..11 : Nth(b) = c
        BY <1>1, <4>1, NthAll
      <4>4. a < b
        BY <1>1, <4>2, <4>3, NthBefore
      <4>5. b <= p
        BY <1>1, <3>1, <4>3, NthBefore, NthOnce DEF Configs
      <4>6. a \in 1..p /\ b \in 1..p
        BY <1>1, <4>4, <4>5
      <4>. QED
        BY <1>2, <1>4, <1>5, <1>12, <4>2, <4>3, <4>4, <4>6 DEF OrderInv, Within
    <3>. QED
      BY <1>3, <3>1, <3>2, ClosedWhole DEF Inv, TypeOK
  <2>. QED
    BY <1>1, <2>1, <2>2
<1>15. \A x \in Reading : seen'[x].n <= Now'
  BY <1>1, <1>3, <1>5
<1>. QED
  BY <1>9, <1>10, <1>11, <1>12, <1>13, <1>14, <1>15 DEF Inv

LEMMA RaiseStep ==
    ASSUME Inv, Raise
    PROVE  Inv'
<1>1. /\ step' = -1 /\ seen' = Unread /\ start' = 0 /\ job' = job
      /\ ledger' = ledger /\ clock' = clock
  BY DEF Raise, chainVars
<1>2. /\ Unread \in [Reading -> [n : 0..MaxLedger, at : Time]]
      /\ \A r \in Reading : Unread[r].n = 0
  BY Types DEF Unread
<1>3. 0 \in -Lookback..MaxTime /\ -1 \in -1..Len(Order[job]) /\ Now \in Nat
  BY Types, OrderIs, InvTypes
<1>4. TypeOK'
  BY <1>1, <1>2, <1>3 DEF Inv, TypeOK
<1>5. ChainInv'
  BY <1>1 DEF Inv, ChainInv, Now
<1>6. 1..step' = {}
  BY <1>1
<1>7. TimedInv' /\ OrderInv' /\ RetentionInv' /\ ClosedInv'
  BY <1>6 DEF TimedInv, OrderInv, RetentionInv, ClosedInv
<1>8. \A r \in Reading : seen'[r].n <= Now'
  BY <1>1, <1>2, <1>3 DEF Now
<1>. QED
  BY <1>4, <1>5, <1>7, <1>8 DEF Inv

LEMMA InitInv == Init => Inv
<1>. SUFFICES ASSUME Init PROVE Inv
  OBVIOUS
<1>1. /\ ledger = <<>> /\ clock = 0 /\ job \in DOMAIN Order /\ step = 0
      /\ seen = Unread /\ start = 0
  BY DEF Init
<1>2. /\ Unread \in [Reading -> [n : 0..MaxLedger, at : Time]]
      /\ \A r \in Reading : Unread[r].n = 0
  BY Types DEF Unread
<1>3. /\ 0 \in -Lookback..MaxTime /\ 0 \in -1..Len(Order[job]) /\ Now = 0 /\ 0 # -1
      /\ ledger \in Seq(Entry) /\ Len(ledger) <= MaxLedger
  BY <1>1, Types, OrderIs DEF Now
<1>4. TypeOK
  BY <1>1, <1>2, <1>3, Types DEF TypeOK
<1>5. 1..step = {} /\ 1..Now = {}
  BY <1>1, <1>3
<1>6. TimedInv /\ OrderInv /\ RetentionInv /\ ClosedInv
  BY <1>5 DEF TimedInv, OrderInv, RetentionInv, ClosedInv
<1>7. ChainInv
  BY <1>5 DEF ChainInv
<1>8. \A r \in Reading : seen[r].n <= Now
  BY <1>1, <1>2, <1>3
<1>. QED
  BY <1>4, <1>6, <1>7, <1>8 DEF Inv

LEMMA StepInv == Inv /\ [Next]_vars => Inv'
<1>. SUFFICES ASSUME Inv, [Next]_vars PROVE Inv'
  OBVIOUS
<1>0. Now \in Nat /\ Now \in 0..Now /\ clock \in Nat /\ clock <= MaxTime
  BY InvTypes, Types DEF Inv, TypeOK, Time
<1>1. CASE Bridge
  BY <1>1, BridgeStep
<1>2. CASE ReadOfficial
  BY <1>2, ReadingIs, TakeStep DEF ReadOfficial
<1>3. ASSUME NEW r \in Reading, Read(r) PROVE Inv'
  BY <1>0, <1>3, TakeStep, RaiseStep DEF Read, Refused
<1>4. CASE ReadRetention
  <2>1. PICK from \in IF job = "flow" THEN {clock - Lookback} ELSE 0..(clock - 1) :
           Retained(from) /\ start' = from
    BY <1>4 DEF ReadRetention
  <2>2. from \in -Lookback..MaxTime
    BY <1>0, Types
  <2>3. "as_of" \in Reading /\ Ahead("as_of") /\ Take("as_of", Now)
    BY <1>4, ReadingIs DEF ReadRetention
  <2>. QED
    BY <1>0, <2>1, <2>2, <2>3, TakeStep
<1>5. CASE Fails
  BY <1>5, RaiseStep DEF Fails
<1>6. CASE UNCHANGED vars
  <2>1. UNCHANGED <<ledger, clock, job, step, seen, start>>
    BY <1>6 DEF vars
  <2>2. Now' = Now /\ (Now + 1)..Now' = {}
    BY <1>0, <2>1 DEF Now
  <2>3. TimedInv' /\ OrderInv' /\ RetentionInv' /\ ClosedInv'
    BY <1>0, <2>1, <2>2, ReadStep
  <2>4. TypeOK' /\ ChainInv'
    BY <2>1, <2>2 DEF Inv, TypeOK, ChainInv
  <2>. QED
    BY <2>1, <2>2, <2>3, <2>4 DEF Inv
<1>. QED
  BY <1>1, <1>2, <1>3, <1>4, <1>5, <1>6 DEF Next, Collector

LEMMA Invariance == Spec => []Inv
  BY InitInv, StepInv, PTL DEF Spec

-----------------------------------------------------------------------------
(* What a finished job has seen.                                           *)

LEMMA FinishedIs ==
    ASSUME Inv, NEW j, Finished(j)
    PROVE  /\ \A m \in Message : Whole(seen, m)
           /\ \A r \in Sides : \A k \in 1..seen[r].n : Unseen(k)
           /\ \A r \in Sides \cup {"official"} : \A c \in Configs : Within(seen, r, c)
           /\ j = "parity" =>
                 \A r \in {"vault", "supply"} :
                     Within(seen, "official", r) /\ \A c \in Configs : Within(seen, r, c)
           /\ \A r \in {"vault", "supply"} :
                 /\ \A k \in 1..seen[r].n : ledger[k].time <= seen[r].at
                 /\ \A k \in 1..Now :
                       Shows(r, k) /\ ledger[k].time < seen[r].at => k <= seen[r].n
<1>1. job \in DOMAIN Order /\ job = j /\ step = 11
  BY InvTypes, OrderIs DEF Finished
<1>2. \A r \in Reading : \E p \in 1..step : Nth(p) = r
  BY <1>1, NthAll
<1>3. /\ {"as_of", "x1_config", "vault", "supply", "official"} \subseteq Reading
      /\ Sides \subseteq Reading /\ Configs \subseteq Reading
  BY ReadingIs DEF Sides, Configs
<1>4. ASSUME NEW r \in Sides \cup {"official"}, NEW c \in Configs
      PROVE  Within(seen, r, c)
  <2>1. PICK p \in 1..step : Nth(p) = r
    BY <1>2, <1>3
  <2>2. PICK q \in 1..step : Nth(q) = c
    BY <1>2, <1>3
  <2>3. p < q
    BY <1>1, <2>1, <2>2, NthBefore
  <2>. QED
    BY <2>1, <2>2, <2>3 DEF Inv, OrderInv
<1>5. ASSUME j = "parity", NEW r \in {"vault", "supply"}
      PROVE  Within(seen, "official", r) /\ \A c \in Configs : Within(seen, r, c)
  <2>1. /\ Nth(1) = "official" /\ Nth(2) = "vault" /\ Nth(4) = "supply"
        /\ Nth(9) = "sol_config" /\ Nth(10) = "x1_config"
    BY <1>1, <1>5, OrderIs DEF Nth
  <2>2. {1, 2, 4, 9, 10} \subseteq 1..step
    BY <1>1
  <2>3. \A p, q \in {1, 2, 4, 9, 10} : p < q => Within(seen, Nth(p), Nth(q))
    BY <2>2 DEF Inv, OrderInv
  <2>4. /\ Within(seen, Nth(1), Nth(2)) /\ Within(seen, Nth(1), Nth(4))
        /\ Within(seen, Nth(2), Nth(9)) /\ Within(seen, Nth(2), Nth(10))
        /\ Within(seen, Nth(4), Nth(9)) /\ Within(seen, Nth(4), Nth(10))
    BY <2>3
  <2>. QED
    BY <2>1, <2>4 DEF Configs
<1>6. \A m \in Message : Whole(seen, m)
  BY <1>2, <1>3 DEF Inv, ClosedInv
<1>7. \A r \in Sides : \A k \in 1..seen[r].n : Unseen(k)
  BY <1>2, <1>3 DEF Inv, RetentionInv
<1>8. ASSUME NEW r \in {"vault", "supply"}
      PROVE  /\ \A k \in 1..seen[r].n : ledger[k].time <= seen[r].at
             /\ \A k \in 1..Now :
                   Shows(r, k) /\ ledger[k].time < seen[r].at => k <= seen[r].n
  <2>1. PICK p \in 1..step : Nth(p) = r
    BY <1>2, <1>3
  <2>2. Nth(p) \in Timed
    BY <2>1 DEF Timed
  <2>. QED
    BY <2>1, <2>2 DEF Inv, TimedInv
<1>. QED
  BY <1>4, <1>5, <1>6, <1>7, <1>8

LEMMA LedgerIs ==
    ASSUME Inv
    PROVE  /\ ledger \in Seq(Entry) /\ Now \in Nat /\ start \in Int
           /\ \A k \in 1..Now : ledger[k].time \in Nat
           /\ \A k \in 1..Now : \A j \in 1..k : ledger[j].time <= ledger[k].time
           /\ \A j, k \in 1..Now :
                 /\ ledger[j].msg = ledger[k].msg
                 /\ ledger[j].does \in Makes /\ ledger[k].does \in Makes
                 => j = k
<1>1. ledger \in Seq(Entry) /\ Now \in Nat /\ start \in Int
  BY InvTypes, Types DEF Inv, TypeOK
<1>2. \A k \in 1..Now : ledger[k].time \in Nat
  BY <1>1, EntryType, Types
<1>. QED
  BY <1>1, <1>2 DEF Inv, ChainInv

\* A message the counters count is there, and was made within what its reading
\* shows.
LEMMA CountedIsThere ==
    ASSUME Inv, NEW job0, Finished(job0), NEW m \in Message,
           NEW k \in 1..seen[ConfigRead(m)].n, ledger[k].msg = m, ledger[k].does \in Makes
    PROVE  There(m) /\ k \in 1..seen[AccountsRead(m)].n /\ k \in 1..seen.official.n
<1>1. {AccountsRead(m), ConfigRead(m), "official"} \subseteq Reading
  BY MessageIs, ReadingIs DEF Sides
<1>2. /\ seen[AccountsRead(m)].n \in 0..Now /\ seen.official.n \in 0..Now
      /\ k \in 1..Now /\ Now \in Nat
      /\ \A j \in 1..seen[AccountsRead(m)].n : j \in 1..Now
      /\ \A j \in 1..seen.official.n : j \in 1..Now
  BY <1>1, InvTypes
<1>3. Made(m, seen.official.n) /\ Present(m, seen[AccountsRead(m)].n)
  <2>1. Made(m, seen[ConfigRead(m)].n)
    BY DEF Made, Done
  <2>. QED
    BY <2>1, FinishedIs DEF Whole
<1>4. PICK j \in 1..seen.official.n : ledger[j].msg = m /\ ledger[j].does \in Makes
  BY <1>3 DEF Made, Done
<1>5. PICK i \in 1..seen[AccountsRead(m)].n : ledger[i].msg = m /\ ledger[i].does \in Makes
  BY <1>3 DEF Present, Made, Done
<1>6. j = k /\ i = k
  BY <1>2, <1>4, <1>5, LedgerIs
<1>7. There(m)
  BY <1>2, <1>3, LedgerIs, AliveIs DEF There
<1>. QED
  BY <1>4, <1>5, <1>6, <1>7

\* The timestamp of an account that is there is that of the message, unless it
\* was made anew before the retained interval.
LEMMA StampIs ==
    ASSUME Inv, NEW job0, Finished(job0), ReadFinal, NEW m \in Message, There(m),
           NEW k \in 1..seen[AccountsRead(m)].n, ledger[k].msg = m, ledger[k].does \in Makes
    PROVE  LET stamp == Stamp(m, seen[AccountsRead(m)].n)
           IN  /\ stamp \in Nat /\ ledger[k].time <= stamp
               /\ \/ stamp = ledger[k].time
                  \/ /\ stamp <= start
                     /\ \E l \in 1..Now : ledger[l].does = "remake" /\ ledger[l].time = stamp
<1>. DEFINE n == seen[AccountsRead(m)].n
            l == Latest(m, n)
<1>1. AccountsRead(m) \in Sides /\ AccountsRead(m) \in Reading
  BY MessageIs, ReadingIs DEF Sides
<1>2. n \in 0..Now /\ Now \in Nat /\ \A j \in 1..n : j \in 1..Now
  BY <1>1, InvTypes
<1>3. l \in 1..n /\ Lasts(m, n, l) /\ ledger[l].does # "close"
  BY <1>2, LedgerIs, LatestIs DEF There, Alive
<1>4. Stamp(m, n) = ledger[l].time
  BY DEF Stamp
<1>. HIDE DEF l
<1>5. l \in 1..Now /\ k \in 1..Now /\ k \in 1..n
  BY <1>2, <1>3
<1>6. k \in 1..l
  <2>1. ~(l < k)
    BY <1>2, <1>3, <1>5 DEF Lasts, Makes
  <2>. QED
    BY <2>1, <1>3, <1>5
<1>7. ledger[l].time \in Nat /\ ledger[k].time <= ledger[l].time
  BY <1>5, <1>6, LedgerIs
<1>8. CASE k = l
  BY <1>4, <1>7, <1>8
<1>9. CASE k # l
  <2>1. ledger[l].msg = m /\ ledger[l].does # "claim" /\ ledger[l].does \notin Makes
    BY <1>3, <1>5, <1>9, LedgerIs DEF Lasts
  <2>2. ledger[l].does = "remake"
    BY <1>3, <1>5, <2>1, LedgerIs, EntryType
  <2>3. ledger[l].time <= start
    <3>1. Present(m, n)
      BY <1>2, LedgerIs, AliveIs DEF There
    <3>2. Unseen(l)
      BY <1>1, <1>3, FinishedIs
    <3>3. ledger[l].time <= start \/ ledger[l].time + Lag > AsOf
      BY <2>1, <2>2, <3>1, <3>2 DEF Unseen, AsOf
    <3>4. ledger[l].time + Lag <= AsOf
      BY <1>3, <2>1, <2>2 DEF ReadFinal
    <3>5. ledger[l].time \in Nat /\ Lag \in Nat /\ AsOf \in Nat
      BY <1>5, LedgerIs, Types, InvTypes, ReadingIs DEF AsOf
    <3>. QED
      BY <3>3, <3>4, <3>5
  <2>. QED
    BY <1>4, <1>5, <1>7, <2>2, <2>3
<1>. QED
  BY <1>8, <1>9

\* What pays a transfer out follows, or is, what made its destination account.
LEMMA PaysIs ==
    ASSUME Inv, NEW i \in Transfer, NEW k \in 1..Now, Pays(k, i)
    PROVE  \E j \in 1..k : /\ ledger[j].msg = <<"in", i>> /\ ledger[j].does \in Makes
                           /\ ledger[j].does = "settle" => j = k
<1>1. ledger[k].msg = <<"in", i>> /\ ledger[k].does \in {"settle", "unclear", "claim"}
  BY DEF Pays
<1>2. CASE ledger[k].does = "claim"
  <2>1. PICK j \in 1..(k - 1) : ledger[j].msg = ledger[k].msg /\ ledger[j].does = "hold"
    BY <1>2 DEF Inv, ChainInv
  <2>. QED
    BY <1>1, <2>1 DEF Makes
<1>3. CASE ledger[k].does # "claim"
  BY <1>1, <1>3, LedgerIs DEF Makes
<1>. QED
  BY <1>2, <1>3

-----------------------------------------------------------------------------
(* The totals of a window.                                                 *)

LEMMA FlowTotals ==
    ASSUME Inv, Verified, FirstSecondQuiet, ReadFinal, NEW w \in Window
    PROVE  \A i \in Transfer :
               i \in Counted(w) <=>
                   \E k \in 1..seen[ConfigRead(<<"in", i>>)].n : Pays(k, i) /\ In(ledger[k].time, w)
<1>1. Finished("flow") /\ CoverageComplete /\ Unresolved = {}
  BY DEF Verified
<1>2. start <= w.from /\ w.to <= AsOf /\ w.from \in Int /\ w.to \in Int
      /\ AsOf \in Nat /\ start \in Int
  <2>1. start <= w.from /\ w.to <= AsOf
    BY <1>1 DEF CoverageComplete
  <2>2. AsOf \in Nat /\ start \in Int
    BY InvTypes, ReadingIs, LedgerIs DEF AsOf
  <2>3. PICK l \in Lengths : w \in {[from |-> AsOf - l, to |-> AsOf],
                                    [from |-> AsOf - 2 * l, to |-> AsOf - l]}
    BY DEF Window
  <2>4. l \in Nat
    BY FlowAssumption
  <2>5. w.from \in {AsOf - l, AsOf - 2 * l} /\ w.to \in {AsOf, AsOf - l}
    BY <2>3
  <2>. QED
    BY <2>1, <2>2, <2>4, <2>5
<1>. SUFFICES ASSUME NEW i \in Transfer
              PROVE  i \in Counted(w) <=>
                       \E k \in 1..seen[ConfigRead(<<"in", i>>)].n :
                           Pays(k, i) /\ In(ledger[k].time, w)
  OBVIOUS
<1>. DEFINE m == <<"in", i>>
            r == AccountsRead(m)
            c == ConfigRead(m)
<1>3. /\ m \in Message /\ <<"out", i>> \in Message
      /\ r \in Sides /\ c \in Configs /\ r \in Reading /\ c \in Reading
  <2>1. m \in Message /\ <<"out", i>> \in Message
    BY DEF Message
  <2>. QED
    BY <2>1, MessageIs, ReadingIs DEF Sides, Configs
<1>4. /\ seen[r].n \in 0..Now /\ seen[c].n \in 0..Now /\ Now \in Nat
      /\ \A j \in 1..seen[r].n : j \in 1..Now
      /\ \A j \in 1..seen[c].n : j \in 1..Now
  BY <1>3, InvTypes
<1>5. ASSUME NEW k \in 1..seen[r].n, ledger[k].msg = m, ledger[k].does \in Makes,
             There(m), start <= SettledAt(i)
      PROVE  SettledAt(i) = ledger[k].time
  BY <1>1, <1>2, <1>3, <1>5, StampIs DEF SettledAt, FirstSecondQuiet
<1>6. ASSUME i \in Counted(w)
      PROVE  \E k \in 1..seen[c].n : Pays(k, i) /\ In(ledger[k].time, w)
  <2>1. /\ i \in Settled /\ start <= SettledAt(i) /\ In(SettledAt(i), w)
    BY <1>6 DEF Counted
  <2>2. There(m) /\ MadeAs(i, {"settle"}, seen[r].n)
    BY <2>1 DEF Settled, SeenAs
  <2>3. PICK k \in 1..seen[r].n : ledger[k].msg = m /\ ledger[k].does = "settle"
    BY <2>2 DEF MadeAs, Done
  <2>4. SettledAt(i) = ledger[k].time
    BY <1>5, <2>1, <2>2, <2>3 DEF Makes
  <2>5. Shows(c, k)
    BY <1>3, <1>4, <2>3, LedgerIs, ShowsIs DEF Configs, Makes
  <2>6. k <= seen[c].n
    BY <1>1, <1>3, <2>5, FinishedIs DEF Within
  <2>7. k \in 1..seen[c].n
    BY <1>4, <2>6
  <2>8. Pays(k, i)
    BY <2>3 DEF Pays
  <2>. QED
    BY <2>1, <2>4, <2>7, <2>8
<1>7. ASSUME NEW k \in 1..seen[c].n, Pays(k, i), In(ledger[k].time, w)
      PROVE  i \in Counted(w)
  <2>1. PICK j \in 1..k : /\ ledger[j].msg = m /\ ledger[j].does \in Makes
                          /\ ledger[j].does = "settle" => j = k
    BY <1>4, <1>7, PaysIs
  <2>2. j \in 1..seen[c].n /\ j \in 1..Now
    BY <1>4
  <2>3. There(m) /\ j \in 1..seen[r].n
    BY <1>1, <1>3, <2>1, <2>2, CountedIsThere
  <2>4. There(<<"out", i>>)
    <3>1. PICK s \in 1..(j - 1) : ledger[s].msg = <<"out", i>> /\ ledger[s].does \in Makes
      <4>1. ledger[j].msg[1] = "in" /\ ledger[j].msg[2] = i
        BY <2>1
      <4>. QED
        BY <2>1, <2>2, <4>1 DEF Inv, ChainInv
    <3>2. s \in 1..seen[r].n /\ s \in 1..Now
      BY <1>4, <2>2, <2>3
    <3>3. ConfigRead(<<"out", i>>) \in Configs /\ ConfigRead(<<"out", i>>) \in Reading
      BY <1>3, MessageIs, ReadingIs DEF Configs
    <3>4. Shows(ConfigRead(<<"out", i>>), s)
      BY <3>1, <3>2, <3>3, LedgerIs, ShowsIs DEF Configs
    <3>5. s <= seen[ConfigRead(<<"out", i>>)].n
      BY <1>1, <1>3, <3>2, <3>3, <3>4, FinishedIs DEF Within
    <3>6. s \in 1..seen[ConfigRead(<<"out", i>>)].n
      BY <3>2, <3>3, <3>5, InvTypes
    <3>. QED
      BY <1>1, <1>3, <3>1, <3>6, CountedIsThere
  <2>5. i \in Settled
    BY <1>1, <2>4 DEF Unresolved, Candidate
  <2>6. PICK s \in 1..seen[r].n : ledger[s].msg = m /\ ledger[s].does = "settle"
    BY <2>5 DEF Settled, SeenAs, MadeAs, Done
  <2>7. s = j
    BY <1>4, <2>1, <2>2, <2>6, LedgerIs DEF Makes
  <2>8. j = k
    BY <2>1, <2>6, <2>7
  <2>9. /\ w.from <= ledger[k].time /\ ledger[k].time < w.to
        /\ ledger[k].time \in Nat
    BY <1>4, <1>7, LedgerIs DEF In
  <2>10. SettledAt(i) \in Nat /\ ledger[k].time <= SettledAt(i)
    BY <1>1, <1>3, <2>1, <2>3, <2>8, StampIs DEF SettledAt
  <2>11. start <= SettledAt(i)
    BY <1>2, <2>9, <2>10
  <2>12. SettledAt(i) = ledger[k].time
    BY <1>5, <2>1, <2>3, <2>8, <2>11
  <2>13. SettledAt(i) < AsOf /\ In(SettledAt(i), w)
    BY <1>2, <1>7, <2>9, <2>12
  <2>. QED
    BY <2>5, <2>11, <2>13 DEF Counted
<1>. QED
  BY <1>6, <1>7

LEMMA InvFlowExact == Inv => FlowExact
<1>. SUFFICES ASSUME Inv, Verified, FirstSecondQuiet, ReadFinal, NEW w \in Window
              PROVE  Counted(w) = PaidIn(w, LAMBDA i : seen[ConfigRead(<<"in", i>>)].n)
  BY DEF FlowExact
<1>1. \A i \in Transfer :
         i \in Counted(w) <=>
             \E k \in 1..seen[ConfigRead(<<"in", i>>)].n : Pays(k, i) /\ In(ledger[k].time, w)
  BY FlowTotals
<1>2. Counted(w) \subseteq Transfer
  BY DEF Counted, Settled, Candidate
<1>. QED
  BY <1>1, <1>2 DEF PaidIn

-----------------------------------------------------------------------------
(* The bounds of the reserve and of the supply.                            *)

LEMMA EndOfIs ==
    ASSUME Inv, NEW t \in Int
    PROVE  EndOf(t) \in 0..Now /\ \A k \in 1..Now : ledger[k].time <= t <=> k <= EndOf(t)
<1>. DEFINE T == {k \in 1..Now : ledger[k].time <= t}
<1>1. /\ Now \in Nat
      /\ \A k \in 1..Now : ledger[k].time \in Nat
      /\ \A k \in 1..Now : \A j \in 1..k : ledger[j].time <= ledger[k].time
  BY LedgerIs
<1>2. EndOf(t) = Cardinality(T)
  BY DEF EndOf
<1>3. CASE T = {}
  <2>1. EndOf(t) = 0
    BY <1>2, <1>3, FS_EmptySet
  <2>2. \A k \in 1..Now : ~(ledger[k].time <= t)
    BY <1>3
  <2>. QED
    BY <1>1, <2>1, <2>2
<1>4. CASE T # {}
  <2>1. PICK e \in T : \A j \in T : j <= e
    <3>1. T \in SUBSET (0..Now)
      BY <1>1
    <3>. HIDE DEF T
    <3>. QED
      BY <1>1, <1>4, <3>1, LastPosition
  <2>2. \A k \in 1..Now : k \in T <=> k <= e
    <3>. TAKE k \in 1..Now
    <3>1. e \in 1..Now /\ ledger[e].time <= t
      BY <2>1
    <3>2. k \in T => k <= e
      BY <2>1
    <3>3. ASSUME k <= e PROVE k \in T
      <4>1. k \in 1..e
        BY <3>1, <3>3
      <4>2. ledger[k].time <= ledger[e].time /\ ledger[k].time \in Nat /\ ledger[e].time \in Nat
        BY <1>1, <3>1, <4>1
      <4>. QED
        BY <3>1, <4>2
    <3>. QED
      BY <3>2, <3>3
  <2>3. T = 1..e /\ e \in 1..Now
    BY <1>1, <2>1, <2>2
  <2>4. Cardinality(1..e) = e
    BY <1>1, <2>3, FS_Interval
  <2>5. EndOf(t) = e
    <3>. HIDE DEF T
    <3>. QED
      BY <1>2, <2>3, <2>4
  <2>. QED
    BY <2>2, <2>3, <2>5
<1>. QED
  BY <1>3, <1>4

\* What was sent by the reading was sent by the end of the fact's second, or
\* counts as sent since.
LEMMA SentBound ==
    ASSUME Inv, Finished("parity"), ReadFinal, NEW r \in {"vault", "supply"}, NEW fact \in Fact,
           fact < seen[r].at, NEW i \in Transfer, Made(<<"out", i>>, seen[r].n)
    PROVE  \/ Made(<<"out", i>>, EndOf(fact))
           \/ i \in Candidate /\ Between(fact, SentAt(i), seen[r].at)
<1>. DEFINE m == <<"out", i>>
<1>1. fact \in Int /\ start <= fact /\ start \in Int
  BY LedgerIs, InvTypes, ReadingIs DEF Fact, AsOf
<1>2. m \in Message /\ ConfigRead(m) \in Configs /\ ConfigRead(m) \in Reading /\ r \in Reading
  <2>1. m \in Message
    BY DEF Message
  <2>. QED
    BY <2>1, MessageIs, ReadingIs DEF Configs
<1>3. PICK k \in 1..seen[r].n : ledger[k].msg = m /\ ledger[k].does \in Makes
  BY DEF Made, Done
<1>4. k \in 1..Now /\ ledger[k].time \in Nat /\ Now \in Nat
  BY <1>2, InvTypes, LedgerIs
<1>5. EndOf(fact) \in 0..Now /\ (ledger[k].time <= fact <=> k <= EndOf(fact))
  BY <1>1, <1>4, EndOfIs
<1>6. CASE ledger[k].time <= fact
  <2>1. k \in 1..EndOf(fact)
    BY <1>4, <1>5, <1>6
  <2>. QED
    BY <1>3, <2>1 DEF Made, Done
<1>7. CASE ~(ledger[k].time <= fact)
  <2>1. ledger[k].time <= seen[r].at
    BY FinishedIs
  <2>2. Shows(ConfigRead(m), k)
    BY <1>2, <1>3, <1>4, LedgerIs, ShowsIs DEF Configs
  <2>3. k <= seen[ConfigRead(m)].n
    BY <1>2, <2>2, FinishedIs DEF Within
  <2>4. k \in 1..seen[ConfigRead(m)].n
    BY <1>2, <1>4, <2>3, InvTypes
  <2>5. There(m) /\ k \in 1..seen[AccountsRead(m)].n
    BY <1>2, <1>3, <2>4, CountedIsThere
  <2>6. /\ SentAt(i) \in Nat /\ ledger[k].time <= SentAt(i)
        /\ SentAt(i) = ledger[k].time \/ SentAt(i) <= start
    BY <1>2, <1>3, <2>5, StampIs DEF SentAt
  <2>7. SentAt(i) = ledger[k].time
    BY <1>1, <1>4, <1>7, <2>6
  <2>8. Between(fact, SentAt(i), seen[r].at)
    BY <1>1, <1>4, <1>7, <2>1, <2>7 DEF Between
  <2>. QED
    BY <2>5, <2>8 DEF Candidate
<1>. QED
  BY <1>6, <1>7

\* What counts as paid out since the fact's second was not paid by its end, and
\* both were paid by the reading.
LEMMA PaidBound ==
    ASSUME Inv, Finished("parity"), ReadFinal, NEW r \in {"vault", "supply"}, NEW fact \in Fact,
           fact < seen[r].at, NEW i \in Transfer,
           \A k \in 1..Now : Pays(k, i) => Shows(r, k)
    PROVE  /\ Paid(i, EndOf(fact)) => Paid(i, seen[r].n)
           /\ i \in Settled /\ Between(fact, SettledAt(i), seen[r].at) =>
                  Paid(i, seen[r].n) /\ ~Paid(i, EndOf(fact))
<1>. DEFINE m == <<"in", i>>
<1>1. fact \in Int /\ start <= fact /\ start \in Int /\ seen[r].at \in Nat
  <2>1. fact \in Int /\ start <= fact /\ start \in Int
    BY LedgerIs, InvTypes, ReadingIs DEF Fact, AsOf
  <2>2. r \in Reading
    BY ReadingIs
  <2>. QED
    BY <2>1, <2>2, InvTypes
<1>2. /\ m \in Message /\ ConfigRead(m) \in Configs /\ ConfigRead(m) \in Reading
      /\ AccountsRead(m) \in Sides /\ AccountsRead(m) \in Reading
      /\ r \in Reading /\ "official" \in Reading
  <2>1. m \in Message
    BY DEF Message
  <2>. QED
    BY <2>1, MessageIs, ReadingIs DEF Configs, Sides
<1>3. Now \in Nat /\ EndOf(fact) \in 0..Now /\ seen[r].n \in 0..Now
  BY <1>1, <1>2, EndOfIs, InvTypes
<1>4. ASSUME Paid(i, EndOf(fact)) PROVE Paid(i, seen[r].n)
  <2>1. PICK k \in 1..EndOf(fact) : Pays(k, i)
    BY <1>4 DEF Paid
  <2>2. k \in 1..Now /\ k <= EndOf(fact)
    BY <1>3
  <2>3. ledger[k].time <= fact /\ ledger[k].time \in Nat
    BY <1>1, <2>2, EndOfIs, LedgerIs
  <2>4. ledger[k].time < seen[r].at
    BY <1>1, <2>3
  <2>5. k <= seen[r].n
    BY <2>1, <2>2, <2>4, FinishedIs
  <2>6. k \in 1..seen[r].n
    BY <1>3, <2>2, <2>5
  <2>. QED
    BY <2>1, <2>6 DEF Paid
<1>5. ASSUME i \in Settled, Between(fact, SettledAt(i), seen[r].at)
      PROVE  Paid(i, seen[r].n) /\ ~Paid(i, EndOf(fact))
  <2>1. There(m) /\ MadeAs(i, {"settle"}, seen[AccountsRead(m)].n)
    BY <1>5 DEF Settled, SeenAs
  <2>2. PICK k \in 1..seen[AccountsRead(m)].n : ledger[k].msg = m /\ ledger[k].does = "settle"
    BY <2>1 DEF MadeAs, Done
  <2>3. k \in 1..Now /\ ledger[k].time \in Nat /\ ledger[k].does \in Makes /\ Pays(k, i)
    BY <1>2, <2>2, InvTypes, LedgerIs DEF Makes, Pays
  <2>4. fact < SettledAt(i)
    BY <1>5 DEF Between
  <2>5. ledger[k].time = SettledAt(i)
    <3>1. /\ SettledAt(i) \in Nat
          /\ SettledAt(i) = ledger[k].time \/ SettledAt(i) <= start
      BY <1>2, <2>1, <2>2, <2>3, StampIs DEF SettledAt
    <3>. QED
      BY <1>1, <2>4, <3>1
  <2>6. Paid(i, seen[r].n)
    <3>1. Shows(ConfigRead(m), k)
      BY <1>2, <2>2, <2>3, LedgerIs, ShowsIs DEF Configs
    <3>2. k <= seen[ConfigRead(m)].n
      BY <1>2, <3>1, FinishedIs DEF Within
    <3>3. k \in 1..seen[ConfigRead(m)].n
      BY <1>2, <2>3, <3>2, InvTypes
    <3>4. k \in 1..seen.official.n
      BY <1>2, <2>2, <2>3, <3>3, CountedIsThere
    <3>5. k <= seen[r].n
      BY <2>3, <3>4, FinishedIs DEF Within
    <3>6. k \in 1..seen[r].n
      BY <1>3, <2>3, <3>5
    <3>. QED
      BY <2>3, <3>6 DEF Paid
  <2>7. ASSUME Paid(i, EndOf(fact)) PROVE FALSE
    <3>1. PICK j \in 1..EndOf(fact) : Pays(j, i)
      BY <2>7 DEF Paid
    <3>2. j \in 1..Now /\ j <= EndOf(fact)
      BY <1>3
    <3>3. PICK l \in 1..j : /\ ledger[l].msg = m /\ ledger[l].does \in Makes
                            /\ ledger[l].does = "settle" => l = j
      BY <3>1, <3>2, PaysIs
    <3>4. l \in 1..Now
      BY <1>3, <3>2, <3>3
    <3>5. l = k
      BY <2>2, <2>3, <3>3, <3>4, LedgerIs
    <3>6. j = k
      BY <2>2, <3>3, <3>5
    <3>7. ledger[j].time <= fact
      BY <1>1, <3>2, EndOfIs
    <3>. QED
      BY <1>1, <2>3, <2>4, <2>5, <3>6, <3>7
  <2>. QED
    BY <2>6, <2>7
<1>. QED
  BY <1>4, <1>5

LEMMA TransfersFinite ==
    ASSUME Inv, NEW n \in 0..Now, NEW X,
           \A i \in X : \E k \in 1..n : ledger[k].msg[2] = i
    PROVE  IsFiniteSet(X)
<1>. DEFINE of == [k \in 1..n |-> ledger[k].msg[2]]
            T == {ledger[k].msg[2] : k \in 1..n}
<1>1. IsFiniteSet(1..n)
  BY InvTypes, FS_Interval
<1>2. of \in Surjection(1..n, T)
  BY DEF Surjection
<1>3. X \subseteq T
  OBVIOUS
<1>. HIDE DEF of, T
<1>4. IsFiniteSet(T)
  BY <1>1, <1>2, FS_Surjection
<1>. QED
  BY <1>3, <1>4, FS_Subset

\* What was sent and what was paid, weighed for one side.
LEMMA SideBound ==
    ASSUME Inv, Finished("parity"), ReadFinal, NEW r \in {"vault", "supply"}, NEW fact \in Fact,
           fact < seen[r].at, NEW X \in SUBSET Transfer, NEW Y \in SUBSET Transfer,
           \A i \in Y : \A k \in 1..Now : Pays(k, i) => Shows(r, k)
    PROVE  LET sent(n) == Total({i \in X : Made(<<"out", i>>, n)})
               paid(n) == Total({i \in Y : Paid(i, n)})
               since == Total({i \in X \cap Candidate : Between(fact, SentAt(i), seen[r].at)})
               settled == Total({i \in Y \cap Settled : Between(fact, SettledAt(i), seen[r].at)})
           IN  /\ {sent(seen[r].n), sent(EndOf(fact)), paid(seen[r].n), paid(EndOf(fact)),
                   since, settled} \subseteq Nat
               /\ sent(seen[r].n) <= sent(EndOf(fact)) + since
               /\ settled + paid(EndOf(fact)) <= paid(seen[r].n)
<1>. DEFINE M(n) == {i \in X : Made(<<"out", i>>, n)}
            Q(n) == {i \in Y : Paid(i, n)}
            A == {i \in X \cap Candidate : Between(fact, SentAt(i), seen[r].at)}
            B == {i \in Y \cap Settled : Between(fact, SettledAt(i), seen[r].at)}
            n0 == seen[r].n
            e == EndOf(fact)
<1>1. n0 \in 0..Now /\ e \in 0..Now /\ Now \in Nat
  <2>1. fact \in Int /\ r \in Reading
    BY LedgerIs, InvTypes, ReadingIs DEF Fact, AsOf
  <2>. QED
    BY <2>1, EndOfIs, InvTypes
<1>. HIDE DEF n0, e
<1>2. ASSUME NEW n \in 0..Now PROVE IsFiniteSet(M(n)) /\ IsFiniteSet(Q(n))
  <2>1. \A i \in M(n) : \E k \in 1..n : ledger[k].msg[2] = i
    BY DEF Made, Done
  <2>2. \A i \in Q(n) : \E k \in 1..n : ledger[k].msg[2] = i
    BY DEF Paid, Pays
  <2>. HIDE DEF M, Q
  <2>. QED
    BY <2>1, <2>2, TransfersFinite
<1>3. IsFiniteSet(A) /\ IsFiniteSet(B)
  <2>1. ASSUME NEW i \in Candidate PROVE \E k \in 1..Now : ledger[k].msg[2] = i
    <3>1. <<"out", i>> \in Message
      BY DEF Candidate, Message
    <3>2. AccountsRead(<<"out", i>>) \in Reading
      BY <3>1, MessageIs, ReadingIs DEF Sides
    <3>3. Made(<<"out", i>>, seen[AccountsRead(<<"out", i>>)].n)
      BY DEF Candidate, There, Alive
    <3>4. PICK k \in 1..seen[AccountsRead(<<"out", i>>)].n : ledger[k].msg = <<"out", i>>
      BY <3>3 DEF Made, Done
    <3>. QED
      BY <3>2, <3>4, InvTypes
  <2>2. A \subseteq Candidate /\ B \subseteq Candidate
    BY DEF Settled
  <2>3. Now \in 0..Now
    BY <1>1
  <2>. HIDE DEF A, B
  <2>. QED
    BY <2>1, <2>2, <2>3, TransfersFinite
<1>4. M(n0) \subseteq M(e) \cup A
  BY SentBound DEF n0, e
<1>5. B \cup Q(e) \subseteq Q(n0) /\ B \cap Q(e) = {}
  <2>1. \A i \in Y : /\ Paid(i, e) => Paid(i, n0)
                     /\ i \in Settled /\ Between(fact, SettledAt(i), seen[r].at) =>
                            Paid(i, n0) /\ ~Paid(i, e)
    BY PaidBound DEF n0, e
  <2>. QED
    BY <2>1
<1>6. \A i \in M(e) \cup M(n0) \cup A \cup B \cup Q(e) \cup Q(n0) : Amount[i] \in Nat
  BY Types
<1>. HIDE DEF M, Q, A, B
<1>7. {Total(M(n0)), Total(M(e)), Total(Q(n0)), Total(Q(e)), Total(A), Total(B)} \subseteq Nat
  BY <1>1, <1>2, <1>3, <1>6, SumType DEF Total
<1>8. Total(M(n0)) <= Total(M(e)) + Total(A)
  BY <1>1, <1>2, <1>3, <1>4, <1>6, SumWithin DEF Total
<1>9. Total(B) + Total(Q(e)) <= Total(Q(n0))
  <2>1. Total(B \cup Q(e)) = Total(B) + Total(Q(e))
    BY <1>1, <1>2, <1>3, <1>5, <1>6, SumApart DEF Total
  <2>2. Total(B \cup Q(e)) <= Total(Q(n0)) + Total({})
    <3>1. B \cup Q(e) \subseteq Q(n0) \cup {} /\ IsFiniteSet({})
      BY <1>5, FS_EmptySet
    <3>. QED
      BY <1>1, <1>2, <1>6, <3>1, SumWithin DEF Total
  <2>3. Total({}) = 0
    BY SumEmpty DEF Total
  <2>. QED
    BY <1>7, <2>1, <2>2, <2>3
<1>. QED
  BY <1>7, <1>8, <1>9 DEF M, Q, A, B, n0, e

LEMMA InvParityBounds == Inv => ParityBounds
<1>. SUFFICES ASSUME Inv, Finished("parity"), ReadFinal, NEW fact \in Fact,
                     fact < SourceObserved, fact < DestinationObserved
              PROVE  /\ SourceReserve(fact) <= Vault(EndOf(fact))
                     /\ DestinationSupply(fact) >= Minted(EndOf(fact))
  BY DEF ParityBounds
<1>1. Reserve \in Nat /\ Supply \in Nat
  BY FlowAssumption
<1>2. Inflows \in SUBSET Transfer /\ Outflows \in SUBSET Transfer
  BY DEF Transfer
<1>3. /\ \A i \in Outflows : \A k \in 1..Now : Pays(k, i) => Shows("vault", k)
      /\ \A i \in Inflows : \A k \in 1..Now : Pays(k, i) => Shows("supply", k)
  BY LedgerIs, ShowsIs
<1>4. SourceReserve(fact) <= Vault(EndOf(fact))
  <2>. DEFINE sent(n) == Total({i \in Inflows : Made(<<"out", i>>, n)})
              paid(n) == Total({i \in Outflows : Paid(i, n)})
              since == Total({i \in Inflows \cap Candidate :
                                Between(fact, SentAt(i), seen["vault"].at)})
              settled == Total({i \in Outflows \cap Settled :
                                Between(fact, SettledAt(i), seen["vault"].at)})
              n0 == seen["vault"].n
              e == EndOf(fact)
  <2>1. /\ {sent(n0), sent(e), paid(n0), paid(e), since, settled} \subseteq Nat
        /\ sent(n0) <= sent(e) + since
        /\ settled + paid(e) <= paid(n0)
    BY <1>2, <1>3, SideBound DEF SourceObserved
  <2>2. /\ SourceReserve(fact) = ((Reserve + (sent(n0) - paid(n0))) - since) + settled
        /\ Vault(e) = Reserve + (sent(e) - paid(e))
    BY Zenon DEF SourceReserve, Vault, SourceObserved
  <2>. HIDE DEF sent, paid, since, settled, n0, e
  <2>3. SourceReserve(fact) <= Vault(e)
    BY <1>1, <2>1, <2>2
  <2>. QED
    BY <2>3 DEF e
<1>5. DestinationSupply(fact) >= Minted(EndOf(fact))
  <2>. DEFINE sent(n) == Total({i \in Outflows : Made(<<"out", i>>, n)})
              paid(n) == Total({i \in Inflows : Paid(i, n)})
              since == Total({i \in Outflows \cap Candidate :
                                Between(fact, SentAt(i), seen["supply"].at)})
              settled == Total({i \in Inflows \cap Settled :
                                Between(fact, SettledAt(i), seen["supply"].at)})
              n0 == seen["supply"].n
              e == EndOf(fact)
  <2>1. /\ {sent(n0), sent(e), paid(n0), paid(e), since, settled} \subseteq Nat
        /\ sent(n0) <= sent(e) + since
        /\ settled + paid(e) <= paid(n0)
    BY <1>2, <1>3, SideBound DEF DestinationObserved
  <2>2. /\ DestinationSupply(fact) = ((Supply + (paid(n0) - sent(n0))) - settled) + since
        /\ Minted(e) = Supply + (paid(e) - sent(e))
    BY Zenon DEF DestinationSupply, Minted, DestinationObserved
  <2>. HIDE DEF sent, paid, since, settled, n0, e
  <2>3. DestinationSupply(fact) >= Minted(e)
    BY <1>1, <2>1, <2>2
  <2>. QED
    BY <2>3 DEF e
<1>. QED
  BY <1>4, <1>5

-----------------------------------------------------------------------------
(* The theorems.                                                           *)

\* Every variable keeps to its type; a job that has failed leaves no evidence.
THEOREM TypeCorrect == Spec => []TypeOK
<1>1. Inv => TypeOK
  BY DEF Inv
<1>. QED
  BY <1>1, Invariance, PTL

\* A verified window counts exactly what was paid out in it as far as the counters
\* had been read, of any transfers and however the bridge works on between the
\* readings, unless an account was made anew where the retention evidence does not
\* look (build_bridge_flow_intelligence and its integration).
THEOREM FlowCorrect == Spec => []FlowExact
  BY Invariance, InvFlowExact, PTL

\* The reserve and the supply a trade is valued with bound what they were at the
\* end of its second, whatever the amounts, unless an account was read as made anew
\* before that is final (evaluate_historical_usdcx_parity).
THEOREM ParityCorrect == Spec => []ParityBounds
  BY Invariance, InvParityBounds, PTL
=============================================================================
