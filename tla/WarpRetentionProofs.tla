-------------------------- MODULE WarpRetentionProofs --------------------------
(***************************************************************************)
(* Theorems about the retention evidence of the Warp bridge, for all sets  *)
(* of messages, page and batch sizes, windows, lags and ledgers.           *)
(***************************************************************************)
EXTENDS WarpRetention, FiniteFacts

-----------------------------------------------------------------------------
(* The invariant.                                                          *)

\* The ledger is in the order of time and begins with the deployment, the only one.
LedgerInv ==
    /\ ledger \in Seq(Tx) /\ Len(ledger) \in 1..MaxLedger
    /\ clock \in Time
    /\ \A i \in 1..Len(ledger) :
          /\ ledger[i].time <= clock
          /\ ledger[i].kind = "deploy" <=> i = 1
          /\ \A j \in i..Len(ledger) : ledger[i].time <= ledger[j].time

\* Accounts that were read had been made when they were.
AccountsInv ==
    /\ readAt \in [out : 0..Len(ledger), in : 0..Len(ledger)]
    /\ \E live \in SUBSET Message : universe \in [live -> Time]
    /\ \A m \in DOMAIN universe \cap Outgoing : Made(m, readAt.out) # {}
    /\ \A m \in DOMAIN universe \cap Incoming : Made(m, readAt.in) # {}

\* Of the first r readings, each of accounts is followed by one of the Config.
Covered(r) ==
    \A k \in 1..r : Reads[k] \in {"outgoing", "incoming"}
                       => \E j \in (k + 1)..r : Reads[j] = "onchain"

\* Its counters are then of a ledger that has all that was read.
CountersInv ==
    /\ counters \in [read : 0..Len(Reads), official : Count, onchain : Count]
    /\ stage = "reading" => counters.read < Len(Reads)
    /\ stage \notin {"reading", "failed"} => counters.read = Len(Reads)
    /\ Covered(counters.read) =>
          \E n \in 0..Len(ledger) :
             readAt.out <= n /\ readAt.in <= n /\ counters.onchain = Counters(n)

ClosureInv == stage \notin {"reading", "closing", "failed"} => Closed

\* Pages are a run of the ledger that ends where they last stopped: they reached
\* the start of the window there, or that row lies inside of it.
HistoryInv ==
    /\ DOMAIN history = DOMAIN NoHistory
    /\ {history.reached, history.exhausted, history.truncated} \subseteq BOOLEAN
    /\ history.pages \in 0..MaxPages
    /\ history.pages = 0 => history = NoHistory
    /\ history.pages # 0 =>
          /\ history.head \in 0..Len(ledger)
          /\ history.low \in 1..(history.head + 1)
          /\ history.untimed \subseteq 1..history.head
          /\ history.reached =>
                history.low <= history.head /\ ledger[history.low].time <= window.start
          /\ ~history.reached /\ history.low <= history.head =>
                \/ history.low \in history.untimed
                \/ window.start < ledger[history.low].time

StageInv ==
    /\ stage \in {"reading", "closing", "timing", "paging", "archive", "fetching",
                  "done", "failed"}
    /\ stage \in {"reading", "closing", "timing", "failed"} => history.pages = 0
    /\ stage \in {"archive", "fetching", "done"} => history.pages # 0
    /\ stage \in {"reading", "closing", "timing", "paging", "archive", "failed"} =>
          trace = NoTrace
    /\ stage = "paging" =>
          /\ ~history.reached /\ ~history.exhausted /\ ~history.truncated
          /\ history.pages < MaxPages
    /\ window \in [mode : {"lifecycle", "interval"}, start : Time, asOf : Time]
    /\ verdict \in BOOLEAN /\ (verdict => stage = "done")

TraceInv ==
    /\ trace \in [archive : {Never} \cup Time, batches : Index, tries : 0..Attempts]
    /\ trace.tries < Attempts

Inv ==
    /\ LedgerInv /\ AccountsInv /\ CountersInv /\ ClosureInv
    /\ HistoryInv /\ StageInv /\ TraceInv

-----------------------------------------------------------------------------
(* Operators.                                                              *)

\* A number and its successors.
LEMMA ConstantTypes ==
    /\ MaxLedger \in Nat \ {0} /\ MaxTime \in Nat /\ Lookback \in Nat /\ MaxInterval \in Nat
    /\ PageSize \in Nat \ {0} /\ MaxPages \in Nat \ {0} /\ BatchSize \in Nat \ {0}
    /\ Attempts \in Nat \ {0} /\ Lag \in Nat
    /\ Len(Reads) \in Nat \ {0}
    /\ \A k \in 1..Len(Reads) : Reads[k] \in {"official", "outgoing", "incoming", "onchain"}
  BY WarpAssumption

\* What has been made stays made.
LEMMA MadeGrows ==
    ASSUME NEW n \in Int, NEW k \in Int, n <= k, NEW m
    PROVE  Made(m, n) \subseteq Made(m, k)
  BY DEF Made

\* The messages made by a prefix of the ledger are finitely many, no more than
\* its entries.
LEMMA MadeFinite ==
    ASSUME NEW n \in Nat, NEW side
    PROVE  /\ IsFiniteSet({m \in side : Made(m, n) # {}})
           /\ Counter(side, n) \in 0..n
<1>. DEFINE T == {ledger[i].msg : i \in 1..n}
            f == [i \in 1..n |-> ledger[i].msg]
            S == {m \in side : Made(m, n) # {}}
<1>1. f \in Surjection(1..n, T)
  BY DEF Surjection
<1>2. IsFiniteSet(1..n) /\ Cardinality(1..n) = n
  BY FS_Interval
<1>3. S \in SUBSET T
  BY DEF Made, Does
<1>4. Counter(side, n) = Cardinality(S)
  BY DEF Counter
<1>. HIDE DEF T, f, S
<1>5. IsFiniteSet(T) /\ Cardinality(T) <= n
  BY <1>1, <1>2, FS_Surjection
<1>6. IsFiniteSet(S) /\ Cardinality(S) <= Cardinality(T)
  BY <1>3, <1>5, FS_Subset
<1>7. Cardinality(S) \in Nat /\ Cardinality(T) \in Nat
  BY <1>5, <1>6, FS_CardinalityType
<1>8. Cardinality(S) \in 0..n
  BY <1>5, <1>6, <1>7
<1>. QED
  BY <1>4, <1>6, <1>8 DEF S

\* So the counter of a side is a number.
LEMMA CounterType ==
    ASSUME NEW n \in Nat, NEW side
    PROVE  Counter(side, n) \in 0..n
  BY MadeFinite

\* Counters are in their range.
LEMMA CountersType ==
    ASSUME LedgerInv, NEW n \in 0..Len(ledger)
    PROVE  Counters(n) \in Count
<1>1. n \in Nat /\ n <= MaxLedger
  BY ConstantTypes DEF LedgerInv
<1>2. Counter(Outgoing, n) \in Index /\ Counter(Incoming, n) \in Index
  <2>1. Counter(Outgoing, n) \in 0..n /\ Counter(Incoming, n) \in 0..n
    BY <1>1, CounterType
  <2>. QED
    BY <2>1, <1>1, ConstantTypes DEF Index
<1>. QED
  BY <1>2 DEF Counters, Count

\* What a prefix of the ledger says does not change as the ledger grows.
LEMMA PrefixKept ==
    ASSUME LedgerInv, Len(ledger') >= Len(ledger), Len(ledger') \in Nat,
           \A i \in 1..Len(ledger) : ledger'[i] = ledger[i],
           NEW n \in 0..Len(ledger)
    PROVE  /\ \A m : Made(m, n)' = Made(m, n)
           /\ Counters(n)' = Counters(n)
<1>1. \A m : Made(m, n)' = Made(m, n)
  <2>1. \A i \in 1..n : ledger'[i] = ledger[i]
    BY DEF LedgerInv
  <2>. QED
    BY <2>1 DEF Made, Does
<1>2. ASSUME NEW side PROVE Counter(side, n)' = Counter(side, n)
  <2>1. {m \in side : Made(m, n) # {}}' = {m \in side : Made(m, n) # {}}
    BY <1>1
  <2>. QED
    BY <2>1 DEF Counter
<1>. QED
  BY <1>1, <1>2 DEF Counters

\* The stamp of an account that is there is a time.
LEMMA EventTimeType ==
    ASSUME LedgerInv, NEW n \in 0..Len(ledger), NEW m \in Message, Alive(m, n)
    PROVE  EventTime(m, n) \in Time
<1>. DEFINE f == [i \in Made(m, n) |-> i]
<1>1. Made(m, n) # {} /\ Made(m, n) \in SUBSET (1..n) /\ n \in Nat
  BY DEF Alive, Made, LedgerInv
<1>2. IsFiniteSet(Made(m, n))
  <2>1. IsFiniteSet(1..n)
    BY <1>1, FS_Interval
  <2>. QED
    BY <2>1, <1>1, FS_Subset
<1>3. \A i \in Made(m, n) : f[i] \in Int /\ f[i] = i
  BY <1>1
<1>. HIDE DEF f
<1>4. \E i \in Made(m, n) : \A j \in Made(m, n) : j <= i
  <2>1. \E i \in Made(m, n) : \A j \in Made(m, n) : f[j] <= f[i]
    BY <1>1, <1>2, <1>3, GreatestMeasure
  <2>. QED
    BY <2>1, <1>3
<1>5. PICK i \in Made(m, n) : EventTime(m, n) = ledger[i].event
  BY <1>4 DEF EventTime
<1>6. i \in 1..Len(ledger) /\ ledger[i] \in Tx /\ ledger[i].msg = m
  BY <1>1 DEF LedgerInv, Made, Does
<1>7. ledger[i].event \in Time
  BY <1>6, WarpAssumption DEF Tx, Message
<1>. QED
  BY <1>5, <1>7

\* The accounts of a side that are there had been made.
LEMMA AccountsType ==
    ASSUME LedgerInv, NEW side \in {Outgoing, Incoming}
    PROVE  /\ DOMAIN Accounts(side) \subseteq side
           /\ \A m \in DOMAIN Accounts(side) :
                 Made(m, Len(ledger)) # {} /\ Accounts(side)[m] \in Time
<1>1. side \subseteq Message
  BY DEF Message
<1>2. Len(ledger) \in 0..Len(ledger)
  BY DEF LedgerInv
<1>3. ASSUME NEW m \in side, Alive(m, Len(ledger))
      PROVE  Made(m, Len(ledger)) # {} /\ EventTime(m, Len(ledger)) \in Time
  BY <1>1, <1>2, <1>3, EventTimeType DEF Alive
<1>4. DOMAIN Accounts(side) = {m \in side : Alive(m, Len(ledger))}
  BY DEF Accounts
<1>5. \A m \in DOMAIN Accounts(side) : Accounts(side)[m] = EventTime(m, Len(ledger))
  BY DEF Accounts
<1>. QED
  BY <1>3, <1>4, <1>5

\* A page that is not empty is an interval, and its oldest row the lower end.
LEMMA PageType ==
    ASSUME NEW top \in Nat, NEW rows \in PageRows(top), rows # {}
    PROVE  \E low \in 1..top :
              rows = low..top /\ low = CHOOSE i \in rows : \A j \in rows : i <= j
<1>1. PICK cut \in 0..top : rows = {i \in (cut + 1)..top : i > top - PageSize}
  BY DEF PageRows
<1>2. PICK low \in 1..top : rows = low..top
  <2>1. CASE cut + 1 > top - PageSize
    <3>1. rows = (cut + 1)..top
      BY <1>1, <2>1, ConstantTypes
    <3>2. cut + 1 \in 1..top
      BY <3>1
    <3>. QED
      BY <3>1, <3>2
  <2>2. CASE cut + 1 <= top - PageSize
    <3>1. rows = (top - PageSize + 1)..top
      BY <1>1, <2>2, ConstantTypes
    <3>2. top - PageSize + 1 \in 1..top
      BY <2>2, ConstantTypes
    <3>. QED
      BY <3>1, <3>2
  <2>. QED
    BY <2>1, <2>2, ConstantTypes
<1>3. low \in rows /\ \A j \in rows : low <= j
  BY <1>2
<1>4. \A i \in rows : (\A j \in rows : i <= j) => i = low
  BY <1>2, <1>3
<1>. QED
  BY <1>2, <1>3, <1>4

-----------------------------------------------------------------------------
(* The ledger.                                                             *)

\* The ledger only grows.
Grows ==
    /\ Len(ledger') \in Nat /\ Len(ledger') >= Len(ledger)
    /\ \A i \in 1..Len(ledger) : ledger'[i] = ledger[i]

LEMMA AppendKeeps ==
    ASSUME LedgerInv, NEW kind, NEW m, NEW event, Append1(kind, m, event),
           kind # "deploy", [time |-> clock, msg |-> m, kind |-> kind, event |-> event] \in Tx
    PROVE  LedgerInv' /\ Grows
<1>. DEFINE tx == [time |-> clock, msg |-> m, kind |-> kind, event |-> event]
<1>1. /\ ledger' = Append(ledger, tx) /\ clock' = clock
      /\ Len(ledger) < MaxLedger /\ tx \in Tx /\ tx.time = clock /\ tx.kind # "deploy"
  BY DEF Append1
<1>. HIDE DEF tx
<1>2. /\ ledger' \in Seq(Tx) /\ Len(ledger') = Len(ledger) + 1
      /\ \A i \in 1..Len(ledger) : ledger'[i] = ledger[i]
      /\ ledger'[Len(ledger) + 1] = tx
  BY <1>1 DEF LedgerInv
<1>3. Len(ledger) \in Nat /\ Len(ledger) >= 1 /\ clock \in Nat
  BY ConstantTypes DEF LedgerInv, Time
<1>4. ASSUME NEW i \in 1..Len(ledger')
      PROVE  /\ ledger'[i].time <= clock'
             /\ ledger'[i].kind = "deploy" <=> i = 1
             /\ \A j \in i..Len(ledger') : ledger'[i].time <= ledger'[j].time
  <2>1. CASE i \in 1..Len(ledger)
    BY <1>1, <1>2, <1>3, <2>1 DEF LedgerInv
  <2>2. CASE i = Len(ledger) + 1
    BY <1>1, <1>2, <1>3, <2>2
  <2>. QED
    BY <2>1, <2>2, <1>2, <1>3
<1>5. Len(ledger') \in 1..MaxLedger
  BY <1>1, <1>2, <1>3, ConstantTypes
<1>. QED
  BY <1>1, <1>2, <1>3, <1>4, <1>5 DEF LedgerInv, Grows

LEMMA LedgerStep ==
    ASSUME LedgerInv, [Next]_vars
    PROVE  /\ LedgerInv' /\ Grows
           /\ Bridge \/ UNCHANGED chainVars
<1>0. clock \in Time /\ 0 \in Time /\ Time \in SUBSET Nat
  BY ConstantTypes DEF LedgerInv, Time
<1>1. ASSUME UNCHANGED chainVars PROVE LedgerInv' /\ Grows
  BY <1>1 DEF chainVars, LedgerInv, Grows
<1>2. ASSUME Bridge PROVE LedgerInv' /\ Grows
  <2>1. ASSUME NEW m \in Message, NEW e \in Time, NEW kind \in {"create", "close", "zero"},
               Append1(kind, m, e)
        PROVE  LedgerInv' /\ Grows
    <3>1. [time |-> clock, msg |-> m, kind |-> kind, event |-> e] \in Tx
      BY <1>0, <2>1 DEF Tx
    <3>. QED
      BY <3>1, <2>1, AppendKeeps
  <2>2. ASSUME NEW m \in Message, Send(m) \/ Close(m) \/ Recycle(m) \/ ZeroTouch(m)
        PROVE  LedgerInv' /\ Grows
    <3>1. \E e \in Time, kind \in {"create", "close", "zero"} : Append1(kind, m, e)
      BY <2>2, <1>0 DEF Send, Close, Recycle, ZeroTouch
    <3>. QED
      BY <3>1, <2>1
  <2>3. CASE FailedTx
    <3>1. [time |-> clock, msg |-> Nobody, kind |-> "failed", event |-> 0] \in Tx
      BY <1>0 DEF Tx
    <3>2. Append1("failed", Nobody, 0) /\ "failed" # "deploy"
      BY <2>3 DEF FailedTx
    <3>. QED
      BY <3>1, <3>2, AppendKeeps
  <2>4. CASE Tick
    <3>1. clock' \in Time /\ clock' = clock + 1 /\ ledger' = ledger
      BY <2>4, <1>0, ConstantTypes DEF Tick, Time
    <3>2. \A i \in 1..Len(ledger) : ledger[i].time <= clock /\ ledger[i].time \in Nat
      <4>1. \A i \in 1..Len(ledger) : ledger[i] \in Tx
        BY DEF LedgerInv
      <4>. QED
        BY <4>1, <1>0 DEF LedgerInv, Tx
    <3>3. clock \in Nat /\ Len(ledger) \in Nat
      BY <1>0 DEF LedgerInv
    <3>4. \A i \in 1..Len(ledger) : ledger[i].time <= clock + 1
      BY <3>2, <3>3
    <3>5. LedgerInv'
      <4>1. /\ ledger' \in Seq(Tx) /\ Len(ledger') \in 1..MaxLedger
            /\ clock' \in Time
        BY <3>1 DEF LedgerInv
      <4>2. \A i \in 1..Len(ledger') :
               /\ ledger'[i].time <= clock'
               /\ ledger'[i].kind = "deploy" <=> i = 1
               /\ \A j \in i..Len(ledger') : ledger'[i].time <= ledger'[j].time
        BY <3>1, <3>4 DEF LedgerInv
      <4>. QED
        BY <4>1, <4>2 DEF LedgerInv
    <3>. QED
      BY <3>1, <3>3, <3>5 DEF Grows
  <2>. QED
    BY <1>2, <2>2, <2>3, <2>4 DEF Bridge
<1>3. Bridge \/ UNCHANGED chainVars
  BY DEF Next, Collector, ReadOfficial, ReadConfig, ReadOutgoing, ReadIncoming, ReadAccounts,
         Accept, Refuse, BeginLifecycle, BeginInterval, Begin, BadInterval, Page, ReadArchive,
         FetchBatch, BodyMissing, CallFails, Raise, Evaluate, vars, chainVars
<1>. QED
  BY <1>1, <1>2, <1>3

-----------------------------------------------------------------------------
(* The readings.                                                           *)

\* Accounts of a side that are read add to those there are.
LEMMA WithType ==
    ASSUME AccountsInv, LedgerInv, NEW side \in {Outgoing, Incoming},
           universe' = With(Accounts(side))
    PROVE  /\ \E live \in SUBSET Message : universe' \in [live -> Time]
           /\ DOMAIN universe' = DOMAIN universe \cup DOMAIN Accounts(side)
<1>. DEFINE more == Accounts(side)
            both == DOMAIN universe \cup DOMAIN more
<1>1. DOMAIN more \subseteq Message /\ \A m \in DOMAIN more : more[m] \in Time
  BY AccountsType DEF Message
<1>2. DOMAIN universe \subseteq Message /\ \A m \in DOMAIN universe : universe[m] \in Time
  BY DEF AccountsInv
<1>. HIDE DEF more
<1>3. universe' = [m \in both |-> IF m \in DOMAIN more THEN more[m] ELSE universe[m]]
  BY DEF With, more
<1>4. universe' \in [both -> Time] /\ both \in SUBSET Message
  BY <1>1, <1>2, <1>3
<1>. QED
  BY <1>3, <1>4 DEF more

\* Only readings of accounts and failures change what is known of accounts.
LEMMA AccountsChange ==
    ASSUME [Next]_vars
    PROVE  \/ UNCHANGED <<universe, readAt>>
           \/ Raise \/ ReadOutgoing \/ ReadIncoming
  BY DEF Next, Collector, Bridge, ReadOfficial, ReadConfig, Accept, Refuse, BeginLifecycle,
         BeginInterval, Begin, BadInterval, Page, ReadArchive, FetchBatch, BodyMissing,
         CallFails, Evaluate, vars, readVars

LEMMA AccountsStep ==
    ASSUME Inv, [Next]_vars
    PROVE  AccountsInv'
<1>. USE DEF Inv
<1>0. /\ LedgerInv' /\ Len(ledger) \in Nat /\ Len(ledger') \in Nat
      /\ Len(ledger') >= Len(ledger)
      /\ \A i \in 1..Len(ledger) : ledger'[i] = ledger[i]
  BY LedgerStep DEF LedgerInv, Grows
<1>2. CASE UNCHANGED <<universe, readAt>>
  <2>1. /\ readAt.out \in 0..Len(ledger) /\ readAt.in \in 0..Len(ledger)
        /\ readAt' \in [out : 0..Len(ledger'), in : 0..Len(ledger')]
    BY <1>0, <1>2 DEF AccountsInv
  <2>2. \A m \in DOMAIN universe : /\ Made(m, readAt.out)' = Made(m, readAt.out)
                                   /\ Made(m, readAt.in)' = Made(m, readAt.in)
    BY <2>1, <1>0, <1>2, PrefixKept
  <2>. QED
    BY <2>1, <2>2, <1>2 DEF AccountsInv
<1>3. CASE Raise
  <2>1. universe' \in [{} -> Time] /\ DOMAIN universe' = {}
    BY <1>3 DEF Raise
  <2>2. readAt' \in [out : 0..Len(ledger'), in : 0..Len(ledger')]
    BY <1>0, <1>3 DEF Raise, Nothing
  <2>. QED
    BY <2>1, <2>2 DEF AccountsInv
<1>5. CASE ReadOutgoing
  <2>1. /\ ledger' = ledger /\ universe' = With(Accounts(Outgoing))
        /\ readAt' = [readAt EXCEPT !.out = Len(ledger)]
    BY <1>5 DEF ReadOutgoing, ReadAccounts, chainVars
  <2>2. /\ \E live \in SUBSET Message : universe' \in [live -> Time]
        /\ DOMAIN universe' = DOMAIN universe \cup DOMAIN Accounts(Outgoing)
    BY <2>1, WithType
  <2>3. /\ readAt' \in [out : 0..Len(ledger'), in : 0..Len(ledger')]
        /\ readAt'.out = Len(ledger) /\ readAt'.in = readAt.in
        /\ readAt.out \in 0..Len(ledger)
    BY <2>1, <1>0 DEF AccountsInv
  <2>4. ASSUME NEW m \in DOMAIN universe' \cap Outgoing PROVE Made(m, Len(ledger)) # {}
    <3>1. CASE m \in DOMAIN Accounts(Outgoing)
      BY <3>1, AccountsType
    <3>2. CASE m \in DOMAIN universe
      <4>1. Made(m, readAt.out) # {}
        BY <3>2, <2>4 DEF AccountsInv
      <4>. QED
        BY <4>1, <2>3, <1>0, MadeGrows
    <3>. QED
      BY <3>1, <3>2, <2>2
  <2>5. ASSUME NEW m \in DOMAIN universe' \cap Incoming PROVE Made(m, readAt.in) # {}
    <3>1. m \notin DOMAIN Accounts(Outgoing)
      BY <2>5, AccountsType, WarpAssumption
    <3>. QED
      BY <3>1, <2>2, <2>5 DEF AccountsInv
  <2>6. /\ \A m \in DOMAIN universe' \cap Outgoing : Made(m, readAt.out)' # {}
        /\ \A m \in DOMAIN universe' \cap Incoming : Made(m, readAt.in)' # {}
    BY <2>1, <2>3, <2>4, <2>5 DEF Made, Does
  <2>. QED
    BY <2>2, <2>3, <2>6 DEF AccountsInv
<1>6. CASE ReadIncoming
  <2>1. /\ ledger' = ledger /\ universe' = With(Accounts(Incoming))
        /\ readAt' = [readAt EXCEPT !.in = Len(ledger)]
    BY <1>6 DEF ReadIncoming, ReadAccounts, chainVars
  <2>2. /\ \E live \in SUBSET Message : universe' \in [live -> Time]
        /\ DOMAIN universe' = DOMAIN universe \cup DOMAIN Accounts(Incoming)
    BY <2>1, WithType
  <2>3. /\ readAt' \in [out : 0..Len(ledger'), in : 0..Len(ledger')]
        /\ readAt'.in = Len(ledger) /\ readAt'.out = readAt.out
        /\ readAt.in \in 0..Len(ledger)
    BY <2>1, <1>0 DEF AccountsInv
  <2>4. ASSUME NEW m \in DOMAIN universe' \cap Incoming PROVE Made(m, Len(ledger)) # {}
    <3>1. CASE m \in DOMAIN Accounts(Incoming)
      BY <3>1, AccountsType
    <3>2. CASE m \in DOMAIN universe
      <4>1. Made(m, readAt.in) # {}
        BY <3>2, <2>4 DEF AccountsInv
      <4>. QED
        BY <4>1, <2>3, <1>0, MadeGrows
    <3>. QED
      BY <3>1, <3>2, <2>2
  <2>5. ASSUME NEW m \in DOMAIN universe' \cap Outgoing PROVE Made(m, readAt.out) # {}
    <3>1. m \notin DOMAIN Accounts(Incoming)
      BY <2>5, AccountsType, WarpAssumption
    <3>. QED
      BY <3>1, <2>2, <2>5 DEF AccountsInv
  <2>6. /\ \A m \in DOMAIN universe' \cap Outgoing : Made(m, readAt.out)' # {}
        /\ \A m \in DOMAIN universe' \cap Incoming : Made(m, readAt.in)' # {}
    BY <2>1, <2>3, <2>4, <2>5 DEF Made, Does
  <2>. QED
    BY <2>2, <2>3, <2>6 DEF AccountsInv
<1>. QED
  BY <1>2, <1>3, <1>5, <1>6, AccountsChange

\* An empty ledger counts nothing.
LEMMA CountersOfNone == Counters(0) = Nothing
<1>1. \A m : Made(m, 0) = {}
  BY DEF Made
<1>2. \A side : {m \in side : Made(m, 0) # {}} = {}
  BY <1>1
<1>3. \A side : Counter(side, 0) = 0
  BY <1>2, FS_EmptySet DEF Counter
<1>. QED
  BY <1>3 DEF Counters, Nothing

\* Which readings there have been.
LEMMA CountersChange ==
    ASSUME [Next]_vars
    PROVE  \/ UNCHANGED <<counters, readAt>>
              /\ (stage' = "reading" => stage = "reading")
              /\ (stage' \notin {"reading", "failed"} => stage \notin {"reading", "failed"})
           \/ Raise \/ ReadOfficial \/ ReadConfig \/ ReadOutgoing \/ ReadIncoming
<1>1. CASE Bridge \/ Accept \/ BeginLifecycle \/ BeginInterval \/ Page \/ ReadArchive
           \/ FetchBatch \/ Evaluate \/ UNCHANGED vars
  BY <1>1 DEF Bridge, Accept, BeginLifecycle, BeginInterval, Begin, Page, ReadArchive,
              FetchBatch, Evaluate, vars, readVars, AfterPaging
<1>2. CASE Refuse \/ BadInterval \/ CallFails \/ BodyMissing
  <2>1. Raise \/ UNCHANGED <<stage, counters, readAt>>
    BY <1>2 DEF Refuse, BadInterval, CallFails, BodyMissing, readVars
  <2>. QED
    BY <2>1
<1>. QED
  BY <1>1, <1>2 DEF Next, Collector

LEMMA CountersStep ==
    ASSUME Inv, [Next]_vars
    PROVE  CountersInv'
<1>. USE DEF Inv
<1>. DEFINE Whole(c, r) ==
              \E n \in 0..Len(ledger) : r.out <= n /\ r.in <= n /\ c = Counters(n)
<1>0. /\ LedgerInv' /\ Len(ledger) \in Nat /\ Len(ledger') \in Nat
      /\ Len(ledger') >= Len(ledger)
      /\ \A i \in 1..Len(ledger) : ledger'[i] = ledger[i]
      /\ readAt.out \in 0..Len(ledger) /\ readAt.in \in 0..Len(ledger)
  BY LedgerStep DEF LedgerInv, Grows, AccountsInv
<1>1. ASSUME Whole(counters.onchain, readAt)
      PROVE  \E n \in 0..Len(ledger') :
                /\ readAt.out <= n /\ readAt.in <= n
                /\ counters.onchain = Counters(n)'
  <2>1. PICK n \in 0..Len(ledger) :
           readAt.out <= n /\ readAt.in <= n /\ counters.onchain = Counters(n)
    BY <1>1
  <2>2. Counters(n)' = Counters(n) /\ n \in 0..Len(ledger')
    BY <1>0, PrefixKept
  <2>. QED
    BY <2>1, <2>2
<1>2. CASE /\ UNCHANGED <<counters, readAt>>
           /\ (stage' = "reading" => stage = "reading")
           /\ (stage' \notin {"reading", "failed"} => stage \notin {"reading", "failed"})
  <2>1. Covered(counters.read) => Whole(counters.onchain, readAt)
    BY DEF CountersInv
  <2>. QED
    BY <1>1, <1>2, <2>1 DEF CountersInv, Covered
<1>3. CASE Raise
  <2>1. /\ counters' = NoCounters /\ readAt' = Nothing /\ stage' = "failed"
        /\ ledger' = ledger
    BY <1>3 DEF Raise, chainVars
  <2>2. counters' \in [read : 0..Len(Reads), official : Count, onchain : Count]
    BY <2>1, ConstantTypes DEF NoCounters, Nothing, Count, Index
  <2>3. Counters(0)' = Nothing /\ counters'.onchain = Nothing
    BY <2>1, CountersOfNone DEF NoCounters, Counters, Counter, Made, Does
  <2>4. 0 \in 0..Len(ledger') /\ readAt'.out <= 0 /\ readAt'.in <= 0
    BY <2>1, <1>0 DEF Nothing
  <2>. QED
    BY <2>1, <2>2, <2>3, <2>4 DEF CountersInv
<1>. DEFINE r == counters.read
<1>4. ASSUME NEW name, Reading(name)
      PROVE  /\ stage = "reading" /\ r \in Nat /\ r < Len(Reads) /\ r + 1 \in 1..Len(Reads)
             /\ r + 1 \in 0..Len(Reads) /\ Reads[r + 1] = name
             /\ counters \in [read : 0..Len(Reads), official : Count, onchain : Count]
  BY <1>4, ConstantTypes DEF CountersInv, Reading
<1>5. ASSUME NEW name, Reading(name), stage' = AfterReading, counters'.read = r + 1,
             counters' \in [read : 0..Len(Reads), official : Count, onchain : Count]
      PROVE  /\ stage' = "reading" => counters'.read < Len(Reads)
             /\ stage' \notin {"reading", "failed"} => counters'.read = Len(Reads)
  BY <1>4, <1>5, ConstantTypes DEF AfterReading
<1>6. CASE ReadOfficial
  <2>1. PICK n \in 0..Len(ledger) :
           counters' = [counters EXCEPT !.read = @ + 1, !.official = Counters(n)]
    BY <1>6 DEF ReadOfficial
  <2>2. Reading("official") /\ stage' = AfterReading /\ ledger' = ledger /\ readAt' = readAt
    BY <1>6 DEF ReadOfficial, chainVars
  <2>3. Counters(n) \in Count
    BY CountersType
  <2>4. /\ counters' \in [read : 0..Len(Reads), official : Count, onchain : Count]
        /\ counters'.read = r + 1 /\ counters'.onchain = counters.onchain
    BY <2>1, <2>2, <2>3, <1>4
  <2>5. ASSUME Covered(r + 1) PROVE Covered(r)
    <3>1. ASSUME NEW k \in 1..r, Reads[k] \in {"outgoing", "incoming"}
          PROVE  \E j \in (k + 1)..r : Reads[j] = "onchain"
      <4>1. PICK j \in (k + 1)..(r + 1) : Reads[j] = "onchain"
        BY <2>2, <2>5, <3>1, <1>4 DEF Covered
      <4>2. j # r + 1
        BY <2>2, <4>1, <1>4
      <4>. QED
        BY <2>2, <4>1, <4>2, <1>4
    <3>. QED
      BY <3>1 DEF Covered
  <2>6. Covered(r + 1) => Whole(counters.onchain, readAt)
    BY <2>5 DEF CountersInv
  <2>7. Covered(counters'.read) =>
           \E k \in 0..Len(ledger') :
              readAt'.out <= k /\ readAt'.in <= k /\ counters'.onchain = Counters(k)'
    BY <2>2, <2>4, <2>6, <1>1
  <2>. QED
    BY <2>2, <2>4, <2>7, <1>5 DEF CountersInv, Covered
<1>7. CASE ReadConfig
  <2>1. /\ counters' = [counters EXCEPT !.read = @ + 1, !.onchain = Counters(Len(ledger))]
        /\ Reading("onchain") /\ stage' = AfterReading /\ ledger' = ledger
        /\ readAt' = readAt
    BY <1>7 DEF ReadConfig, chainVars
  <2>2. Counters(Len(ledger)) \in Count /\ Len(ledger) \in 0..Len(ledger)
    BY <1>0, CountersType
  <2>3. /\ counters' \in [read : 0..Len(Reads), official : Count, onchain : Count]
        /\ counters'.read = r + 1 /\ counters'.onchain = Counters(Len(ledger))
    BY <2>1, <2>2, <1>4
  <2>4. Whole(counters'.onchain, readAt)
    BY <2>2, <2>3, <1>0
  <2>5. \E k \in 0..Len(ledger') :
           readAt'.out <= k /\ readAt'.in <= k /\ counters'.onchain = Counters(k)'
    BY <2>1, <2>4 DEF Counters, Counter, Made, Does
  <2>. QED
    BY <2>1, <2>3, <2>5, <1>5 DEF CountersInv
<1>8. CASE ReadOutgoing \/ ReadIncoming
  <2>1. PICK name \in {"outgoing", "incoming"} : Reading(name)
    BY <1>8 DEF ReadOutgoing, ReadIncoming
  <2>2. counters' = [counters EXCEPT !.read = @ + 1] /\ stage' = AfterReading
    BY <1>8 DEF ReadOutgoing, ReadIncoming, ReadAccounts
  <2>3. /\ counters' \in [read : 0..Len(Reads), official : Count, onchain : Count]
        /\ counters'.read = r + 1
    BY <2>1, <2>2, <1>4
  <2>4. ~Covered(r + 1)
    <3>1. r + 1 \in 1..(r + 1) /\ Reads[r + 1] \in {"outgoing", "incoming"}
      BY <2>1, <1>4
    <3>2. (r + 1 + 1)..(r + 1) = {}
      BY <2>1, <1>4
    <3>. QED
      BY <3>1, <3>2 DEF Covered
  <2>. QED
    BY <2>1, <2>2, <2>3, <2>4, <1>5 DEF CountersInv, Covered
<1>. QED
  BY <1>2, <1>3, <1>6, <1>7, <1>8, CountersChange

\* Once the counters closed, neither they nor the accounts change.
LEMMA ClosureStep ==
    ASSUME Inv, [Next]_vars
    PROVE  ClosureInv'
<1>. USE DEF Inv, ClosureInv
<1>1. CASE Accept
  BY <1>1 DEF Accept, readVars, Closed
<1>2. CASE Raise
  BY <1>2 DEF Raise
<1>3. CASE ReadOfficial \/ ReadConfig \/ ReadOutgoing \/ ReadIncoming
  BY <1>3 DEF ReadOfficial, ReadConfig, ReadOutgoing, ReadIncoming, ReadAccounts, AfterReading
<1>4. ASSUME Bridge \/ BeginLifecycle \/ BeginInterval \/ Page \/ ReadArchive
             \/ FetchBatch \/ Evaluate \/ UNCHANGED vars
      PROVE  /\ UNCHANGED <<counters, universe>>
             /\ stage' \notin {"reading", "closing", "failed"}
                   => stage \notin {"reading", "closing", "failed"}
  BY <1>4 DEF Bridge, BeginLifecycle, BeginInterval, Begin, Page, ReadArchive, FetchBatch,
              Evaluate, vars, readVars
<1>5. CASE BodyMissing /\ ~Raise
  BY <1>5 DEF BodyMissing, readVars, Closed
<1>6. CASE Bridge \/ BeginLifecycle \/ BeginInterval \/ Page \/ ReadArchive
           \/ FetchBatch \/ Evaluate \/ UNCHANGED vars
  BY <1>4, <1>6 DEF Closed
<1>. QED
  BY <1>1, <1>2, <1>3, <1>5, <1>6 DEF Next, Collector, Refuse, BadInterval, CallFails

-----------------------------------------------------------------------------
(* The pages.                                                              *)

\* Where a page starts.
Top(h) == IF history.pages = 0 THEN h ELSE history.low - 1

LEMMA TopType ==
    ASSUME LedgerInv, HistoryInv, NEW h \in Heads
    PROVE  /\ h \in 0..Len(ledger) /\ Top(h) \in 0..h
           /\ history.pages # 0 => h = history.head /\ history.low = Top(h) + 1
           /\ history.untimed \subseteq 1..h
<1>1. Len(ledger) \in Nat
  BY DEF LedgerInv
<1>2. CASE history.pages = 0
  BY <1>1, <1>2 DEF Heads, Top, HistoryInv, NoHistory
<1>3. CASE history.pages # 0
  BY <1>1, <1>3 DEF Heads, Top, HistoryInv
<1>. QED
  BY <1>2, <1>3

\* What one page makes of the history.
LEMMA PageStep ==
    ASSUME LedgerInv, HistoryInv, StageInv, Page
    PROVE  /\ HistoryInv' /\ history'.pages # 0
           /\ ledger' = ledger /\ window' = window /\ trace' = trace /\ verdict' = verdict
           /\ stage' = "paging" =>
                 /\ ~history'.reached /\ ~history'.exhausted /\ ~history'.truncated
                 /\ history'.pages < MaxPages
<1>1. /\ stage = "paging" /\ ledger' = ledger /\ window' = window /\ trace' = trace
      /\ verdict' = verdict
      /\ stage' = IF history'.reached \/ history'.exhausted \/ history'.truncated
                    THEN AfterPaging ELSE "paging"
  BY DEF Page, chainVars
<1>2. /\ ~history.reached /\ ~history.exhausted /\ ~history.truncated
      /\ history.pages \in Nat /\ history.pages < MaxPages
      /\ DOMAIN history = {"head", "low", "pages", "untimed", "reached", "exhausted",
                           "truncated"}
  BY <1>1 DEF StageInv, HistoryInv, NoHistory
<1>3. PICK h \in Heads : \E rows \in PageRows(Top(h)) :
         IF rows = {}
           THEN history' = EmptyPage([history EXCEPT !.head = h], Top(h))
           ELSE \E missing \in Missing(rows) :
                   history' = FullPage([history EXCEPT !.head = h], rows, missing)
  BY DEF Page, Top
<1>4. /\ h \in 0..Len(ledger) /\ Top(h) \in 0..h /\ Len(ledger) \in Nat
      /\ history.pages # 0 => h = history.head /\ history.low = Top(h) + 1
      /\ history.untimed \subseteq 1..h
  BY <1>3, TopType DEF LedgerInv
<1>5. PICK rows \in PageRows(Top(h)) :
         IF rows = {}
           THEN history' = EmptyPage([history EXCEPT !.head = h], Top(h))
           ELSE \E missing \in Missing(rows) :
                   history' = FullPage([history EXCEPT !.head = h], rows, missing)
  BY <1>3
<1>. DEFINE top == Top(h)
<1>. HIDE DEF top
<1>6. CASE rows = {}
  <2>1. history' = EmptyPage([history EXCEPT !.head = h], top)
    BY <1>5, <1>6 DEF top
  <2>2. /\ DOMAIN history' = DOMAIN history
        /\ history'.head = h /\ history'.low = top + 1 /\ history'.pages = history.pages + 1
        /\ history'.untimed = history.untimed /\ history'.exhausted = TRUE
        /\ history'.reached = history.reached /\ history'.truncated = history.truncated
    BY <2>1, <1>2 DEF EmptyPage
  <2>3. history'.low \in 1..(history'.head + 1)
    BY <2>2, <1>4 DEF top
  <2>4. ASSUME history'.low <= history'.head
        PROVE  \/ history'.low \in history'.untimed
               \/ window'.start < ledger'[history'.low].time
    <3>1. CASE history.pages # 0
      BY <3>1, <2>2, <2>4, <1>1, <1>2, <1>4 DEF HistoryInv, top
    <3>2. CASE history.pages = 0
      BY <3>2, <2>2, <2>4, <1>4 DEF top, Top
    <3>. QED
      BY <3>1, <3>2
  <2>5. history'.pages \in 0..MaxPages /\ history'.pages # 0
    BY <2>2, <1>2, ConstantTypes
  <2>. QED
    BY <2>2, <2>3, <2>4, <2>5, <1>1, <1>2, <1>4 DEF HistoryInv, AfterPaging
<1>7. CASE rows # {}
  <2>1. PICK missing \in Missing(rows) :
           history' = FullPage([history EXCEPT !.head = h], rows, missing)
    BY <1>5, <1>7
  <2>2. PICK low \in 1..top :
           rows = low..top /\ low = CHOOSE i \in rows : \A j \in rows : i <= j
    BY <1>4, <1>5, <1>7, PageType DEF top
  <2>. DEFINE there == low \notin missing /\ ledger[low].time <= window.start
              short == Cardinality(rows) < PageSize
  <2>3. /\ DOMAIN history' = DOMAIN history
        /\ history'.head = h /\ history'.low = low /\ history'.pages = history.pages + 1
        /\ history'.untimed = history.untimed \cup missing
        /\ history'.reached = there
        /\ history'.exhausted = (~there /\ short)
        /\ history'.truncated = (~there /\ ~short /\ history.pages + 1 = MaxPages)
    BY <2>1, <2>2, <1>2 DEF FullPage
  <2>4. missing \subseteq 1..h /\ low \in 1..h
    BY <2>2, <1>4 DEF Missing, top
  <2>5. low \in 1..Len(ledger) /\ ledger[low].time \in Int /\ window.start \in Int
    <3>1. low \in 1..Len(ledger) /\ ledger[low] \in Tx
      BY <2>4, <1>4 DEF LedgerInv
    <3>2. Time \in SUBSET Int /\ window.start \in Time
      BY ConstantTypes DEF Time, StageInv
    <3>. QED
      BY <3>1, <3>2 DEF Tx
  <2>6. history'.pages \in 0..MaxPages /\ history'.pages # 0
    BY <2>3, <1>2, ConstantTypes
  <2>. HIDE DEF short, there
  <2>7. /\ there \in BOOLEAN /\ short \in BOOLEAN
        /\ {history'.reached, history'.exhausted, history'.truncated} \subseteq BOOLEAN
        /\ history'.reached <=> there
        /\ history'.exhausted <=> ~there /\ short
        /\ history'.truncated <=> ~there /\ ~short /\ history.pages + 1 = MaxPages
    <3>1. there \in BOOLEAN /\ short \in BOOLEAN
      BY DEF there, short
    <3>. QED
      BY <2>3, <3>1, Zenon
  <2>8. ASSUME stage' = "paging"
        PROVE  /\ ~history'.reached /\ ~history'.exhausted /\ ~history'.truncated
               /\ history'.pages < MaxPages
    <3>1. ~(history'.reached \/ history'.exhausted \/ history'.truncated)
      BY <2>8, <1>1 DEF AfterPaging
    <3>2. history.pages + 1 # MaxPages
      BY <3>1, <2>7
    <3>. QED
      BY <3>1, <3>2, <2>3, <1>2, ConstantTypes
  <2>9. /\ there => ledger'[history'.low].time <= window'.start
        /\ ~there => \/ history'.low \in history'.untimed
                     \/ window'.start < ledger'[history'.low].time
    BY <2>3, <2>5, <1>1 DEF there
  <2>10. history'.low \in 1..(history'.head + 1) /\ history'.low <= history'.head
    BY <2>3, <2>4, <1>4
  <2>11. history'.untimed \subseteq 1..history'.head /\ history'.head \in 0..Len(ledger')
    BY <2>3, <2>4, <1>1, <1>4
  <2>. QED
    BY <2>3, <2>6, <2>7, <2>8, <2>9, <2>10, <2>11, <1>1, <1>2 DEF HistoryInv
<1>. QED
  BY <1>6, <1>7

LEMMA HistoryStep ==
    ASSUME Inv, [Next]_vars
    PROVE  HistoryInv'
<1>. USE DEF Inv
<1>0. /\ Len(ledger) \in Nat /\ Len(ledger') \in Nat /\ Len(ledger') >= Len(ledger)
      /\ \A i \in 1..Len(ledger) : ledger'[i] = ledger[i]
  BY LedgerStep DEF LedgerInv, Grows
<1>1. CASE Page
  BY <1>1, PageStep
<1>2. CASE Raise
  BY <1>2, ConstantTypes DEF Raise, HistoryInv, NoHistory
<1>3. CASE UNCHANGED history /\ (history.pages = 0 \/ UNCHANGED window)
  <2>1. CASE history.pages = 0
    BY <2>1, <1>3 DEF HistoryInv
  <2>2. CASE history.pages # 0 /\ UNCHANGED window
    <3>1. history.head \in 0..Len(ledger') /\ history.low \in 1..(history.head + 1)
      BY <2>2, <1>0 DEF HistoryInv
    <3>2. history.low <= history.head => ledger'[history.low] = ledger[history.low]
      BY <2>2, <1>0 DEF HistoryInv
    <3>. QED
      BY <2>2, <3>1, <3>2, <1>3 DEF HistoryInv
  <2>. QED
    BY <2>1, <2>2, <1>3
<1>4. ASSUME Bridge \/ ReadOfficial \/ ReadConfig \/ ReadOutgoing \/ ReadIncoming \/ Accept
             \/ BeginLifecycle \/ BeginInterval \/ ReadArchive \/ FetchBatch \/ Evaluate
             \/ (BodyMissing /\ ~Raise) \/ UNCHANGED vars
      PROVE  UNCHANGED history /\ (history.pages = 0 \/ UNCHANGED window)
  BY <1>4 DEF Bridge, ReadOfficial, ReadConfig, ReadOutgoing, ReadIncoming, ReadAccounts,
              Accept, BeginLifecycle, BeginInterval, Begin, ReadArchive, FetchBatch,
              Evaluate, BodyMissing, vars, StageInv
<1>. QED
  BY <1>1, <1>2, <1>3, <1>4 DEF Next, Collector, Refuse, BadInterval, CallFails

\* Only the evaluation gives a verdict.
LEMMA VerdictStep ==
    ASSUME Inv, [Next]_vars
    PROVE  /\ Evaluate \/ UNCHANGED verdict
           /\ verdict' \in BOOLEAN
           /\ stage = "done" => UNCHANGED vars
<1>1. Evaluate \/ UNCHANGED verdict
  BY DEF Next, Collector, Bridge, ReadOfficial, ReadConfig, ReadOutgoing, ReadIncoming,
         ReadAccounts, Accept, Refuse, BeginLifecycle, BeginInterval, Begin, BadInterval, Page,
         ReadArchive, FetchBatch, BodyMissing, CallFails, Raise, vars
<1>2. ASSUME Evaluate PROVE verdict' \in BOOLEAN
  <2>1. verdict' = (/\ TraceComplete
                    /\ NoClosure /\ NoRecreation /\ NoZeroTouch
                    /\ ExpectedCreations)
    BY <1>2 DEF Evaluate
  <2>. QED
    BY <2>1, Zenon
<1>3. ASSUME UNCHANGED verdict PROVE verdict' \in BOOLEAN
  BY <1>3 DEF Inv, StageInv
<1>4. stage = "done" => UNCHANGED vars
  BY DEF Next, Collector, Bridge, ReadOfficial, ReadConfig, ReadOutgoing, ReadIncoming,
         ReadAccounts, Reading, Accept, Refuse, BeginLifecycle, BeginInterval, Begin,
         BadInterval, Page, ReadArchive, FetchBatch, BodyMissing, CallFails, Evaluate
<1>. QED
  BY <1>1, <1>2, <1>3, <1>4

LEMMA StageStep ==
    ASSUME Inv, [Next]_vars
    PROVE  StageInv'
<1>. USE DEF Inv
<1>0. verdict' \in BOOLEAN
  BY VerdictStep
<1>1. CASE Page
  BY <1>0, <1>1, PageStep DEF StageInv, Page, AfterPaging
<1>2. CASE Raise
  <2>1. stage # "done"
    BY <1>2, VerdictStep DEF Raise, vars
  <2>2. ~verdict'
    BY <2>1, <1>2 DEF Raise, StageInv
  <2>3. NoWindow \in [mode : {"lifecycle", "interval"}, start : Time, asOf : Time]
    BY ConstantTypes DEF NoWindow, Time
  <2>. QED
    BY <2>2, <2>3, <1>0, <1>2 DEF Raise, StageInv, NoHistory
<1>3. CASE BeginLifecycle \/ BeginInterval
  <2>1. PICK mode \in {"lifecycle", "interval"}, start \in Time : Begin(mode, start)
    <3>1. clock \in Nat /\ clock <= MaxTime /\ MaxTime \in Nat /\ Lookback \in Nat
      BY ConstantTypes DEF LedgerInv, Time
    <3>2. CASE BeginLifecycle
      <4>1. clock - Lookback \in Time
        BY <3>1, <3>2 DEF BeginLifecycle, Time
      <4>. QED
        BY <3>2, <4>1 DEF BeginLifecycle
    <3>3. CASE BeginInterval
      <4>1. PICK oldest \in 0..clock : Begin("interval", oldest)
        BY <3>3 DEF BeginInterval
      <4>2. oldest \in Time
        BY <3>1, <4>1 DEF Time
      <4>. QED
        BY <4>1, <4>2
    <3>. QED
      BY <3>2, <3>3, <1>3
  <2>2. [mode |-> mode, start |-> start, asOf |-> clock]
            \in [mode : {"lifecycle", "interval"}, start : Time, asOf : Time]
    BY DEF LedgerInv
  <2>3. history = NoHistory
    BY <2>1 DEF Begin, StageInv, HistoryInv
  <2>. QED
    BY <2>1, <2>2, <2>3, <1>0, ConstantTypes DEF Begin, StageInv, NoHistory
<1>4. CASE Evaluate
  BY <1>0, <1>4 DEF Evaluate, StageInv
<1>5. CASE ReadOfficial \/ ReadConfig \/ ReadOutgoing \/ ReadIncoming
  BY <1>0, <1>5 DEF ReadOfficial, ReadConfig, ReadOutgoing, ReadIncoming, ReadAccounts,
                    Reading, AfterReading, StageInv
<1>6. CASE Accept
  BY <1>0, <1>6 DEF Accept, StageInv
<1>7. CASE ReadArchive
  BY <1>0, <1>7 DEF ReadArchive, StageInv
<1>8. CASE FetchBatch
  BY <1>0, <1>8 DEF FetchBatch, StageInv
<1>9. CASE BodyMissing /\ ~Raise
  BY <1>0, <1>9 DEF BodyMissing, StageInv
<1>10. CASE Bridge
  BY <1>0, <1>10 DEF Bridge, StageInv
<1>11. CASE UNCHANGED vars
  BY <1>0, <1>11 DEF vars, StageInv
<1>. QED
  BY <1>1, <1>2, <1>3, <1>4, <1>5, <1>6, <1>7, <1>8, <1>9, <1>10, <1>11
     DEF Next, Collector, Refuse, BadInterval, CallFails

-----------------------------------------------------------------------------
(* The bodies.                                                             *)

\* What is fetched are transactions of the pages.
LEMMA FetchedType ==
    ASSUME LedgerInv, HistoryInv, history.pages # 0
    PROVE  /\ Fetched \subseteq history.low..history.head
           /\ Fetched \subseteq 1..Len(ledger)
           /\ IsFiniteSet(Fetched) /\ Cardinality(Fetched) \in 0..MaxLedger
<1>1. /\ history.head \in 0..Len(ledger) /\ history.low \in 1..(history.head + 1)
      /\ Len(ledger) \in Nat /\ Len(ledger) <= MaxLedger
  BY ConstantTypes DEF LedgerInv, HistoryInv
<1>2. Fetched \subseteq history.low..history.head
  BY DEF Fetched
<1>3. Fetched \in SUBSET (1..Len(ledger))
  BY <1>1, <1>2
<1>4. IsFiniteSet(1..Len(ledger)) /\ Cardinality(1..Len(ledger)) = Len(ledger)
  <2>1. PICK n \in Nat : n = Len(ledger)
    BY <1>1
  <2>2. IsFiniteSet(1..n) /\ Cardinality(1..n) = n
    BY FS_Interval
  <2>. QED
    BY <2>1, <2>2
<1>5. IsFiniteSet(Fetched) /\ Cardinality(Fetched) <= Len(ledger)
  BY <1>3, <1>4, FS_Subset
<1>6. Cardinality(Fetched) \in Nat
  BY <1>5, FS_CardinalityType
<1>7. Cardinality(Fetched) \in 0..MaxLedger
  BY <1>1, <1>5, <1>6, ConstantTypes
<1>. QED
  BY <1>2, <1>3, <1>5, <1>7

LEMMA TraceStep ==
    ASSUME Inv, [Next]_vars
    PROVE  TraceInv'
<1>. USE DEF Inv
<1>0. NoTrace \in [archive : {Never} \cup Time, batches : Index, tries : 0..Attempts]
  BY ConstantTypes DEF NoTrace, Index
<1>1. CASE UNCHANGED trace
  BY <1>1 DEF TraceInv
<1>2. CASE Raise
  BY <1>0, <1>2, ConstantTypes DEF Raise, TraceInv, NoTrace
<1>3. CASE ReadArchive
  <2>1. PICK t \in {Never} \cup Time : trace' = [trace EXCEPT !.archive = t]
    BY <1>3 DEF ReadArchive, StageInv
  <2>. QED
    BY <2>1 DEF TraceInv
<1>4. CASE FetchBatch
  <2>1. trace' = [trace EXCEPT !.batches = @ + 1, !.tries = 0]
    BY <1>4 DEF FetchBatch
  <2>2. Cardinality(Fetched) \in 0..MaxLedger /\ trace.batches \in Nat
    BY <1>4, FetchedType DEF FetchBatch, StageInv, TraceInv, Index
  <2>3. trace.batches * BatchSize < Cardinality(Fetched)
    <3>1. trace.batches * BatchSize \in Int
      BY <2>2, ConstantTypes
    <3>. QED
      BY <2>2, <3>1, <1>4 DEF FetchBatch, FetchedAll
  <2>4. trace.batches <= trace.batches * BatchSize
    <3>1. PICK b \in Nat : BatchSize = b + 1
      <4>1. BatchSize - 1 \in Nat /\ BatchSize = (BatchSize - 1) + 1
        BY ConstantTypes
      <4>. QED
        BY <4>1
    <3>2. trace.batches * (b + 1) = trace.batches * b + trace.batches
      BY <2>2
    <3>3. trace.batches * b \in Nat
      BY <2>2
    <3>. QED
      BY <2>2, <3>1, <3>2, <3>3
  <2>5. trace.batches + 1 \in Index
    <3>1. trace.batches * BatchSize \in Int
      BY <2>2, ConstantTypes
    <3>. QED
      BY <2>2, <2>3, <2>4, <3>1, ConstantTypes DEF Index
  <2>6. /\ trace'.tries = 0 /\ 0 < Attempts
        /\ trace' \in [archive : {Never} \cup Time, batches : Index, tries : 0..Attempts]
    <3>1. trace \in [archive : {Never} \cup Time, batches : Index, tries : 0..Attempts]
      BY DEF TraceInv
    <3>2. 0 \in 0..Attempts /\ 0 < Attempts
      BY ConstantTypes
    <3>. HIDE DEF Inv
    <3>3. /\ trace' = [trace EXCEPT !.batches = trace.batches + 1, !.tries = 0]
          /\ trace'.tries = 0
      BY <2>1, <3>1
    <3>. QED
      BY <2>5, <3>1, <3>2, <3>3
  <2>. QED
    BY <2>6 DEF TraceInv
<1>5. CASE BodyMissing /\ ~Raise
  <2>1. trace' = [trace EXCEPT !.tries = @ + 1] /\ trace.tries + 1 # Attempts
    BY <1>5 DEF BodyMissing
  <2>. QED
    BY <2>1, ConstantTypes DEF TraceInv
<1>6. ASSUME Bridge \/ ReadOfficial \/ ReadConfig \/ ReadOutgoing \/ ReadIncoming \/ Accept
             \/ BeginLifecycle \/ BeginInterval \/ Page \/ Evaluate \/ UNCHANGED vars
      PROVE  UNCHANGED trace
  BY <1>6 DEF Bridge, ReadOfficial, ReadConfig, ReadOutgoing, ReadIncoming, ReadAccounts,
              Accept, BeginLifecycle, BeginInterval, Begin, Page, Evaluate, vars
<1>. QED
  BY <1>1, <1>2, <1>3, <1>4, <1>5, <1>6 DEF Next, Collector, Refuse, BadInterval, CallFails

-----------------------------------------------------------------------------
(* The invariant is inductive.                                             *)

LEMMA InitInv == Init => Inv
<1>. SUFFICES ASSUME Init PROVE Inv
  OBVIOUS
<1>1. PICK t \in Time :
         /\ ledger = <<[time |-> t, msg |-> Nobody, kind |-> "deploy", event |-> 0]>>
         /\ clock = t
  BY DEF Init
<1>2. t \in Nat /\ 0 \in Time /\ 0 \in Index /\ MaxLedger >= 1
  BY ConstantTypes DEF Time, Index
<1>3. /\ ledger \in Seq(Tx) /\ Len(ledger) = 1
      /\ ledger[1].time = t /\ ledger[1].kind = "deploy"
  <2>1. [time |-> t, msg |-> Nobody, kind |-> "deploy", event |-> 0] \in Tx
    BY DEF Tx
  <2>. QED
    BY <1>1, <2>1
<1>4. LedgerInv
  BY <1>1, <1>2, <1>3, ConstantTypes DEF LedgerInv
<1>5. /\ stage = "reading" /\ counters = NoCounters /\ universe = [m \in {} |-> 0]
      /\ readAt = Nothing /\ window = NoWindow /\ history = NoHistory /\ trace = NoTrace
      /\ verdict = FALSE
  BY DEF Init
<1>6. AccountsInv
  <2>1. universe \in [{} -> Time] /\ {} \in SUBSET Message
    BY <1>5
  <2>2. DOMAIN universe = {}
    BY <1>5
  <2>3. readAt \in [out : 0..Len(ledger), in : 0..Len(ledger)]
    BY <1>3, <1>5 DEF Nothing
  <2>4. \E live \in SUBSET Message : universe \in [live -> Time]
    BY <2>1, Zenon
  <2>. QED
    BY <2>2, <2>3, <2>4, Zenon DEF AccountsInv
<1>7. CountersInv
  <2>1. counters \in [read : 0..Len(Reads), official : Count, onchain : Count]
    BY <1>2, <1>5, ConstantTypes DEF NoCounters, Nothing, Count
  <2>2. /\ 0 \in 0..Len(ledger) /\ readAt.out <= 0 /\ readAt.in <= 0
        /\ counters.onchain = Counters(0)
    BY <1>3, <1>5, CountersOfNone DEF NoCounters, Nothing
  <2>. QED
    BY <2>1, <2>2, <1>5, ConstantTypes DEF CountersInv, NoCounters
<1>8. HistoryInv
  BY <1>5, ConstantTypes DEF HistoryInv, NoHistory
<1>9. StageInv /\ ClosureInv
  BY <1>2, <1>5 DEF StageInv, ClosureInv, NoHistory, NoWindow
<1>10. TraceInv
  BY <1>2, <1>5, ConstantTypes DEF TraceInv, NoTrace
<1>. QED
  BY <1>4, <1>6, <1>7, <1>8, <1>9, <1>10 DEF Inv

LEMMA StepInv == Inv /\ [Next]_vars => Inv'
  BY LedgerStep, AccountsStep, CountersStep, ClosureStep, HistoryStep, StageStep, TraceStep
     DEF Inv

LEMMA Invariance == Spec => []Inv
  BY InitInv, StepInv, PTL DEF Spec

LEMMA InvType == Inv => TypeOK
<1>. SUFFICES ASSUME Inv PROVE TypeOK
  OBVIOUS
<1>1. Len(ledger) \in Nat /\ Len(ledger) <= MaxLedger
  BY ConstantTypes DEF Inv, LedgerInv
<1>2. readAt \in Count
  BY <1>1, ConstantTypes DEF Inv, AccountsInv, Count, Index
<1>3. /\ DOMAIN history = DOMAIN NoHistory
      /\ history.head \in Index /\ history.low \in 0..MaxLedger + 1
      /\ history.untimed \subseteq Index
  BY <1>1, ConstantTypes DEF Inv, HistoryInv, NoHistory, Index
<1>. QED
  BY <1>1, <1>2, <1>3 DEF Inv, LedgerInv, AccountsInv, CountersInv, HistoryInv, StageInv,
     TraceInv, TypeOK

-----------------------------------------------------------------------------
(* What a complete trace shows.                                            *)

\* The bodies fetched are those of the interval: all of the window's that did
\* not fail, and none from outside of it.
LEMMA TraceShows ==
    ASSUME Inv, history.pages # 0, TraceComplete
    PROVE  /\ \A i \in Window : ledger[i].kind # "failed" => i \in Fetched
           /\ \A i \in Fetched : /\ i \in 1..history.head
                                 /\ window.start <= ledger[i].time
                                 /\ ledger[i].time <= window.asOf
<1>1. /\ history.head \in 0..Len(ledger) /\ history.low \in 1..(history.head + 1)
      /\ Len(ledger) \in Nat /\ history.untimed = {}
  BY DEF Inv, HistoryInv, LedgerInv, TraceComplete
<1>2. \A i \in 1..history.head : ledger[i].time \in Int
  <2>1. \A i \in 1..history.head : ledger[i] \in Tx
    BY <1>1 DEF Inv, LedgerInv
  <2>. QED
    BY <2>1, ConstantTypes DEF Tx, Time
<1>3. window.start \in Int /\ window.asOf \in Int
  BY ConstantTypes DEF Inv, StageInv, Time
<1>4. ASSUME NEW i \in Window PROVE history.low <= i
  <2>1. i \in 1..history.head /\ window.start < ledger[i].time
    BY DEF Window
  <2>2. CASE history.reached
    <3>1. ASSUME i < history.low PROVE FALSE
      <4>1. history.low \in 1..history.head /\ ledger[history.low].time <= window.start
        BY <2>2, <1>1 DEF Inv, HistoryInv
      <4>2. ledger[i].time <= ledger[history.low].time
        BY <4>1, <3>1, <2>1, <1>1 DEF Inv, LedgerInv
      <4>. QED
        BY <4>1, <4>2, <2>1, <1>2, <1>3
    <3>. QED
      BY <3>1, <2>1, <1>1
  <2>3. CASE YoungProgram
    <3>1. PICK k \in Fetched : ledger[k].kind = "deploy"
      BY <2>3 DEF YoungProgram
    <3>2. k \in history.low..history.head /\ k \in 1..Len(ledger)
      BY <3>1, FetchedType DEF Inv
    <3>3. k = 1
      BY <3>1, <3>2 DEF Inv, LedgerInv
    <3>. QED
      BY <3>2, <3>3, <2>1, <1>1
  <2>. QED
    BY <2>2, <2>3 DEF TraceComplete, BoundaryVerified
<1>5. ASSUME NEW i \in Window, ledger[i].kind # "failed" PROVE i \in Fetched
  <2>1. /\ i \in 1..history.head /\ window.start < ledger[i].time
        /\ ledger[i].time <= window.asOf
    BY DEF Window
  <2>2. InScope(i)
    BY <2>1, <1>1, <1>2, <1>3 DEF InScope
  <2>3. i \in history.low..history.head
    BY <1>4, <2>1, <1>1
  <2>. QED
    BY <1>5, <2>2, <2>3 DEF Fetched
<1>6. ASSUME NEW i \in Fetched
      PROVE  /\ i \in 1..history.head
             /\ window.start <= ledger[i].time
             /\ ledger[i].time <= window.asOf
  <2>1. i \in history.low..history.head /\ InScope(i)
    BY DEF Fetched
  <2>2. i \in 1..history.head
    BY <2>1, <1>1
  <2>3. CASE window.start <= ledger[i].time
    BY <2>1, <2>2, <2>3 DEF InScope
  <2>4. CASE history.exhausted /\ ~history.reached
    <3>1. history.low <= history.head /\ history.low \in 1..history.head
      BY <2>1, <1>1
    <3>2. window.start < ledger[history.low].time
      BY <2>4, <3>1, <1>1 DEF Inv, HistoryInv
    <3>3. ledger[history.low].time <= ledger[i].time
      <4>1. history.low \in 1..Len(ledger) /\ i \in history.low..Len(ledger)
        BY <2>1, <2>2, <3>1, <1>1
      <4>. QED
        BY <4>1 DEF Inv, LedgerInv
    <3>4. window.start <= ledger[i].time
      BY <3>1, <3>2, <3>3, <2>2, <1>2, <1>3
    <3>. QED
      BY <2>1, <2>2, <3>4 DEF InScope
  <2>. QED
    BY <2>1, <2>3, <2>4 DEF InScope
<1>. QED
  BY <1>5, <1>6

\* Creations seen are finitely many.
LEMMA SeenType ==
    ASSUME Inv, history.pages # 0, NEW m, NEW kind
    PROVE  IsFiniteSet(Seen(m, kind)) /\ Seen(m, kind) \subseteq Fetched
<1>1. Seen(m, kind) \in SUBSET Fetched
  BY DEF Seen
<1>. QED
  BY <1>1, FetchedType, FS_Subset DEF Inv

\* When the verdict is positive ...
LEMMA Verdict ==
    ASSUME Inv, Evaluate, verdict'
    PROVE  /\ history.pages # 0 /\ Closed /\ counters.read = Len(Reads)
           /\ TraceComplete /\ NoClosure /\ NoRecreation /\ NoZeroTouch /\ ExpectedCreations
           /\ UNCHANGED <<ledger, universe, readAt, window, history>>
<1>1. verdict' = (/\ TraceComplete
                  /\ NoClosure /\ NoRecreation /\ NoZeroTouch
                  /\ ExpectedCreations)
  BY DEF Evaluate
<1>2. TraceComplete /\ NoClosure /\ NoRecreation /\ NoZeroTouch /\ ExpectedCreations
  BY <1>1, Zenon
<1>. QED
  BY <1>2 DEF Evaluate, Inv, StageInv, ClosureInv, CountersInv, chainVars, readVars

-----------------------------------------------------------------------------
(* The theorems.                                                           *)

\* Every variable keeps to its type: no page, batch or attempt goes past its bound.
THEOREM TypeCorrect == Spec => []TypeOK
  BY Invariance, InvType, PTL

\* When the Config account is read after the message accounts, positive evidence
\* is about every message there had been when its side was read, whatever was
\* closed, recycled or still unknown to the web API
\* (evaluate_warp_message_counter_closure).
THEOREM UniverseCorrect ==
    ASSUME Covered(Len(Reads))
    PROVE  Spec => []UniverseWhole
<1>1. Init => UniverseWhole
  BY DEF Init, UniverseWhole
<1>2. Inv /\ UniverseWhole /\ [Next]_vars => UniverseWhole'
  <2>. SUFFICES ASSUME Inv, UniverseWhole, [Next]_vars, verdict' PROVE UniverseWhole'
    BY DEF UniverseWhole
  <2>1. CASE UNCHANGED vars
    BY <2>1 DEF UniverseWhole, Made, Does, vars
  <2>2. CASE Evaluate
    <3>1. /\ Closed /\ counters.read = Len(Reads)
          /\ UNCHANGED <<ledger, universe, readAt>>
      BY <2>2, Verdict
    <3>2. PICK n \in 0..Len(ledger) :
             readAt.out <= n /\ readAt.in <= n /\ counters.onchain = Counters(n)
      BY <3>1 DEF Inv, CountersInv
    <3>3. n \in Nat /\ readAt.out \in Nat /\ readAt.in \in Nat
      BY DEF Inv, LedgerInv, AccountsInv
    <3>4. ASSUME NEW side, NEW at \in Nat, at <= n,
                 \A m \in DOMAIN universe \cap side : Made(m, at) # {},
                 Counter(side, n) = Cardinality(DOMAIN universe \cap side),
                 NEW m \in side, Made(m, at) # {}
          PROVE  m \in DOMAIN universe
      <4>. DEFINE S == {x \in side : Made(x, n) # {}}
                  U == DOMAIN universe \cap side
      <4>1. IsFiniteSet(S)
        BY <3>3, MadeFinite
      <4>2. \A x : Made(x, at) # {} => Made(x, n) # {}
        BY <3>3, <3>4, MadeGrows
      <4>3. U \in SUBSET S /\ m \in S
        BY <3>4, <4>2
      <4>4. Cardinality(S) = Cardinality(U)
        BY <3>4 DEF Counter
      <4>. HIDE DEF S, U
      <4>5. S = U
        BY <4>1, <4>3, <4>4, FS_Subset
      <4>. QED
        BY <4>3, <4>5 DEF U
    <3>5. /\ Counter(Outgoing, n) = Cardinality(DOMAIN universe \cap Outgoing)
          /\ Counter(Incoming, n) = Cardinality(DOMAIN universe \cap Incoming)
      BY <3>1, <3>2 DEF Closed, Counters
    <3>6. /\ \A m \in Outgoing : Made(m, readAt.out) # {} => m \in DOMAIN universe
          /\ \A m \in Incoming : Made(m, readAt.in) # {} => m \in DOMAIN universe
      BY <3>2, <3>3, <3>4, <3>5 DEF Inv, AccountsInv
    <3>. QED
      BY <3>1, <3>6 DEF UniverseWhole, Made, Does
  <2>3. CASE UNCHANGED verdict
    BY <2>1, <2>3, VerdictStep DEF Inv, StageInv
  <2>. QED
    BY <2>2, <2>3, VerdictStep
<1>. QED
  BY <1>1, <1>2, Invariance, PTL DEF Spec

\* No message that positive evidence is about was closed, flickered or was made
\* twice in the window, whatever the node dropped, left without a time or cut into
\* pages (evaluate_warp_message_lifecycle_retention).
THEOREM RetainedCorrect == Spec => []UniverseRetained
<1>1. Init => UniverseRetained
  BY DEF Init, UniverseRetained
<1>2. Inv /\ UniverseRetained /\ [Next]_vars => UniverseRetained'
  <2>. SUFFICES ASSUME Inv, UniverseRetained, [Next]_vars, verdict' PROVE UniverseRetained'
    BY DEF UniverseRetained
  <2>1. CASE UNCHANGED vars
    BY <2>1 DEF UniverseRetained, Window, Does, vars
  <2>2. CASE Evaluate
    <3>1. /\ history.pages # 0 /\ TraceComplete /\ NoClosure /\ NoRecreation /\ NoZeroTouch
          /\ UNCHANGED <<ledger, universe, window, history>>
      BY <2>2, Verdict
    <3>2. \A i \in Window : ledger[i].kind # "failed" => i \in Fetched
      BY <3>1, TraceShows
    <3>3. ASSUME NEW m \in DOMAIN universe, NEW i \in Window
          PROVE  ~Does(m, "close", i) /\ ~Does(m, "zero", i)
      BY <3>1, <3>2 DEF NoClosure, NoZeroTouch, Seen, Does
    <3>4. ASSUME NEW m \in DOMAIN universe, NEW i \in Window, NEW j \in Window,
                 Does(m, "create", i), Does(m, "create", j)
          PROVE  i = j
      <4>. DEFINE S == Seen(m, "create")
      <4>1. i \in S /\ j \in S
        BY <3>2, <3>4 DEF Seen, Does
      <4>2. IsFiniteSet(S) /\ Cardinality(S) <= 1
        BY <3>1, SeenType DEF NoRecreation
      <4>. HIDE DEF S
      <4>3. Cardinality(S) \in Nat /\ Cardinality(S) # 0
        BY <4>1, <4>2, FS_CardinalityType, FS_EmptySet
      <4>4. Cardinality(S) = 1
        BY <4>2, <4>3
      <4>5. \E x : S = {x}
        BY <4>2, <4>4, FS_Singleton
      <4>. QED
        BY <4>1, <4>5
    <3>. QED
      BY <3>1, <3>3, <3>4 DEF UniverseRetained, Window, Does
  <2>3. CASE UNCHANGED verdict
    BY <2>1, <2>3, VerdictStep DEF Inv, StageInv
  <2>. QED
    BY <2>2, <2>3, VerdictStep
<1>. QED
  BY <1>1, <1>2, Invariance, PTL DEF Spec

\* An outgoing message whose stamp lies in the interval was made in it, and one
\* whose stamp lies before was not made in the window.
THEOREM StampsCorrect == Spec => []StampsHonest
<1>1. Init => StampsHonest
  BY DEF Init, StampsHonest
<1>2. Inv /\ StampsHonest /\ [Next]_vars => StampsHonest'
  <2>. SUFFICES ASSUME Inv, StampsHonest, [Next]_vars, verdict' PROVE StampsHonest'
    BY DEF StampsHonest
  <2>1. CASE UNCHANGED vars
    BY <2>1 DEF StampsHonest, Window, Does, vars
  <2>2. CASE Evaluate
    <3>1. /\ history.pages # 0 /\ TraceComplete /\ NoRecreation /\ ExpectedCreations
          /\ UNCHANGED <<ledger, universe, window, history>>
      BY <2>2, Verdict
    <3>2. /\ \A i \in Window : ledger[i].kind # "failed" => i \in Fetched
          /\ \A i \in Fetched : /\ i \in 1..history.head
                                /\ window.start <= ledger[i].time
                                /\ ledger[i].time <= window.asOf
      BY <3>1, TraceShows
    <3>3. ASSUME NEW m \in DOMAIN universe \cap Outgoing,
                 window.start <= universe[m], universe[m] <= window.asOf
          PROVE  \E i \in 1..history.head : /\ Does(m, "create", i)
                                            /\ window.start <= ledger[i].time
                                            /\ ledger[i].time <= window.asOf
      <4>1. Cardinality(Seen(m, "create")) = 1
        BY <3>1, <3>3 DEF ExpectedCreations
      <4>2. Seen(m, "create") # {}
        BY <4>1, FS_EmptySet
      <4>. QED
        BY <4>2, <3>2 DEF Seen
    <3>4. ASSUME NEW m \in DOMAIN universe \cap Outgoing, universe[m] < window.start,
                 NEW i \in Window
          PROVE  ~Does(m, "create", i)
      BY <3>1, <3>2, <3>4 DEF NoRecreation, Seen, Does
    <3>. QED
      BY <3>1, <3>3, <3>4 DEF StampsHonest, Window, Does
  <2>3. CASE UNCHANGED verdict
    BY <2>1, <2>3, VerdictStep DEF Inv, StageInv
  <2>. QED
    BY <2>2, <2>3, VerdictStep
<1>. QED
  BY <1>1, <1>2, Invariance, PTL DEF Spec
=============================================================================
