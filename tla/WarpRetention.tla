---------------------------- MODULE WarpRetention ----------------------------
(***************************************************************************)
(* The retention evidence of the Warp bridge, on one of its two chains     *)
(* (providers/x1/warp_message_retention_coverage.py,                       *)
(* warp_message_lifecycle_retention.py, warp_message_interval_retention.py)*)
(* A collector reads the bridge's message counters twice and its message   *)
(* accounts once, refuses unless they agree, then pages backwards through  *)
(* the finalized transactions of the bridge program to show that none of   *)
(* these accounts was closed or made anew in a window that ends "now".  A  *)
(* positive verdict lets a later calculation count zero where it sees no   *)
(* message.  Meanwhile the bridge works on.                                *)
(*                                                                         *)
(* The ledger is the list of the program's transactions, each doing one    *)
(* thing to one message account; what the collector reads of the chain is  *)
(* a function of the prefix of it that the answering node had seen.        *)
(***************************************************************************)
EXTENDS Integers, Sequences, FiniteSets

CONSTANTS
    Outgoing,     \* OutgoingMsg accounts (PDAs) that may ever exist
    Incoming,     \* IncomingMsg accounts
    Nobody,       \* no message
    Reads,        \* the order the caller takes its three readings in
    Lookback,     \* lookback_seconds of the lifecycle evidence
    MaxInterval,  \* MAX_INTERVAL_SECONDS of the interval evidence
    PageSize, MaxPages,
    BatchSize,    \* transaction_batch_size
    Attempts,     \* MAX_ITEM_ATTEMPTS
    MaxLedger, MaxTime,  \* bounds of the model
    Lag           \* ... transactions the chain has not finalized yet, at most

ASSUME WarpAssumption ==
    /\ Outgoing \cap Incoming = {}
    /\ Nobody \notin Outgoing \cup Incoming
    /\ Reads \in Seq({"official", "outgoing", "incoming", "onchain"}) \ {<<>>}
    /\ {PageSize, MaxPages, BatchSize, Attempts, MaxLedger} \subseteq Nat \ {0}
    /\ {Lookback, MaxInterval, MaxTime, Lag} \subseteq Nat

VARIABLES
    ledger,     \* the program's transactions, oldest first
    clock,      \* chain time, which the collector's clock agrees with
    stage,      \* where the collector is
    counters,   \* readings taken, and the counters of the bridge's web API and
                \* of the Config account
    universe,   \* message accounts read, with their event time
    readAt,     \* ghost: per side, length of the ledger when they were read
    window,     \* which evidence, requested_start, as_of
    history,    \* the signature history: newest (head) and oldest (low) row,
                \* rows without a block time, how the paging ended
    trace,      \* first_available_block_time, batches of bodies fetched, and
                \* requests for the missing bodies of the next one
    verdict     \* missing_history_zero_authorized

chainVars == <<ledger, clock>>
readVars == <<counters, universe, readAt>>
vars == <<ledger, clock, stage, counters, universe, readAt, window,
          history, trace, verdict>>

Message == Outgoing \cup Incoming
Never == -1
Time == 0..MaxTime
Index == 0..MaxLedger

Tx == [time : Time, msg : Message, kind : {"create", "close", "zero"},
       event : Time]
      \cup [time : Time, msg : {Nobody}, kind : {"deploy", "failed"}, event : {0}]

Count == [out : Index, in : Index]
Nothing == [out |-> 0, in |-> 0]

\* What the collector knows before it starts.
NoCounters == [read |-> 0, official |-> Nothing, onchain |-> Nothing]
NoWindow == [mode |-> "lifecycle", start |-> 0, asOf |-> 0]
NoHistory == [head |-> 0, low |-> 0, pages |-> 0, untimed |-> {},
              reached |-> FALSE, exhausted |-> FALSE, truncated |-> FALSE]
NoTrace == [archive |-> Never, batches |-> 0, tries |-> 0]

TypeOK ==
    /\ ledger \in Seq(Tx) /\ Len(ledger) <= MaxLedger
    /\ clock \in Time
    /\ stage \in {"reading", "closing", "timing", "paging", "archive", "fetching",
                  "done", "failed"}
    /\ counters \in [read : 0..Len(Reads), official : Count, onchain : Count]
    /\ \E live \in SUBSET Message : universe \in [live -> Time]
    /\ readAt \in Count
    /\ window \in [mode : {"lifecycle", "interval"}, start : Time, asOf : Time]
    /\ DOMAIN history = DOMAIN NoHistory
    /\ history.head \in Index /\ history.low \in 0..MaxLedger + 1
    /\ history.pages \in 0..MaxPages
    /\ history.untimed \subseteq Index
    /\ {history.reached, history.exhausted, history.truncated} \subseteq BOOLEAN
    /\ trace \in [archive : {Never} \cup Time, batches : Index, tries : 0..Attempts]
    /\ verdict \in BOOLEAN

Init ==
    /\ \E t \in Time :
          ledger = <<[time |-> t, msg |-> Nobody, kind |-> "deploy", event |-> 0]>>
          /\ clock = t
    /\ stage = "reading"
    /\ counters = NoCounters /\ universe = [m \in {} |-> 0] /\ readAt = Nothing
    /\ window = NoWindow /\ history = NoHistory /\ trace = NoTrace
    /\ verdict = FALSE
-----------------------------------------------------------------------------
(* What the chain holds after its first n transactions.                    *)

Does(m, kind, i) == ledger[i].msg = m /\ ledger[i].kind = kind

Made(m, n) == {i \in 1..n : Does(m, "create", i)}

Alive(m, n) ==
    \E i \in Made(m, n) : \A j \in (i + 1)..n : ~Does(m, "close", j)

EventTime(m, n) ==
    ledger[CHOOSE i \in Made(m, n) : \A j \in Made(m, n) : j <= i].event

\* A side's sequence counter counts the messages it has had; a message made
\* anew keeps its number.
Counter(side, n) == Cardinality({m \in side : Made(m, n) # {}})
Counters(n) == [out |-> Counter(Outgoing, n), in |-> Counter(Incoming, n)]
-----------------------------------------------------------------------------
(* The bridge and its nodes: code of others.                               *)

Append1(kind, m, event) ==
    /\ Len(ledger) < MaxLedger
    /\ ledger' = Append(ledger, [time |-> clock, msg |-> m, kind |-> kind,
                                 event |-> event])
    /\ UNCHANGED clock

\* An outgoing message is stamped with the chain's time, an incoming one with
\* a time its transfer had on the other chain, which may be long ago.
Send(m) ==
    /\ Made(m, Len(ledger)) = {}
    /\ \E e \in IF m \in Outgoing THEN {clock} ELSE {0, clock} :
          Append1("create", m, e)

Close(m) ==
    /\ Alive(m, Len(ledger))
    /\ Append1("close", m, 0)

\* The address of a closed message is used again, with a new or an old stamp.
Recycle(m) ==
    /\ Made(m, Len(ledger)) # {}
    /\ ~Alive(m, Len(ledger))
    /\ \E e \in {0, clock} : Append1("create", m, e)

\* A transaction touches the address of a message that is not there before
\* nor after it.
ZeroTouch(m) ==
    /\ ~Alive(m, Len(ledger))
    /\ Append1("zero", m, 0)

FailedTx == Append1("failed", Nobody, 0)

Tick ==
    /\ clock < MaxTime
    /\ clock' = clock + 1
    /\ UNCHANGED ledger

\* A bound of the model: what is sent after the first page was asked for is on
\* no page.
Bridge ==
    /\ \/ stage \in {"reading", "closing", "timing"}
       \/ stage = "paging" /\ history.pages = 0
    /\ \/ \E m \in Message : Send(m) \/ Close(m) \/ Recycle(m) \/ ZeroTouch(m)
       \/ FailedTx \/ Tick
    /\ UNCHANGED <<stage, readVars, window, history, trace, verdict>>
-----------------------------------------------------------------------------
(* Readings and the closure of the counters.                               *)

\* An exception ends the capture, and with it all that was read.
Raise ==
    /\ stage' = "failed"
    /\ counters' = NoCounters /\ universe' = [m \in {} |-> 0] /\ readAt' = Nothing
    /\ window' = NoWindow /\ history' = NoHistory /\ trace' = NoTrace
    /\ UNCHANGED <<chainVars, verdict>>

Reading(name) == stage = "reading" /\ Reads[counters.read + 1] = name

AfterReading == IF counters.read + 1 = Len(Reads) THEN "closing" ELSE "reading"

\* fetch_official_warp_config: the API answers from a state it has seen.
ReadOfficial ==
    /\ Reading("official")
    /\ \E n \in 0..Len(ledger) :
          counters' = [counters EXCEPT !.read = @ + 1, !.official = Counters(n)]
    /\ stage' = AfterReading
    /\ UNCHANGED <<chainVars, universe, readAt, window, history, trace, verdict>>

\* fetch_classified_warp_config_account, at commitment "confirmed".
ReadConfig ==
    /\ Reading("onchain")
    /\ counters' = [counters EXCEPT !.read = @ + 1,
                                    !.onchain = Counters(Len(ledger))]
    /\ stage' = AfterReading
    /\ UNCHANGED <<chainVars, universe, readAt, window, history, trace, verdict>>

\* fetch_warp_message_accounts of one side: the accounts there are, each with
\* its event time.
Accounts(side) ==
    LET n == Len(ledger)
    IN [m \in {x \in side : Alive(x, n)} |-> EventTime(m, n)]

With(more) ==
    [m \in DOMAIN universe \cup DOMAIN more |->
        IF m \in DOMAIN more THEN more[m] ELSE universe[m]]

ReadAccounts(side) ==
    /\ universe' = With(Accounts(side))
    /\ counters' = [counters EXCEPT !.read = @ + 1]
    /\ stage' = AfterReading
    /\ UNCHANGED <<chainVars, window, history, trace, verdict>>

ReadOutgoing ==
    /\ Reading("outgoing")
    /\ ReadAccounts(Outgoing)
    /\ readAt' = [readAt EXCEPT !.out = Len(ledger)]

ReadIncoming ==
    /\ Reading("incoming")
    /\ ReadAccounts(Incoming)
    /\ readAt' = [readAt EXCEPT !.in = Len(ledger)]

\* Mutant: the API's counters are taken for the chain's.
ClosedOfficially ==
    /\ counters.official.out = Cardinality(DOMAIN universe \cap Outgoing)
    /\ counters.official.in = Cardinality(DOMAIN universe \cap Incoming)

\* evaluate_warp_message_counter_closure
Closed ==
    /\ counters.official = counters.onchain
    /\ counters.official.out = Cardinality(DOMAIN universe \cap Outgoing)
    /\ counters.official.in = Cardinality(DOMAIN universe \cap Incoming)

Accept ==
    /\ stage = "closing" /\ Closed
    /\ stage' = "timing"
    /\ UNCHANGED <<chainVars, readVars, window, history, trace, verdict>>

Refuse == stage = "closing" /\ ~Closed /\ Raise
-----------------------------------------------------------------------------
(* The window.                                                             *)

\* as_of = now, and the 60 days before it.
Begin(mode, start) ==
    /\ stage = "timing"
    /\ window' = [mode |-> mode, start |-> start, asOf |-> clock]
    /\ stage' = "paging"
    /\ UNCHANGED <<chainVars, readVars, history, trace, verdict>>

BeginLifecycle ==
    /\ clock >= Lookback
    /\ Begin("lifecycle", clock - Lookback)

\* as_of = now, back to the oldest fact to be valued.
BeginInterval ==
    \E oldest \in 0..clock :
        /\ oldest < clock /\ clock - oldest <= MaxInterval
        /\ Begin("interval", oldest)

\* ValueError: no such interval.
BadInterval ==
    /\ stage = "timing"
    /\ \E oldest \in 0..clock : oldest = clock \/ clock - oldest > MaxInterval
    /\ Raise
-----------------------------------------------------------------------------
(* The pages of getSignaturesForAddress, newest first.                     *)

AfterPaging == IF window.mode = "lifecycle" THEN "archive" ELSE "fetching"

\* The rows from index top down, as far as the node's address index goes: it may
\* have been cut anywhere.
PageRows(top) == {{i \in (cut + 1)..top : i > top - PageSize} : cut \in 0..top}

\* Rows without a block time: at most one in a history, a bound of the model.
Missing(rows) ==
    {{}} \cup (IF history.untimed = {} THEN {{i} : i \in rows} ELSE {})

\* What a page adds to the history: nothing, or its rows, one of them perhaps
\* without a block time. The oldest row decides whether the start is reached.
EmptyPage(h, top) ==
    [h EXCEPT !.pages = @ + 1, !.low = top + 1, !.exhausted = TRUE]

\* Mutant: no page cap.
FullPageUncapped(h, rows, missing) ==
    LET oldest == CHOOSE i \in rows : \A j \in rows : i <= j
        there == oldest \notin missing /\ ledger[oldest].time <= window.start
    IN [h EXCEPT !.pages = @ + 1,
                 !.low = oldest,
                 !.untimed = @ \cup missing,
                 !.reached = there,
                 !.exhausted = ~there /\ Cardinality(rows) < PageSize]

FullPage(h, rows, missing) ==
    LET oldest == CHOOSE i \in rows : \A j \in rows : i <= j
        there == oldest \notin missing /\ ledger[oldest].time <= window.start
        short == Cardinality(rows) < PageSize
    IN [h EXCEPT !.pages = @ + 1,
                 !.low = oldest,
                 !.untimed = @ \cup missing,
                 !.reached = there,
                 !.exhausted = ~there /\ short,
                 !.truncated = ~there /\ ~short /\ h.pages + 1 = MaxPages]

\* The first page starts at the newest finalized transaction.
Heads ==
    IF history.pages = 0
      THEN {h \in 0..Len(ledger) : Len(ledger) - h <= Lag} ELSE {history.head}

Page ==
    /\ stage = "paging"
    /\ \E h \in Heads :
          LET top == IF history.pages = 0 THEN h ELSE history.low - 1
              sofar == [history EXCEPT !.head = h]
          IN \E rows \in PageRows(top) :
                IF rows = {}
                  THEN history' = EmptyPage(sofar, top)
                  ELSE \E missing \in Missing(rows) :
                           history' = FullPage(sofar, rows, missing)
    /\ stage' = IF history'.reached \/ history'.exhausted \/ history'.truncated
                  THEN AfterPaging ELSE "paging"
    /\ UNCHANGED <<chainVars, readVars, window, trace, verdict>>

\* _archive_floor: whatever the node says of its oldest block; the start
\* itself stands for any time that covers it.
ReadArchive ==
    /\ stage = "archive"
    /\ \E t \in {Never, window.start} : trace' = [trace EXCEPT !.archive = t]
    /\ stage' = "fetching"
    /\ UNCHANGED <<chainVars, readVars, window, history, verdict>>
-----------------------------------------------------------------------------
(* The bodies of the successful transactions in scope.                     *)

\* relevant
InScope(i) ==
    /\ i \notin history.untimed
    /\ ledger[i].time <= window.asOf
    /\ window.start <= ledger[i].time \/ (history.exhausted /\ ~history.reached)

Fetched ==
    {i \in history.low..history.head : InScope(i) /\ ledger[i].kind # "failed"}

FetchedAll == trace.batches * BatchSize >= Cardinality(Fetched)

FetchBatch ==
    /\ stage = "fetching" /\ ~FetchedAll
    /\ trace' = [trace EXCEPT !.batches = @ + 1, !.tries = 0]
    /\ UNCHANGED <<chainVars, readVars, stage, window, history, verdict>>

\* resilient_get_transaction_post: what is still missing is asked for again,
\* and a body missing in the end fails the capture.
BodyMissing ==
    /\ stage = "fetching" /\ ~FetchedAll
    /\ IF trace.tries + 1 = Attempts
         THEN Raise
         ELSE /\ trace' = [trace EXCEPT !.tries = @ + 1]
              /\ UNCHANGED <<chainVars, readVars, stage, window, history,
                             verdict>>

\* Any call may raise: transport, malformed answer, a repeated signature.
CallFails ==
    /\ stage \in {"reading", "paging", "archive", "fetching"}
    /\ Raise
-----------------------------------------------------------------------------
(* The verdict.                                                            *)

Seen(m, kind) == {i \in Fetched : Does(m, kind, i)}

NoClosure == \A m \in DOMAIN universe : Seen(m, "close") = {}
NoZeroTouch == \A m \in DOMAIN universe : Seen(m, "zero") = {}

\* A message older than the window was not made in it; the lifecycle evidence
\* asks this of outgoing messages only.
NoRecreation ==
    \A m \in DOMAIN universe :
        /\ Cardinality(Seen(m, "create")) <= 1
        /\ /\ universe[m] < window.start
           /\ m \in Outgoing \/ window.mode = "interval"
           => Seen(m, "create") = {}

\* Mutant: a creation that was not seen is not missed.
NoSecondCreation ==
    \A m \in DOMAIN universe \cap Outgoing :
        window.start <= universe[m] /\ universe[m] <= window.asOf
            => Cardinality(Seen(m, "create")) <= 1

ExpectedCreations ==
    \A m \in DOMAIN universe \cap Outgoing :
        window.start <= universe[m] /\ universe[m] <= window.asOf
            => Cardinality(Seen(m, "create")) = 1

\* Mutant: the pages ended, so the program's life did.
YoungProgramByExhaustion ==
    /\ window.mode = "lifecycle"
    /\ ~history.reached /\ history.exhausted
    /\ trace.archive # Never /\ trace.archive <= window.start

\* The program is younger than the window: its whole life was paged, back to
\* its deployment.
YoungProgram ==
    /\ window.mode = "lifecycle"
    /\ ~history.reached /\ history.exhausted
    /\ trace.archive # Never /\ trace.archive <= window.start
    /\ \E i \in Fetched : ledger[i].kind = "deploy"

BoundaryVerified == history.reached \/ YoungProgram

TraceComplete == ~history.truncated /\ history.untimed = {} /\ BoundaryVerified

Evaluate ==
    /\ stage = "fetching" /\ FetchedAll
    /\ stage' = "done"
    /\ verdict' = (/\ TraceComplete
                   /\ NoClosure /\ NoRecreation /\ NoZeroTouch
                   /\ ExpectedCreations)
    /\ UNCHANGED <<chainVars, readVars, window, history, trace>>

Collector ==
    \/ ReadOfficial \/ ReadConfig \/ ReadOutgoing \/ ReadIncoming
    \/ Accept \/ Refuse
    \/ BeginLifecycle \/ BeginInterval \/ BadInterval
    \/ Page \/ ReadArchive \/ FetchBatch \/ BodyMissing \/ CallFails
    \/ Evaluate

Next == Bridge \/ Collector
Spec == Init /\ [][Next]_vars
-----------------------------------------------------------------------------
(* Properties.                                                             *)

\* The finalized transactions of the window. Its first second is left out: a
\* page that ends in that second proves the boundary reached.
Window ==
    {i \in 1..history.head :
        window.start < ledger[i].time /\ ledger[i].time <= window.asOf}

\* Positive evidence is about every message there ever was up to the reading
\* of the accounts, however far behind the bridge's API is and whatever was
\* closed or recycled before.
UniverseWhole ==
    verdict =>
        /\ \A m \in Outgoing : Made(m, readAt.out) # {} => m \in DOMAIN universe
        /\ \A m \in Incoming : Made(m, readAt.in) # {} => m \in DOMAIN universe

\* ... and no message it is about was closed, flickered, or was made twice in
\* the window, whatever the node has dropped from its index, left without a
\* block time or cut into pages.
UniverseRetained ==
    verdict =>
        \A m \in DOMAIN universe :
            /\ \A i \in Window : ~Does(m, "close", i) /\ ~Does(m, "zero", i)
            /\ \A i, j \in Window :
                  Does(m, "create", i) /\ Does(m, "create", j) => i = j

\* ... and an outgoing message is counted in the window it was really made in:
\* one stamped inside has its creation there, and one stamped before has none.
StampsHonest ==
    verdict =>
        \A m \in DOMAIN universe \cap Outgoing :
            /\ window.start <= universe[m] /\ universe[m] <= window.asOf
                 => \E i \in 1..history.head :
                       /\ Does(m, "create", i)
                       /\ window.start <= ledger[i].time
                       /\ ledger[i].time <= window.asOf
            /\ universe[m] < window.start
                 => \A i \in Window : ~Does(m, "create", i)
=============================================================================
