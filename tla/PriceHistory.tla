----------------------------- MODULE PriceHistory -----------------------------
(***************************************************************************)
(* How CMIS decides that the XDEX price history of one pair is whole.      *)
(*                                                                         *)
(* The archive of the provider holds one bar per interval; bars arrive     *)
(* while time goes on, in any order, or never.  Two jobs read it:          *)
(*                                                                         *)
(*   - the lifetime proof: four windows around the claimed first bar       *)
(*     (xdex_archive_start_exhaustion.py), a scan forward in windows       *)
(*     (xdex_forward_bar_continuity.py), the tail up to the newest closed  *)
(*     bar (xdex_history_current_end.py), and the combination of the three *)
(*     (xdex_supported_lifetime_range.py), in the order of the live tests; *)
(*   - the discovery: a sweep backwards (xdex_price_history_range.py).     *)
(*                                                                         *)
(* A bar is known by its number; bar b begins at tick b * Interval and is  *)
(* closed from tick (b + 1) * Interval on.  An answer is the set of bars   *)
(* of its rows.  A refused request, an answer that is not a list, rows out *)
(* of range, off the grid or in conflict all come to the same: the proof   *)
(* that asked has failed.  An answer may also hide rows, unseen.           *)
(***************************************************************************)
EXTENDS Integers, FiniteSets

CONSTANTS
    Interval,     \* ticks of a bar
    Opening,      \* the tick at which a job may first begin
    Horizon,      \* the last tick of the model
    Reach,        \* PRE_SECONDS and POST_SECONDS, in bars
    PerWindow,    \* window_intervals of the forward scan
    MaxWindows,   \* max_windows of either scan
    Attempts,     \* readings of the tail
    FreshBound,   \* FRESHNESS_BOUND_SECONDS, in ticks
    Widths,       \* window_seconds of a sweep, in ticks
    MaxHides      \* bound of the model: answers that hide rows

ASSUME HistoryAssumption ==
    /\ {Interval, PerWindow, MaxWindows, Attempts} \subseteq Nat \ {0}
    /\ {Opening, Horizon, Reach, FreshBound, MaxHides} \subseteq Nat
    /\ Widths \subseteq Nat \ {0}

VARIABLES
    now,       \* the clock, in ticks
    archive,   \* the bars the provider has
    phase,     \* the next thing the job does
    plan,      \* its parameters
    seen,      \* rows of the windows around the start
    cursor,    \* of the scan that runs
    found,     \* by_timestamp of the scan that runs
    requests,  \* requests of the scan that runs
    attempt,   \* readings of the tail so far
    hides,     \* answers that left rows out
    known,     \* ghost: what the archive had in the range of the claim when first asked
    verdict    \* what has been verified, and when

asked == <<phase, plan, seen, cursor, found, requests, attempt, hides, known, verdict>>
historyVars == <<now, archive, asked>>

Phase == {"idle", "pre", "crossing", "post", "repeat", "start", "forward", "aim",
          "tail", "evaluate", "sweep", "done"}
Bars == 0..(Horizon \div Interval)

NoPlan == [anchor |-> 0, end |-> 0, from |-> 0, requested |-> 0,
           floor |-> 0, top |-> 0, width |-> 1]
NoRows == [pre |-> {}, crossing |-> {}, post |-> {}]
NoVerdict == [start |-> FALSE, complete |-> FALSE, at |-> 0, swept |-> FALSE]

\* What every variable may hold; neither scan nor the reading of the tail goes past
\* its bound.
HistoryTypeOK ==
    /\ now \in Nat
    /\ archive \subseteq Int
    /\ phase \in Phase
    /\ plan \in [anchor : Int, end : Int, from : Int, requested : Int,
                 floor : Int, top : Int, width : Nat]
    /\ seen \in [pre : SUBSET Int, crossing : SUBSET Int, post : SUBSET Int]
    /\ cursor \in Int
    /\ found \subseteq Int
    /\ requests \in 0..MaxWindows /\ attempt \in 0..Attempts /\ hides \in 0..MaxHides
    /\ known \subseteq Int
    /\ verdict \in [start : BOOLEAN, complete : BOOLEAN, at : Nat, swept : BOOLEAN]

Started(b) == b * Interval <= now

\* The newest closed bar: (t // 60) * 60 - 60.
NewestClosed(t) == (t \div Interval) - 1

\* The rows a request for the ticks from..to has to answer.
Within(from, to) == {b \in archive : from <= b * Interval /\ b * Interval <= to}

HistoryInit ==
    /\ now = Opening
    /\ archive \in SUBSET {b \in Bars : Started(b)}
    /\ phase = "idle"
    /\ plan = NoPlan /\ seen = NoRows /\ cursor = 0 /\ found = {}
    /\ requests = 0 /\ attempt = 0 /\ hides = 0 /\ known = {}
    /\ verdict = NoVerdict

-----------------------------------------------------------------------------
(* The provider and the clock.  The open bar is served like the others.      *)

Tick ==
    /\ now < Horizon
    /\ now' = now + 1
    /\ UNCHANGED <<archive, asked>>

Publish ==
    /\ \E b \in Bars \ archive : Started(b) /\ archive' = archive \cup {b}
    /\ UNCHANGED <<now, asked>>

\* A usable answer: what is there, or part of it.
Answers(from, to, rows) ==
    /\ rows \in SUBSET Within(from, to)
    /\ hides' = IF rows = Within(from, to) THEN hides ELSE hides + 1
    /\ hides' <= MaxHides

\* Mutant: one window more than max_windows.
WindowsLeftOver == requests <= MaxWindows

WindowsLeft == requests < MaxWindows

-----------------------------------------------------------------------------
(* The windows around the claimed first bar.                                 *)

First(p) == (p.anchor - Reach) * Interval
Final(p) == (p.anchor + Reach) * Interval

BeginLifetime ==
    /\ phase = "idle"
    /\ \E a \in Bars : /\ Started(a) /\ a - Reach \in Bars
                       /\ plan' = [plan EXCEPT !.anchor = a]
    /\ phase' = "pre"
    /\ UNCHANGED <<now, archive, seen, cursor, found, requests, attempt, hides, known, verdict>>

PreWindow ==
    /\ phase = "pre"
    /\ LET last == plan.anchor * Interval - 1
       IN  /\ \E rows \in SUBSET Within(First(plan), last) :
                /\ Answers(First(plan), last, rows)
                /\ seen' = [seen EXCEPT !.pre = rows]
           /\ known' = Within(First(plan), last)
    /\ phase' = "crossing"
    /\ UNCHANGED <<now, archive, plan, cursor, found, requests, attempt, verdict>>

CrossingWindow ==
    /\ phase = "crossing"
    /\ \E rows \in SUBSET Within(First(plan), Final(plan)) :
         /\ Answers(First(plan), Final(plan), rows)
         /\ seen' = [seen EXCEPT !.crossing = rows]
    /\ phase' = "post"
    /\ UNCHANGED <<now, archive, plan, cursor, found, requests, attempt, known, verdict>>

PostWindow ==
    /\ phase = "post"
    /\ LET first == plan.anchor * Interval
       IN  \E rows \in SUBSET Within(first, Final(plan)) :
             /\ Answers(first, Final(plan), rows)
             /\ seen' = [seen EXCEPT !.post = rows]
    /\ phase' = "repeat"
    /\ UNCHANGED <<now, archive, plan, cursor, found, requests, attempt, known, verdict>>

\* Mutant: the repeated request is not compared.
StartExhaustedOnce(s, again, a) ==
    /\ s.pre = {} /\ s.crossing = s.pre \cup s.post
    /\ a \in s.crossing /\ a \in s.post /\ a + 1 \in s.post
    /\ \A b \in s.crossing \cup s.post : a <= b

\* The gates of the archive start for anchor a: nothing before it, the crossing
\* window is its two parts and stays so, the first rows are a and the next bar.
StartExhausted(s, again, a) ==
    /\ s.pre = {}
    /\ s.crossing = s.pre \cup s.post
    /\ s.crossing = again
    /\ a \in s.crossing /\ a \in s.post
    /\ \A b \in s.crossing \cup s.post : a <= b
    /\ a + 1 \in s.post

\* The last of the four windows, and the verdict on them.
RepeatWindow ==
    /\ phase = "repeat"
    /\ \E rows \in SUBSET Within(First(plan), Final(plan)) :
         /\ Answers(First(plan), Final(plan), rows)
         /\ verdict' = [verdict EXCEPT !.start = StartExhausted(seen, rows, plan.anchor)]
    /\ phase' = IF verdict'.start THEN "start" ELSE "done"
    /\ seen' = NoRows
    /\ UNCHANGED <<now, archive, plan, cursor, found, requests, attempt, known>>

-----------------------------------------------------------------------------
(* The forward scan, from the first bar.                                     *)

\* Up to the bar that has closed last by then; an empty range is refused.
BeginForward ==
    /\ phase = "start"
    /\ plan.anchor <= NewestClosed(now)
    /\ plan' = [plan EXCEPT !.end = NewestClosed(now)]
    /\ cursor' = plan.anchor
    /\ phase' = "forward"
    /\ UNCHANGED <<now, archive, seen, found, requests, attempt, hides, known, verdict>>

\* The bars a window has to hold.
Expected(from, end) ==
    {b \in from..end : b <= from + PerWindow - 1}

WindowEnd(from, end) == IF from + PerWindow - 1 <= end THEN from + PerWindow - 1 ELSE end

ForwardWindow ==
    /\ phase = "forward"
    /\ WindowsLeft /\ cursor <= plan.end
    /\ LET last == WindowEnd(cursor, plan.end)
       IN  \E rows \in SUBSET Within(cursor * Interval, last * Interval) :
             /\ Answers(cursor * Interval, last * Interval, rows)
             /\ IF rows = Expected(cursor, plan.end)
                THEN /\ cursor' = last + 1
                     /\ found' = found \cup rows
                     /\ UNCHANGED phase
                ELSE /\ phase' = "done"
                     /\ UNCHANGED <<cursor, found>>
    /\ requests' = requests + 1
    /\ UNCHANGED <<now, archive, plan, seen, attempt, known, verdict>>

\* bounded_continuity_verified, once every window has been.
Continuous ==
    /\ cursor > plan.end
    /\ LET total == plan.end - plan.anchor + 1
       IN  /\ Cardinality(found) = total
           /\ (requests - 1) * PerWindow < total /\ total <= requests * PerWindow

ForwardDone ==
    /\ phase = "forward"
    /\ ~WindowsLeft \/ cursor > plan.end
    /\ phase' = IF Continuous THEN "aim" ELSE "done"
    /\ found' = {} /\ requests' = 0 /\ cursor' = 0
    /\ UNCHANGED <<now, archive, plan, seen, attempt, hides, known, verdict>>

-----------------------------------------------------------------------------
(* The tail, and the combination.                                            *)

\* The clock is read before the request; the tail may begin where the operator wants.
Aim ==
    /\ phase = "aim" /\ attempt < Attempts
    /\ \E b \in Bars : /\ b <= NewestClosed(now)
                       /\ plan' = [plan EXCEPT !.from = b, !.requested = NewestClosed(now)]
    /\ attempt' = attempt + 1
    /\ phase' = "tail"
    /\ UNCHANGED <<now, archive, seen, cursor, found, requests, hides, known, verdict>>

ReadTail ==
    /\ phase = "tail"
    /\ LET first == plan.from * Interval
           last  == plan.requested * Interval
       IN  \E rows \in SUBSET Within(first, last) :
             /\ Answers(first, last, rows)
             /\ found' = rows
    /\ phase' = "evaluate"
    /\ UNCHANGED <<now, archive, plan, seen, cursor, requests, attempt, known, verdict>>

\* current_end_coverage_verified for the rows at time t.
CurrentEnd(p, rows, t) ==
    /\ rows = p.from..p.requested
    /\ p.requested \in rows /\ \A b \in rows : b <= p.requested
    /\ p.requested * Interval <= t
    /\ t - p.requested * Interval <= FreshBound

\* Mutant: a gap of one bar between the scan and the tail is let pass.
SeamLoose(p) == p.from <= p.end + 2 /\ p.requested >= p.end

\* forward_to_current_seam_verified.
Seam(p) == p.from <= p.end + 1 /\ p.requested >= p.end

\* Unless a bar has closed since the clock was read: then the tail is read again.
Evaluate ==
    /\ phase = "evaluate"
    /\ IF NewestClosed(now) # plan.requested
       THEN /\ phase' = IF attempt < Attempts THEN "aim" ELSE "done"
            /\ UNCHANGED verdict
       ELSE /\ phase' = "done"
            /\ verdict' = [verdict EXCEPT
                             !.complete = CurrentEnd(plan, found, now) /\ Seam(plan),
                             !.at = now]
    /\ found' = {}
    /\ UNCHANGED <<now, archive, plan, seen, cursor, requests, attempt, hides, known>>

-----------------------------------------------------------------------------
(* The sweep backwards.                                                      *)

BeginSweep ==
    /\ phase = "idle"
    /\ \E floor \in 1..now, top \in 1..now, w \in Widths :
         /\ floor < top
         /\ plan' = [plan EXCEPT !.floor = floor, !.top = top, !.width = w]
         /\ cursor' = top
         /\ known' = Within(floor, top)
    /\ phase' = "sweep"
    /\ UNCHANGED <<now, archive, seen, found, requests, attempt, hides, verdict>>

WindowStart == IF cursor - plan.width >= plan.floor THEN cursor - plan.width ELSE plan.floor

\* Mutant: the next window ends one interval lower, as if the windows lay on the grid.
NextCursorApart(start) == start - Interval

\* Where the next window ends: where this one begins.
NextCursor(start) == start

SweepWindow ==
    /\ phase = "sweep"
    /\ WindowsLeft /\ cursor > plan.floor
    /\ \E rows \in SUBSET Within(WindowStart, cursor) :
         /\ Answers(WindowStart, cursor, rows)
         /\ found' = found \cup rows
    /\ cursor' = NextCursor(WindowStart)
    /\ requests' = requests + 1
    /\ UNCHANGED <<now, archive, phase, plan, seen, attempt, known, verdict>>

\* range_sweep_complete.
SweepDone ==
    /\ phase = "sweep"
    /\ ~WindowsLeft \/ cursor <= plan.floor
    /\ verdict' = [verdict EXCEPT !.swept = cursor <= plan.floor]
    /\ phase' = "done"
    /\ UNCHANGED <<now, archive, plan, seen, cursor, found, requests, attempt, hides, known>>

\* A request that fails, an answer that cannot be used, a range that is refused.
Unusable ==
    /\ phase \in {"pre", "crossing", "post", "repeat", "start", "forward", "tail", "sweep"}
    /\ phase' = "done"
    /\ UNCHANGED <<now, archive, plan, seen, cursor, found, requests, attempt, hides, known, verdict>>

-----------------------------------------------------------------------------
Lifetime ==
    \/ BeginLifetime \/ PreWindow \/ CrossingWindow \/ PostWindow \/ RepeatWindow
    \/ BeginForward \/ ForwardWindow \/ ForwardDone
    \/ Aim \/ ReadTail \/ Evaluate
Discovery == BeginSweep \/ SweepWindow \/ SweepDone
Provider == Tick \/ Publish

HistoryNext == Lifetime \/ Discovery \/ Unusable \/ Provider

HistorySpec == HistoryInit /\ [][HistoryNext]_historyVars

-----------------------------------------------------------------------------
\* An exhausted archive start means that the provider had no bar in the window
\* before the anchor when it was first asked, unless three answers hid some: the
\* pre-window, the crossing window and its repetition
\* (xdex_archive_start_exhaustion.py).
StartExact == verdict.start /\ hides <= 2 => known = {}

\* A complete lifetime leaves no bar out, from the anchor to the newest bar that
\* had closed when it was said: the scan, its seam and a tail that is read while
\* bars go on closing (xdex_supported_lifetime_range.py).
LifetimeWhole ==
    verdict.complete =>
        /\ verdict.start
        /\ \A b \in plan.anchor..NewestClosed(verdict.at) : b \in archive

\* A complete sweep over answers that hide nothing has found every bar that was
\* in its range when it began, however the width lies on the grid
\* (xdex_price_history_range.py).
SweepWhole == verdict.swept /\ hides = 0 => known \subseteq found
=============================================================================
