------------------------------ MODULE PriceProofs ------------------------------
(***************************************************************************)
(* Theorems about the prices of XDEX pools: PriceHistory, for every length *)
(* of bar, bound, reach, width of window and number of answers that hide   *)
(* rows, and one production of MarketFreshness, for every set of pools,    *)
(* clock, window, lookback, age and order of signatures.                   *)
(***************************************************************************)
EXTENDS PriceHistory, MarketFreshness, FiniteFacts, TLAPS

-----------------------------------------------------------------------------
(***************************************************************************)
(* PriceHistory.                                                           *)
(***************************************************************************)

-----------------------------------------------------------------------------
(* Arithmetic of the grid.                                                   *)

LEMMA GridOrder ==
    ASSUME NEW a \in Int, NEW b \in Int, NEW n \in Nat \ {0}, b * n < a * n
    PROVE  b < a
<1>1. SUFFICES ASSUME a <= b PROVE FALSE
  OBVIOUS
<1>2. PICK d \in Nat : b = a + d
  BY <1>1
<1>3. b * n = a * n + d * n
  BY <1>2
<1>4. d * n >= 0
  OBVIOUS
<1>5. a * n \in Int /\ b * n \in Int /\ d * n \in Int
  OBVIOUS
<1>. QED
  BY <1>3, <1>4, <1>5

LEMMA GridReach ==
    ASSUME NEW a \in Int, NEW r \in Nat, NEW n \in Nat \ {0}
    PROVE  a * n <= (a + r) * n
<1>1. (a + r) * n = a * n + r * n
  OBVIOUS
<1>2. r * n >= 0
  OBVIOUS
<1>3. a * n \in Int /\ r * n \in Int
  OBVIOUS
<1>. QED
  BY <1>1, <1>2, <1>3

-----------------------------------------------------------------------------
(* The inductive invariant.                                                  *)

\* The start: a bar before the anchor that no window has shown costs each of them
\* an answer that hid it.
Early(b) ==
    /\ First(plan) <= b * Interval
    /\ b * Interval <= Final(plan)
    /\ b < plan.anchor

StartInv ==
    /\ phase \in {"crossing", "post", "repeat"} =>
         \A b \in known : Early(b)
    /\ phase = "crossing" /\ seen.pre = {} /\ known # {} => hides >= 1
    /\ phase \in {"post", "repeat"} /\ seen.pre = {} /\ known # {}
         /\ (\A b \in seen.crossing : plan.anchor <= b) => hides >= 2
    /\ verdict.start /\ known # {} => hides >= 3
    /\ phase \in {"idle", "pre", "crossing", "post", "repeat"} => ~verdict.start

\* The forward scan has every bar below its cursor, and then every bar.
ForwardInv ==
    /\ phase = "forward" =>
         /\ \A b \in Int : plan.anchor <= b /\ b < cursor => b \in archive
         /\ verdict.start
    /\ phase \in {"aim", "tail", "evaluate"} =>
         /\ \A b \in Int : plan.anchor <= b /\ b <= plan.end => b \in archive
         /\ verdict.start
    /\ phase = "start" => verdict.start
    /\ phase = "evaluate" => found \subseteq archive

EndInv ==
    /\ verdict.complete => phase = "done"
    /\ LifetimeWhole

\* The sweep has what was known at and above its cursor, once it has moved.
SweepInv ==
    /\ phase = "sweep" =>
         /\ plan.floor < plan.top /\ cursor <= plan.top /\ plan.width > 0
         /\ \A b \in known : plan.floor <= b * Interval /\ b * Interval <= plan.top
         /\ hides = 0 /\ cursor < plan.top =>
              \A b \in known : cursor <= b * Interval => b \in found
    /\ verdict.swept => phase = "done"
    /\ SweepWhole

HistoryInv ==
    /\ HistoryTypeOK
    /\ known \subseteq archive
    /\ StartInv
    /\ ForwardInv
    /\ EndInv
    /\ SweepInv

-----------------------------------------------------------------------------
(* Types.                                                                    *)

LEMMA InitType == HistoryInit => HistoryTypeOK
<1>. SUFFICES ASSUME HistoryInit PROVE HistoryTypeOK
  OBVIOUS
<1>1. Horizon \div Interval \in Int
  BY HistoryAssumption
<1>2. archive \subseteq Int
  BY <1>1 DEF HistoryInit, Bars
<1>. QED
  BY <1>2, HistoryAssumption DEF HistoryInit, HistoryTypeOK, Phase, NoPlan, NoRows, NoVerdict

LEMMA AnswerType ==
    ASSUME HistoryTypeOK, NEW from, NEW to, NEW rows, Answers(from, to, rows)
    PROVE  /\ rows \subseteq archive /\ rows \subseteq Int
           /\ rows \subseteq Within(from, to)
           /\ hides' \in 0..MaxHides
           /\ hides <= hides'
           /\ rows # Within(from, to) => hides' = hides + 1
<1>1. hides \in 0..MaxHides /\ MaxHides \in Nat
  BY HistoryAssumption DEF HistoryTypeOK
<1>. QED
  BY <1>1 DEF Answers, Within, HistoryTypeOK

LEMMA TypeStep == HistoryTypeOK /\ [HistoryNext]_historyVars => HistoryTypeOK'
<1>. SUFFICES ASSUME HistoryTypeOK, [HistoryNext]_historyVars PROVE HistoryTypeOK'
  OBVIOUS
<1>. USE HistoryAssumption
<1>0. \A t \in Nat : NewestClosed(t) \in Int
  BY DEF NewestClosed
<1>1. Bars \subseteq Int
  BY DEF Bars
<1>2. CASE Tick
  BY <1>2 DEF Tick, HistoryTypeOK, asked
<1>3. CASE Publish
  BY <1>3, <1>1 DEF Publish, HistoryTypeOK, asked
<1>4. CASE BeginLifetime
  BY <1>4, <1>1 DEF BeginLifetime, HistoryTypeOK, Phase
<1>5. CASE PreWindow
  <2>1. PICK rows \in SUBSET Within(First(plan), plan.anchor * Interval - 1) :
          /\ Answers(First(plan), plan.anchor * Interval - 1, rows)
          /\ seen' = [seen EXCEPT !.pre = rows]
    BY <1>5 DEF PreWindow
  <2>2. known' \subseteq Int
    BY <1>5 DEF PreWindow, Within, HistoryTypeOK
  <2>. QED
    BY <1>5, <2>1, <2>2, AnswerType DEF PreWindow, HistoryTypeOK, Phase
<1>6. CASE CrossingWindow
  <2>1. PICK rows \in SUBSET Within(First(plan), Final(plan)) :
          /\ Answers(First(plan), Final(plan), rows)
          /\ seen' = [seen EXCEPT !.crossing = rows]
    BY <1>6 DEF CrossingWindow
  <2>. QED
    BY <1>6, <2>1, AnswerType DEF CrossingWindow, HistoryTypeOK, Phase
<1>7. CASE PostWindow
  <2>1. PICK rows \in SUBSET Within(plan.anchor * Interval, Final(plan)) :
          /\ Answers(plan.anchor * Interval, Final(plan), rows)
          /\ seen' = [seen EXCEPT !.post = rows]
    BY <1>7 DEF PostWindow
  <2>. QED
    BY <1>7, <2>1, AnswerType DEF PostWindow, HistoryTypeOK, Phase
<1>8. CASE RepeatWindow
  <2>1. PICK rows \in SUBSET Within(First(plan), Final(plan)) :
          /\ Answers(First(plan), Final(plan), rows)
          /\ verdict' = [verdict EXCEPT !.start = StartExhausted(seen, rows, plan.anchor)]
    BY <1>8 DEF RepeatWindow
  <2>2. StartExhausted(seen, rows, plan.anchor) \in BOOLEAN
    BY DEF StartExhausted
  <2>3. verdict' \in [start : BOOLEAN, complete : BOOLEAN, at : Nat, swept : BOOLEAN]
    BY <2>1, <2>2 DEF HistoryTypeOK
  <2>4. hides' \in 0..MaxHides
    BY <2>1, AnswerType
  <2>. QED
    BY <1>8, <2>3, <2>4 DEF RepeatWindow, HistoryTypeOK, Phase, NoRows
<1>9. CASE BeginForward
  BY <1>9, <1>0 DEF BeginForward, HistoryTypeOK, Phase
<1>10. CASE ForwardWindow
  <2>. DEFINE last == WindowEnd(cursor, plan.end)
  <2>1. PICK rows \in SUBSET Within(cursor * Interval, last * Interval) :
          /\ Answers(cursor * Interval, last * Interval, rows)
          /\ IF rows = Expected(cursor, plan.end)
             THEN /\ cursor' = last + 1
                  /\ found' = found \cup rows
                  /\ UNCHANGED phase
             ELSE /\ phase' = "done"
                  /\ UNCHANGED <<cursor, found>>
    BY <1>10 DEF ForwardWindow
  <2>2. last \in Int
    BY DEF WindowEnd, HistoryTypeOK
  <2>3. /\ cursor' \in Int /\ found' \subseteq Int /\ phase' \in Phase
        /\ hides' \in 0..MaxHides
    <3>1. hides' \in 0..MaxHides /\ rows \subseteq Int
      BY <2>1, AnswerType
    <3>. HIDE DEF last
    <3>2. CASE rows = Expected(cursor, plan.end)
      <4>1. cursor' = last + 1 /\ found' = found \cup rows /\ phase' = phase
        BY <2>1, <3>2
      <4>. QED
        BY <2>2, <3>1, <4>1 DEF HistoryTypeOK
    <3>3. CASE rows # Expected(cursor, plan.end)
      <4>1. cursor' = cursor /\ found' = found /\ phase' = "done"
        BY <2>1, <3>3
      <4>. QED
        BY <3>1, <4>1 DEF HistoryTypeOK, Phase
    <3>. QED
      BY <3>2, <3>3
  <2>4. requests' \in 0..MaxWindows
    BY <1>10 DEF ForwardWindow, WindowsLeft, HistoryTypeOK
  <2>. QED
    BY <1>10, <2>3, <2>4 DEF ForwardWindow, HistoryTypeOK
<1>11. CASE ForwardDone
  BY <1>11 DEF ForwardDone, HistoryTypeOK, Phase
<1>12. CASE Aim
  <2>1. NewestClosed(now) \in Int
    BY <1>0 DEF HistoryTypeOK
  <2>2. attempt' \in 0..Attempts /\ phase' \in Phase
    BY <1>12 DEF Aim, HistoryTypeOK, Phase
  <2>3. PICK b \in Bars :
          plan' = [plan EXCEPT !.from = b, !.requested = NewestClosed(now)]
    BY <1>12 DEF Aim
  <2>4. b \in Int
    BY <1>1
  <2>5. plan' \in [anchor : Int, end : Int, from : Int, requested : Int,
                  floor : Int, top : Int, width : Nat]
    BY <2>1, <2>3, <2>4 DEF HistoryTypeOK
  <2>. QED
    BY <1>12, <2>2, <2>5 DEF Aim, HistoryTypeOK
<1>13. CASE ReadTail
  <2>1. PICK rows \in SUBSET Within(plan.from * Interval, plan.requested * Interval) :
          /\ Answers(plan.from * Interval, plan.requested * Interval, rows)
          /\ found' = rows
    BY <1>13 DEF ReadTail
  <2>. QED
    BY <1>13, <2>1, AnswerType DEF ReadTail, HistoryTypeOK, Phase
<1>14. CASE Evaluate
  <2>1. (CurrentEnd(plan, found, now) /\ Seam(plan)) \in BOOLEAN
    BY DEF CurrentEnd, Seam
  <2>2. verdict' \in [start : BOOLEAN, complete : BOOLEAN, at : Nat, swept : BOOLEAN]
    BY <1>14, <2>1 DEF Evaluate, HistoryTypeOK
  <2>. QED
    BY <1>14, <2>2 DEF Evaluate, HistoryTypeOK, Phase
<1>15. CASE BeginSweep
  <2>1. PICK floor \in 1..now, top \in 1..now, w \in Widths :
          /\ plan' = [plan EXCEPT !.floor = floor, !.top = top, !.width = w]
          /\ cursor' = top
          /\ known' = Within(floor, top)
    BY <1>15 DEF BeginSweep
  <2>2. known' \subseteq Int /\ w \in Nat /\ floor \in Int /\ top \in Int
    BY <2>1 DEF Within, HistoryTypeOK
  <2>. QED
    BY <1>15, <2>1, <2>2 DEF BeginSweep, HistoryTypeOK, Phase
<1>16. CASE SweepWindow
  <2>1. PICK rows \in SUBSET Within(WindowStart, cursor) :
          /\ Answers(WindowStart, cursor, rows)
          /\ found' = found \cup rows
    BY <1>16 DEF SweepWindow
  <2>2. cursor' \in Int /\ requests' \in 0..MaxWindows
    BY <1>16 DEF SweepWindow, NextCursor, WindowStart, WindowsLeft, HistoryTypeOK
  <2>. QED
    BY <1>16, <2>1, <2>2, AnswerType DEF SweepWindow, HistoryTypeOK
<1>17. CASE SweepDone
  <2>1. (cursor <= plan.floor) \in BOOLEAN
    OBVIOUS
  <2>. QED
    BY <1>17, <2>1 DEF SweepDone, HistoryTypeOK, Phase
<1>18. CASE Unusable
  BY <1>18 DEF Unusable, HistoryTypeOK, Phase
<1>19. CASE UNCHANGED historyVars
  BY <1>19 DEF historyVars, asked, HistoryTypeOK
<1>. QED
  BY <1>2, <1>3, <1>4, <1>5, <1>6, <1>7, <1>8, <1>9, <1>10, <1>11, <1>12, <1>13, <1>14,
     <1>15, <1>16, <1>17, <1>18, <1>19 DEF HistoryNext, Lifetime, Discovery, Provider

\* Every variable keeps its type and every counter its bound
\* (scan_xdex_forward_bar_continuity, discover_xdex_price_history_range).
THEOREM HistoryTypeCorrect == HistorySpec => []HistoryTypeOK
  BY InitType, TypeStep, PTL DEF HistorySpec

-----------------------------------------------------------------------------
(* The parts of the invariant, one action after the other.                   *)

LEMMA HistoryInitInv == HistoryInit => HistoryInv
<1>. SUFFICES ASSUME HistoryInit PROVE HistoryInv
  OBVIOUS
<1>1. HistoryTypeOK
  BY InitType
<1>2. verdict.start = FALSE /\ verdict.complete = FALSE /\ verdict.swept = FALSE
  BY DEF HistoryInit, NoVerdict
<1>. QED
  BY <1>1, <1>2 DEF HistoryInit, HistoryInv, StartInv, ForwardInv, EndInv, LifetimeWhole, SweepInv, SweepWhole

LEMMA KnownStep == HistoryInv /\ [HistoryNext]_historyVars => known' \subseteq archive'
<1>. SUFFICES ASSUME HistoryInv, [HistoryNext]_historyVars PROVE known' \subseteq archive'
  OBVIOUS
<1>1. archive \subseteq archive'
  BY DEF HistoryNext, Lifetime, Discovery, Provider, Tick, Publish, BeginLifetime, PreWindow,
     CrossingWindow, PostWindow, RepeatWindow, BeginForward, ForwardWindow, ForwardDone, Aim,
     ReadTail, Evaluate, BeginSweep, SweepWindow, SweepDone, Unusable, historyVars
<1>2. known' = known \/ known' \subseteq archive
  BY DEF HistoryNext, Lifetime, Discovery, Provider, Tick, Publish, BeginLifetime, PreWindow,
     CrossingWindow, PostWindow, RepeatWindow, BeginForward, ForwardWindow, ForwardDone, Aim,
     ReadTail, Evaluate, BeginSweep, SweepWindow, SweepDone, Unusable, historyVars, asked, Within
<1>. QED
  BY <1>1, <1>2 DEF HistoryInv

\* What the windows before the forward scan do to the start.
LEMMA StartStep == HistoryInv /\ [HistoryNext]_historyVars => StartInv'
<1>. SUFFICES ASSUME HistoryInv, [HistoryNext]_historyVars PROVE StartInv'
  OBVIOUS
<1>. USE HistoryAssumption
<1>0. HistoryTypeOK /\ StartInv /\ HistoryTypeOK' /\ known \subseteq archive
  BY TypeStep DEF HistoryInv
<1>1. CASE PreWindow
  <2>. DEFINE last == plan.anchor * Interval - 1
  <2>1. PICK rows \in SUBSET Within(First(plan), last) :
          /\ Answers(First(plan), last, rows)
          /\ seen' = [seen EXCEPT !.pre = rows]
    BY <1>1 DEF PreWindow
  <2>2. known' = Within(First(plan), last) /\ plan' = plan /\ phase' = "crossing"
        /\ phase = "pre" /\ verdict' = verdict
    BY <1>1 DEF PreWindow
  <2>3. plan.anchor \in Int
    BY <1>0 DEF HistoryTypeOK
  <2>4. ASSUME NEW b \in known' PROVE Early(b)'
    <3>1. b \in Int /\ First(plan) <= b * Interval /\ b * Interval <= plan.anchor * Interval - 1
      BY <1>0, <2>2 DEF Within, HistoryTypeOK
    <3>2. b * Interval \in Int /\ plan.anchor * Interval \in Int
      BY <3>1, <2>3
    <3>3. b < plan.anchor
      BY <3>1, <3>2, <2>3, GridOrder
    <3>4. plan.anchor * Interval <= Final(plan)
      BY <2>3, GridReach DEF Final
    <3>5. plan.anchor + Reach \in Int /\ Interval \in Int
      BY <2>3, HistoryAssumption
    <3>6. Final(plan) \in Int
      BY <3>5 DEF Final
    <3>7. b * Interval <= Final(plan)
      BY <3>1, <3>2, <3>4, <3>6
    <3>. QED
      BY <3>1, <3>3, <3>7, <2>2 DEF Early, First, Final
  <2>5. seen'.pre = rows
    BY <2>1, <1>0 DEF HistoryTypeOK
  <2>6. seen'.pre = {} /\ known' # {} => hides' >= 1
    <3>. SUFFICES ASSUME rows = {}, known' # {} PROVE hides' >= 1
      BY <2>5
    <3>1. hides' = hides + 1
      BY <2>1, <2>2, <1>0, AnswerType
    <3>. QED
      BY <3>1, <1>0 DEF HistoryTypeOK
  <2>7. ~verdict'.start
    BY <2>2, <1>0 DEF StartInv
  <2>. QED
    BY <2>2, <2>4, <2>6, <2>7 DEF StartInv
<1>2. CASE CrossingWindow
  <2>1. PICK rows \in SUBSET Within(First(plan), Final(plan)) :
          /\ Answers(First(plan), Final(plan), rows)
          /\ seen' = [seen EXCEPT !.crossing = rows]
    BY <1>2 DEF CrossingWindow
  <2>2. known' = known /\ plan' = plan /\ phase' = "post"
        /\ phase = "crossing" /\ verdict' = verdict
    BY <1>2 DEF CrossingWindow
  <2>3. seen'.crossing = rows /\ seen'.pre = seen.pre
    BY <2>1, <1>0 DEF HistoryTypeOK
  <2>4. \A b \in known : Early(b)
    BY <1>0, <2>2 DEF StartInv
  <2>5. ASSUME seen.pre = {}, known # {}, \A b \in rows : plan.anchor <= b
        PROVE  hides' >= 2
    <3>1. PICK b \in known : TRUE
      BY <2>5
    <3>2. b \in Within(First(plan), Final(plan)) /\ b < plan.anchor
      BY <2>4, <1>0 DEF Early, Within
    <3>3. b \notin rows
      BY <3>2, <2>5, <1>0 DEF HistoryTypeOK, Within
    <3>4. hides' = hides + 1
      BY <2>1, <3>2, <3>3, <1>0, AnswerType
    <3>5. hides >= 1
      BY <2>2, <2>5, <1>0 DEF StartInv
    <3>. QED
      BY <3>4, <3>5, <1>0 DEF HistoryTypeOK
  <2>6. ~verdict'.start
    BY <2>2, <1>0 DEF StartInv
  <2>7. (\A b \in known : Early(b))'
    BY <2>2, <2>4 DEF Early, First, Final
  <2>. QED
    BY <2>2, <2>3, <2>5, <2>6, <2>7 DEF StartInv
<1>3. CASE PostWindow
  <2>1. PICK rows \in SUBSET Within(plan.anchor * Interval, Final(plan)) :
          /\ Answers(plan.anchor * Interval, Final(plan), rows)
          /\ seen' = [seen EXCEPT !.post = rows]
    BY <1>3 DEF PostWindow
  <2>2. known' = known /\ plan' = plan /\ phase' = "repeat"
        /\ phase = "post" /\ verdict' = verdict
    BY <1>3 DEF PostWindow
  <2>3. seen'.crossing = seen.crossing /\ seen'.pre = seen.pre
    BY <2>1, <1>0 DEF HistoryTypeOK
  <2>4. hides' \in Nat /\ hides <= hides' /\ hides \in Nat
    BY <2>1, <1>0, AnswerType DEF HistoryTypeOK
  <2>5. (\A b \in known : Early(b))'
    BY <2>2, <1>0 DEF StartInv, Early, First, Final
  <2>6. ~verdict'.start
    BY <2>2, <1>0 DEF StartInv
  <2>7. seen.pre = {} /\ known # {} /\ (\A b \in seen.crossing : plan.anchor <= b)
          => hides' >= 2
    BY <2>2, <2>4, <1>0 DEF StartInv
  <2>. QED
    BY <2>2, <2>3, <2>5, <2>6, <2>7 DEF StartInv
<1>4. CASE RepeatWindow
  <2>1. PICK rows \in SUBSET Within(First(plan), Final(plan)) :
          /\ Answers(First(plan), Final(plan), rows)
          /\ verdict' = [verdict EXCEPT !.start = StartExhausted(seen, rows, plan.anchor)]
    BY <1>4 DEF RepeatWindow
  <2>2. known' = known /\ plan' = plan /\ phase' \in {"start", "done"} /\ phase = "repeat"
    BY <1>4 DEF RepeatWindow
  <2>3. verdict'.start = StartExhausted(seen, rows, plan.anchor)
    BY <2>1, <1>0 DEF HistoryTypeOK
  <2>4. ASSUME StartExhausted(seen, rows, plan.anchor), known # {}
        PROVE  hides' >= 3
    <3>1. /\ seen.pre = {}
          /\ seen.crossing = rows
          /\ \A b \in rows : plan.anchor <= b
      BY <2>4 DEF StartExhausted
    <3>2. hides >= 2
      BY <3>1, <2>2, <2>4, <1>0 DEF StartInv
    <3>3. PICK b \in known : TRUE
      BY <2>4
    <3>4. b \in Within(First(plan), Final(plan)) /\ b < plan.anchor
      BY <2>2, <1>0 DEF StartInv, Early, Within
    <3>5. b \notin rows
      BY <3>1, <3>4, <1>0 DEF HistoryTypeOK, Within
    <3>6. hides' = hides + 1
      BY <2>1, <3>4, <3>5, <1>0, AnswerType
    <3>. QED
      BY <3>2, <3>6, <1>0 DEF HistoryTypeOK
  <2>. QED
    BY <2>2, <2>3, <2>4 DEF StartInv
<1>5. CASE BeginSweep
  BY <1>5, <1>0 DEF BeginSweep, StartInv
<1>6. CASE BeginLifetime
  BY <1>6, <1>0 DEF BeginLifetime, StartInv
<1>7. CASE \/ BeginForward \/ ForwardDone \/ Aim \/ SweepDone \/ Unusable \/ Evaluate
  <2>1. /\ known' = known /\ hides' = hides
        /\ phase \notin {"idle", "pre", "crossing", "post", "repeat"} \/ phase' = "done"
        /\ phase' \notin {"idle", "pre", "crossing", "post", "repeat"}
    BY <1>7, <1>0 DEF BeginForward, ForwardDone, Aim, SweepDone, Unusable, Evaluate, HistoryTypeOK, Phase
  <2>2. verdict'.start = verdict.start
    BY <1>7, <1>0 DEF BeginForward, ForwardDone, Aim, SweepDone, Unusable, Evaluate, HistoryTypeOK
  <2>. QED
    BY <2>1, <2>2, <1>0 DEF StartInv
<1>8. CASE ForwardWindow \/ ReadTail \/ SweepWindow
  <2>1. \E from, to, rows : Answers(from, to, rows)
    BY <1>8 DEF ForwardWindow, ReadTail, SweepWindow
  <2>2. hides \in Nat /\ hides' \in Nat /\ hides <= hides'
    BY <2>1, <1>0, AnswerType DEF HistoryTypeOK
  <2>3. /\ known' = known /\ verdict' = verdict
        /\ phase' \notin {"idle", "pre", "crossing", "post", "repeat"}
    BY <1>8 DEF ForwardWindow, ReadTail, SweepWindow
  <2>. QED
    BY <2>2, <2>3, <1>0 DEF StartInv
<1>9. CASE Tick \/ Publish \/ UNCHANGED historyVars
  <2>1. UNCHANGED asked
    BY <1>9 DEF Tick, Publish, historyVars
  <2>. QED
    BY <2>1, <1>0 DEF asked, StartInv, Early, First, Final
<1>. QED
  BY <1>1, <1>2, <1>3, <1>4, <1>5, <1>6, <1>7, <1>8, <1>9 DEF HistoryNext, Lifetime, Discovery, Provider

\* Every action keeps the bars there are; all but two leave the proof of the range
\* alone.
LEMMA ForwardStep == HistoryInv /\ [HistoryNext]_historyVars => ForwardInv'
<1>. SUFFICES ASSUME HistoryInv, [HistoryNext]_historyVars PROVE ForwardInv'
  OBVIOUS
<1>. USE HistoryAssumption
<1>0. HistoryTypeOK /\ StartInv /\ ForwardInv
  BY DEF HistoryInv
<1>1. CASE BeginForward
  <2>1. /\ phase = "start" /\ phase' = "forward" /\ cursor' = plan.anchor
        /\ plan'.anchor = plan.anchor /\ verdict' = verdict
    BY <1>1, <1>0 DEF BeginForward, HistoryTypeOK
  <2>2. plan.anchor \in Int
    BY <1>0 DEF HistoryTypeOK
  <2>. QED
    BY <2>1, <2>2, <1>0 DEF ForwardInv
<1>2. CASE ForwardWindow
  <2>. DEFINE last == WindowEnd(cursor, plan.end)
  <2>1. PICK rows \in SUBSET Within(cursor * Interval, last * Interval) :
          /\ Answers(cursor * Interval, last * Interval, rows)
          /\ IF rows = Expected(cursor, plan.end)
             THEN /\ cursor' = last + 1
                  /\ found' = found \cup rows
                  /\ UNCHANGED phase
             ELSE /\ phase' = "done"
                  /\ UNCHANGED <<cursor, found>>
    BY <1>2 DEF ForwardWindow
  <2>2. /\ phase = "forward" /\ plan' = plan /\ archive' = archive /\ verdict' = verdict
        /\ plan.end \in Int /\ plan.anchor \in Int /\ cursor \in Int /\ PerWindow \in Nat \ {0}
    BY <1>2, <1>0 DEF ForwardWindow, HistoryTypeOK
  <2>3. /\ last \in Int
        /\ \A b \in Int : cursor <= b /\ b < last + 1 => b \in Expected(cursor, plan.end)
    BY <2>2 DEF WindowEnd, Expected
  <2>4. rows \subseteq archive
    BY <2>1, <1>0, AnswerType
  <2>. HIDE DEF last
  <2>5. CASE rows = Expected(cursor, plan.end)
    <3>1. cursor' = last + 1 /\ phase' = phase
      BY <2>1, <2>5
    <3>2. \A b \in Int : plan.anchor <= b /\ b < last + 1 => b \in archive
      <4>. SUFFICES ASSUME NEW b \in Int, plan.anchor <= b, b < last + 1 PROVE b \in archive
        OBVIOUS
      <4>1. CASE b < cursor
        BY <4>1, <1>0, <2>2 DEF ForwardInv
      <4>2. CASE cursor <= b
        BY <4>2, <2>3, <2>4, <2>5
      <4>. QED
        BY <4>1, <4>2, <2>2
    <3>. QED
      BY <2>2, <3>1, <3>2, <1>0 DEF ForwardInv
  <2>6. CASE rows # Expected(cursor, plan.end)
    <3>1. phase' = "done"
      BY <2>1, <2>6
    <3>. QED
      BY <3>1 DEF ForwardInv
  <2>. QED
    BY <2>5, <2>6
<1>3. CASE ForwardDone
  <2>1. /\ phase = "forward" /\ phase' \in {"aim", "done"}
        /\ phase' = "aim" => cursor > plan.end
        /\ plan' = plan /\ archive' = archive /\ verdict' = verdict
        /\ cursor \in Int /\ plan.end \in Int
    BY <1>3, <1>0 DEF ForwardDone, Continuous, HistoryTypeOK
  <2>2. phase' = "aim" =>
          \A b \in Int : plan.anchor <= b /\ b <= plan.end => b \in archive
    BY <2>1, <1>0 DEF ForwardInv, HistoryTypeOK
  <2>. QED
    BY <2>1, <2>2, <1>0 DEF ForwardInv
<1>4. CASE Aim
  <2>1. /\ phase = "aim" /\ phase' = "tail" /\ archive' = archive /\ verdict' = verdict
        /\ plan'.anchor = plan.anchor /\ plan'.end = plan.end
    BY <1>4, <1>0 DEF Aim, HistoryTypeOK
  <2>. QED
    BY <2>1, <1>0 DEF ForwardInv
<1>5. CASE ReadTail
  <2>1. \E from, to : Answers(from, to, found')
    BY <1>5 DEF ReadTail
  <2>2. found' \subseteq archive
    BY <2>1, <1>0, AnswerType
  <2>3. /\ phase = "tail" /\ phase' = "evaluate" /\ archive' = archive /\ verdict' = verdict
        /\ plan' = plan
    BY <1>5 DEF ReadTail
  <2>. QED
    BY <2>2, <2>3, <1>0 DEF ForwardInv
<1>6. CASE Evaluate
  <2>1. /\ phase = "evaluate" /\ phase' \in {"aim", "done"} /\ archive' = archive /\ plan' = plan
        /\ verdict'.start = verdict.start
    BY <1>6, <1>0 DEF Evaluate, HistoryTypeOK
  <2>. QED
    BY <2>1, <1>0 DEF ForwardInv
<1>7. CASE RepeatWindow
  <2>1. phase' \in {"start", "done"} /\ (phase' = "start" => verdict'.start)
    BY <1>7 DEF RepeatWindow
  <2>. QED
    BY <2>1 DEF ForwardInv
<1>8. CASE \/ BeginLifetime \/ PreWindow \/ CrossingWindow \/ PostWindow
           \/ BeginSweep \/ SweepWindow \/ SweepDone \/ Unusable
  <2>1. phase' \notin {"start", "forward", "aim", "tail", "evaluate"}
    BY <1>8 DEF BeginLifetime, PreWindow, CrossingWindow, PostWindow, BeginSweep, SweepWindow,
       SweepDone, Unusable
  <2>. QED
    BY <2>1 DEF ForwardInv
<1>9. CASE Tick \/ Publish \/ UNCHANGED historyVars
  <2>1. UNCHANGED asked /\ archive \subseteq archive'
    BY <1>9 DEF Tick, Publish, historyVars
  <2>. QED
    BY <2>1, <1>0 DEF asked, ForwardInv
<1>. QED
  BY <1>1, <1>2, <1>3, <1>4, <1>5, <1>6, <1>7, <1>8, <1>9 DEF HistoryNext, Lifetime, Discovery, Provider

\* The seam: up to the end of the scan the bars are those of the scan, beyond it
\* those of the tail.
LEMMA EndStep == HistoryInv /\ [HistoryNext]_historyVars => EndInv'
<1>. SUFFICES ASSUME HistoryInv, [HistoryNext]_historyVars PROVE EndInv'
  OBVIOUS
<1>0. HistoryTypeOK /\ ForwardInv /\ EndInv
  BY DEF HistoryInv
<1>1. CASE Evaluate /\ NewestClosed(now) = plan.requested
  <2>1. /\ phase = "evaluate" /\ phase' = "done" /\ archive' = archive /\ plan' = plan
        /\ verdict'.start = verdict.start /\ verdict'.at = now
        /\ verdict'.complete = (CurrentEnd(plan, found, now) /\ Seam(plan))
    BY <1>1, <1>0 DEF Evaluate, HistoryTypeOK
  <2>2. ASSUME CurrentEnd(plan, found, now), Seam(plan),
               NEW b \in plan.anchor..NewestClosed(now)
        PROVE  b \in archive
    <3>1. /\ found = plan.from..plan.requested /\ plan.from <= plan.end + 1
          /\ plan.anchor \in Int /\ plan.from \in Int /\ plan.end \in Int /\ plan.requested \in Int
      BY <2>2, <1>0 DEF CurrentEnd, Seam, HistoryTypeOK
    <3>2. b \in Int /\ plan.anchor <= b /\ b <= plan.requested
      BY <1>1, <3>1
    <3>3. CASE b <= plan.end
      BY <3>2, <3>3, <2>1, <1>0 DEF ForwardInv
    <3>4. CASE plan.end + 1 <= b
      BY <3>1, <3>2, <3>4, <2>1, <1>0 DEF ForwardInv
    <3>. QED
      BY <3>1, <3>2, <3>3, <3>4
  <2>. QED
    BY <2>1, <2>2, <1>0 DEF EndInv, LifetimeWhole, ForwardInv, NewestClosed
<1>2. CASE Evaluate /\ NewestClosed(now) # plan.requested
  <2>1. phase = "evaluate" /\ verdict' = verdict
    BY <1>2 DEF Evaluate
  <2>. QED
    BY <2>1, <1>0 DEF EndInv, LifetimeWhole
<1>3. CASE \/ BeginLifetime \/ PreWindow \/ CrossingWindow \/ PostWindow \/ RepeatWindow
           \/ BeginForward \/ ForwardWindow \/ ForwardDone \/ Aim \/ ReadTail
           \/ BeginSweep \/ SweepWindow \/ SweepDone \/ Unusable
  <2>1. phase # "done"
    BY <1>3 DEF BeginLifetime, PreWindow, CrossingWindow, PostWindow, RepeatWindow,
       BeginForward, ForwardWindow, ForwardDone, Aim, ReadTail, BeginSweep, SweepWindow,
       SweepDone, Unusable
  <2>2. verdict'.complete = verdict.complete
    BY <1>3, <1>0 DEF BeginLifetime, PreWindow, CrossingWindow, PostWindow, RepeatWindow,
       BeginForward, ForwardWindow, ForwardDone, Aim, ReadTail, BeginSweep, SweepWindow,
       SweepDone, Unusable, HistoryTypeOK
  <2>. QED
    BY <2>1, <2>2, <1>0 DEF EndInv, LifetimeWhole
<1>4. CASE Tick \/ Publish \/ UNCHANGED historyVars
  <2>1. UNCHANGED asked /\ archive \subseteq archive'
    BY <1>4 DEF Tick, Publish, historyVars
  <2>. QED
    BY <2>1, <1>0 DEF asked, EndInv, LifetimeWhole, NewestClosed
<1>. QED
  BY <1>1, <1>2, <1>3, <1>4 DEF HistoryNext, Lifetime, Discovery, Provider

\* A window of the sweep has its two ends, so nothing falls between two of them.
LEMMA SweepStep == HistoryInv /\ [HistoryNext]_historyVars => SweepInv'
<1>. SUFFICES ASSUME HistoryInv, [HistoryNext]_historyVars PROVE SweepInv'
  OBVIOUS
<1>. USE HistoryAssumption
<1>0. HistoryTypeOK /\ SweepInv /\ known \subseteq archive
  BY DEF HistoryInv
<1>1. CASE BeginSweep
  <2>1. PICK floor \in 1..now, top \in 1..now, w \in Widths :
          /\ floor < top
          /\ plan' = [plan EXCEPT !.floor = floor, !.top = top, !.width = w]
          /\ cursor' = top
          /\ known' = Within(floor, top)
    BY <1>1 DEF BeginSweep
  <2>2. plan'.floor = floor /\ plan'.top = top /\ plan'.width = w
    BY <2>1, <1>0 DEF HistoryTypeOK
  <2>3. floor \in Int /\ top \in Int /\ w > 0
    BY <2>1, <1>0 DEF HistoryTypeOK
  <2>4. phase = "idle" /\ phase' = "sweep" /\ verdict' = verdict
    BY <1>1 DEF BeginSweep
  <2>. QED
    BY <2>1, <2>2, <2>3, <2>4, <1>0 DEF SweepInv, SweepWhole, Within
<1>2. CASE SweepWindow
  <2>1. PICK rows \in SUBSET Within(WindowStart, cursor) :
          /\ Answers(WindowStart, cursor, rows)
          /\ found' = found \cup rows
    BY <1>2 DEF SweepWindow
  <2>2. /\ phase = "sweep" /\ phase' = "sweep" /\ plan' = plan /\ verdict' = verdict
        /\ known' = known /\ cursor' = WindowStart /\ cursor > plan.floor
    BY <1>2 DEF SweepWindow, NextCursor
  <2>3. /\ plan.floor \in Int /\ plan.top \in Int /\ plan.width \in Nat /\ cursor \in Int
        /\ plan.width > 0 /\ cursor <= plan.top
    BY <2>2, <1>0 DEF HistoryTypeOK, SweepInv
  <2>4. WindowStart \in Int /\ WindowStart < cursor
    BY <2>2, <2>3 DEF WindowStart
  <2>5. ASSUME hides' = 0, NEW b \in known, WindowStart <= b * Interval
        PROVE  b \in found'
    <3>1. hides = 0 /\ rows = Within(WindowStart, cursor)
      BY <2>1, <2>5, <1>0, AnswerType DEF HistoryTypeOK
    <3>2. b \in Int /\ b \in archive /\ b * Interval \in Int /\ b * Interval <= plan.top
      BY <2>2, <1>0 DEF HistoryTypeOK, SweepInv
    <3>3. CASE b * Interval <= cursor
      BY <3>1, <3>2, <3>3, <2>1, <2>5 DEF Within
    <3>4. CASE cursor < b * Interval
      BY <3>1, <3>2, <3>4, <2>1, <2>2, <2>3, <1>0 DEF SweepInv
    <3>. QED
      BY <3>2, <3>3, <3>4, <2>3
  <2>6. WindowStart <= plan.top
    BY <2>3, <2>4
  <2>. QED
    BY <2>2, <2>5, <2>6, <1>0 DEF SweepInv, SweepWhole
<1>3. CASE SweepDone
  <2>1. /\ phase = "sweep" /\ phase' = "done" /\ known' = known /\ found' = found /\ hides' = hides
        /\ verdict'.swept = (cursor <= plan.floor)
    BY <1>3, <1>0 DEF SweepDone, HistoryTypeOK
  <2>2. ASSUME cursor <= plan.floor, hides = 0, NEW b \in known PROVE b \in found
    <3>1. /\ plan.floor < plan.top /\ plan.floor <= b * Interval
          /\ cursor \in Int /\ plan.floor \in Int /\ plan.top \in Int /\ b \in Int
      BY <2>1, <1>0 DEF SweepInv, HistoryTypeOK
    <3>2. b * Interval \in Int
      BY <3>1
    <3>3. cursor < plan.top /\ cursor <= b * Interval
      BY <3>1, <3>2, <2>2
    <3>. QED
      BY <3>3, <2>1, <2>2, <1>0 DEF SweepInv
  <2>. QED
    BY <2>1, <2>2 DEF SweepInv, SweepWhole
<1>4. CASE \/ BeginLifetime \/ PreWindow \/ CrossingWindow \/ PostWindow \/ RepeatWindow
           \/ BeginForward \/ ForwardWindow \/ ForwardDone \/ Aim \/ ReadTail \/ Evaluate
           \/ Unusable
  <2>1. phase # "done" /\ phase' # "sweep"
    BY <1>4 DEF BeginLifetime, PreWindow, CrossingWindow, PostWindow, RepeatWindow,
       BeginForward, ForwardWindow, ForwardDone, Aim, ReadTail, Evaluate, Unusable
  <2>2. verdict'.swept = verdict.swept
    BY <1>4, <1>0 DEF BeginLifetime, PreWindow, CrossingWindow, PostWindow, RepeatWindow,
       BeginForward, ForwardWindow, ForwardDone, Aim, ReadTail, Evaluate, Unusable, HistoryTypeOK
  <2>. QED
    BY <2>1, <2>2, <1>0 DEF SweepInv, SweepWhole
<1>5. CASE Tick \/ Publish \/ UNCHANGED historyVars
  <2>1. UNCHANGED asked
    BY <1>5 DEF Tick, Publish, historyVars
  <2>. QED
    BY <2>1, <1>0 DEF asked, SweepInv, SweepWhole
<1>. QED
  BY <1>1, <1>2, <1>3, <1>4, <1>5 DEF HistoryNext, Lifetime, Discovery, Provider

-----------------------------------------------------------------------------
(* The theorems.                                                             *)

\* What the decisions of the scans rely on, at every step of both jobs.
THEOREM HistoryInvariance == HistorySpec => []HistoryInv
<1>1. HistoryInv /\ [HistoryNext]_historyVars => HistoryInv'
  <2>1. HistoryInv /\ [HistoryNext]_historyVars => HistoryTypeOK'
    BY TypeStep DEF HistoryInv
  <2>. QED
    BY <2>1, KnownStep, StartStep, ForwardStep, EndStep, SweepStep DEF HistoryInv
<1>. QED
  BY <1>1, HistoryInitInv, PTL DEF HistorySpec

\* A verified archive start has nothing before it, unless three of the four windows
\* hid it (evaluate_xdex_archive_start_exhaustion).
THEOREM StartCorrect == HistorySpec => []StartExact
<1>1. HistoryInv => StartExact
  BY DEF HistoryInv, StartInv, StartExact, HistoryTypeOK
<1>. QED
  BY <1>1, HistoryInvariance, PTL

\* A complete lifetime leaves out no bar up to the newest closed one
\* (evaluate_xdex_supported_lifetime_range).
THEOREM LifetimeCorrect == HistorySpec => []LifetimeWhole
<1>1. HistoryInv => LifetimeWhole
  BY DEF HistoryInv, EndInv
<1>. QED
  BY <1>1, HistoryInvariance, PTL

\* A complete sweep has found whatever was there (discover_xdex_price_history_range).
THEOREM SweepCorrect == HistorySpec => []SweepWhole
<1>1. HistoryInv => SweepWhole
  BY DEF HistoryInv, SweepInv
<1>. QED
  BY <1>1, HistoryInvariance, PTL

-----------------------------------------------------------------------------
(***************************************************************************)
(* MarketFreshness.                                                        *)
(***************************************************************************)

-----------------------------------------------------------------------------
(* The invariant.                                                          *)

\* Nothing happened in a slot that is still to come.
ChainInv ==
    /\ ledger \in Seq(Entry) /\ Len(ledger) <= MaxLedger
    /\ slot \in Slot /\ ended \in Slot /\ ended <= slot
    /\ \A k \in DOMAIN ledger : ledger[k].slot <= slot

\* The market has its pools from the start.
ScopeInv == market \subseteq Pool

\* The reserves of a pool after some of the transactions so far.
Once(p, pair) ==
    \E n \in DOMAIN ledger \cup {0} : pair = <<Balance(p, 1, n), Balance(p, 2, n)>>

\* A pool of the market has a row of one instant or it failed.
SnapInv ==
    /\ DOMAIN snap = {"before", "row", "rpc", "failed"}
    /\ step \in {"vaults", "assess"} => market \subseteq DOMAIN snap.row \cup snap.failed
    /\ \A p \in DOMAIN snap.row : Once(p, snap.row[p])
    /\ claims # {} => step = "identify"

\* The trades of a pool in the window: those of complete slots, and, after the
\* second it begins with, those of slots that were complete when it was closed.
TradesOf(p) ==
    {k \in DOMAIN ledger : /\ ledger[k].pool = p
                           /\ ledger[k].does \in {"swap", "unclear"}
                           /\ InWindow(k)}
Past(p) == {k \in TradesOf(p) : ledger[k].slot < slot}
Closed(p) == {k \in AfterStart(TradesOf(p)) : ledger[k].slot < ended}

\* A reconstruction counts nothing but trades of its pool, and all of them when it
\* says so.
Honest(w) ==
    \A p \in DOMAIN w :
        /\ w[p].swaps \subseteq Past(p)
        /\ w[p].ok => Closed(p) \subseteq w[p].swaps

\* Whatever was valued has a rate and is in the interval of the parity.
Worth(w) ==
    \A p \in DOMAIN w :
        w[p].valued => \A s \in w[p].swaps : Priced(s) /\ oldest <= Time(s)

\* No swap is valued before there is a context.
Unvalued(w) == \A p \in DOMAIN w : w[p].valued => w[p].swaps = {}

WindowInv ==
    /\ step \in {"scope", "before", "rows", "vaults", "assess", "identify"} =>
          DOMAIN windows = {}
    /\ step \notin {"values", "rolling", "done"} => DOMAIN again = {}
    /\ step \in {"windows", "values"} => Unvalued(windows)
    /\ step \in {"values", "rolling"} => DOMAIN windows = market
    /\ step # "done" => result = {}
    /\ Honest(windows) /\ Honest(again)
    /\ Worth(windows) /\ Worth(again)

Inv ==
    /\ ChainInv /\ ScopeInv /\ SnapInv /\ WindowInv
    /\ LiquidityOfOneInstant /\ ActivityExact /\ PricedAtTrade

-----------------------------------------------------------------------------
(* The chain.                                                              *)

\* Slots are numbers and their times never decrease.
LEMMA ClockType ==
    /\ Slot = 1..Len(SlotTime) /\ Len(SlotTime) \in Nat
    /\ \A s \in Slot : SlotTime[s] \in Nat
    /\ \A s, t \in Slot : s <= t => SlotTime[s] <= SlotTime[t]
    /\ Window \in Nat /\ Lookback \in Nat /\ MaxLedger \in Nat
  BY MarketAssumption DEF Slot

LEMMA LedgerType ==
    ASSUME ChainInv
    PROVE  /\ Len(ledger) \in Nat /\ DOMAIN ledger = 1..Len(ledger)
           /\ \A k \in DOMAIN ledger : ledger[k].slot \in Slot /\ ledger[k].pool \in Pool
<1>1. \A k \in DOMAIN ledger : ledger[k] \in Entry
  BY DEF ChainInv
<1>2. \A e \in Entry : e.slot \in Slot /\ e.pool \in Pool
  BY DEF Entry
<1>. QED
  BY <1>1, <1>2 DEF ChainInv

\* What has happened stays, and what is new is of the current slot.
LEMMA ChainStep ==
    ASSUME ChainInv, Chain
    PROVE  /\ ChainInv'
           /\ DOMAIN ledger \subseteq DOMAIN ledger'
           /\ \A k \in DOMAIN ledger : ledger'[k] = ledger[k]
           /\ \A k \in DOMAIN ledger' : k \notin DOMAIN ledger => ledger'[k].slot = slot
           /\ slot <= slot' /\ ended' = ended
<1>1. /\ Slot \in SUBSET Nat /\ slot \in Slot /\ ended \in Slot /\ ended <= slot
      /\ Slot = 1..Len(SlotTime) /\ Len(SlotTime) \in Nat
      /\ Len(ledger) \in Nat /\ MaxLedger \in Nat
  BY ClockType, LedgerType DEF ChainInv
<1>2. ended' = ended
  BY DEF Chain, activityVars
<1>3. CASE Transact
  <2>1. PICK p \in Pool, does \in DOMAIN Effect :
           ledger' = Append(ledger, [pool |-> p, does |-> does, slot |-> slot])
    BY <1>3 DEF Transact
  <2>. DEFINE e == [pool |-> p, does |-> does, slot |-> slot]
  <2>2. e \in Entry /\ e.slot = slot
    BY <1>1 DEF Entry
  <2>3. slot' = slot /\ Len(ledger) < MaxLedger
    BY <1>3 DEF Transact
  <2>. HIDE DEF e
  <2>4. ledger' = Append(ledger, e) /\ ledger \in Seq(Entry)
    BY <2>1 DEF e, ChainInv
  <2>5. /\ ledger' \in Seq(Entry) /\ Len(ledger') = Len(ledger) + 1
        /\ DOMAIN ledger' = 1..(Len(ledger) + 1) /\ DOMAIN ledger = 1..Len(ledger)
        /\ \A k \in 1..Len(ledger) : ledger'[k] = ledger[k]
        /\ ledger'[Len(ledger) + 1] = e
    BY <2>2, <2>4
  <2>6. \A k \in DOMAIN ledger' : k \notin DOMAIN ledger => ledger'[k].slot = slot
    BY <2>2, <2>5, <1>1
  <2>7. \A k \in DOMAIN ledger' : ledger'[k].slot <= slot'
    BY <2>3, <2>5, <2>6, <1>1 DEF ChainInv
  <2>8. ChainInv'
    BY <2>3, <2>5, <2>7, <1>1, <1>2 DEF ChainInv, Slot
  <2>. QED
    BY <2>3, <2>5, <2>6, <2>8, <1>1, <1>2
<1>4. CASE NextSlot
  <2>1. slot < Len(SlotTime) /\ slot' = slot + 1 /\ ledger' = ledger
    BY <1>4 DEF NextSlot
  <2>2. slot' \in Slot /\ slot <= slot'
    BY <2>1, <1>1
  <2>3. \A k \in DOMAIN ledger : ledger[k].slot <= slot'
    BY <2>1, <1>1, LedgerType DEF ChainInv
  <2>4. ChainInv'
    BY <2>1, <2>2, <2>3, <1>1, <1>2 DEF ChainInv, Slot
  <2>. QED
    BY <2>1, <2>2, <2>4, <1>2
<1>. QED
  BY <1>3, <1>4 DEF Chain

\* A reading shows some of the transactions so far.
LEMMA VisibleType ==
    ASSUME ChainInv
    PROVE  Visible \in Nat /\ Visible <= Len(ledger)
<1>1. Len(ledger) \in Nat /\ DOMAIN ledger = 1..Len(ledger)
  BY LedgerType
<1>2. IsFiniteSet(1..Len(ledger)) /\ Cardinality(1..Len(ledger)) = Len(ledger)
  <2>1. PICK n \in Nat : n = Len(ledger)
    BY <1>1
  <2>2. /\ IsFiniteSet(1..n)
        /\ Cardinality(1..n) = IF 1 > n THEN 0 ELSE n - 1 + 1
    BY FS_Interval
  <2>. QED
    BY <2>1, <2>2
<1>3. Complete \in SUBSET (1..Len(ledger))
  BY <1>1 DEF Complete
<1>4. IsFiniteSet(Complete) /\ Cardinality(Complete) <= Len(ledger)
  BY <1>2, <1>3, FS_Subset
<1>. QED
  BY <1>4, FS_CardinalityType DEF Visible

\* Reserves of the past do not change.
LEMMA OnceStep ==
    ASSUME ChainInv, Chain, NEW p, NEW pair, Once(p, pair)
    PROVE  Once(p, pair)'
<1>1. PICK n \in DOMAIN ledger \cup {0} : pair = <<Balance(p, 1, n), Balance(p, 2, n)>>
  BY DEF Once
<1>2. /\ DOMAIN ledger = 1..Len(ledger) /\ Len(ledger) \in Nat
      /\ DOMAIN ledger \subseteq DOMAIN ledger'
      /\ \A k \in DOMAIN ledger : ledger'[k] = ledger[k]
  BY LedgerType, ChainStep
<1>3. \A k \in 1..n : ledger'[k] = ledger[k]
  BY <1>1, <1>2
<1>. DEFINE moves == {k \in 1..n : ledger[k].pool = p}
<1>4. {k \in 1..n : ledger'[k].pool = p} = moves
  BY <1>3
<1>5. ASSUME NEW i
      PROVE  [k \in moves |-> Effect[ledger'[k].does][i]] = [k \in moves |-> Effect[ledger[k].does][i]]
  BY <1>3
<1>6. \A i : Balance(p, i, n)' = Balance(p, i, n)
  BY <1>4, <1>5 DEF Balance
<1>. QED
  BY <1>1, <1>2, <1>6 DEF Once

\* Trades of slots that were complete are the same ones later, trades so far are
\* trades still.
LEMMA TradesStep ==
    ASSUME ChainInv, Chain, NEW p
    PROVE  /\ Closed(p)' = Closed(p)
           /\ Past(p) \subseteq Past(p)'
<1>1. /\ DOMAIN ledger \subseteq DOMAIN ledger'
      /\ \A k \in DOMAIN ledger : ledger'[k] = ledger[k]
      /\ \A k \in DOMAIN ledger' : k \notin DOMAIN ledger => ledger'[k].slot = slot
      /\ slot <= slot' /\ ended' = ended
  BY ChainStep
<1>2. /\ slot \in Nat /\ slot' \in Nat /\ ended \in Nat /\ ended <= slot
      /\ \A k \in DOMAIN ledger : ledger[k].slot \in Nat
  BY ChainStep, ClockType, LedgerType DEF ChainInv
<1>3. /\ \A k \in DOMAIN ledger : InWindow(k)' <=> InWindow(k)
      /\ \A k \in DOMAIN ledger : Time(k)' = Time(k) /\ End' = End
  BY <1>1 DEF InWindow, End, Time
<1>4. Closed(p)' \subseteq Closed(p)
  <2>1. ASSUME NEW k \in Closed(p)' PROVE k \in DOMAIN ledger
    BY <2>1, <1>1, <1>2 DEF TradesOf, Past, Closed, AfterStart
  <2>. QED
    BY <2>1, <1>1, <1>3 DEF TradesOf, Past, Closed, AfterStart
<1>5. Closed(p) \subseteq Closed(p)'
  BY <1>1, <1>3 DEF TradesOf, Past, Closed, AfterStart
<1>6. Past(p) \subseteq Past(p)'
  BY <1>1, <1>2, <1>3 DEF TradesOf, Past, Closed, AfterStart
<1>. QED
  BY <1>4, <1>5, <1>6

\* A transaction that was eligible remains so.
LEMMA PricedStep ==
    ASSUME ChainInv, Chain, NEW s \in DOMAIN ledger
    PROVE  Time(s)' = Time(s) /\ (Priced(s) => Priced(s)')
<1>1. /\ DOMAIN ledger \subseteq DOMAIN ledger'
      /\ \A k \in DOMAIN ledger : ledger'[k] = ledger[k]
      /\ slot <= slot'
  BY ChainStep
<1>2. /\ slot \in Nat /\ slot' \in Nat
      /\ \A k \in DOMAIN ledger : ledger[k].slot \in Nat
  BY ChainStep, ClockType, LedgerType DEF ChainInv
<1>3. \A k \in DOMAIN ledger : Time(k)' = Time(k)
  BY <1>1 DEF Time
<1>4. \A k \in Complete : k \in Complete'
  BY <1>1, <1>2 DEF Complete
<1>5. \A i : Eligible(i, s) \subseteq Eligible(i, s)'
  BY <1>1, <1>3, <1>4 DEF Eligible, VaultTransaction, Complete
<1>. QED
  BY <1>3, <1>5 DEF Priced

\* What the chain does leaves reconstructions honest and values worth what they were.
LEMMA WindowsStep ==
    ASSUME ChainInv, Chain, NEW w, Honest(w), Worth(w)
    PROVE  Honest(w)' /\ Worth(w)'
<1>1. oldest' = oldest
  BY DEF Chain, activityVars
<1>2. \A p \in DOMAIN w : \A s \in w[p].swaps : s \in DOMAIN ledger
  BY DEF Honest, TradesOf, Past, Closed, AfterStart
<1>3. Honest(w)'
  BY TradesStep DEF Honest
<1>4. Worth(w)'
  BY <1>1, <1>2, PricedStep DEF Worth
<1>. QED
  BY <1>3, <1>4

-----------------------------------------------------------------------------
(* Reconstructions and anchors.                                            *)

\* What a reconstruction may claim.
LEMMA Reconstructed ==
    ASSUME ChainInv, NEW p, NEW valuing, NEW w, Reconstructs(p, valuing, w)
    PROVE  /\ w.swaps \subseteq Past(p)
           /\ w.ok => Closed(p) \subseteq w.swaps
           /\ w.valued => \A s \in w.swaps : Priced(s) /\ oldest <= Time(s)
           /\ w.valued /\ ~valuing => w.swaps = {}
<1>1. PICK rows \in SUBSET History(p) :
          /\ w.swaps = Swaps(rows)
          /\ w.ok => Whole(p, rows)
          /\ w.valued => (w.swaps # {} => valuing /\ \A s \in w.swaps : Valuable(p, s))
  BY DEF Reconstructs
<1>2. w.swaps \subseteq Past(p)
  BY <1>1 DEF Swaps, History, Complete, TradesOf, Past, Closed, AfterStart
<1>3. ASSUME w.ok PROVE Closed(p) \subseteq w.swaps
  <2>1. /\ \A k \in History(p) : Time(k) > End - Window => k \in rows
        /\ \A k \in rows : ledger[k].does # "unclear"
    BY <1>1, <1>3 DEF Whole, Fetched, Reached
  <2>2. /\ slot \in Nat /\ ended \in Nat /\ ended <= slot
        /\ \A k \in DOMAIN ledger : ledger[k].slot \in Nat
    BY ClockType, LedgerType DEF ChainInv
  <2>3. Closed(p) \subseteq History(p) /\ \A k \in Closed(p) : Time(k) > End - Window
    BY <2>2 DEF TradesOf, Past, Closed, AfterStart, History, Complete
  <2>4. Closed(p) \subseteq rows
    BY <2>1, <2>3
  <2>. QED
    BY <2>1, <2>4, <1>1 DEF Swaps, TradesOf, Past, Closed, AfterStart
<1>4. w.valued => \A s \in w.swaps : Priced(s) /\ oldest <= Time(s)
  BY <1>1 DEF Valuable
<1>. QED
  BY <1>1, <1>2, <1>3, <1>4

\* One of the eligible transactions sorts after all the others, and no scan that
\* got to its start puts one of an earlier slot first.
LEMMA AnchorExists ==
    ASSUME ChainInv, NEW i, NEW s, Eligible(i, s) # {}
    PROVE  /\ Anchors(i, s) # {}
           /\ \A a \in Anchors(i, s), j \in Eligible(i, s) : ledger[j].slot <= ledger[a].slot
<1>. DEFINE E == Eligible(i, s)
<1>1. /\ Len(ledger) \in Nat /\ DOMAIN ledger = 1..Len(ledger) /\ Len(ledger) <= MaxLedger
      /\ MaxLedger \in Nat
      /\ \A k \in DOMAIN ledger : ledger[k].slot \in Nat
  BY ClockType, LedgerType DEF ChainInv
<1>2. E \in SUBSET DOMAIN ledger
  BY DEF Eligible, Complete
<1>3. IsFiniteSet(DOMAIN ledger)
  <2>1. IsFiniteSet(1..Len(ledger))
    BY <1>1, FS_Interval
  <2>. QED
    BY <2>1, <1>1
<1>. HIDE DEF E
<1>4. IsFiniteSet(E) /\ E # {}
  BY <1>2, <1>3, FS_Subset DEF E
<1>5. PICK top \in E : \A j \in E : ledger[j].slot <= ledger[top].slot
  <2>. DEFINE f == [k \in DOMAIN ledger |-> ledger[k].slot]
  <2>1. \A k \in E : f[k] = ledger[k].slot /\ f[k] \in Int
    BY <1>1, <1>2
  <2>. HIDE DEF f
  <2>2. \E k \in E : \A j \in E : f[j] <= f[k]
    BY <2>1, <1>4, GreatestMeasure
  <2>. QED
    BY <2>1, <2>2
<1>. DEFINE F == {k \in E : ledger[k].slot = ledger[top].slot}
<1>6. IsFiniteSet(F) /\ F # {}
  BY <1>4, <1>5, FS_Subset
<1>7. \A k \in F : Rank[k] \in Int
  BY <1>1, <1>2, MarketAssumption
<1>8. \A j, k \in F : Rank[j] = Rank[k] => j = k
  <2>1. \A k \in F : k \in 1..MaxLedger
    BY <1>1, <1>2
  <2>. QED
    BY <2>1, MarketAssumption
<1>9. PICK best \in F : \A j \in F : Rank[j] <= Rank[best]
  <2>. HIDE DEF F
  <2>. QED
    BY <1>6, <1>7, GreatestMeasure
<1>10. best \in E /\ \A j \in E \ {best} : Later(best, j)
  <2>1. best \in E /\ ledger[best].slot = ledger[top].slot
    BY <1>9
  <2>2. ASSUME NEW j \in E \ {best} PROVE Later(best, j)
    <3>1. CASE j \in F
      <4>1. Rank[j] <= Rank[best] /\ Rank[j] # Rank[best]
        BY <3>1, <1>8, <1>9
      <4>2. Rank[j] \in Int /\ Rank[best] \in Int
        BY <3>1, <1>7, <1>9
      <4>. QED
        BY <3>1, <4>1, <4>2, <2>1 DEF Later
    <3>2. CASE j \notin F
      <4>1. /\ ledger[j].slot # ledger[top].slot /\ ledger[j].slot <= ledger[top].slot
            /\ ledger[j].slot \in Nat /\ ledger[top].slot \in Nat
        BY <3>2, <1>1, <1>2, <1>5
      <4>. QED
        BY <4>1, <2>1 DEF Later
    <3>. QED
      BY <3>1, <3>2
  <2>. QED
    BY <2>1, <2>2
<1>. HIDE DEF F
<1>11. best \in Anchors(i, s)
  <2>1. Reached(E, E, Time(s) - Lookback)
    BY DEF Reached
  <2>. QED
    BY <1>10, <2>1 DEF Anchors, E
<1>12. ASSUME NEW a \in Anchors(i, s), NEW j \in E PROVE ledger[j].slot <= ledger[a].slot
  <2>1. PICK rows \in SUBSET E :
            /\ Reached(rows, E, Time(s) - Lookback)
            /\ a \in rows /\ \A k \in rows \ {a} : Later(a, k)
    BY <1>12 DEF Anchors, E
  <2>2. ledger[j].slot \in Nat /\ ledger[a].slot \in Nat
    BY <1>1, <1>2, <2>1
  <2>3. CASE j \in rows
    BY <2>1, <2>2, <2>3 DEF Later
  <2>4. CASE j \notin rows
    BY <2>1, <2>2, <2>4 DEF Reached
  <2>. QED
    BY <2>3, <2>4
<1>. QED
  BY <1>11, <1>12 DEF E

\* An anchor of a priced swap: no slot between it and the swap had a transaction.
Anchored(i, s) ==
    /\ Anchors(i, s) # {}
    /\ \A a \in Anchors(i, s) :
          /\ ledger[a].slot <= ledger[s].slot
          /\ \A k \in DOMAIN ledger :
                VaultTransaction(i, k) /\ ledger[k].slot <= ledger[s].slot =>
                    ledger[k].slot <= ledger[a].slot

LEMMA AnchorLatestSlot ==
    ASSUME ChainInv, NEW s \in DOMAIN ledger, ledger[s].slot < slot,
           NEW i \in 1..2, Priced(s)
    PROVE  Anchored(i, s)
<1>0. Anchors(i, s) # {}
  BY AnchorExists DEF Priced
<1>. SUFFICES ASSUME NEW a \in Anchors(i, s)
              PROVE  /\ ledger[a].slot <= ledger[s].slot
                     /\ \A k \in DOMAIN ledger :
                           VaultTransaction(i, k) /\ ledger[k].slot <= ledger[s].slot =>
                               ledger[k].slot <= ledger[a].slot
  BY <1>0 DEF Anchored
<1>1. a \in Eligible(i, s) /\ \A j \in Eligible(i, s) : ledger[j].slot <= ledger[a].slot
  BY AnchorExists DEF Priced, Anchors
<1>2. /\ \A k \in DOMAIN ledger : ledger[k].slot \in Nat /\ Time(k) \in Nat
      /\ \A j, k \in DOMAIN ledger : ledger[j].slot <= ledger[k].slot => Time(j) <= Time(k)
      /\ slot \in Nat
  BY SMTT(30), ClockType, LedgerType DEF ChainInv, Time
<1>3. /\ a \in DOMAIN ledger
      /\ Time(a) < Time(s) \/ ledger[a].slot <= ledger[s].slot
  BY <1>1 DEF Eligible, Complete
<1>4. ledger[a].slot <= ledger[s].slot
  BY <1>2, <1>3
<1>5. ASSUME NEW k \in DOMAIN ledger, VaultTransaction(i, k),
             ledger[k].slot <= ledger[s].slot
      PROVE  ledger[k].slot <= ledger[a].slot
  <2>1. k \in Complete /\ Time(k) <= Time(s)
    BY <1>2, <1>5 DEF Complete
  <2>2. k \in Eligible(i, s)
    BY <2>1, <1>2, <1>5 DEF Eligible
  <2>. QED
    BY <2>2, <1>1
<1>. QED
  BY <1>4, <1>5

\* Where the chain stands still, so do the anchors.
LEMMA AnchoredKept ==
    ASSUME UNCHANGED <<ledger, slot>>, NEW i, NEW s
    PROVE  Anchored(i, s)' <=> Anchored(i, s)
<1>1. Eligible(i, s)' = Eligible(i, s)
  BY DEF Eligible, Complete, VaultTransaction, Time
<1>2. \A rows, all, start : Reached(rows, all, start)' <=> Reached(rows, all, start)
  BY DEF Reached, Time
<1>3. \A j, k : Later(j, k)' <=> Later(j, k)
  BY DEF Later
<1>4. Time(s)' = Time(s)
  BY DEF Time
<1>5. Anchors(i, s)' = Anchors(i, s)
  BY <1>1, <1>2, <1>3, <1>4 DEF Anchors
<1>6. \A k : VaultTransaction(i, k)' <=> VaultTransaction(i, k)
  BY DEF VaultTransaction
<1>. QED
  BY <1>5, <1>6 DEF Anchored

-----------------------------------------------------------------------------
(* The steps.                                                              *)

LEMMA InitInv == Init => Inv
<1>. SUFFICES ASSUME Init PROVE Inv
  OBVIOUS
<1>1. ChainInv
  BY ClockType, MarketAssumption DEF Init, ChainInv, Slot
<1>2. /\ DOMAIN windows = {} /\ DOMAIN again = {} /\ DOMAIN snap.row = {}
      /\ DOMAIN snap = {"before", "row", "rpc", "failed"}
  BY DEF Init, NoSnap
<1>3. SnapInv
  BY <1>2 DEF Init, SnapInv
<1>4. WindowInv
  BY <1>2 DEF Init, WindowInv, Honest, Worth, Unvalued
<1>5. LiquidityOfOneInstant /\ ActivityExact /\ PricedAtTrade
  BY DEF Init, LiquidityOfOneInstant, ActivityExact, PricedAtTrade
<1>. QED
  BY <1>1, <1>3, <1>4, <1>5 DEF Inv, ScopeInv, Init

\* The chain goes on.
LEMMA ChainKeeps == Inv /\ Chain => Inv'
<1>. SUFFICES ASSUME Inv, Chain PROVE Inv'
  OBVIOUS
<1>1. /\ step # "done" /\ UNCHANGED <<step, market, snap, claims>>
      /\ UNCHANGED <<ended, windows, again, oldest, result>>
  BY DEF Chain, liquidityVars, activityVars
<1>2. ChainInv'
  BY ChainStep DEF Inv
<1>3. SnapInv'
  <2>1. \A p \in DOMAIN snap.row : Once(p, snap.row[p])'
    BY <1>1, OnceStep DEF Inv, SnapInv
  <2>. QED
    BY <2>1, <1>1 DEF Inv, SnapInv, Once, Balance
<1>4. Honest(windows)' /\ Worth(windows)'
  <2>1. PICK w : w = windows
    OBVIOUS
  <2>2. Honest(w)' /\ Worth(w)'
    BY <2>1, WindowsStep DEF Inv, WindowInv
  <2>3. windows' = w
    BY <2>1, <1>1
  <2>. QED
    BY <2>2, <2>3 DEF Honest, Worth
<1>5. Honest(again)' /\ Worth(again)'
  <2>1. PICK w : w = again
    OBVIOUS
  <2>2. Honest(w)' /\ Worth(w)'
    BY <2>1, WindowsStep DEF Inv, WindowInv
  <2>3. again' = w
    BY <2>1, <1>1
  <2>. QED
    BY <2>2, <2>3 DEF Honest, Worth
<1>6. WindowInv'
  BY <1>1, <1>4, <1>5 DEF Inv, WindowInv, Unvalued
<1>7. result' = {}
  BY <1>1 DEF Inv, WindowInv
<1>8. LiquidityOfOneInstant'
  BY <1>1, OnceStep DEF Inv, LiquidityOfOneInstant, Once
<1>9. ActivityExact' /\ PricedAtTrade'
  BY <1>7 DEF ActivityExact, PricedAtTrade
<1>. QED
  BY <1>1, <1>2, <1>3, <1>6, <1>8, <1>9 DEF Inv, ScopeInv
\* The first half: nothing is known of the windows yet.
LEMMA LiquidityKeeps ==
    Inv /\ (Scope \/ Before \/ Rows \/ After \/ Assess
              \/ \E p \in Pool : ReadVault(p) \/ PoolFails(p)) => Inv'
<1>. SUFFICES ASSUME Inv, \/ Scope \/ Before \/ Rows \/ After \/ Assess
                         \/ \E p \in Pool : ReadVault(p) \/ PoolFails(p)
              PROVE  Inv'
  OBVIOUS
<1>. DEFINE Foremost == {"scope", "before", "rows", "vaults", "assess", "identify"}
<1>1. /\ UNCHANGED <<ledger, slot, market, ended, windows, again, oldest, result>>
      /\ step \in Foremost \ {"identify"} /\ step' \in Foremost \cup {"done"}
  BY DEF Scope, Before, Rows, After, Assess, ReadVault, PoolFails, chainVars,
         liquidityVars, activityVars
<1>2. ChainInv'
  BY <1>1 DEF Inv, ChainInv
<1>3. /\ result' = {} /\ claims = {}
      /\ DOMAIN windows = {} /\ DOMAIN again = {}
  BY <1>1 DEF Inv, WindowInv, SnapInv
<1>4. WindowInv'
  BY <1>1, <1>3 DEF WindowInv, Honest, Worth, Unvalued
<1>5. \A p, pair : Once(p, pair)' <=> Once(p, pair)
  BY <1>1 DEF Once, Balance
<1>6. SnapInv'
  <2>1. CASE Scope
    BY <2>1, <1>3, <1>5 DEF Scope, Inv, SnapInv, liquidityVars
  <2>2. CASE Before
    BY <2>2, <1>3, <1>5 DEF Before, Inv, SnapInv
  <2>3. CASE Rows
    <3>1. PICK named \in SUBSET Requested : \E synced \in [named -> 0..Visible] :
             snap' = [snap EXCEPT
                !.row = [p \in named |-> <<Balance(p, 1, synced[p]), Balance(p, 2, synced[p])>>],
                !.rpc = [p \in named |-> <<>>],
                !.failed = Requested \ named]
      BY <2>3 DEF Rows
    <3>2. PICK synced \in [named -> 0..Visible] :
             snap' = [snap EXCEPT
                !.row = [p \in named |-> <<Balance(p, 1, synced[p]), Balance(p, 2, synced[p])>>],
                !.rpc = [p \in named |-> <<>>],
                !.failed = Requested \ named]
      BY <3>1
    <3>3. /\ DOMAIN snap = {"before", "row", "rpc", "failed"} /\ DOMAIN snap' = DOMAIN snap
          /\ DOMAIN snap'.row = named /\ snap'.failed = Requested \ named
          /\ \A p \in named :
                snap'.row[p] = <<Balance(p, 1, synced[p]), Balance(p, 2, synced[p])>>
      BY <3>2 DEF Inv, SnapInv
    <3>4. \A p \in named : synced[p] \in DOMAIN ledger \cup {0}
      <4>1. Visible \in Nat /\ Visible <= Len(ledger)
        BY VisibleType DEF Inv
      <4>. QED
        BY <4>1, LedgerType DEF Inv
    <3>5. \A p \in named : Once(p, snap'.row[p])
      BY <3>3, <3>4 DEF Once
    <3>6. market \subseteq DOMAIN snap'.row \cup snap'.failed
      BY <3>3 DEF Requested
    <3>. QED
      BY <2>3, <3>3, <3>5, <3>6, <1>1, <1>3, <1>5 DEF SnapInv, Rows
  <2>4. CASE After
    BY <2>4, <1>3, <1>5 DEF After, Inv, SnapInv, liquidityVars
  <2>5. CASE Assess
    BY <2>5, <1>3, <1>5 DEF Assess, Inv, SnapInv
  <2>6. CASE \E p \in Pool : ReadVault(p) \/ PoolFails(p)
    <3>1. PICK p \in Pool : ReadVault(p) \/ PoolFails(p)
      BY <2>6
    <3>2. /\ DOMAIN snap = {"before", "row", "rpc", "failed"}
          /\ step = "vaults" /\ UNCHANGED <<step, claims>>
      BY <3>1 DEF ReadVault, PoolFails, Inv, SnapInv
    <3>3. DOMAIN snap' = DOMAIN snap /\ snap'.row = snap.row
      BY <3>1, <3>2 DEF ReadVault, PoolFails
    <3>4. snap.failed \subseteq snap'.failed
      <4>1. CASE ReadVault(p)
        <5>1. snap'.failed = snap.failed
          BY <4>1, <3>2 DEF ReadVault
        <5>. QED
          BY <5>1
      <4>2. CASE PoolFails(p)
        <5>1. snap'.failed = snap.failed \cup {p}
          BY <4>2, <3>2 DEF PoolFails
        <5>. QED
          BY <5>1
      <4>. QED
        BY <4>1, <4>2, <3>1
    <3>. QED
      BY <3>2, <3>3, <3>4, <1>1, <1>3, <1>5 DEF Inv, SnapInv
  <2>. QED
    BY <2>1, <2>2, <2>3, <2>4, <2>5, <2>6
<1>7. LiquidityOfOneInstant'
  <2>1. CASE Assess
    <3>1. /\ step = "assess" /\ snap' = snap /\ (claims' # {} => Supported)
      BY <2>1 DEF Assess
    <3>2. ASSUME Supported, NEW p \in market
          PROVE  Once(p, snap.rpc[p])
      <4>1. p \in Pool
        BY DEF Inv, ScopeInv
      <4>2. p \notin snap.failed /\ snap.row[p] = snap.rpc[p]
        BY <3>2, <4>1 DEF Supported, Matches
      <4>3. p \in DOMAIN snap.row
        BY <3>1, <4>2 DEF Inv, SnapInv
      <4>. QED
        BY <4>2, <4>3 DEF Inv, SnapInv
    <3>3. claims' # {} => \A p \in market : Once(p, snap'.rpc[p])
      BY <3>1, <3>2
    <3>. QED
      BY <3>3, <1>1, <1>5 DEF LiquidityOfOneInstant, Once
  <2>2. CASE ~Assess
    <3>1. claims' = {}
      BY <2>2, <1>3 DEF Scope, Before, Rows, After, ReadVault, PoolFails, liquidityVars
    <3>. QED
      BY <3>1 DEF LiquidityOfOneInstant
  <2>. QED
    BY <2>1, <2>2
<1>8. ActivityExact' /\ PricedAtTrade'
  BY <1>3 DEF ActivityExact, PricedAtTrade
<1>. QED
  BY <1>1, <1>2, <1>4, <1>6, <1>7, <1>8 DEF Inv, ScopeInv

\* The second half leaves the chain and the snapshot alone, and its claims are made
\* at the end.
LEMMA WindowsKeep ==
    ASSUME Inv, step \in {"windows", "values"}, UNCHANGED <<chainVars, liquidityVars, ended>>,
           result' = result, step' # "assess", step' # "vaults",
           WindowInv'
    PROVE  Inv'
<1>1. ChainInv' /\ ScopeInv'
  BY DEF Inv, ChainInv, ScopeInv, chainVars, liquidityVars
<1>2. claims = {} /\ result = {}
  BY DEF Inv, SnapInv, WindowInv
<1>3. SnapInv'
  <2>1. \A p, pair : Once(p, pair)' <=> Once(p, pair)
    BY DEF Once, Balance, chainVars
  <2>. QED
    BY <2>1, <1>2 DEF Inv, SnapInv, liquidityVars
<1>4. LiquidityOfOneInstant' /\ ActivityExact' /\ PricedAtTrade'
  BY <1>2 DEF LiquidityOfOneInstant, ActivityExact, PricedAtTrade, liquidityVars
<1>. QED
  BY <1>1, <1>3, <1>4 DEF Inv

\* What is known of the windows does not change with the step alone.
LEMMA HonestKept ==
    ASSUME UNCHANGED <<chainVars, ended>>, NEW w
    PROVE  /\ Honest(w)' <=> Honest(w)
           /\ oldest' = oldest => (Worth(w)' <=> Worth(w))
<1>1. Honest(w)' <=> Honest(w)
  BY DEF Honest, TradesOf, Past, Closed, AfterStart, InWindow, End, Time, chainVars
<1>2. ASSUME oldest' = oldest PROVE Worth(w)' <=> Worth(w)
  BY <1>2 DEF Worth, Priced, Eligible, Complete, VaultTransaction, Time, chainVars
<1>. QED
  BY <1>1, <1>2

\* The window is closed; liquidity is forgotten.
LEMMA IdentifyKeeps == Inv /\ Identify => Inv'
<1>. SUFFICES ASSUME Inv, Identify PROVE Inv'
  OBVIOUS
<1>1. /\ step = "identify" /\ step' \in {"windows", "done"} /\ ended' = slot
      /\ snap' = NoSnap /\ claims' = {}
      /\ UNCHANGED <<ledger, slot, market, windows, again, oldest, result>>
  BY DEF Identify, chainVars
<1>2. /\ DOMAIN windows = {} /\ DOMAIN again = {} /\ result = {}
  BY <1>1 DEF Inv, WindowInv
<1>3. ChainInv' /\ ScopeInv'
  BY <1>1, ClockType DEF Inv, ChainInv, ScopeInv
<1>4. SnapInv'
  BY <1>1 DEF SnapInv, NoSnap
<1>5. WindowInv'
  BY <1>1, <1>2 DEF WindowInv, Honest, Worth, Unvalued
<1>6. LiquidityOfOneInstant' /\ ActivityExact' /\ PricedAtTrade'
  BY <1>1, <1>2 DEF LiquidityOfOneInstant, ActivityExact, PricedAtTrade
<1>. QED
  BY <1>3, <1>4, <1>5, <1>6 DEF Inv

\* A reconstruction joins the others.
LEMMA WithKeeps ==
    ASSUME ChainInv, NEW f, NEW p, NEW valuing, NEW w,
           Honest(f), Worth(f), Reconstructs(p, valuing, w)
    PROVE  /\ Honest(With(f, p, w)) /\ Worth(With(f, p, w))
           /\ Unvalued(f) /\ ~valuing => Unvalued(With(f, p, w))
<1>1. /\ DOMAIN With(f, p, w) = DOMAIN f \cup {p}
      /\ With(f, p, w)[p] = w
      /\ \A q \in DOMAIN f : q # p => With(f, p, w)[q] = f[q]
  BY DEF With
<1>2. Honest(With(f, p, w))
  BY <1>1, Reconstructed DEF Honest
<1>3. Worth(With(f, p, w))
  BY <1>1, Reconstructed DEF Worth
<1>4. Unvalued(f) /\ ~valuing => Unvalued(With(f, p, w))
  BY <1>1, Reconstructed DEF Unvalued
<1>. QED
  BY <1>2, <1>3, <1>4

LEMMA ReconstructKeeps == ASSUME NEW p \in Pool PROVE Inv /\ Reconstruct(p) => Inv'
<1>. SUFFICES ASSUME Inv, Reconstruct(p) PROVE Inv'
  OBVIOUS
<1>1. /\ step = "windows" /\ p \in market
      /\ UNCHANGED <<chainVars, step, liquidityVars, ended, again, oldest, result>>
  BY DEF Reconstruct
<1>2. PICK w : Reconstructs(p, FALSE, w) /\ windows' = With(windows, p, w)
  BY DEF Reconstruct
<1>3. /\ Honest(With(windows, p, w)) /\ Worth(With(windows, p, w))
      /\ Unvalued(With(windows, p, w))
  BY <1>1, <1>2, WithKeeps DEF Inv, WindowInv
<1>4. PICK v : v = With(windows, p, w)
  OBVIOUS
<1>5. Honest(v)' /\ Worth(v)' /\ Unvalued(v)
  BY <1>1, <1>3, <1>4, HonestKept
<1>6. Honest(windows)' /\ Worth(windows)' /\ Unvalued(windows)'
  BY <1>2, <1>4, <1>5 DEF Honest, Worth, Unvalued
<1>7. Honest(again)' /\ Worth(again)' /\ DOMAIN again = {} /\ again' = again
  BY <1>1 DEF Inv, WindowInv, Honest, Worth
<1>8. WindowInv'
  BY <1>1, <1>6, <1>7 DEF Inv, WindowInv
<1>. QED
  BY <1>1, <1>8, WindowsKeep

LEMMA ValueKeeps == ASSUME NEW p \in Pool PROVE Inv /\ Value(p) => Inv'
<1>. SUFFICES ASSUME Inv, Value(p) PROVE Inv'
  OBVIOUS
<1>1. /\ step = "values" /\ p \in market
      /\ UNCHANGED <<chainVars, step, liquidityVars, ended, windows, oldest, result>>
  BY DEF Value
<1>2. PICK w : Reconstructs(p, TRUE, w) /\ again' = With(again, p, w)
  BY DEF Value
<1>3. Honest(With(again, p, w)) /\ Worth(With(again, p, w))
  BY <1>1, <1>2, WithKeeps DEF Inv, WindowInv
<1>4. PICK v, u : v = With(again, p, w) /\ u = windows
  OBVIOUS
<1>5. Honest(v)' /\ Worth(v)' /\ Honest(u)' /\ Worth(u)' /\ Unvalued(u)
  BY <1>1, <1>3, <1>4, HonestKept DEF Inv, WindowInv
<1>6. /\ Honest(again)' /\ Worth(again)'
      /\ Honest(windows)' /\ Worth(windows)' /\ Unvalued(windows)'
  BY <1>1, <1>2, <1>4, <1>5 DEF Honest, Worth, Unvalued
<1>7. WindowInv'
  <2>1. step' = "values" /\ DOMAIN windows' = market' /\ result' = {}
    BY <1>1 DEF Inv, WindowInv, liquidityVars
  <2>. QED
    BY <2>1, <1>6 DEF WindowInv
<1>. QED
  BY <1>1, <1>7, WindowsKeep

\* The first pass is over.
LEMMA ContextKeeps == Inv /\ Context => Inv'
<1>. SUFFICES ASSUME Inv, Context PROVE Inv'
  OBVIOUS
<1>1. /\ step = "windows" /\ DOMAIN windows = market /\ step' \in {"rolling", "values"}
      /\ UNCHANGED <<chainVars, liquidityVars, ended, windows, again, result>>
  BY DEF Context
<1>2. Unvalued(windows) /\ DOMAIN again = {}
  BY <1>1 DEF Inv, WindowInv
<1>3. PICK u : u = windows
  OBVIOUS
<1>4. Honest(u)' /\ Unvalued(u)
  BY <1>1, <1>2, <1>3, HonestKept DEF Inv, WindowInv
<1>5. Honest(windows)' /\ Unvalued(windows)' /\ Worth(windows)'
  BY <1>1, <1>3, <1>4 DEF Honest, Unvalued, Worth
<1>6. Honest(again)' /\ Worth(again)'
  BY <1>1, <1>2 DEF Honest, Worth
<1>7. WindowInv'
  BY <1>1, <1>2, <1>5, <1>6 DEF Inv, WindowInv, liquidityVars
<1>. QED
  BY <1>1, <1>7, WindowsKeep

\* The second pass succeeds, or fails, or the first already did.
LEMMA PassesKeep == Inv /\ (Valued \/ ValuesFail \/ ActivityFails) => Inv'
<1>. SUFFICES ASSUME Inv, Valued \/ ValuesFail \/ ActivityFails PROVE Inv'
  OBVIOUS
<1>1. /\ step \in {"windows", "values"} /\ step' \in {"rolling", "done"}
      /\ UNCHANGED <<chainVars, liquidityVars, ended, oldest, result>>
      /\ \/ DOMAIN windows' = {} /\ step' = "done" /\ again' = again
         \/ windows' = again /\ DOMAIN again = market /\ DOMAIN again' = {}
         \/ windows' = windows /\ step = "values" /\ DOMAIN again' = {} /\ step' = "rolling"
  BY DEF Valued, ValuesFail, ActivityFails
<1>2. step = "values" => DOMAIN windows = market
  BY DEF Inv, WindowInv
<1>3. PICK u, v : u = windows /\ v = again
  OBVIOUS
<1>4. Honest(u)' /\ Worth(u)' /\ Honest(v)' /\ Worth(v)'
  BY <1>1, <1>3, HonestKept DEF Inv, WindowInv
<1>5. Honest(windows)' /\ Worth(windows)' /\ Honest(again)' /\ Worth(again)'
  BY <1>1, <1>3, <1>4 DEF Honest, Worth
<1>6. WindowInv'
  BY <1>1, <1>2, <1>5 DEF Inv, WindowInv, liquidityVars
<1>. QED
  BY <1>1, <1>6, WindowsKeep

\* The verdict.
LEMMA RollingKeeps == Inv /\ Rolling => Inv'
<1>. SUFFICES ASSUME Inv, Rolling PROVE Inv'
  OBVIOUS
<1>1. /\ step = "rolling" /\ step' = "done"
      /\ UNCHANGED <<ledger, slot, market, snap, claims, ended, windows, again, oldest>>
      /\ "transactions" \in result' => \A p \in market : windows[p].ok
      /\ "volume" \in result' => \A p \in market : windows[p].valued
  BY DEF Rolling, chainVars, liquidityVars
<1>2. /\ ChainInv /\ DOMAIN windows = market /\ claims = {}
      /\ Honest(windows) /\ Worth(windows)
  BY <1>1 DEF Inv, WindowInv, SnapInv
<1>3. ChainInv' /\ ScopeInv'
  BY <1>1 DEF Inv, ChainInv, ScopeInv
<1>4. SnapInv'
  <2>1. \A p, pair : Once(p, pair)' <=> Once(p, pair)
    BY <1>1 DEF Once, Balance
  <2>. QED
    BY <2>1, <1>1, <1>2 DEF Inv, SnapInv
<1>5. WindowInv'
  <2>1. PICK u, v : u = windows /\ v = again
    OBVIOUS
  <2>2. Honest(u)' /\ Worth(u)' /\ Honest(v)' /\ Worth(v)'
    BY <1>1, <2>1, HonestKept DEF Inv, WindowInv, chainVars
  <2>3. Honest(windows)' /\ Worth(windows)' /\ Honest(again)' /\ Worth(again)'
    BY <1>1, <2>1, <2>2 DEF Honest, Worth
  <2>. QED
    BY <1>1, <2>3 DEF WindowInv
<1>6. LiquidityOfOneInstant'
  BY <1>1, <1>2 DEF LiquidityOfOneInstant
<1>7. Found = UNION {windows[p].swaps : p \in market}
  BY <1>2 DEF Found
<1>8. Found \subseteq TradesBefore(slot)
  BY <1>2, <1>7 DEF Honest, Past, TradesOf, TradesBefore
<1>9. ASSUME \A p \in market : windows[p].ok PROVE AfterStart(TradesBefore(ended)) \subseteq Found
  <2>1. ASSUME NEW k \in AfterStart(TradesBefore(ended)) PROVE k \in Found
    <3>1. ledger[k].pool \in market /\ k \in Closed(ledger[k].pool)
      BY DEF AfterStart, TradesBefore, Closed, TradesOf
    <3>2. k \in windows[ledger[k].pool].swaps
      BY <3>1, <1>2, <1>9 DEF Honest
    <3>. QED
      BY <3>1, <3>2, <1>7
  <2>. QED
    BY <2>1
<1>10. ActivityExact'
  <2>1. "transactions" \in result' => AfterStart(TradesBefore(ended)) \subseteq Found
    BY <1>1, <1>9
  <2>2. /\ Found' = Found /\ TradesBefore(ended)' = TradesBefore(ended)
        /\ AfterStart(TradesBefore(ended))' = AfterStart(TradesBefore(ended))
        /\ TradesBefore(slot)' = TradesBefore(slot)
    BY <1>1 DEF Found, AfterStart, TradesBefore, InWindow, End, Time
  <2>. QED
    BY <2>1, <2>2, <1>8 DEF ActivityExact
<1>11. PricedAtTrade'
  <2>1. ASSUME \A p \in market : windows[p].valued, NEW s \in Found
        PROVE  oldest <= Time(s) /\ \A i \in 1..2 : Anchored(i, s)
    <3>1. oldest <= Time(s) /\ Priced(s)
      BY <2>1, <1>2, <1>7 DEF Worth
    <3>2. s \in DOMAIN ledger /\ ledger[s].slot < slot
      BY <2>1, <1>8 DEF TradesBefore
    <3>. QED
      BY <3>1, <3>2, <1>2, AnchorLatestSlot
  <2>2. /\ Found' = Found /\ ledger' = ledger /\ oldest' = oldest
        /\ \A i, s : Anchored(i, s)' <=> Anchored(i, s)
        /\ \A s : Time(s)' = Time(s)
    BY <1>1, AnchoredKept DEF Found, Time
  <2>3. "volume" \in result' => \A p \in market : windows[p].valued
    BY <1>1
  <2>4. "volume" \in result' =>
            \A s \in Found' : oldest' <= Time(s)' /\ \A i \in 1..2 : Anchored(i, s)'
    BY <2>1, <2>2, <2>3
  <2>. QED
    BY <2>4 DEF PricedAtTrade, Anchored
<1>. QED
  BY <1>3, <1>4, <1>5, <1>6, <1>10, <1>11 DEF Inv

LEMMA StepInv == Inv /\ [Next]_vars => Inv'
<1>. SUFFICES ASSUME Inv, [Next]_vars PROVE Inv'
  OBVIOUS
<1>1. CASE Chain
  BY <1>1, ChainKeeps
<1>2. CASE \/ Scope \/ Before \/ Rows \/ After \/ Assess
           \/ \E p \in Pool : ReadVault(p) \/ PoolFails(p)
  BY <1>2, LiquidityKeeps
<1>3. CASE Identify
  BY <1>3, IdentifyKeeps
<1>4. CASE Context
  BY <1>4, ContextKeeps
<1>5. CASE Valued \/ ValuesFail \/ ActivityFails
  BY <1>5, PassesKeep
<1>6. CASE Rolling
  BY <1>6, RollingKeeps
<1>7. CASE \E p \in Pool : Reconstruct(p) \/ Value(p)
  BY <1>7, ReconstructKeeps, ValueKeeps
<1>8. CASE UNCHANGED vars
  <2>1. UNCHANGED <<ledger, slot, step, market, snap, claims, ended, windows, again,
                    oldest, result>>
    BY <1>8 DEF vars, chainVars, liquidityVars, activityVars
  <2>2. PICK u, v : u = windows /\ v = again
    OBVIOUS
  <2>3. Honest(u)' /\ Worth(u)' /\ Honest(v)' /\ Worth(v)'
    BY <2>1, <2>2, HonestKept DEF Inv, WindowInv, chainVars
  <2>4. Honest(windows)' /\ Worth(windows)' /\ Honest(again)' /\ Worth(again)'
    BY <2>1, <2>2, <2>3 DEF Honest, Worth
  <2>5. WindowInv'
    BY <2>1, <2>4 DEF Inv, WindowInv, Unvalued
  <2>6. ChainInv' /\ ScopeInv'
    BY <2>1 DEF Inv, ChainInv, ScopeInv
  <2>7. SnapInv'
    <3>1. \A p, i, n : Balance(p, i, n)' = Balance(p, i, n)
      BY <2>1 DEF Balance
    <3>2. \A p, pair : Once(p, pair)' <=> Once(p, pair)
      BY <2>1, <3>1 DEF Once
    <3>. QED
      BY <2>1, <3>2 DEF Inv, SnapInv
  <2>8. LiquidityOfOneInstant'
    <3>1. \A p, i, n : Balance(p, i, n)' = Balance(p, i, n)
      BY <2>1 DEF Balance
    <3>. QED
      BY <2>1, <3>1 DEF Inv, LiquidityOfOneInstant
  <2>9. ActivityExact'
    BY <2>1 DEF Inv, ActivityExact, Found, AfterStart, TradesBefore, InWindow, End, Time
  <2>10. PricedAtTrade'
    <3>1. /\ Found' = Found
          /\ \A i, s : Anchored(i, s)' <=> Anchored(i, s)
          /\ \A s : Time(s)' = Time(s)
      BY <2>1, AnchoredKept DEF Found, Time
    <3>2. "volume" \in result =>
              \A s \in Found : oldest <= Time(s) /\ \A i \in 1..2 : Anchored(i, s)
      BY DEF Inv, PricedAtTrade, Anchored
    <3>3. "volume" \in result' =>
              \A s \in Found' : oldest' <= Time(s)' /\ \A i \in 1..2 : Anchored(i, s)'
      BY <2>1, <3>1, <3>2
    <3>. QED
      BY <3>3 DEF PricedAtTrade, Anchored
  <2>. QED
    BY <2>5, <2>6, <2>7, <2>8, <2>9, <2>10 DEF Inv
<1>. QED
  BY <1>1, <1>2, <1>3, <1>4, <1>5, <1>6, <1>7, <1>8 DEF Next, Producer

\* The invariant holds of every state.
THEOREM Invariance == Spec => []Inv
BY InitInv, StepInv, PTL DEF Spec

-----------------------------------------------------------------------------
(* The theorems.                                                           *)

\* Liquidity is verified only over reserves that were there at one instant, although
\* the vaults are read one after the other.
THEOREM LiquidityCorrect == Spec => []LiquidityOfOneInstant
<1>1. Inv => LiquidityOfOneInstant
  BY DEF Inv
<1>. QED
  BY <1>1, Invariance, PTL

\* A verified number of transactions is that of the trades of the window, those of
\* the second it begins with apart, which a scan may have of only some.
THEOREM ActivityCorrect == Spec => []ActivityExact
<1>1. Inv => ActivityExact
  BY DEF Inv
<1>. QED
  BY <1>1, Invariance, PTL

\* A verified volume values every swap at reserves that followed a transaction of
\* its own slot or the last one before that had any, which of that slot's is not
\* said, and inside the interval of the parity.
THEOREM PricedCorrect == Spec => []PricedAtTrade
<1>1. Inv => PricedAtTrade
  BY DEF Inv
<1>. QED
  BY <1>1, Invariance, PTL

-----------------------------------------------------------------------------
(* The types.                                                              *)

\* The snapshot.
ReadType ==
    /\ snap.before \in Slot /\ snap.failed \in SUBSET Pool
    /\ DOMAIN snap.row \in SUBSET Pool /\ \A p \in DOMAIN snap.row : snap.row[p] \in Pair
    /\ \A p \in DOMAIN snap.rpc :
          /\ snap.rpc[p] \in Seq(Int) /\ Len(snap.rpc[p]) <= 2
          /\ p \in snap.failed => snap.rpc[p] = <<>>

\* Reconstructions, per pool of the market.
WindowsType(w) == DOMAIN w \subseteq market /\ \A p \in DOMAIN w : w[p] \in WindowOf

\* The parts of TypeOK that the invariant does not have.
TypeInv ==
    /\ step \in Step
    /\ ReadType
    /\ claims \in SUBSET Liquid
    /\ oldest \in 0..SlotTime[Len(SlotTime)]
    /\ WindowsType(windows) /\ WindowsType(again)
    /\ result \in SUBSET {"transactions", "volume"}

\* Both together give the type invariant.
LEMMA TypeIs == Inv /\ TypeInv => TypeOK
<1>1. Inv => ChainInv /\ ScopeInv
  BY DEF Inv
<1>2. WindowsType(windows) /\ WindowsType(again) =>
         \A w \in {windows, again} : DOMAIN w \subseteq market /\ \A p \in DOMAIN w : w[p] \in WindowOf
  BY DEF WindowsType
<1>. QED
  BY <1>1, <1>2 DEF TypeInv, TypeOK, ReadType, ChainInv, ScopeInv

\* Reserves are numbers.
LEMMA BalanceType ==
    ASSUME ChainInv, NEW p, NEW i \in 1..2, NEW n \in Nat, n <= Len(ledger)
    PROVE  Balance(p, i, n) \in Int
<1>. DEFINE moves == {k \in 1..n : ledger[k].pool = p}
            f == [k \in moves |-> Effect[ledger[k].does][i]]
<1>1. /\ Len(ledger) \in Nat /\ DOMAIN ledger = 1..Len(ledger)
      /\ \A k \in DOMAIN ledger : ledger[k] \in Entry
  BY LedgerType DEF ChainInv
<1>2. \A d \in DOMAIN Effect : Effect[d][1] \in Int /\ Effect[d][2] \in Int
  BY DEF Effect
<1>3. ASSUME NEW k \in moves PROVE f[k] \in Int
  <2>1. ledger[k].does \in DOMAIN Effect
    BY <1>1 DEF Entry
  <2>. QED
    BY <2>1, <1>2
<1>4. IsFiniteSet(moves)
  <2>1. IsFiniteSet(1..n)
    BY FS_Interval
  <2>. QED
    BY <2>1, FS_Subset
<1>5. SumFunctionOnSet(f, moves) \in Int
  <2>. HIDE DEF moves, f
  <2>. QED
    BY <1>3, <1>4, SumInt
<1>6. Reserves[i] \in Int
  BY MarketAssumption
<1>. QED
  BY <1>5, <1>6 DEF Balance

\* The oldest swap found is one that happened.
LEMMA OldestType ==
    ASSUME Inv, Found # {}
    PROVE  Min({Time(s) : s \in Found}) \in 0..SlotTime[Len(SlotTime)]
<1>. DEFINE times == {Time(s) : s \in Found}
<1>1. ASSUME NEW s \in Found PROVE Time(s) \in 0..SlotTime[Len(SlotTime)]
  <2>1. PICK p \in DOMAIN windows : s \in windows[p].swaps
    BY DEF Found
  <2>2. s \in DOMAIN ledger
    BY <2>1 DEF Inv, WindowInv, Honest, Past, TradesOf
  <2>3. ledger[s].slot \in Slot
    BY <2>2, LedgerType DEF Inv
  <2>4. Len(SlotTime) \in Slot /\ ledger[s].slot <= Len(SlotTime)
    BY <2>3, ClockType
  <2>5. SlotTime[ledger[s].slot] <= SlotTime[Len(SlotTime)]
    BY <2>3, <2>4, ClockType
  <2>. QED
    BY <2>3, <2>4, <2>5, ClockType DEF Time
<1>2. times \in SUBSET Nat /\ times # {}
  <2>1. SlotTime[Len(SlotTime)] \in Nat
    BY ClockType, MarketAssumption
  <2>. QED
    BY <1>1, <2>1
<1>3. \E n \in times : \A m \in times : n <= m
  <2>. HIDE DEF times
  <2>. QED
    BY <1>2, LeastNatural
<1>4. Min(times) \in times
  <2>. HIDE DEF times
  <2>. QED
    BY <1>3 DEF Min
<1>. QED
  BY <1>1, <1>4

\* A reconstruction is over transactions of the ledger.
LEMMA CandidateType ==
    ASSUME ChainInv, NEW p, NEW w \in Candidates(p)
    PROVE  w \in WindowOf
<1>1. DOMAIN ledger = 1..Len(ledger) /\ Len(ledger) \in Nat /\ Len(ledger) <= MaxLedger
  BY LedgerType DEF ChainInv
<1>2. DOMAIN ledger \subseteq 1..MaxLedger
  BY <1>1, ClockType
<1>3. Swaps(History(p)) \subseteq 1..MaxLedger
  BY <1>2 DEF Swaps, History, Complete
<1>. QED
  BY <1>3 DEF Candidates, WindowOf

LEMMA WithType ==
    ASSUME ChainInv, NEW f, WindowsType(f), NEW p \in market, NEW w \in Candidates(p)
    PROVE  WindowsType(With(f, p, w))
  BY CandidateType DEF WindowsType, With

\* A step of one half of the production leaves the types of the other.
LEMMA SnapTypeStep ==
    ASSUME Inv, TypeInv, step' \in Step, claims' \in SUBSET Liquid, ReadType',
           UNCHANGED <<market, activityVars>>
    PROVE  TypeInv'
  BY DEF TypeInv, WindowsType, activityVars

LEMMA ActivityTypeStep ==
    ASSUME Inv, TypeInv, step' \in Step, UNCHANGED liquidityVars,
           oldest' \in 0..SlotTime[Len(SlotTime)],
           WindowsType(windows'), WindowsType(again'),
           result' \in SUBSET {"transactions", "volume"}
    PROVE  TypeInv'
<1>1. market' = market /\ snap' = snap /\ claims' = claims
  BY DEF liquidityVars
<1>2. ReadType'
  BY <1>1 DEF TypeInv, ReadType
<1>3. WindowsType(windows)' /\ WindowsType(again)'
  BY <1>1 DEF WindowsType
<1>. QED
  BY <1>1, <1>2, <1>3 DEF TypeInv

\* The snapshot before there is one.
LEMMA NoSnapType == snap = NoSnap => ReadType
<1>1. 1 \in Slot
  BY MarketAssumption, ClockType
<1>. QED
  BY <1>1 DEF NoSnap, ReadType

LEMMA MarketInitType == Init => TypeInv
<1>. SUFFICES ASSUME Init PROVE TypeInv
  OBVIOUS
<1>1. ReadType
  BY NoSnapType DEF Init
<1>2. WindowsType(windows) /\ WindowsType(again)
  BY DEF Init, WindowsType
<1>3. 0 \in 0..SlotTime[Len(SlotTime)]
  BY ClockType, MarketAssumption
<1>. QED
  BY <1>1, <1>2, <1>3 DEF Init, TypeInv, Step

\* The provider's rows.
LEMMA RowsType == Inv /\ TypeInv /\ Rows => TypeInv'
<1>. SUFFICES ASSUME Inv, TypeInv, Rows PROVE TypeInv'
  OBVIOUS
<1>1. PICK named \in SUBSET Requested : \E synced \in [named -> 0..Visible] :
          snap' = [snap EXCEPT
              !.row = [p \in named |-> <<Balance(p, 1, synced[p]), Balance(p, 2, synced[p])>>],
              !.rpc = [p \in named |-> <<>>],
              !.failed = Requested \ named]
  BY DEF Rows
<1>2. PICK synced \in [named -> 0..Visible] :
          snap' = [snap EXCEPT
              !.row = [p \in named |-> <<Balance(p, 1, synced[p]), Balance(p, 2, synced[p])>>],
              !.rpc = [p \in named |-> <<>>],
              !.failed = Requested \ named]
  BY <1>1
<1>3. Requested \subseteq Pool
  BY MarketAssumption DEF Requested, Inv, ScopeInv
<1>4. \A p \in named : <<Balance(p, 1, synced[p]), Balance(p, 2, synced[p])>> \in Pair
  <2>1. \A p \in named : synced[p] \in Nat /\ synced[p] <= Len(ledger)
    BY VisibleType, LedgerType DEF Inv
  <2>2. \A p \in named : Balance(p, 1, synced[p]) \in Int /\ Balance(p, 2, synced[p]) \in Int
    BY <2>1, BalanceType DEF Inv
  <2>. QED
    BY <2>2 DEF Pair
<1>5. DOMAIN snap = {"before", "row", "rpc", "failed"} /\ snap.before \in Slot
  BY DEF Inv, SnapInv, TypeInv, ReadType
<1>6. /\ snap'.before = snap.before
      /\ snap'.row = [p \in named |-> <<Balance(p, 1, synced[p]), Balance(p, 2, synced[p])>>]
      /\ snap'.rpc = [p \in named |-> <<>>]
      /\ snap'.failed = Requested \ named
  BY <1>2, <1>5
<1>7. ReadType'
  <2>1. Slot' = Slot
    BY DEF Slot
  <2>2. DOMAIN snap'.row = named /\ \A p \in named : snap'.row[p] \in Pair
    BY <1>4, <1>6
  <2>3. DOMAIN snap'.rpc = named /\ \A p \in named : snap'.rpc[p] = <<>> /\ p \notin snap'.failed
    BY <1>6
  <2>. QED
    BY <2>1, <2>2, <2>3, <1>3, <1>5, <1>6 DEF ReadType
<1>. QED
  BY <1>7, SnapTypeStep DEF Rows, TypeInv, Step

\* A vault is read, or its pool fails.
LEMMA VaultType ==
    ASSUME NEW p \in Pool PROVE Inv /\ TypeInv /\ (ReadVault(p) \/ PoolFails(p)) => TypeInv'
<1>. SUFFICES ASSUME Inv, TypeInv, ReadVault(p) \/ PoolFails(p) PROVE TypeInv'
  OBVIOUS
<1>1. /\ DOMAIN snap = {"before", "row", "rpc", "failed"} /\ ReadType
      /\ p \in DOMAIN snap.rpc /\ p \notin snap.failed /\ Len(snap.rpc[p]) < 2
  BY DEF Inv, SnapInv, TypeInv, ReadVault, PoolFails, Ahead, Unread
<1>2. CASE ReadVault(p)
  <2>. DEFINE b == Balance(p, Len(snap.rpc[p]) + 1, Visible)
  <2>1. /\ snap'.before = snap.before /\ snap'.row = snap.row /\ snap'.failed = snap.failed
        /\ snap'.rpc = [snap.rpc EXCEPT ![p] = Append(snap.rpc[p], b)]
    BY <1>1, <1>2 DEF ReadVault
  <2>2. b \in Int
    <3>1. Len(snap.rpc[p]) + 1 \in 1..2
      BY <1>1 DEF ReadType
    <3>. QED
      BY <3>1, VisibleType, BalanceType DEF Inv
  <2>. HIDE DEF b
  <2>3. Append(snap.rpc[p], b) \in Seq(Int) /\ Len(Append(snap.rpc[p], b)) <= 2
    BY <2>2, <1>1 DEF ReadType
  <2>4. /\ DOMAIN snap'.rpc = DOMAIN snap.rpc
        /\ \A q \in DOMAIN snap.rpc :
              snap'.rpc[q] = IF q = p THEN Append(snap.rpc[p], b) ELSE snap.rpc[q]
    BY <2>1
  <2>5. ReadType'
    <3>1. \A q \in DOMAIN snap'.rpc :
              /\ snap'.rpc[q] \in Seq(Int) /\ Len(snap'.rpc[q]) <= 2
              /\ q \in snap'.failed => snap'.rpc[q] = <<>>
      BY <2>1, <2>3, <2>4, <1>1 DEF ReadType
    <3>. QED
      BY <3>1, <2>1, <1>1 DEF ReadType, Slot
  <2>. QED
    BY <2>5, <1>2, SnapTypeStep DEF ReadVault, TypeInv
<1>3. CASE PoolFails(p)
  <2>1. /\ snap'.before = snap.before /\ snap'.row = snap.row
        /\ snap'.failed = snap.failed \cup {p}
        /\ snap'.rpc = [snap.rpc EXCEPT ![p] = <<>>]
    BY <1>1, <1>3 DEF PoolFails
  <2>2. /\ DOMAIN snap'.rpc = DOMAIN snap.rpc
        /\ \A q \in DOMAIN snap.rpc : snap'.rpc[q] = IF q = p THEN <<>> ELSE snap.rpc[q]
    BY <2>1
  <2>3. \A q \in DOMAIN snap'.rpc :
            /\ snap'.rpc[q] \in Seq(Int) /\ Len(snap'.rpc[q]) <= 2
            /\ q \in snap'.failed => snap'.rpc[q] = <<>>
    BY <2>1, <2>2, <1>1 DEF ReadType
  <2>4. ReadType'
    BY <2>1, <2>3, <1>1 DEF ReadType, Slot
  <2>. QED
    BY <2>4, <1>3, SnapTypeStep DEF PoolFails, TypeInv
<1>. QED
  BY <1>2, <1>3

\* The other steps of the snapshot.
LEMMA SnapshotType == Inv /\ TypeInv /\ (Scope \/ Before \/ After \/ Assess \/ Identify) => TypeInv'
<1>. SUFFICES ASSUME Inv, TypeInv, Scope \/ Before \/ After \/ Assess \/ Identify PROVE TypeInv'
  OBVIOUS
<1>1. ReadType /\ slot \in Slot /\ DOMAIN snap = {"before", "row", "rpc", "failed"}
  BY DEF TypeInv, Inv, SnapInv, ChainInv
<1>2. CASE Scope \/ After \/ Assess
  <2>1. ReadType'
    BY <1>1, <1>2 DEF Scope, After, Assess, liquidityVars, ReadType, Slot
  <2>2. claims' \in SUBSET Liquid /\ step' \in Step
    BY <1>2 DEF Scope, After, Assess, liquidityVars, TypeInv, Step
  <2>3. UNCHANGED <<market, activityVars>>
    BY <1>2 DEF Scope, After, Assess, liquidityVars
  <2>. QED
    BY <2>1, <2>2, <2>3, SnapTypeStep
<1>3. CASE Before
  <2>1. /\ snap'.before = slot /\ snap'.row = snap.row /\ snap'.rpc = snap.rpc
        /\ snap'.failed = snap.failed
    BY <1>1, <1>3 DEF Before
  <2>2. ReadType'
    BY <2>1, <1>1 DEF ReadType, Slot
  <2>. QED
    BY <2>2, <1>3, SnapTypeStep DEF Before, TypeInv, Step
<1>4. CASE Identify
  <2>1. ReadType'
    <3>1. snap' = NoSnap
      BY <1>4 DEF Identify
    <3>. QED
      BY <3>1, ClockType, MarketAssumption DEF ReadType, NoSnap
  <2>2. WindowsType(windows)' /\ WindowsType(again)'
    BY <1>4 DEF Identify, TypeInv, WindowsType
  <2>. QED
    BY <2>1, <2>2, <1>4 DEF Identify, TypeInv, Step
<1>. QED
  BY <1>2, <1>3, <1>4

\* The windows.
LEMMA PassType ==
    ASSUME NEW p \in Pool PROVE Inv /\ TypeInv /\ (Reconstruct(p) \/ Value(p)) => TypeInv'
<1>. SUFFICES ASSUME Inv, TypeInv, Reconstruct(p) \/ Value(p) PROVE TypeInv'
  OBVIOUS
<1>1. /\ WindowsType(windows) /\ WindowsType(again) /\ step \in Step /\ ChainInv
      /\ oldest \in 0..SlotTime[Len(SlotTime)] /\ result \in SUBSET {"transactions", "volume"}
  BY DEF TypeInv, Inv
<1>2. CASE Reconstruct(p)
  <2>1. PICK w \in Candidates(p) : windows' = With(windows, p, w)
    BY <1>2 DEF Reconstruct
  <2>2. WindowsType(windows')
    BY <2>1, <1>1, <1>2, WithType DEF Reconstruct
  <2>. QED
    BY <2>2, <1>1, <1>2, ActivityTypeStep DEF Reconstruct
<1>3. CASE Value(p)
  <2>1. PICK w \in Candidates(p) : again' = With(again, p, w)
    BY <1>3 DEF Value
  <2>2. WindowsType(again')
    BY <2>1, <1>1, <1>3, WithType DEF Value
  <2>. QED
    BY <2>2, <1>1, <1>3, ActivityTypeStep DEF Value
<1>. QED
  BY <1>2, <1>3

LEMMA VerdictType ==
    Inv /\ TypeInv /\ (Context \/ Valued \/ ValuesFail \/ ActivityFails \/ Rolling) => TypeInv'
<1>. SUFFICES ASSUME Inv, TypeInv, Context \/ Valued \/ ValuesFail \/ ActivityFails \/ Rolling
              PROVE  TypeInv'
  OBVIOUS
<1>1. /\ WindowsType(windows) /\ WindowsType(again) /\ WindowsType(<<>>)
      /\ oldest \in 0..SlotTime[Len(SlotTime)] /\ result \in SUBSET {"transactions", "volume"}
  BY DEF TypeInv, WindowsType
<1>2. /\ step' \in Step /\ UNCHANGED liquidityVars
      /\ windows' \in {windows, again, <<>>} /\ again' \in {again, <<>>}
  BY DEF Context, Valued, ValuesFail, ActivityFails, Rolling, Step
<1>3. oldest' \in 0..SlotTime[Len(SlotTime)]
  <2>1. CASE Context /\ Found # {}
    BY <2>1, OldestType DEF Context
  <2>2. CASE ~(Context /\ Found # {})
    BY <2>2, <1>1 DEF Context, Valued, ValuesFail, ActivityFails, Rolling
  <2>. QED
    BY <2>1, <2>2
<1>4. result' \in SUBSET {"transactions", "volume"}
  BY <1>1 DEF Context, Valued, ValuesFail, ActivityFails, Rolling
<1>5. WindowsType(windows') /\ WindowsType(again')
  BY <1>1, <1>2
<1>. QED
  BY <1>2, <1>3, <1>4, <1>5, ActivityTypeStep

\* The state of a production, and the times and reserves it keeps, are of their
\* types: a reserve read from the vaults is a number, whatever moved it, and
\* oldest_fact_time is a time of the chain.
THEOREM TypeCorrect == Spec => []TypeOK
<1>1. Init => TypeInv
  BY MarketInitType
<1>2. Inv /\ TypeInv /\ [Next]_vars => TypeInv'
  <2>. SUFFICES ASSUME Inv, TypeInv, [Next]_vars PROVE TypeInv'
    OBVIOUS
  <2>1. CASE Chain \/ UNCHANGED vars
    <3>1. UNCHANGED <<step, market, snap, claims, activityVars>>
      BY <2>1 DEF Chain, vars, liquidityVars
    <3>2. ReadType'
      BY <3>1 DEF TypeInv, ReadType, Slot
    <3>. QED
      BY <3>1, <3>2, SnapTypeStep DEF TypeInv
  <2>2. CASE Scope \/ Before \/ After \/ Assess \/ Identify
    BY <2>2, SnapshotType
  <2>3. CASE Rows
    BY <2>3, RowsType
  <2>4. CASE \E p \in Pool : ReadVault(p) \/ PoolFails(p)
    BY <2>4, VaultType
  <2>5. CASE \E p \in Pool : Reconstruct(p) \/ Value(p)
    BY <2>5, PassType
  <2>6. CASE Context \/ Valued \/ ValuesFail \/ ActivityFails \/ Rolling
    BY <2>6, VerdictType
  <2>. QED
    BY <2>1, <2>2, <2>3, <2>4, <2>5, <2>6 DEF Next, Producer
<1>3. Inv /\ TypeInv => TypeOK
  BY TypeIs
<1>. QED
  BY <1>1, <1>2, <1>3, Invariance, PTL DEF Spec
=============================================================================
