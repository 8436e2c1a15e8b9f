--------------------------- MODULE MoltGridListener ---------------------------
(***************************************************************************)
(* The Signal listener (moltgrid_signal_v12_ollama.py, and the Roberta     *)
(* first loop of integrations/moltgrid_roberta.py, which is the same loop  *)
(* with another author of the answer): poll the board, find the messages   *)
(* addressed to the bot, answer the oldest few, remember each in the state *)
(* file.                                                                   *)
(*                                                                         *)
(* Abstracted: the text of questions and answers (a message is explicit,   *)
(* implicit, a comment, or chatter); the board is MoltGrid's, append-only, *)
(* with the listener's clock for its time stamps.  A state file cut short  *)
(* by a crash does not parse and reads as an empty state, so truncating it *)
(* is modelled as emptying it.                                             *)
(***************************************************************************)
EXTENDS Integers, Sequences, FiniteSets

CONSTANTS
    MaxAsks,    \* messages of people, and Signals of the bot, on the board
    MaxNow,     \* the clock runs from 0 to MaxNow
    MaxFaults,  \* crashes, failed saves and ambiguous posts
    Lookback,   \* LOOKBACK_HOURS
    Batch,      \* messages answered in one cycle (5)
    Faults      \* which of "crash", "save" and "post" may happen

ASSUME ListenerAssumption ==
    /\ MaxAsks \in Nat /\ MaxNow \in Nat /\ MaxFaults \in Nat
    /\ Lookback \in Nat
    /\ Batch \in Nat \ {0}
    /\ Faults \subseteq {"crash", "save", "post"}

VARIABLES
    board,      \* the posts of MoltGrid, oldest first
    now,
    disk,       \* what load_state makes of the state file
    pc,         \* where the listener is
    implicitAt, \* implicit_mode_started_at, in memory
    threadAt,   \* thread_reply_mode_started_at of this cycle
    seen,       \* how much of the board the last fetch returned
    queue,      \* messages still to answer in this cycle, the oldest next
    answered,   \* answered post ids of this cycle
    saving,     \* the state being written
    asks,       \* messages of people so far
    faults,     \* faults so far
    activated   \* when implicit mode was first switched on

vars == <<board, now, disk, pc, implicitAt, threadAt, seen, queue, answered,
          saving, asks, faults, activated>>

Never == -1
Time == 0..MaxNow
\* Every message answered once, and once more for every fault.
MaxBoard == MaxAsks * (2 + MaxFaults)
Id == 1..MaxBoard

Post == [kind : {"explicit", "implicit", "comment", "chatter", "bot"},
         replyTo : 0..MaxBoard,     \* 0: a Signal of its own
         time : Time,
         answers : 0..MaxBoard]     \* the message a bot's post was written for

State == [answered : SUBSET Id, implicitAt : Time \cup {Never},
          threadAt : Time \cup {Never}]
Blank == [answered |-> {}, implicitAt |-> Never, threadAt |-> Never]

TypeOK ==
    /\ board \in Seq(Post) /\ Len(board) \in 0..MaxBoard
    /\ now \in Time
    /\ disk \in State
    /\ pc \in {"down", "starting", "asleep", "fetched", "threading", "collect",
               "answering", "posted", "marking"}
    /\ implicitAt \in Time \cup {Never}
    /\ threadAt \in Time \cup {Never}
    /\ seen \in 0..MaxBoard
    /\ queue \subseteq Id
    /\ answered \subseteq Id
    /\ saving \in State
    /\ asks \in 0..MaxAsks
    /\ faults \in 0..MaxFaults
    /\ activated \in Time \cup {Never}

Init ==
    /\ board = <<>>
    /\ now = 0
    /\ disk = Blank
    /\ pc = "down"
    /\ implicitAt = Never
    /\ threadAt = Never
    /\ seen = 0
    /\ queue = {}
    /\ answered = {}
    /\ saving = Blank
    /\ asks = 0
    /\ faults = 0
    /\ activated = Never
-----------------------------------------------------------------------------
(* The world.                                                              *)

Listener == <<disk, pc, implicitAt, threadAt, seen, queue, answered, saving,
              activated>>

\* Someone posts: a Signal naming the bot, an asset question of the owner that
\* does not, a comment on any post, something else; or the owner's other
\* scripts publish a Signal in the bot's name.
Ask ==
    /\ asks < MaxAsks /\ Len(board) < MaxBoard
    /\ \E kind \in {"explicit", "implicit", "comment", "chatter", "bot"},
          target \in 0..Len(board) :
          /\ (kind = "comment") <=> (target # 0)
          /\ board' = Append(board, [kind |-> kind, replyTo |-> target,
                                     time |-> now, answers |-> 0])
    /\ asks' = asks + 1
    /\ UNCHANGED <<Listener, now, faults>>

Tick ==
    /\ now < MaxNow
    /\ now' = now + 1
    /\ UNCHANGED <<Listener, board, asks, faults>>

Fault(kind) ==
    /\ kind \in Faults
    /\ faults < MaxFaults
    /\ faults' = faults + 1
-----------------------------------------------------------------------------
(* What is addressed to the bot.                                           *)

Posts == 1..seen
BotPosts == {i \in Posts : board[i].kind = "bot"}
\* bot_thread_root_ids
Threads == {board[i].replyTo : i \in BotPosts} \ {0}

TooOld(i) == board[i].time < now - Lookback

DirectReply(i) == board[i].replyTo \in BotPosts
\* is_thread_followup
FollowUp(i) == board[i].replyTo \in Threads /\ board[i].time >= threadAt
Explicit(i) == board[i].replyTo = 0 /\ board[i].kind = "explicit"
\* Mutant: the start of the mode is not looked at.
ImplicitWheneverAsked(i) == board[i].replyTo = 0 /\ board[i].kind = "implicit"

Implicit(i) ==
    /\ board[i].replyTo = 0 /\ board[i].kind = "implicit"
    /\ board[i].time >= implicitAt

\* Mutant: the bot's own posts are not passed over.
AddressedByAnyone(i) ==
    /\ ~TooOld(i)
    /\ DirectReply(i) \/ FollowUp(i) \/ Explicit(i) \/ Implicit(i)

Addressed(i) ==
    /\ i \notin BotPosts
    /\ ~TooOld(i)
    /\ DirectReply(i) \/ FollowUp(i) \/ Explicit(i) \/ Implicit(i)

\* find_unanswered_messages, and the oldest of them: pending[:5].
Pending ==
    LET incoming == {i \in Posts : i \notin disk.answered /\ Addressed(i)}
    IN {i \in incoming : Cardinality({j \in incoming : j < i}) < Batch}

Oldest(i) == i \in queue /\ \A j \in queue : i <= j

\* reply_target_id
Target(i) == IF board[i].replyTo = 0 THEN i ELSE board[i].replyTo
-----------------------------------------------------------------------------
(* The listener.                                                           *)

\* write_text opens the file for writing, which empties it, ...
BeginSave(state, at) ==
    /\ disk' = Blank
    /\ saving' = state
    /\ pc' = at

\* ... and then writes it.
Write == disk' = saving /\ saving' = Blank

\* ensure_implicit_mode_start, when main starts.
Launch ==
    /\ pc = "down"
    /\ IF disk.implicitAt # Never
         THEN /\ implicitAt' = disk.implicitAt
              /\ pc' = "asleep"
              /\ UNCHANGED <<disk, saving>>
         ELSE /\ implicitAt' = now
              /\ BeginSave([disk EXCEPT !.implicitAt = now], "starting")
    /\ activated' = IF activated = Never THEN now ELSE activated
    /\ UNCHANGED <<board, now, threadAt, seen, queue, answered, asks, faults>>

Started ==
    /\ pc = "starting"
    /\ Write
    /\ pc' = "asleep"
    /\ UNCHANGED <<board, now, implicitAt, threadAt, seen, queue, answered, asks,
                   faults, activated>>

\* fetch_signal_posts; a request that fails is the same as a later poll.
Fetch ==
    /\ pc = "asleep"
    /\ seen' = Len(board)
    /\ pc' = "fetched"
    /\ UNCHANGED <<board, now, disk, implicitAt, threadAt, queue, answered, saving,
                   asks, faults, activated>>

\* Mutant: the mode starts with the next tick of the clock.
EnsureThreadNext ==
    /\ pc = "fetched"
    /\ threadAt' = now + 1
    /\ BeginSave([disk EXCEPT !.threadAt = now + 1], "threading")
    /\ UNCHANGED <<board, now, implicitAt, seen, queue, answered, asks, faults, activated>>

\* ensure_thread_reply_mode_start
EnsureThread ==
    /\ pc = "fetched"
    /\ IF disk.threadAt # Never
         THEN /\ threadAt' = disk.threadAt
              /\ pc' = "collect"
              /\ UNCHANGED <<disk, saving>>
         ELSE /\ threadAt' = now
              /\ BeginSave([disk EXCEPT !.threadAt = now], "threading")
    /\ UNCHANGED <<board, now, implicitAt, seen, queue, answered, asks, faults, activated>>

ThreadSaved ==
    /\ pc = "threading"
    /\ Write
    /\ pc' = "collect"
    /\ UNCHANGED <<board, now, implicitAt, threadAt, seen, queue, answered, asks,
                   faults, activated>>

\* Mutant: the batch is taken for answered before it is.
CollectAsAnswered ==
    /\ pc = "collect"
    /\ queue' = Pending
    /\ answered' = disk.answered \cup Pending
    /\ pc' = IF Pending = {} THEN "asleep" ELSE "answering"
    /\ UNCHANGED <<board, now, disk, implicitAt, threadAt, seen, saving, asks, faults,
                   activated>>

\* find_unanswered_messages and the reload of what was answered.
Collect ==
    /\ pc = "collect"
    /\ queue' = Pending
    /\ answered' = disk.answered
    /\ pc' = IF Pending = {} THEN "asleep" ELSE "answering"
    /\ UNCHANGED <<board, now, disk, implicitAt, threadAt, seen, saving, asks, faults,
                   activated>>

\* The reply appears on the board.
Land ==
    /\ Len(board) < MaxBoard
    /\ \E i \in queue :
          /\ Oldest(i)
          /\ board' = Append(board, [kind |-> "bot", replyTo |-> Target(i),
                                     time |-> now, answers |-> i])

\* The response confirms the link.
Confirmed ==
    /\ pc = "answering"
    /\ Land
    /\ pc' = "posted"
    /\ UNCHANGED <<now, disk, implicitAt, threadAt, seen, queue, answered, saving, asks,
                   faults, activated>>

\* Mutant: the whole batch is marked.
MarkBatch ==
    /\ pc = "posted"
    /\ answered' = answered \cup queue
    /\ BeginSave([disk EXCEPT !.answered = answered'], "marking")
    /\ UNCHANGED <<board, now, implicitAt, threadAt, seen, queue, asks, faults, activated>>

\* Mutant: the ids of this message only are saved.
MarkOnlyThis ==
    /\ pc = "posted"
    /\ \E i \in queue :
          /\ Oldest(i)
          /\ answered' = answered \cup {i}
          /\ BeginSave([disk EXCEPT !.answered = {i}], "marking")
    /\ UNCHANGED <<board, now, implicitAt, threadAt, seen, queue, asks, faults, activated>>

\* answered.add and the start of save_answered.
Mark ==
    /\ pc = "posted"
    /\ \E i \in queue : Oldest(i) /\ answered' = answered \cup {i}
    /\ BeginSave([disk EXCEPT !.answered = answered'], "marking")
    /\ UNCHANGED <<board, now, implicitAt, threadAt, seen, queue, asks, faults, activated>>

Marked ==
    /\ pc = "marking"
    /\ Write
    /\ queue' = {i \in queue : ~Oldest(i)}
    /\ pc' = IF queue' = {} THEN "asleep" ELSE "answering"
    /\ UNCHANGED <<board, now, implicitAt, threadAt, seen, answered, asks, faults,
                   activated>>

\* The cycle ends early: an answer could not be written or MoltGrid refused it.
CycleFails ==
    /\ pc = "answering"
    /\ pc' = "asleep"
    /\ queue' = {}
    /\ UNCHANGED <<board, now, disk, implicitAt, threadAt, seen, answered, saving, asks,
                   faults, activated>>

\* The reply appears but the response is lost, or does not confirm the link.
Unconfirmed ==
    /\ pc = "answering"
    /\ Fault("post")
    /\ Land
    /\ pc' = "asleep"
    /\ queue' = {}
    /\ UNCHANGED <<now, disk, implicitAt, threadAt, seen, answered, saving, asks, activated>>

\* Writing the state raises; main catches it except while starting.
SaveFails ==
    /\ pc \in {"starting", "threading", "marking"}
    /\ Fault("save")
    /\ pc' = IF pc = "starting" THEN "down" ELSE "asleep"
    /\ saving' = Blank
    /\ queue' = {}
    /\ UNCHANGED <<board, now, disk, implicitAt, threadAt, seen, answered, asks, activated>>

Crash ==
    /\ pc # "down"
    /\ Fault("crash")
    /\ pc' = "down"
    /\ implicitAt' = Never /\ threadAt' = Never
    /\ seen' = 0 /\ queue' = {} /\ answered' = {}
    /\ saving' = Blank
    /\ UNCHANGED <<board, now, disk, asks, activated>>

Next ==
    \/ Ask \/ Tick
    \/ Launch \/ Started
    \/ Fetch \/ EnsureThread \/ ThreadSaved \/ Collect
    \/ Confirmed \/ Mark \/ Marked
    \/ CycleFails \/ Unconfirmed \/ SaveFails \/ Crash

Spec == Init /\ [][Next]_vars

\* The listener keeps running and is restarted, and MoltGrid does not refuse
\* replies for ever.
Progress ==
    \/ Launch \/ Started \/ Fetch \/ EnsureThread \/ ThreadSaved \/ Collect
    \/ Mark \/ Marked

FairSpec == Spec /\ WF_vars(Progress) /\ SF_vars(Confirmed)
-----------------------------------------------------------------------------
(* Properties.                                                             *)

Asked == DOMAIN board
Replies(i) == {r \in Asked : board[r].kind = "bot" /\ board[r].answers = i}

\* A message is answered once, and a second time only after a fault: a crash, a
\* state file that could not be written, a post nobody confirmed
\* (process_cycle's marking of what it answered).
RepliesBounded == \A i \in Asked : Cardinality(Replies(i)) <= 1 + faults

\* The state file never marks a message that has no reply: no crash can lose a
\* question (process_cycle posts first and marks afterwards).
MarkedIsAnswered ==
    \A i \in disk.answered \cup answered : Replies(i) # {}

\* The bot never answers itself: every reply was written for a post of
\* somebody else (find_unanswered_messages, "prevents ... a self-reply loop").
NeverItself ==
    \A r \in Asked : board[r].answers # 0 => board[board[r].answers].kind # "bot"

\* A question of the owner that does not name the bot is never answered when it
\* is older than the first launch, whatever the state file went through since
\* (ensure_implicit_mode_start).
HistoryLeftAlone ==
    \A r \in Asked :
        LET q == board[r].answers
        IN q # 0 /\ board[q].kind = "implicit" => board[q].time >= activated

\* A Signal that names the bot is answered in the end, unless it grows too old
\* first.
SignalServed ==
    \A i \in Id :
        (i \in Asked /\ board[i].kind = "explicit") ~>
            (Replies(i) # {} \/ (i \in Asked /\ TooOld(i)))

\* What the documentation says: a failed or ambiguous post cannot make a second
\* visible reply (docs/MOLTGRID_ROBERTA_BRIDGE.md).
AnsweredOnce == \A i \in Asked : Cardinality(Replies(i)) <= 1
=============================================================================
