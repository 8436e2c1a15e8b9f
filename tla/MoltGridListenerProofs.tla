------------------------ MODULE MoltGridListenerProofs ------------------------
(***************************************************************************)
(* Proofs about MoltGridListener, for every size of the board, clock,      *)
(* batch, look-back and number and kind of faults: what is marked as       *)
(* answered has a reply, the bot never answers itself, posts older than    *)
(* the first launch are left alone, and a message gets at most one reply   *)
(* more than there were faults.                                            *)
(***************************************************************************)
EXTENDS MoltGridListener, FiniteSetTheorems, TLAPS

(* A reply names an earlier post, and only comments name another one. *)
BoardInv ==
    \A r \in Asked :
        /\ board[r].answers < r
        /\ board[r].kind = "implicit" => board[r].replyTo = 0
        /\ board[r].replyTo < r

(* The questions of this cycle are of people and, if they do not name the  *)
(* bot, not older than its first launch.                                   *)
QueueInv ==
    /\ seen <= Len(board)
    /\ \A i \in queue :
        /\ i <= Len(board)
        /\ board[i].kind # "bot"
        /\ board[i].kind = "implicit" => board[i].time >= activated

(* No start of implicit mode, on disk or in memory, lies before the first  *)
(* launch, and nothing is answered before it.                              *)
ModeInv ==
    /\ activated <= now
    /\ \A state \in {disk, saving} :
        state.implicitAt # Never => activated # Never /\ state.implicitAt >= activated
    /\ pc # "down" => activated # Never /\ implicitAt >= activated
    /\ activated = Never => queue = {} /\ \A r \in Asked : board[r].answers = 0

(* Whatever is marked, or about to be, has a reply. *)
MarkInv ==
    /\ MarkedIsAnswered
    /\ \A i \in saving.answered : Replies(i) # {}
    /\ pc = "posted" => \A i \in queue : Oldest(i) => Replies(i) # {}

(* The ids of the state file, as they are or as they are being written. *)
Pen == IF pc \in {"starting", "threading", "marking"} THEN saving.answered
                                                      ELSE disk.answered

(* A message nobody remembers as answered has had no more replies than     *)
(* there were faults; one that is remembered may have had one more.        *)
CountInv ==
    /\ \A i \in Id :
        \/ Cardinality(Replies(i)) <= faults
        \/ /\ Cardinality(Replies(i)) <= faults + 1
           /\ i \in Pen \/ (pc = "posted" /\ Oldest(i))
    /\ pc \in {"answering", "posted"} =>
        answered = disk.answered /\ queue \cap answered = {}
    /\ pc = "marking" =>
        answered = saving.answered /\ \A i \in queue \cap answered : Oldest(i)

(* The inductive invariant. *)
Inv ==
    TypeOK /\ BoardInv /\ QueueInv /\ ModeInv /\ MarkInv /\ CountInv
-----------------------------------------------------------------------------
(* Types.                                                                  *)

LEMMA BoundIsNat == MaxBoard \in Nat
  <1>1. MaxAsks \in Nat /\ 2 + MaxFaults \in Nat
    BY ListenerAssumption
  <1> QED
    BY <1>1, SMT DEF MaxBoard

LEMMA TypeInit == Init => TypeOK
  BY BoundIsNat, ListenerAssumption DEF Init, TypeOK, State, Blank, Time, Never, Post

(* What a post of the board may be. *)
LEMMA AppendType ==
    ASSUME TypeOK, NEW post \in Post, Len(board) < MaxBoard, board' = Append(board, post)
    PROVE  /\ board' \in Seq(Post) /\ Len(board') \in 0..MaxBoard
           /\ Len(board') = Len(board) + 1
           /\ \A i \in DOMAIN board : board'[i] = board[i]
           /\ board'[Len(board) + 1] = post
           /\ DOMAIN board = 1..Len(board) /\ DOMAIN board' = 1..(Len(board) + 1)
  <1>1. board \in Seq(Post) /\ Len(board) \in Nat /\ MaxBoard \in Nat
    BY BoundIsNat DEF TypeOK
  <1> QED
    BY <1>1

(* A reply is a post, answers a message of the queue, and hangs under it or *)
(* under the post it comments on.                                          *)
LEMMA LandType ==
    ASSUME TypeOK, BoardInv, QueueInv, Land
    PROVE  \E i \in queue :
              /\ Oldest(i) /\ i \in 1..Len(board)
              /\ \E post \in Post :
                    /\ board' = Append(board, post)
                    /\ post.kind = "bot" /\ post.answers = i
                    /\ post.replyTo <= Len(board)
  <1>1. PICK i \in queue :
            /\ Oldest(i)
            /\ board' = Append(board, [kind |-> "bot", replyTo |-> Target(i),
                                       time |-> now, answers |-> i])
    BY DEF Land
  <1>2. i \in Id /\ i \in 1..Len(board) /\ i \in 0..MaxBoard
    BY <1>1, BoundIsNat DEF TypeOK, QueueInv, Id
  <1>3. board[i] \in Post /\ board[i].replyTo < i
    BY <1>2 DEF TypeOK, BoardInv, Asked
  <1>4. Target(i) \in 0..MaxBoard /\ Target(i) <= Len(board)
    BY <1>2, <1>3, BoundIsNat DEF Target, Post, TypeOK
  <1>5. [kind |-> "bot", replyTo |-> Target(i), time |-> now, answers |-> i] \in Post
    BY <1>2, <1>4 DEF Post, TypeOK
  <1> QED
    BY <1>1, <1>2, <1>4, <1>5

(* Someone else's post. *)
LEMMA AskType ==
    ASSUME TypeOK, Ask
    PROVE  \E post \in Post :
              /\ board' = Append(board, post)
              /\ post.answers = 0 /\ post.replyTo <= Len(board)
              /\ post.kind # "comment" => post.replyTo = 0
  <1>1. PICK kind \in {"explicit", "implicit", "comment", "chatter", "bot"} :
          \E target \in 0..Len(board) :
            /\ (kind = "comment") <=> (target # 0)
            /\ board' = Append(board, [kind |-> kind, replyTo |-> target,
                                       time |-> now, answers |-> 0])
    BY DEF Ask
  <1>2. PICK target \in 0..Len(board) :
            /\ (kind = "comment") <=> (target # 0)
            /\ board' = Append(board, [kind |-> kind, replyTo |-> target,
                                       time |-> now, answers |-> 0])
    BY <1>1
  <1>3. target \in 0..MaxBoard /\ 0 \in 0..MaxBoard
    BY <1>2, BoundIsNat DEF TypeOK
  <1>4. [kind |-> kind, replyTo |-> target, time |-> now, answers |-> 0] \in Post
    BY <1>3 DEF Post, TypeOK
  <1> QED
    BY <1>2, <1>4

LEMMA TypeStep ==
    ASSUME TypeOK, BoardInv, QueueInv, [Next]_vars
    PROVE  TypeOK'
  <1> USE ListenerAssumption, BoundIsNat
  <1> Blank \in State /\ Never \notin Time /\ Never \in Int
    BY DEF Blank, State, Never, Time
  <1>1. CASE Ask
    <2>1. board' \in Seq(Post) /\ Len(board') \in 0..MaxBoard
      BY <1>1, AskType, AppendType DEF Ask
    <2> QED
      BY <1>1, <2>1 DEF Ask, TypeOK, Listener
  <1>2. CASE Tick
    BY <1>2 DEF Tick, TypeOK, Listener, Time
  <1>3. CASE Launch
    <2>1. [disk EXCEPT !.implicitAt = now] \in State /\ disk.implicitAt \in Time \cup {Never}
      BY DEF TypeOK, State
    <2> QED
      BY <1>3, <2>1 DEF Launch, TypeOK, BeginSave
  <1>4. CASE Started
    BY <1>4 DEF Started, TypeOK, Write
  <1>5. CASE Fetch
    BY <1>5 DEF Fetch, TypeOK
  <1>6. CASE EnsureThread
    <2>1. [disk EXCEPT !.threadAt = now] \in State /\ disk.threadAt \in Time \cup {Never}
      BY DEF TypeOK, State
    <2> QED
      BY <1>6, <2>1 DEF EnsureThread, TypeOK, BeginSave
  <1>7. CASE ThreadSaved
    BY <1>7 DEF ThreadSaved, TypeOK, Write
  <1>8. CASE Collect
    <2>1. Pending \subseteq Id
      BY DEF Pending, Posts, Id, TypeOK
    <2>2. disk.answered \subseteq Id
      BY DEF TypeOK, State
    <2> QED
      BY <1>8, <2>1, <2>2 DEF Collect, TypeOK
  <1>9. ASSUME Land
        PROVE  board' \in Seq(Post) /\ Len(board') \in 0..MaxBoard
    BY <1>9, LandType, AppendType DEF Land
  <1>10. CASE Confirmed
    BY <1>9, <1>10 DEF Confirmed, TypeOK
  <1>11. CASE Mark
    <2>1. answered' \subseteq Id
      BY <1>11 DEF Mark, TypeOK
    <2>2. [disk EXCEPT !.answered = answered'] \in State
      BY <2>1 DEF TypeOK, State
    <2> QED
      BY <1>11, <2>1, <2>2 DEF Mark, TypeOK, BeginSave
  <1>12. CASE Marked
    BY <1>12 DEF Marked, TypeOK, Write
  <1>13. CASE CycleFails
    BY <1>13 DEF CycleFails, TypeOK
  <1>14. ASSUME NEW kind, Fault(kind)
         PROVE  faults' \in 0..MaxFaults
    BY <1>14 DEF Fault, TypeOK
  <1>15. CASE Unconfirmed
    BY <1>9, <1>14, <1>15 DEF Unconfirmed, TypeOK
  <1>16. CASE SaveFails
    BY <1>14, <1>16 DEF SaveFails, TypeOK
  <1>17. CASE Crash
    BY <1>14, <1>17 DEF Crash, TypeOK
  <1>18. CASE UNCHANGED vars
    BY <1>18 DEF vars, TypeOK
  <1> QED
    BY <1>1, <1>2, <1>3, <1>4, <1>5, <1>6, <1>7, <1>8, <1>10, <1>11, <1>12, <1>13,
       <1>15, <1>16, <1>17, <1>18 DEF Next

-----------------------------------------------------------------------------
(* The board grows by at most one post a step, and a reply is for the      *)
(* oldest message of the queue.                                            *)
Reply(post) == post.kind = "bot" /\ Oldest(post.answers) /\ pc = "answering"

LEMMA Grown ==
    ASSUME TypeOK, BoardInv, QueueInv, [Next]_vars
    PROVE  /\ Len(board) \in Nat /\ Len(board') \in Nat /\ Len(board) <= Len(board')
           /\ DOMAIN board = 1..Len(board) /\ DOMAIN board' = 1..Len(board')
           /\ \A i \in 1..Len(board) : board'[i] = board[i]
           /\ \A r \in 1..Len(board') : r > Len(board) =>
                 /\ r = Len(board) + 1
                 /\ board'[r].replyTo < r
                 /\ board'[r].kind = "implicit" => board'[r].replyTo = 0
                 /\ board'[r].answers = 0 \/ Reply(board'[r])
                 /\ board'[r].answers < r
  <1> board \in Seq(Post) /\ Len(board) \in Nat
    BY BoundIsNat DEF TypeOK
  <1>1. CASE Ask
    <2>1. PICK post \in Post :
              /\ board' = Append(board, post)
              /\ post.answers = 0 /\ post.replyTo <= Len(board)
              /\ post.kind # "comment" => post.replyTo = 0
      BY <1>1, AskType
    <2>2. post.replyTo \in Nat
      BY BoundIsNat DEF Post
    <2> QED
      BY <1>1, <2>1, <2>2, AppendType DEF Ask
  <1>2. CASE Land /\ pc = "answering"
    <2>1. PICK i \in queue :
              /\ Oldest(i) /\ i \in 1..Len(board)
              /\ \E post \in Post :
                    /\ board' = Append(board, post)
                    /\ post.kind = "bot" /\ post.answers = i
                    /\ post.replyTo <= Len(board)
      BY <1>2, LandType
    <2>2. PICK post \in Post :
              /\ board' = Append(board, post)
              /\ post.kind = "bot" /\ post.answers = i
              /\ post.replyTo <= Len(board)
      BY <2>1
    <2>3. post.replyTo \in Nat
      BY BoundIsNat DEF Post
    <2>4. Reply(post)
      BY <1>2, <2>1, <2>2 DEF Reply
    <2> QED
      BY SMTT(30), <1>2, <2>1, <2>2, <2>3, <2>4, AppendType DEF Land
  <1>3. CASE UNCHANGED board
    BY <1>3
  <1>4. Ask \/ (Land /\ pc = "answering") \/ UNCHANGED board
    BY DEF Next, vars, Tick, Launch, Started, Fetch, EnsureThread, ThreadSaved, Collect,
       Confirmed, Mark, Marked, CycleFails, Unconfirmed, SaveFails, Crash
  <1> QED
    BY <1>1, <1>2, <1>3, <1>4

LEMMA BoardStep ==
    ASSUME TypeOK, BoardInv, QueueInv, [Next]_vars
    PROVE  BoardInv'
  BY Grown DEF BoardInv, Asked

(* Replies are never taken back. *)
LEMMA RepliesKept ==
    ASSUME TypeOK, BoardInv, QueueInv, [Next]_vars, NEW i
    PROVE  Replies(i) \subseteq Replies(i)'
  BY Grown DEF Replies, Asked

(* Of the messages chosen, none is the bot's, and none of the owner's is   *)
(* older than the mode.                                                    *)
LEMMA Chosen ==
    ASSUME TypeOK, BoardInv, QueueInv, NEW i \in Pending
    PROVE  /\ i \in 1..seen /\ i \in Nat
           /\ i \notin disk.answered
           /\ board[i].kind # "bot"
           /\ board[i].kind = "implicit" => board[i].time >= implicitAt
  <1>1. i \in Posts /\ i \notin disk.answered /\ Addressed(i) /\ seen \in Nat
    BY BoundIsNat DEF Pending, TypeOK
  <1>2. i \in 1..seen /\ board[i].kind # "bot" /\ i \in DOMAIN board
    BY <1>1, BoundIsNat DEF Addressed, BotPosts, Posts, QueueInv, TypeOK
  <1>3. ASSUME board[i].kind = "implicit"
        PROVE  board[i].time >= implicitAt
    <2>1. board[i].replyTo = 0
      BY <1>2, <1>3 DEF BoardInv, Asked
    <2>2. ~DirectReply(i)
      BY <2>1, <1>1 DEF DirectReply, BotPosts, Posts
    <2>3. ~FollowUp(i)
      BY <2>1 DEF FollowUp, Threads
    <2>4. ~Explicit(i)
      BY <1>3 DEF Explicit
    <2> QED
      BY <1>1, <2>2, <2>3, <2>4 DEF Addressed, Implicit
  <1> QED
    BY <1>1, <1>2, <1>3

LEMMA QueueStep ==
    ASSUME TypeOK, BoardInv, QueueInv, ModeInv, [Next]_vars
    PROVE  QueueInv'
  <1>1. /\ Len(board) \in Nat /\ Len(board') \in Nat /\ Len(board) <= Len(board')
        /\ \A i \in 1..Len(board) : board'[i] = board[i]
        /\ queue \subseteq Nat \ {0} /\ seen \in Nat
    BY Grown, BoundIsNat DEF TypeOK, Id
  <1>2. ASSUME seen' = seen \/ seen' = 0 \/ (seen' = Len(board) /\ board' = board),
               queue' \subseteq queue, activated' = activated \/ queue = {}
        PROVE  QueueInv'
    BY <1>1, <1>2 DEF QueueInv
  <1>3. CASE Collect
    <2>1. ASSUME NEW i \in queue'
          PROVE  /\ i <= Len(board) /\ board[i].kind # "bot"
                 /\ board[i].kind = "implicit" => board[i].time >= activated
      <3>1. i \in Pending
        BY <1>3, <2>1 DEF Collect
      <3>2. i \in 1..seen /\ board[i].kind # "bot"
            /\ (board[i].kind = "implicit" => board[i].time >= implicitAt)
        BY <3>1, Chosen
      <3>3. board[i] \in Post
        BY <3>2, <1>1 DEF QueueInv, TypeOK
      <3>4. implicitAt >= activated
        BY <1>3 DEF Collect, ModeInv
      <3>5. board[i].time \in Int /\ implicitAt \in Int /\ activated \in Int
        BY <3>3, ListenerAssumption DEF Post, TypeOK, Time, Never
      <3>6. i <= Len(board)
        BY <3>2, <1>1 DEF QueueInv
      <3> QED
        BY <3>2, <3>4, <3>5, <3>6
    <2> QED
      BY <1>1, <1>3, <2>1 DEF QueueInv, Collect
  <1>4. CASE Launch
    BY <1>2, <1>4 DEF Launch, ModeInv
  <1>5. CASE Crash
    BY <1>2, <1>5 DEF Crash
  <1>6. CASE Next /\ ~Collect /\ ~Launch /\ ~Crash
    BY <1>2, <1>6 DEF Next, Ask, Listener, Tick, Started, Fetch, EnsureThread,
       ThreadSaved, Confirmed, Mark, Marked, CycleFails, Unconfirmed, SaveFails
  <1>7. CASE UNCHANGED vars
    BY <1>2, <1>7 DEF vars
  <1> QED
    BY <1>3, <1>4, <1>5, <1>6, <1>7

-----------------------------------------------------------------------------
(* The start of implicit mode.                                             *)

LEMMA ModeStep ==
    ASSUME TypeOK, BoardInv, QueueInv, ModeInv, [Next]_vars
    PROVE  ModeInv'
  <1>1. /\ now \in 0..MaxNow /\ activated \in Int /\ activated >= -1 /\ Never = -1
        /\ MaxNow \in Nat /\ implicitAt \in Int
        /\ disk \in State /\ saving \in State
        /\ disk.implicitAt \in Int /\ saving.implicitAt \in Int
    BY ListenerAssumption DEF TypeOK, State, Time, Never
  <1>2. Blank.implicitAt = Never
    BY DEF Blank
  \* Steps that neither answer nor touch a mode in memory.
  <1>3. ASSUME now' = now \/ now' = now + 1, activated' = activated,
               disk'.implicitAt \in {disk.implicitAt, saving.implicitAt, Never},
               saving'.implicitAt \in {disk.implicitAt, saving.implicitAt, Never},
               pc' # "down" => pc # "down" /\ implicitAt' = implicitAt,
               queue' \subseteq queue \/ pc # "down"
        PROVE  ModeInv'
    <2>1. activated' <= now'
      BY <1>1, <1>3 DEF ModeInv
    <2>2. \A state \in {disk, saving} :
            state.implicitAt # Never => activated # Never /\ state.implicitAt >= activated
      BY DEF ModeInv
    <2>3. \A state \in {disk', saving'} :
            state.implicitAt # Never => activated # Never /\ state.implicitAt >= activated
      BY <1>3, <2>2
    <2>4. pc' # "down" => activated # Never /\ implicitAt' >= activated
      BY <1>3 DEF ModeInv
    <2>5. ASSUME activated = Never
          PROVE  queue' = {} /\ \A r \in Asked' : board'[r].answers = 0
      <3>1. queue' = {} /\ queue = {} /\ \A r \in Asked : board[r].answers = 0
        BY <1>3, <2>5 DEF ModeInv
      <3> QED
        BY <3>1, Grown DEF Asked, Reply, Oldest
    <2> QED
      BY <1>3, <2>1, <2>3, <2>4, <2>5 DEF ModeInv
  <1>4. CASE Launch
    <2>1. activated' # Never /\ activated' <= now /\ activated' \in Int
          /\ (activated # Never => activated' = activated)
      BY <1>1, <1>4 DEF Launch, ModeInv
    <2>2. CASE disk.implicitAt # Never
      BY <1>1, <1>4, <2>1, <2>2 DEF Launch, ModeInv
    <2>3. CASE disk.implicitAt = Never
      <3>1. /\ implicitAt' = now /\ disk' = Blank
            /\ saving' = [disk EXCEPT !.implicitAt = now] /\ now' = now
        BY <1>4, <2>3 DEF Launch, BeginSave
      <3>2. saving'.implicitAt = now /\ disk'.implicitAt = Never
        BY <1>1, <1>2, <3>1 DEF State
      <3> QED
        BY <1>1, <2>1, <3>1, <3>2 DEF ModeInv
    <2> QED
      BY <2>2, <2>3
  <1>5. CASE EnsureThread
    <2>1. [disk EXCEPT !.threadAt = now].implicitAt = disk.implicitAt
      BY <1>1 DEF State
    <2> QED
      BY <1>2, <1>3, <1>5, <2>1 DEF EnsureThread, BeginSave
  <1>6. CASE Mark
    <2>1. [disk EXCEPT !.answered = answered'].implicitAt = disk.implicitAt
      BY <1>1 DEF State
    <2> QED
      BY <1>2, <1>3, <1>6, <2>1 DEF Mark, BeginSave
  <1>7. CASE Started \/ ThreadSaved \/ Marked
    BY <1>2, <1>3, <1>7 DEF Started, ThreadSaved, Marked, Write
  <1>8. CASE SaveFails \/ Crash
    BY <1>2, <1>3, <1>8 DEF SaveFails, Crash
  <1>9. CASE Ask \/ Tick \/ Fetch \/ Collect \/ Confirmed \/ CycleFails \/ Unconfirmed
             \/ UNCHANGED vars
    BY <1>3, <1>9 DEF Ask, Tick, Listener, Fetch, Collect, Confirmed, CycleFails,
       Unconfirmed, vars
  <1> QED
    BY <1>4, <1>5, <1>6, <1>7, <1>8, <1>9 DEF Next

-----------------------------------------------------------------------------
(* What is marked has a reply.                                             *)

(* The message just answered has its reply. *)
LEMMA ReplyLands ==
    ASSUME TypeOK, BoardInv, QueueInv, Land, NEW i \in queue, Oldest(i)
    PROVE  Replies(i)' = Replies(i) \cup {Len(board) + 1}
  <1>1. PICK j \in queue :
            /\ Oldest(j) /\ j \in 1..Len(board)
            /\ \E post \in Post :
                  /\ board' = Append(board, post)
                  /\ post.kind = "bot" /\ post.answers = j
                  /\ post.replyTo <= Len(board)
    BY LandType
  <1>2. PICK post \in Post :
            /\ board' = Append(board, post)
            /\ post.kind = "bot" /\ post.answers = j
            /\ post.replyTo <= Len(board)
    BY <1>1
  <1>3. i = j
    BY <1>1 DEF Oldest, TypeOK, Id
  <1> QED
    BY <1>2, <1>3, AppendType DEF Replies, Asked, Land

LEMMA MarkStep ==
    ASSUME TypeOK, BoardInv, QueueInv, MarkInv, [Next]_vars
    PROVE  MarkInv'
  <1> \A i : Replies(i) # {} => Replies(i)' # {}
    BY RepliesKept
  <1> disk \in State /\ saving \in State
    BY DEF TypeOK
  <1>1. Blank.answered = {}
    BY DEF Blank
  <1>2. ASSUME disk'.answered \subseteq disk.answered \cup saving.answered \cup answered,
               saving'.answered \subseteq disk.answered \cup saving.answered \cup answered,
               answered' \subseteq disk.answered \cup answered,
               pc' = "posted" => pc = "posted" /\ queue' = queue
        PROVE  MarkInv'
    BY <1>2 DEF MarkInv, MarkedIsAnswered, Oldest
  <1>3. CASE Confirmed
    <2>1. \A i \in queue : Oldest(i) => Replies(i)' # {}
      BY <1>3, ReplyLands DEF Confirmed
    <2> QED
      BY <1>3, <2>1 DEF Confirmed, MarkInv, MarkedIsAnswered, Oldest
  <1>4. CASE Mark
    <2>1. PICK i \in queue : Oldest(i) /\ answered' = answered \cup {i}
      BY <1>4 DEF Mark
    <2>2. Replies(i) # {}
      BY <1>4, <2>1 DEF Mark, MarkInv
    <2>3. [disk EXCEPT !.answered = answered'].answered = answered'
      BY DEF State
    <2>4. disk'.answered = {} /\ saving'.answered = answered' /\ pc' # "posted"
      BY <1>1, <1>4, <2>3 DEF Mark, BeginSave
    <2> QED
      BY <2>1, <2>2, <2>4 DEF MarkInv, MarkedIsAnswered
  <1>5. CASE Launch
    <2>1. [disk EXCEPT !.implicitAt = now].answered = disk.answered
      BY DEF State
    <2> QED
      BY <1>1, <1>2, <1>5, <2>1 DEF Launch, BeginSave
  <1>6. CASE EnsureThread
    <2>1. [disk EXCEPT !.threadAt = now].answered = disk.answered
      BY DEF State
    <2> QED
      BY <1>1, <1>2, <1>6, <2>1 DEF EnsureThread, BeginSave
  <1>7. CASE Started \/ ThreadSaved \/ Marked
    BY <1>1, <1>2, <1>7 DEF Started, ThreadSaved, Marked, Write
  <1>8. CASE Collect
    BY <1>2, <1>8 DEF Collect
  <1>9. CASE SaveFails \/ Crash
    BY <1>1, <1>2, <1>9 DEF SaveFails, Crash
  <1>10. CASE Ask \/ Tick \/ Fetch \/ CycleFails \/ Unconfirmed \/ UNCHANGED vars
    BY <1>2, <1>10 DEF Ask, Tick, Listener, Fetch, CycleFails, Unconfirmed, vars
  <1> QED
    BY <1>3, <1>4, <1>5, <1>6, <1>7, <1>8, <1>9, <1>10 DEF Next

-----------------------------------------------------------------------------
(* How often a message is answered.                                        *)

LEMMA RepliesFinite ==
    ASSUME TypeOK, NEW i
    PROVE  /\ IsFiniteSet(Replies(i)) /\ Cardinality(Replies(i)) \in Nat
           /\ Len(board) + 1 \notin Replies(i)
  <1>1. DOMAIN board = 1..Len(board) /\ Len(board) \in Nat
    BY BoundIsNat DEF TypeOK
  <1>2. Replies(i) \subseteq 1..Len(board)
    BY <1>1 DEF Replies, Asked
  <1>3. IsFiniteSet(1..Len(board))
    BY <1>1, FS_Interval
  <1>4. IsFiniteSet(Replies(i))
    BY <1>2, <1>3, FS_Subset
  <1> QED
    BY <1>1, <1>2, <1>4, FS_CardinalityType

LEMMA OneMore ==
    ASSUME TypeOK, BoardInv, QueueInv, Land, NEW i \in queue, Oldest(i)
    PROVE  Cardinality(Replies(i)') = Cardinality(Replies(i)) + 1
  BY ReplyLands, RepliesFinite, FS_AddElement

LEMMA RepliesSame ==
    ASSUME TypeOK, BoardInv, QueueInv, [Next]_vars, NEW i \in Id,
           ~Oldest(i) \/ pc # "answering" \/ board' = board
    PROVE  Replies(i)' = Replies(i)
  BY Grown DEF Replies, Asked, Reply, Id

LEMMA AskSame ==
    ASSUME TypeOK, Ask, NEW i \in Id
    PROVE  Replies(i)' = Replies(i)
  BY AskType, AppendType DEF Replies, Asked, Id, Ask

LEMMA CountStep ==
    ASSUME Inv, [Next]_vars
    PROVE  CountInv'
  <1> USE DEF Inv
  <1> disk \in State /\ saving \in State /\ faults \in Nat
    BY ListenerAssumption DEF TypeOK
  <1> \A i : Cardinality(Replies(i)) \in Nat
    BY RepliesFinite
  <1>1. Blank.answered = {}
    BY DEF Blank
  \* Steps without a reply.
  <1>2. ASSUME board' = board \/ Ask, faults' = faults, Pen \subseteq Pen',
               pc = "posted" => \/ pc' = "posted" /\ queue' = queue
                                \/ \A i : Oldest(i) => i \in Pen',
               pc' \in {"answering", "posted"} =>
                   answered' = disk'.answered /\ queue' \cap answered' = {},
               pc' = "marking" =>
                   answered' = saving'.answered /\ \A i \in queue' \cap answered' : Oldest(i)'
        PROVE  CountInv'
    <2>1. \A i \in Id : Replies(i)' = Replies(i)
      BY <1>2, RepliesSame, AskSame
    <2>2. ASSUME NEW i \in Id
          PROVE  \/ Cardinality(Replies(i)') <= faults'
                 \/ /\ Cardinality(Replies(i)') <= faults' + 1
                    /\ i \in Pen' \/ (pc' = "posted" /\ Oldest(i)')
      BY <1>2, <2>1 DEF CountInv, Oldest
    <2> QED
      BY <1>2, <2>2 DEF CountInv
  \* Faults.
  <1>3. ASSUME faults' = faults + 1, pc' \in {"asleep", "down"},
               board' = board \/ (Land /\ pc = "answering")
        PROVE  CountInv'
    <2>1. ASSUME NEW i \in Id
          PROVE  Cardinality(Replies(i)') <= faults'
      <3>1. CASE Replies(i)' = Replies(i)
        BY <1>3, <3>1 DEF CountInv
      <3>2. CASE Land /\ pc = "answering" /\ Oldest(i)
        <4>1. i \in queue /\ i \notin Pen
          BY <3>2 DEF CountInv, Oldest, Pen
        <4>2. Cardinality(Replies(i)) <= faults
          BY <3>2, <4>1 DEF CountInv
        <4> QED
          BY <1>3, <3>2, <4>1, <4>2, OneMore
      <3> QED
        BY <1>3, <3>1, <3>2, RepliesSame
    <2> QED
      BY <1>3, <2>1 DEF CountInv
  <1>4. CASE Confirmed
    <2>1. Pen' = Pen /\ pc' = "posted" /\ queue' = queue /\ faults' = faults
          /\ pc = "answering" /\ Land
      BY <1>4 DEF Confirmed, Pen
    <2>2. ASSUME NEW i \in Id
          PROVE  \/ Cardinality(Replies(i)') <= faults'
                 \/ /\ Cardinality(Replies(i)') <= faults' + 1
                    /\ i \in Pen' \/ (pc' = "posted" /\ Oldest(i)')
      <3>1. CASE Oldest(i)
        <4>1. i \in queue /\ i \notin Pen
          BY <2>1, <3>1 DEF CountInv, Oldest, Pen
        <4>2. Cardinality(Replies(i)) <= faults
          BY <2>1, <4>1 DEF CountInv
        <4> QED
          BY <2>1, <3>1, <4>1, <4>2, OneMore DEF Oldest
      <3>2. CASE ~Oldest(i)
        BY <2>1, <3>2, RepliesSame DEF CountInv
      <3> QED
        BY <3>1, <3>2
    <2> QED
      BY <1>4, <2>1, <2>2 DEF CountInv, Confirmed
  <1>5. CASE Mark
    <2>1. PICK i \in queue : Oldest(i) /\ answered' = answered \cup {i}
      BY <1>5 DEF Mark
    <2>2. [disk EXCEPT !.answered = answered'].answered = answered'
      BY DEF State
    <2>3. saving'.answered = answered' /\ pc' = "marking" /\ pc = "posted"
          /\ board' = board /\ faults' = faults /\ queue' = queue
      BY <1>5, <2>2 DEF Mark, BeginSave
    <2>4. Pen' = answered' /\ Pen = answered /\ queue \cap answered = {}
      BY <2>3 DEF Pen, CountInv
    <2>5. \A j : Oldest(j) => j = i
      BY <2>1 DEF Oldest, TypeOK, Id
    <2>6. \A j \in queue' \cap answered' : Oldest(j)'
      BY <2>1, <2>3, <2>4 DEF Oldest
    <2> QED
      BY <1>2, <2>1, <2>3, <2>4, <2>5, <2>6
  <1>6. CASE Marked
    <2>1. /\ pc = "marking" /\ pc' \in {"asleep", "answering"}
          /\ disk'.answered = saving.answered /\ answered' = answered
          /\ queue' = {i \in queue : ~Oldest(i)}
          /\ board' = board /\ faults' = faults
      BY <1>6 DEF Marked, Write
    <2>2. Pen' = Pen /\ answered = saving.answered
      BY <2>1 DEF Pen, CountInv
    <2>3. queue' \cap answered' = {}
      BY <2>1 DEF CountInv
    <2> QED
      BY <1>2, <2>1, <2>2, <2>3
  <1>7. CASE Launch
    <2>1. [disk EXCEPT !.implicitAt = now].answered = disk.answered
      BY DEF State
    <2>2. Pen' = Pen /\ pc = "down" /\ pc' \in {"asleep", "starting"}
      BY <1>7, <2>1 DEF Launch, BeginSave, Pen
    <2> QED
      BY <1>2, <1>7, <2>2 DEF Launch
  <1>8. CASE EnsureThread
    <2>1. [disk EXCEPT !.threadAt = now].answered = disk.answered
      BY DEF State
    <2>2. Pen' = Pen /\ pc = "fetched" /\ pc' \in {"collect", "threading"}
      BY <1>8, <2>1 DEF EnsureThread, BeginSave, Pen
    <2> QED
      BY <1>2, <1>8, <2>2 DEF EnsureThread
  <1>9. CASE Started \/ ThreadSaved
    <2>1. Pen' = Pen
      BY <1>9 DEF Started, ThreadSaved, Write, Pen
    <2> QED
      BY <1>2, <1>9, <2>1 DEF Started, ThreadSaved
  <1>10. CASE Collect
    <2>1. Pen' = Pen
      BY <1>10 DEF Collect, Pen
    <2>2. queue' \cap answered' = {}
      BY <1>10, Chosen DEF Collect
    <2> QED
      BY <1>2, <1>10, <2>1, <2>2 DEF Collect
  <1>11. CASE SaveFails \/ Crash \/ Unconfirmed
    BY <1>3, <1>11 DEF SaveFails, Crash, Unconfirmed, Fault
  <1>12. CASE Ask \/ Tick \/ UNCHANGED vars
    <2>1. /\ pc' = pc /\ queue' = queue /\ answered' = answered /\ disk' = disk
          /\ saving' = saving /\ faults' = faults /\ (board' = board \/ Ask)
      BY <1>12 DEF Ask, Tick, Listener, vars
    <2>2. Pen' = Pen
      BY <2>1 DEF Pen
    <2> QED
      BY <1>2, <2>1, <2>2 DEF CountInv, Oldest
  <1>13. CASE Fetch \/ CycleFails
    <2>1. Pen' = Pen
      BY <1>13 DEF Fetch, CycleFails, Pen
    <2> QED
      BY <1>2, <1>13, <2>1 DEF Fetch, CycleFails
  <1> QED
    BY <1>4, <1>5, <1>6, <1>7, <1>8, <1>9, <1>10, <1>11, <1>12, <1>13 DEF Next

-----------------------------------------------------------------------------
(* The theorems.                                                           *)

LEMMA InvInit == Init => Inv
  <1> SUFFICES ASSUME Init PROVE Inv
    OBVIOUS
  <1>1. TypeOK
    BY TypeInit
  <1>2. BoardInv /\ QueueInv /\ Asked = {}
    BY DEF Init, BoardInv, QueueInv, Asked
  <1>3. ModeInv /\ MarkInv
    BY <1>2, ListenerAssumption
       DEF Init, ModeInv, MarkInv, MarkedIsAnswered, Blank, Never, Time
  <1>4. CountInv
    <2>1. \A i : Replies(i) = {}
      BY <1>2 DEF Replies
    <2> QED
      BY <2>1, FS_EmptySet DEF Init, CountInv
  <1> QED
    BY <1>1, <1>2, <1>3, <1>4 DEF Inv

LEMMA InvStep == Inv /\ [Next]_vars => Inv'
  BY TypeStep, BoardStep, QueueStep, ModeStep, MarkStep, CountStep DEF Inv

THEOREM InvCorrect == Spec => []Inv
  BY InvInit, InvStep, PTL DEF Spec

\* The listener model is well typed, for every size of board, clock and batch.
THEOREM TypeCorrect == Spec => []TypeOK
  BY InvCorrect, PTL DEF Inv

\* Whatever crashes, failed saves and unconfirmed posts there are, the state
\* file never marks a message that has no reply (process_cycle).
THEOREM MarkedCorrect == Spec => []MarkedIsAnswered
  BY InvCorrect, PTL DEF Inv, MarkInv

(* What every reply was for: the message chosen was somebody else's and not *)
(* too old, and posts do not change.                                       *)
SelfInv == NeverItself /\ HistoryLeftAlone

LEMMA SelfStep ==
    ASSUME Inv, SelfInv, [Next]_vars
    PROVE  SelfInv'
  <1>1. /\ Len(board) \in Nat /\ Len(board') \in Nat
        /\ DOMAIN board = 1..Len(board) /\ DOMAIN board' = 1..Len(board')
        /\ \A i \in 1..Len(board) : board'[i] = board[i]
    BY Grown DEF Inv
  <1>2. ASSUME NEW r \in Asked', board'[r].answers # 0
        PROVE  LET q == board'[r].answers
               IN /\ board'[q].kind # "bot"
                  /\ board'[q].kind = "implicit" => board'[q].time >= activated'
    <2>1. CASE r <= Len(board)
      <3>1. r \in 1..Len(board) /\ board'[r] = board[r] /\ r \in Asked
        BY <1>1, <2>1 DEF Asked
      <3>2. board[r].answers \in 1..Len(board)
        <4>1. board[r] \in Post
          BY <3>1, <1>1 DEF Inv, TypeOK
        <4> QED
          BY <4>1, <3>1, <1>2, BoundIsNat DEF Inv, BoardInv, Post
      <3>3. activated # Never
        BY <1>2, <3>1 DEF Inv, ModeInv
      <3>4. activated' = activated
        BY <3>3 DEF Next, vars, Ask, Listener, Tick, Launch, Started, Fetch, EnsureThread,
           ThreadSaved, Collect, Confirmed, Mark, Marked, CycleFails, Unconfirmed,
           SaveFails, Crash
      <3> QED
        BY <1>1, <1>2, <3>1, <3>2, <3>4 DEF SelfInv, NeverItself, HistoryLeftAlone
    <2>2. CASE r > Len(board)
      <3>1. Reply(board'[r])
        BY <1>1, <1>2, <2>2, Grown DEF Inv, Asked
      <3>2. board'[r].answers \in queue /\ pc = "answering"
        BY <3>1 DEF Reply, Oldest
      <3>3. board'[r].answers \in 1..Len(board)
        <4>1. queue \subseteq 1..MaxBoard /\ \A i \in queue : i <= Len(board)
          BY DEF Inv, TypeOK, QueueInv, Id
        <4>2. \A i \in queue : i \in 1..Len(board)
          BY <4>1, <1>1, BoundIsNat
        <4> QED
          BY <3>2, <4>2
      <3>4. activated' = activated
        BY <3>2 DEF Next, vars, Ask, Listener, Tick, Launch, Started, Fetch, EnsureThread,
           ThreadSaved, Collect, Confirmed, Mark, Marked, CycleFails, Unconfirmed,
           SaveFails, Crash
      <3> QED
        BY <1>1, <3>2, <3>3, <3>4 DEF Inv, QueueInv
    <2>3. r \in Nat
      BY <1>1 DEF Asked
    <2> QED
      BY <1>1, <2>1, <2>2, <2>3
  <1> QED
    BY <1>2 DEF SelfInv, NeverItself, HistoryLeftAlone

LEMMA SelfInit == Init => SelfInv
  BY DEF Init, SelfInv, NeverItself, HistoryLeftAlone, Asked

LEMMA SelfAlways == Spec => []SelfInv
  <1>1. Inv /\ SelfInv /\ [Next]_vars => SelfInv'
    BY SelfStep
  <1> QED
    BY <1>1, SelfInit, InvCorrect, PTL DEF Spec

\* The bot never answers a post of its own, however its replies come back in
\* the feed (find_unanswered_messages).
THEOREM SelfCorrect == Spec => []NeverItself
  BY SelfAlways, PTL DEF SelfInv

\* The owner's posts from before the first launch are left alone, whatever the
\* state file goes through (ensure_implicit_mode_start).
THEOREM HistoryCorrect == Spec => []HistoryLeftAlone
  BY SelfAlways, PTL DEF SelfInv

\* A message has at most one reply more than there were faults, whatever they
\* are and however many messages one of them hits (process_cycle, save_state).
THEOREM RepliesCorrect == Spec => []RepliesBounded
  <1>1. Inv => RepliesBounded
    <2> SUFFICES ASSUME Inv, NEW i \in Asked PROVE Cardinality(Replies(i)) <= 1 + faults
      BY DEF RepliesBounded
    <2>1. i \in Id /\ faults \in Nat /\ Cardinality(Replies(i)) \in Nat
      BY BoundIsNat, ListenerAssumption, RepliesFinite DEF Inv, TypeOK, Asked, Id
    <2> QED
      BY <2>1 DEF Inv, CountInv
  <1> QED
    BY <1>1, InvCorrect, PTL
=============================================================================
