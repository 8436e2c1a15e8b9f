------------------------------ MODULE HxmpMemory ------------------------------
(***************************************************************************)
(* HXMP memory (integrations/hxmp/scripts/hxmp_tools.mjs, write-soul and   *)
(* read-soul): an agent's memory is written to the X1 chain as memo        *)
(* transactions, the encrypted chunks first and then a pointer to them     *)
(* (soul.latest); a reader scans the wallet's recent transactions for the  *)
(* newest pointer of a lane and collects its chunks.                       *)
(*                                                                         *)
(* Abstracted: a memory is the number of chunks it encrypts to, which      *)
(* stands for its hash too; the optional identity-hashes and manifest      *)
(* records are transactions like any other of the wallet.                  *)
(***************************************************************************)
EXTENDS Integers, FiniteSets, SequencesExt

CONSTANTS
    Writers,      \* write-soul processes of the wallet
    Memories,     \* memories to write
    Lanes,        \* lanes they are written to
    Sends,        \* what sendMemo may do besides confirming: "refused", "timeout"
    Losable,      \* whether a scan, or fetching one of its transactions, may fail
    WriteWindow,  \* signatures write-soul scans (120)
    ReadWindow,   \* signatures read-soul scans (80)
    MaxWrites,    \* bound on writes started
    MaxChain      \* bound on transactions

ASSUME HxmpAssumption ==
    /\ Memories \subseteq Nat \ {0} /\ Memories # {}
    /\ "core" \in Lanes
    /\ Sends \subseteq {"refused", "timeout"}
    /\ Losable \in BOOLEAN
    /\ WriteWindow \in Nat /\ ReadWindow \in Nat
    /\ MaxWrites \in Nat /\ MaxChain \in Nat

VARIABLES
    chain,     \* memo transactions of the wallet, oldest first
    inflight,  \* submitted, not confirmed in time
    writes,    \* writes started: snapshot ids are numbered
    pc,        \* per writer
    job,       \* per writer, the pointer it will write
    sent,      \* per writer, chunks confirmed
    readback   \* per writer, the memory its readback verified, 0 for none

vars == <<chain, inflight, writes, pc, job, sent, readback>>

Sid == 0..MaxWrites
Size == Memories \cup {0}

Chunk(h, sid, i, n) == [t |-> "chunk", h |-> h, sid |-> sid, i |-> i, n |-> n]
\* "seen" is not in the record: how long the chain was when its write began, 0 when
\* its scan missed any of it.
Pointer(h, sid, lane, seq, prev, seen) ==
    [t |-> "latest", h |-> h, sid |-> sid, n |-> h, lane |-> lane, seq |-> seq,
     prev |-> prev, seen |-> seen]
Other == [t |-> "other"]

Pointers == [t : {"latest"}, h : Size, sid : Sid, n : Size,
             lane : Lanes, seq : Sid, prev : Size, seen : 0..MaxChain]
Chunks == UNION {{Chunk(h, sid, i, h) : sid \in Sid, i \in 0..(h - 1)} : h \in Memories}
NoJob == [t |-> "latest", h |-> 0, sid |-> 0, n |-> 0, lane |-> "core", seq |-> 0,
          prev |-> 0, seen |-> 0]

TypeOK ==
    /\ Len(chain) \in 0..MaxChain
    /\ \A i \in DOMAIN chain : chain[i] \in Chunks \cup Pointers \cup {Other}
    /\ inflight \subseteq Chunks \cup Pointers
    /\ writes \in 0..MaxWrites
    /\ pc \in [Writers -> {"idle", "chunks", "pointer", "readback"}]
    /\ job \in [Writers -> Pointers]
    /\ \A w \in Writers : sent[w] \in 0..job[w].n
    /\ readback \in [Writers -> Size]

Init ==
    /\ chain = <<>>
    /\ inflight = {}
    /\ writes = 0
    /\ pc = [w \in Writers |-> "idle"]
    /\ job = [w \in Writers |-> NoJob]
    /\ sent = [w \in Writers |-> 0]
    /\ readback = [w \in Writers |-> 0]
-----------------------------------------------------------------------------
(* Scanning.                                                               *)

Window(limit) == {i \in DOMAIN chain : i > Len(chain) - limit}

\* scanHxmp: a transaction that cannot be fetched is passed over in silence.
Scans(limit) == IF Losable THEN SUBSET Window(limit) ELSE {Window(limit)}

PointersIn(found, lane) ==
    {i \in found : chain[i].t = "latest" /\ chain[i].lane = lane}

\* Mutant: a pointer of any lane is taken.
LatestOfAll(found, lane) == Max({0} \cup {i \in found : chain[i].t = "latest"})

\* latestForLane: its place in the chain, 0 when there is none.
LatestForLane(found, lane) == Max({0} \cup PointersIn(found, lane))

\* nextMemoryMeta, in the pointer of a write of h to lane.
NextPointer(found, h, sid, lane) ==
    LET latest == LatestForLane(found, lane)
        seen == IF found = DOMAIN chain THEN Len(chain) ELSE 0
    IN IF latest = 0 THEN Pointer(h, sid, lane, 1, 0, seen)
                     ELSE Pointer(h, sid, lane, chain[latest].seq + 1, chain[latest].h, seen)

\* Mutant: chunks are matched by owner and hash only.
PartsByHash(found, p) == {i \in found : chain[i].t = "chunk" /\ chain[i].h = chain[p].h}

Parts(found, p) ==
    {i \in found : /\ chain[i].t = "chunk"
                   /\ chain[i].h = chain[p].h
                   /\ chain[i].sid = chain[p].sid}

\* Mutant: the number of parts is not compared with their total.
PartsNumbered(parts) ==
    /\ parts # {}
    /\ \A i, j \in parts : chain[i].i = chain[j].i => i = j
    /\ \A i, j \in parts : chain[i].sid = chain[j].sid

\* validateSnapshotParts
PartsValid(parts) ==
    /\ parts # {}
    /\ \A i \in parts : Cardinality(parts) = chain[i].n
    /\ {chain[i].i : i \in parts} = 0..(Cardinality(parts) - 1)
    /\ \A i, j \in parts : chain[i].sid = chain[j].sid

\* The chunks decrypt: they are all the ciphertext of one write.
Decrypts(parts) ==
    \E h \in Memories, sid \in Sid :
        {chain[i] : i \in parts} = {Chunk(h, sid, i, h) : i \in 0..(h - 1)}

\* readSoul: the memory it returns verified, 0 when it returns none.
ReadSoul(found, lane) ==
    LET p == LatestForLane(found, lane)
    IN IF p # 0 /\ PartsValid(Parts(found, p)) /\ Decrypts(Parts(found, p))
         THEN chain[p].h ELSE 0
-----------------------------------------------------------------------------
(* Writing.                                                                *)

\* writeSoul up to the first transaction; a scan that fails counts as empty.
Start(w) ==
    /\ pc[w] = "idle"
    /\ writes < MaxWrites
    /\ writes' = writes + 1
    /\ \E h \in Memories, lane \in Lanes,
          found \in Scans(WriteWindow) \cup (IF Losable THEN {{}} ELSE {}) :
          job' = [job EXCEPT ![w] = NextPointer(found, h, writes', lane)]
    /\ sent' = [sent EXCEPT ![w] = 0]
    /\ readback' = [readback EXCEPT ![w] = 0]
    /\ pc' = [pc EXCEPT ![w] = "chunks"]
    /\ UNCHANGED <<chain, inflight>>

\* The transaction w sends now.
Memo(w) ==
    IF pc[w] = "chunks" THEN Chunk(job[w].h, job[w].sid, sent[w], job[w].n)
                        ELSE job[w]

Sending(w) == pc[w] \in {"chunks", "pointer"} /\ Len(chain) < MaxChain

\* Mutant: one chunk too many.
AfterTooMany(w) ==
    IF pc[w] = "pointer" THEN "readback"
    ELSE IF sent[w] = job[w].n THEN "pointer" ELSE "chunks"

\* Where a writer goes when a chunk, or the pointer, is confirmed.
After(w) ==
    IF pc[w] = "pointer" THEN "readback"
    ELSE IF sent[w] + 1 = job[w].n THEN "pointer" ELSE "chunks"

\* sendMemo returns a confirmed signature.
Confirmed(w) ==
    /\ Sending(w)
    /\ chain' = Append(chain, Memo(w))
    /\ sent' = [sent EXCEPT ![w] = IF pc[w] = "chunks" THEN @ + 1 ELSE @]
    /\ pc' = [pc EXCEPT ![w] = After(w)]
    /\ UNCHANGED <<inflight, writes, job, readback>>

\* main reports the failure and the process ends.
Fails(w) == pc' = [pc EXCEPT ![w] = "idle"]

\* The transaction is refused, or the process ends here: the write is given up.
Refused(w) ==
    /\ "refused" \in Sends
    /\ Sending(w)
    /\ Fails(w)
    /\ UNCHANGED <<chain, inflight, writes, job, sent, readback>>

\* Confirmation takes too long: the write is given up, the transaction is out.
TimesOut(w) ==
    /\ "timeout" \in Sends
    /\ Sending(w)
    /\ inflight' = inflight \cup {Memo(w)}
    /\ Fails(w)
    /\ UNCHANGED <<chain, writes, job, sent, readback>>

\* readSoul is called without a lane, so it reads "core".  Building the
\* receipt then takes objSeq(latest.object) of the pointer it has just written,
\* which has no "object", and raises.
Readback(w) ==
    /\ pc[w] = "readback"
    /\ \E found \in Scans(ReadWindow) :
          readback' = [readback EXCEPT ![w] = ReadSoul(found, "core")]
    /\ Fails(w)
    /\ UNCHANGED <<chain, inflight, writes, job, sent>>
-----------------------------------------------------------------------------
(* The chain.                                                              *)

\* A transaction that timed out is included after all, or its blockhash expires.
Land ==
    /\ Len(chain) < MaxChain
    /\ \E r \in inflight : chain' = Append(chain, r) /\ inflight' = inflight \ {r}
    /\ UNCHANGED <<writes, pc, job, sent, readback>>

Expire ==
    /\ \E r \in inflight : inflight' = inflight \ {r}
    /\ UNCHANGED <<chain, writes, pc, job, sent, readback>>

\* The wallet does something else: a transfer, a manifest.
OtherTransaction ==
    /\ Len(chain) < MaxChain
    /\ chain' = Append(chain, Other)
    /\ UNCHANGED <<inflight, writes, pc, job, sent, readback>>

Next ==
    \/ \E w \in Writers :
          Start(w) \/ Confirmed(w) \/ Refused(w) \/ TimesOut(w) \/ Readback(w)
    \/ Land \/ Expire \/ OtherTransaction

Spec == Init /\ [][Next]_vars
-----------------------------------------------------------------------------
(* Properties.                                                             *)

\* The last pointer of a lane among the first n transactions, 0 for none.
LastOf(lane, n) ==
    Max({0} \cup {i \in 1..n : chain[i].t = "latest" /\ chain[i].lane = lane})
Newest(lane) == LastOf(lane, Len(chain))

\* Whatever writers were interrupted, retried or are half way, read-soul over a
\* complete scan returns the memory of the newest pointer: a write changes what
\* is read at once or not at all (writeSoul's order, the snapshot ids).
Recoverable ==
    \A lane \in Lanes :
        Newest(lane) # 0 => ReadSoul(Window(ReadWindow), lane) = chain[Newest(lane)].h

\* Whatever the scan misses, chunks that pass validateSnapshotParts are all of
\* one snapshot, so decryption never gets a mixture (readSoul).
ValidatedIsWhole ==
    \A p \in DOMAIN chain :
        chain[p].t = "latest" =>
            \A found \in SUBSET Parts(Window(ReadWindow), p) :
                PartsValid(found) => Decrypts(found)

\* Pointer p has the next number after pointer q of its lane and names its memory.
Continues(p, q) ==
    /\ chain[q].t = "latest" /\ chain[q].lane = chain[p].lane
    /\ chain[p].seq = chain[q].seq + 1 /\ chain[p].prev = chain[q].h

\* However scans fail, lanes move and pointers land late, a pointer begins a lane
\* anew or continues an earlier one of its lane, so that "prev" leads back to a
\* number 1; and it continues the newest before it if the scan that its write
\* began with missed nothing and the lane did not move since (nextMemoryMeta).
Chained ==
    \A p \in DOMAIN chain : chain[p].t = "latest" =>
        /\ \/ chain[p].seq = 1 /\ chain[p].prev = 0
           \/ \E q \in 1..(p - 1) : Continues(p, q)
        /\ LET before == LastOf(chain[p].lane, p - 1)
           IN before \in 1..chain[p].seen => Continues(p, before)

\* integrations/hxmp/API.md: a new memory has the number after that of the newest
\* pointer in its lane, and names the memory of that.
Consecutive ==
    \A p \in DOMAIN chain : chain[p].t = "latest" =>
        LET before == LastOf(chain[p].lane, p - 1)
        IN before # 0 => Continues(p, before)

\* What TOOL_MANIFEST.json says of write-soul: the readback verifies the memory
\* that was written.
ReadbackOwn == \A w \in Writers : readback[w] # 0 => readback[w] = job[w].h
=============================================================================
