------------------------------ MODULE StoreProofs ------------------------------
(***************************************************************************)
(* Theorems about what is kept: HXMP memory, for any number of writers,    *)
(* memories of any size, and any number of writes, refusals and timeouts,  *)
(* and the store of metrics, for every clock, period, slack, interval, set *)
(* of prices and number of rows.                                           *)
(***************************************************************************)
EXTENDS HxmpMemory, MetricsStore, FiniteFacts, TLAPS

-----------------------------------------------------------------------------
(***************************************************************************)
(* HxmpMemory.                                                             *)
(***************************************************************************)

-----------------------------------------------------------------------------
(* The invariant.                                                          *)

\* A pointer that some write sends, as opposed to NoJob.
Real == {x \in Pointers : x.h \in Memories /\ x.n = x.h}
Transaction == Chunks \cup Real \cup {Other}
Active(w) == pc[w] # "idle"

TypeInv ==
    /\ chain \in Seq(Transaction) /\ Len(chain) <= MaxChain
    /\ inflight \subseteq Chunks \cup Real
    /\ writes \in 0..MaxWrites
    /\ pc \in [Writers -> {"idle", "chunks", "pointer", "readback"}]
    /\ job \in [Writers -> Pointers]
    /\ sent \in [Writers -> Nat]
    /\ readback \in [Writers -> Size]
    /\ \A w \in Writers :
          /\ sent[w] <= job[w].n
          /\ pc[w] # "idle" => job[w] \in Real
          /\ pc[w] = "chunks" => sent[w] < job[w].n

\* What is on the chain, or may yet be.
Out == {chain[k] : k \in DOMAIN chain} \cup inflight
Jobs == {job[w] : w \in {w \in Writers : Active(w)}}

\* No number is above the number of writes.
NumberInv ==
    \A x \in Out \cup Jobs : x.t # "other" =>
        x.sid <= writes /\ (x.t = "latest" => x.seq <= writes)

\* A snapshot id belongs to one write of one memory.
OwnerInv ==
    /\ \A x, y \in Out \cup Jobs :
          x.t # "other" /\ y.t # "other" /\ x.sid = y.sid => x.h = y.h
    /\ \A v, w \in Writers :
          Active(v) /\ Active(w) /\ job[v].sid = job[w].sid => v = w

SameChunk(x, y) == x.t = "chunk" /\ y.t = "chunk" /\ x.sid = y.sid /\ x.i = y.i

\* No chunk is on the chain twice, or both there and in flight, and a writer has
\* not sent what it will send.
OnceInv ==
    /\ \A j, k \in DOMAIN chain : SameChunk(chain[j], chain[k]) => j = k
    /\ \A k \in DOMAIN chain, x \in inflight : ~SameChunk(chain[k], x)
    /\ \A w \in Writers : pc[w] = "chunks" =>
          \A x \in Out : x.t = "chunk" /\ x.sid = job[w].sid => x.i < sent[w]

\* The first m chunks of the write of pointer x are among the transactions c.
Upto(c, x, m) ==
    \A i \in 0..(m - 1) : \E k \in DOMAIN c : c[k] = Chunk(x.h, x.sid, i, x.h)

\* A pointer follows its chunks.
WholeInv ==
    /\ \A x \in Out : x.t = "latest" => Upto(chain, x, x.h)
    /\ \A w \in Writers :
          /\ pc[w] = "chunks" => Upto(chain, job[w], sent[w])
          /\ pc[w] \in {"pointer", "readback"} => Upto(chain, job[w], job[w].h)

Inv == TypeInv /\ NumberInv /\ OwnerInv /\ OnceInv /\ WholeInv

-----------------------------------------------------------------------------
(* Records.                                                                *)

\* A chunk is made of its hash, snapshot id and index.
LEMMA ChunkType ==
    ASSUME NEW x \in Chunks
    PROVE  /\ x.t = "chunk" /\ x.h \in Memories /\ x.h \in Nat /\ x.n = x.h
           /\ x.sid \in Sid /\ x.i \in 0..(x.h - 1)
           /\ x = Chunk(x.h, x.sid, x.i, x.h)
<1>1. PICK h \in Memories : \E sid \in Sid, i \in 0..(h - 1) : x = Chunk(h, sid, i, h)
  BY DEF Chunks
<1>2. PICK sid \in Sid, i \in 0..(h - 1) : x = Chunk(h, sid, i, h)
  BY <1>1
<1>3. h \in Nat
  BY HxmpAssumption
<1>. QED
  BY <1>2, <1>3 DEF Chunk

\* The fields of a pointer.
LEMMA PointerType ==
    ASSUME NEW x \in Pointers
    PROVE  /\ x.t = "latest" /\ x.lane \in Lanes
           /\ x.h \in Size /\ x.n \in Size /\ x.prev \in Size
           /\ x.h \in Nat /\ x.n \in Nat
           /\ x.sid \in 0..MaxWrites /\ x.seq \in 0..MaxWrites /\ x.seen \in 0..MaxChain
<1>1. Size \subseteq Nat
  BY HxmpAssumption DEF Size
<1>. QED
  BY <1>1 DEF Pointers, Sid

\* The kind of a record tells which set it is from.
LEMMA RecordKind ==
    ASSUME NEW x \in Transaction
    PROVE  /\ x.t = "chunk" => x \in Chunks
           /\ x.t = "latest" => x \in Real
           /\ x.t = "other" => x = Other
<1>1. CASE x \in Chunks
  BY <1>1, ChunkType
<1>2. CASE x \in Real
  BY <1>2, PointerType DEF Real
<1>3. CASE x = Other
  BY <1>3 DEF Other
<1>. QED
  BY <1>1, <1>2, <1>3 DEF Transaction

\* The chain is finite.
LEMMA ChainType ==
    ASSUME TypeInv
    PROVE  /\ Len(chain) \in Nat /\ DOMAIN chain = 1..Len(chain)
           /\ IsFiniteSet(DOMAIN chain)
           /\ \A k \in DOMAIN chain : chain[k] \in Transaction
<1>1. Len(chain) \in Nat /\ DOMAIN chain = 1..Len(chain)
  BY DEF TypeInv
<1>2. IsFiniteSet(1..Len(chain))
  BY <1>1, FS_Interval
<1>. QED
  BY <1>1, <1>2 DEF TypeInv

\* The greatest of 0 and finitely many positions.
LEMMA MaxPosition ==
    ASSUME NEW S \in SUBSET Nat, IsFiniteSet(S)
    PROVE  /\ Max({0} \cup S) \in {0} \cup S
           /\ \A i \in {0} \cup S : i <= Max({0} \cup S)
<1>. DEFINE E == {0} \cup S
            f == [i \in E |-> i]
<1>1. IsFiniteSet(E) /\ E # {} /\ E \in SUBSET Nat
  BY FS_AddElement
<1>2. \A i \in E : f[i] = i /\ f[i] \in Int
  BY <1>1
<1>. HIDE DEF E, f
<1>3. \E k \in E : \A j \in E : f[j] <= f[k]
  BY <1>1, <1>2, GreatestMeasure
<1>4. \E k \in E : \A j \in E : k >= j
  BY <1>1, <1>2, <1>3
<1>5. Max(E) \in E /\ \A j \in E : Max(E) >= j
  BY <1>4 DEF Max
<1>6. \A j \in E : j <= Max(E)
  BY <1>1, <1>5
<1>. QED
  BY <1>5, <1>6 DEF E

\* The pointer a scan finds.
LEMMA LatestType ==
    ASSUME TypeInv, NEW found \in SUBSET DOMAIN chain, NEW lane
    PROVE  LET p == LatestForLane(found, lane)
           IN /\ p \in {0} \cup PointersIn(found, lane)
              /\ \A i \in PointersIn(found, lane) : i <= p
              /\ p # 0 => p \in DOMAIN chain /\ chain[p] \in Real /\ chain[p].lane = lane
<1>. DEFINE S == PointersIn(found, lane)
<1>1. S \in SUBSET DOMAIN chain /\ S \in SUBSET Nat /\ IsFiniteSet(S)
  BY ChainType, FS_Subset DEF PointersIn
<1>2. Max({0} \cup S) \in {0} \cup S /\ \A i \in {0} \cup S : i <= Max({0} \cup S)
  BY <1>1, MaxPosition
<1>3. LatestForLane(found, lane) = Max({0} \cup S)
  BY DEF LatestForLane
<1>4. \A i \in S : i \in DOMAIN chain /\ chain[i] \in Real /\ chain[i].lane = lane
  BY ChainType, RecordKind DEF PointersIn
<1>. HIDE DEF S
<1>5. LatestForLane(found, lane) # 0 => LatestForLane(found, lane) \in S
  BY <1>2, <1>3
<1>. QED
  BY <1>2, <1>3, <1>4, <1>5 DEF S

-----------------------------------------------------------------------------
(* Validated chunks.                                                       *)

\* Chunks that validate are all those of one write.
LEMMA Whole ==
    ASSUME TypeInv, NEW p \in DOMAIN chain, chain[p].t = "latest",
           NEW parts \in SUBSET {i \in DOMAIN chain : chain[i].t = "chunk"
                                    /\ chain[i].h = chain[p].h /\ chain[i].sid = chain[p].sid},
           PartsValid(parts)
    PROVE  Decrypts(parts)
<1>. DEFINE h == chain[p].h
            sid == chain[p].sid
<1>1. chain[p] \in Real /\ h \in Memories /\ sid \in Sid
  BY ChainType, RecordKind, PointerType DEF Real, Sid
<1>. HIDE DEF h, sid
<1>2. \A i \in parts : chain[i] \in Chunks /\ chain[i].h = h /\ chain[i].sid = sid
  BY ChainType, RecordKind DEF h, sid
<1>3. \A i \in parts : chain[i].n = h /\ chain[i] = Chunk(h, sid, chain[i].i, h)
  BY <1>2, ChunkType
<1>4. Cardinality(parts) = h
  BY <1>3 DEF PartsValid
<1>5. {chain[i].i : i \in parts} = 0..(h - 1)
  BY <1>4 DEF PartsValid
<1>6. {chain[i] : i \in parts} = {Chunk(h, sid, i, h) : i \in 0..(h - 1)}
  <2>1. ASSUME NEW i \in 0..(h - 1)
        PROVE  Chunk(h, sid, i, h) \in {chain[k] : k \in parts}
    <3>1. PICK k \in parts : chain[k].i = i
      BY <1>5
    <3>. QED
      BY <3>1, <1>3
  <2>2. ASSUME NEW k \in parts
        PROVE  chain[k] \in {Chunk(h, sid, i, h) : i \in 0..(h - 1)}
    <3>1. chain[k].i \in 0..(h - 1)
      BY <1>5
    <3>. QED
      BY <3>1, <1>3
  <2>. QED
    BY <2>1, <2>2
<1>. QED
  BY <1>1, <1>6 DEF Decrypts

\* ValidatedIsWhole follows from the types.
LEMMA InvValidated == TypeInv => ValidatedIsWhole
<1>. SUFFICES ASSUME TypeInv, NEW p \in DOMAIN chain, chain[p].t = "latest",
                     NEW found \in SUBSET Parts(Window(ReadWindow), p),
                     PartsValid(found)
              PROVE  Decrypts(found)
  BY DEF ValidatedIsWhole
<1>1. found \in SUBSET {i \in DOMAIN chain : chain[i].t = "chunk"
                           /\ chain[i].h = chain[p].h /\ chain[i].sid = chain[p].sid}
  BY DEF Parts, Window
<1>. QED
  BY <1>1, Whole

\* A complete scan of a chain with all chunks of a pointer, each once, reads it.
LEMMA InvRecoverable ==
    ASSUME ReadWindow >= MaxChain, Inv
    PROVE  Recoverable
<1>. SUFFICES ASSUME NEW lane \in Lanes, Newest(lane) # 0
              PROVE  ReadSoul(Window(ReadWindow), lane) = chain[Newest(lane)].h
  BY DEF Recoverable
<1>1. TypeInv /\ OwnerInv /\ OnceInv /\ WholeInv
  BY DEF Inv
<1>2. Len(chain) \in Nat /\ DOMAIN chain = 1..Len(chain) /\ IsFiniteSet(DOMAIN chain)
  BY <1>1, ChainType
<1>3. Window(ReadWindow) = DOMAIN chain
  BY <1>1, <1>2, HxmpAssumption DEF Window, TypeInv
<1>. DEFINE p == LatestForLane(DOMAIN chain, lane)
<1>4. p = Newest(lane)
  BY <1>2 DEF Newest, LastOf, LatestForLane, PointersIn
<1>5. p \in DOMAIN chain /\ chain[p] \in Real
  BY <1>1, <1>4, LatestType
<1>. HIDE DEF p
<1>. DEFINE h == chain[p].h
            sid == chain[p].sid
            parts == Parts(DOMAIN chain, p)
<1>6. /\ h \in Memories /\ h \in Nat /\ h > 0 /\ sid \in Sid /\ chain[p].t = "latest"
      /\ Upto(chain, chain[p], h)
  BY <1>1, <1>5, PointerType, HxmpAssumption DEF Real, Sid, WholeInv, Out
<1>7. parts \in SUBSET {i \in DOMAIN chain : chain[i].t = "chunk"
                            /\ chain[i].h = chain[p].h /\ chain[i].sid = chain[p].sid}
  BY DEF Parts
<1>8. \A k \in parts : /\ k \in DOMAIN chain /\ chain[k].t = "chunk"
                       /\ chain[k].n = h /\ chain[k].sid = sid /\ chain[k].i \in 0..(h - 1)
  BY <1>1, <1>7, ChainType, RecordKind, ChunkType
<1>9. \A i \in 0..(h - 1) : \E k \in parts : chain[k].i = i
  <2>1. ASSUME NEW i \in 0..(h - 1) PROVE \E k \in parts : chain[k].i = i
    <3>1. PICK k \in DOMAIN chain : chain[k] = Chunk(h, sid, i, h)
      BY <1>6 DEF Upto
    <3>. QED
      BY <3>1 DEF Chunk, Parts
  <2>. QED
    BY <2>1
<1>10. \A j, k \in parts : chain[j].i = chain[k].i => j = k
  BY <1>1, <1>8 DEF OnceInv, SameChunk
<1>. HIDE DEF parts, h, sid
<1>11. IsFiniteSet(parts) /\ Cardinality(parts) = h
  <2>. DEFINE f == [k \in parts |-> chain[k].i]
  <2>1. f \in Bijection(parts, 0..(h - 1))
    BY <1>8, <1>9, <1>10 DEF Bijection, Injection, Surjection, IsInjective
  <2>2. IsFiniteSet(parts)
    <3>1. parts \in SUBSET DOMAIN chain
      BY <1>8
    <3>. QED
      BY <3>1, <1>2, FS_Subset
  <2>3. Cardinality(0..(h - 1)) = Cardinality(parts)
    BY <2>1, <2>2, FS_Bijection DEF ExistsBijection
  <2>4. Cardinality(0..(h - 1)) = IF 0 > h - 1 THEN 0 ELSE (h - 1) - 0 + 1
    BY <1>6, FS_Interval
  <2>. QED
    BY <2>2, <2>3, <2>4, <1>6
<1>12. PartsValid(parts)
  <2>1. {chain[k].i : k \in parts} = 0..(h - 1)
    BY <1>8, <1>9
  <2>2. parts # {}
    BY <1>6, <1>9
  <2>. QED
    BY <2>1, <2>2, <1>8, <1>11 DEF PartsValid
<1>13. Decrypts(parts)
  BY <1>1, <1>5, <1>6, <1>7, <1>12, Whole DEF parts
<1>14. p # 0
  BY <1>4
<1>. QED
  BY <1>3, <1>4, <1>12, <1>13, <1>14 DEF ReadSoul, parts, p

-----------------------------------------------------------------------------
(* What a step sends.                                                      *)

\* What a writer sends.
LEMMA MemoType ==
    ASSUME TypeInv, NEW w \in Writers, Sending(w)
    PROVE  /\ job[w] \in Real /\ job[w] \in Jobs /\ job[w].t = "latest"
           /\ job[w].n = job[w].h /\ job[w].h \in Nat /\ sent[w] \in Nat
           /\ Memo(w) \in Chunks \cup Real
           /\ Memo(w).sid = job[w].sid /\ Memo(w).h = job[w].h
           /\ pc[w] = "chunks" =>
                 /\ sent[w] < job[w].h
                 /\ Memo(w) = Chunk(job[w].h, job[w].sid, sent[w], job[w].h)
                 /\ Memo(w).t = "chunk" /\ Memo(w).i = sent[w]
           /\ pc[w] # "chunks" => pc[w] = "pointer" /\ Memo(w) = job[w]
<1>1. /\ Active(w) /\ pc[w] \in {"chunks", "pointer"}
      /\ job[w] \in Real /\ sent[w] \in Nat
  BY DEF Sending, Active, TypeInv
<1>2. job[w] \in Jobs
  BY <1>1 DEF Jobs
<1>3. /\ job[w].t = "latest" /\ job[w].h \in Nat /\ job[w].sid \in Sid
      /\ job[w].h \in Memories /\ job[w].n = job[w].h
  BY <1>1, PointerType DEF Real, Sid
<1>4. CASE pc[w] = "chunks"
  <2>1. sent[w] < job[w].h
    BY <1>3, <1>4 DEF TypeInv
  <2>2. Memo(w) = Chunk(job[w].h, job[w].sid, sent[w], job[w].h)
    BY <1>3, <1>4 DEF Memo
  <2>3. Memo(w) \in Chunks
    BY <2>1, <2>2, <1>1, <1>3 DEF Chunks
  <2>. QED
    BY <2>1, <2>2, <2>3, <1>1, <1>2, <1>3, <1>4 DEF Chunk
<1>5. CASE pc[w] # "chunks"
  BY <1>1, <1>2, <1>3, <1>5 DEF Memo
<1>. QED
  BY <1>4, <1>5

\* A record is appended.
LEMMA AppendType ==
    ASSUME TypeInv, NEW r \in Transaction, Len(chain) < MaxChain, chain' = Append(chain, r)
    PROVE  /\ chain' \in Seq(Transaction) /\ Len(chain') <= MaxChain
           /\ Len(chain') = Len(chain) + 1
           /\ Len(chain) \in Nat
           /\ DOMAIN chain = 1..Len(chain)
           /\ DOMAIN chain' = DOMAIN chain \cup {Len(chain) + 1}
           /\ Len(chain) + 1 \notin DOMAIN chain
           /\ \A k \in DOMAIN chain : chain'[k] = chain[k]
           /\ chain'[Len(chain) + 1] = r
<1>1. chain \in Seq(Transaction) /\ Len(chain) \in Nat /\ MaxChain \in Nat
  BY HxmpAssumption DEF TypeInv
<1>2. /\ chain' \in Seq(Transaction) /\ Len(chain') = Len(chain) + 1
      /\ DOMAIN chain' = 1..(Len(chain) + 1)
      /\ chain'[Len(chain) + 1] = r
  BY <1>1
<1>3. \A k \in 1..Len(chain) : chain'[k] = chain[k]
  BY <1>1
<1>4. DOMAIN chain = 1..Len(chain) /\ 1..(Len(chain) + 1) = 1..Len(chain) \cup {Len(chain) + 1}
  BY <1>1
<1>. QED
  BY <1>1, <1>2, <1>3, <1>4

\* Numbers and owners survive when nothing but what belongs to a job is sent.
LEMMA NoStart ==
    ASSUME TypeInv, NumberInv, OwnerInv, writes' = writes, job' = job,
           \A w \in Writers : Active(w)' => Active(w),
           \A x \in Out' : \/ x \in Out \/ x = Other
                           \/ \E y \in Jobs : x = y
                           \/ x.t = "chunk" /\ \E y \in Jobs : x.sid = y.sid /\ x.h = y.h
    PROVE  NumberInv' /\ OwnerInv'
<1>1. Jobs' \subseteq Jobs
  BY DEF Jobs
<1>2. \A y \in Jobs : y.t = "latest"
  BY PointerType DEF Jobs, TypeInv, Real
<1>3. \A x \in Out' \cup Jobs' : x.t # "other" =>
         \E y \in Out \cup Jobs :
            y.t # "other" /\ x.sid = y.sid /\ x.h = y.h /\ (x = y \/ x.t = "chunk")
  <2>1. ASSUME NEW x \in Out' \cup Jobs', x.t # "other", x \notin Out \cup Jobs
        PROVE  \E y \in Jobs : x.t = "chunk" /\ x.sid = y.sid /\ x.h = y.h
    BY <2>1, <1>1 DEF Other
  <2>. QED
    BY <2>1, <1>2
<1>4. NumberInv'
  <2>1. ASSUME NEW z \in Out' \cup Jobs', z.t # "other"
        PROVE  z.sid <= writes /\ (z.t = "latest" => z.seq <= writes)
    <3>1. PICK u \in Out \cup Jobs : u.t # "other" /\ z.sid = u.sid /\ (z = u \/ z.t = "chunk")
      BY <2>1, <1>3
    <3>2. u.sid <= writes
      BY <3>1 DEF NumberInv
    <3>3. u.t = "latest" => u.seq <= writes
      BY <3>1 DEF NumberInv
    <3>4. z.sid <= writes
      BY <3>1, <3>2
    <3>5. z.t = "latest" => z.seq <= writes
      BY <3>1, <3>3
    <3>. QED
      BY <3>4, <3>5
  <2>. QED
    BY <2>1 DEF NumberInv
<1>5. ASSUME NEW z1 \in Out' \cup Jobs', NEW z2 \in Out' \cup Jobs',
             z1.t # "other", z2.t # "other", z1.sid = z2.sid
      PROVE  z1.h = z2.h
  <2>1. PICK u \in Out \cup Jobs : u.t # "other" /\ z1.sid = u.sid /\ z1.h = u.h
    BY <1>3, <1>5
  <2>2. PICK v \in Out \cup Jobs : v.t # "other" /\ z2.sid = v.sid /\ z2.h = v.h
    BY <1>3, <1>5
  <2>3. u.h = v.h
    BY <2>1, <2>2, <1>5 DEF OwnerInv
  <2>. QED
    BY <2>1, <2>2, <2>3
<1>6. \A v, w \in Writers :
         Active(v)' /\ Active(w)' /\ job'[v].sid = job'[w].sid => v = w
  BY DEF OwnerInv
<1>. QED
  BY <1>4, <1>5, <1>6 DEF OwnerInv

\* A write begins.
LEMMA StartKeeps == ASSUME NEW w \in Writers PROVE Inv /\ Start(w) => Inv'
<1>. SUFFICES ASSUME Inv, Start(w) PROVE Inv'
  OBVIOUS
<1>1. /\ pc[w] = "idle" /\ writes < MaxWrites /\ writes' = writes + 1
      /\ sent' = [sent EXCEPT ![w] = 0] /\ readback' = [readback EXCEPT ![w] = 0]
      /\ pc' = [pc EXCEPT ![w] = "chunks"]
      /\ UNCHANGED <<chain, inflight>>
  BY DEF Start
<1>2. PICK h \in Memories, lane \in Lanes,
           found \in Scans(WriteWindow) \cup (IF Losable THEN {{}} ELSE {}) :
              job' = [job EXCEPT ![w] = NextPointer(found, h, writes', lane)]
  BY DEF Start
<1>3. TypeInv /\ NumberInv /\ OwnerInv /\ OnceInv /\ WholeInv
  BY DEF Inv
<1>. DEFINE x == NextPointer(found, h, writes', lane)
<1>4. /\ x \in Real /\ x.t = "latest" /\ x.h = h /\ x.n = h /\ h \in Nat /\ h > 0
      /\ x.sid = writes + 1 /\ x.seq <= writes + 1
  <2>1. found \in SUBSET DOMAIN chain
    BY DEF Scans, Window
  <2>2. /\ writes \in Nat /\ MaxWrites \in Nat /\ MaxChain \in Nat
        /\ Len(chain) \in 0..MaxChain /\ h \in Nat /\ h > 0 /\ h \in Size /\ 0 \in Size
    BY <1>3, ChainType, HxmpAssumption DEF TypeInv, Size
  <2>. DEFINE latest == LatestForLane(found, lane)
  <2>3. latest # 0 => /\ chain[latest] \in Real /\ chain[latest].seq \in Nat
                      /\ chain[latest].seq <= writes /\ chain[latest].h \in Size
    <3>1. latest # 0 => latest \in DOMAIN chain /\ chain[latest] \in Real
      BY <1>3, <2>1, LatestType
    <3>. HIDE DEF latest
    <3>2. latest # 0 => chain[latest].t = "latest" /\ chain[latest].seq \in Nat
                           /\ chain[latest].h \in Size /\ chain[latest] \in Out
      BY <3>1, PointerType DEF Real, Out
    <3>. QED
      BY <3>1, <3>2, <1>3 DEF NumberInv
  <2>. DEFINE seen == IF found = DOMAIN chain THEN Len(chain) ELSE 0
  <2>4. PICK seq \in 0..(writes + 1), prev \in Size :
            x = Pointer(h, writes + 1, lane, seq, prev, seen)
    <3>1. x = IF latest = 0 THEN Pointer(h, writes + 1, lane, 1, 0, seen)
                ELSE Pointer(h, writes + 1, lane, chain[latest].seq + 1, chain[latest].h, seen)
      BY <1>1 DEF NextPointer
    <3>. HIDE DEF latest, x, seen
    <3>2. CASE latest = 0
      <4>1. x = Pointer(h, writes + 1, lane, 1, 0, seen) /\ 1 \in 0..(writes + 1) /\ 0 \in Size
        BY <3>1, <3>2, <2>2
      <4>. QED
        BY <4>1
    <3>3. CASE latest # 0
      <4>1. x = Pointer(h, writes + 1, lane, chain[latest].seq + 1, chain[latest].h, seen)
        BY <3>1, <3>3
      <4>2. chain[latest].seq + 1 \in 0..(writes + 1) /\ chain[latest].h \in Size
        BY <3>3, <2>2, <2>3
      <4>. QED
        BY <4>1, <4>2
    <3>. QED
      BY <3>2, <3>3
  <2>. HIDE DEF x
  <2>5. x \in Pointers
    BY <2>2, <2>4, <1>1 DEF Pointer, Pointers, Sid
  <2>. QED
    BY <2>2, <2>4, <2>5 DEF Pointer, Real
<1>. HIDE DEF x
<1>5. job' = [job EXCEPT ![w] = x]
  BY <1>2 DEF x
<1>6. /\ job'[w] = x /\ pc'[w] = "chunks" /\ sent'[w] = 0
      /\ \A v \in Writers \ {w} :
            job'[v] = job[v] /\ pc'[v] = pc[v] /\ sent'[v] = sent[v]
  BY <1>1, <1>3, <1>5 DEF TypeInv
<1>7. Out' = Out /\ Jobs' \subseteq Jobs \cup {x}
  BY <1>1, <1>6 DEF Out, Jobs, Active
<1>8. TypeInv'
  <2>1. writes' \in 0..MaxWrites
    BY <1>1, <1>3, HxmpAssumption DEF TypeInv
  <2>2. job' \in [Writers -> Pointers] /\ sent' \in [Writers -> Nat]
        /\ pc' \in [Writers -> {"idle", "chunks", "pointer", "readback"}]
        /\ readback' \in [Writers -> Size]
    BY <1>1, <1>3, <1>4, <1>5 DEF TypeInv, Real, Size
  <2>3. \A v \in Writers : /\ sent'[v] <= job'[v].n
                           /\ pc'[v] # "idle" => job'[v] \in Real
                           /\ pc'[v] = "chunks" => sent'[v] < job'[v].n
    BY <1>3, <1>4, <1>6 DEF TypeInv, Active
  <2>4. chain' \in Seq(Transaction) /\ Len(chain') <= MaxChain /\ inflight' \subseteq Chunks \cup Real
    BY <1>1, <1>3 DEF TypeInv
  <2>. QED
    BY <2>1, <2>2, <2>3, <2>4 DEF TypeInv
<1>9. writes \in Nat
  BY <1>3, HxmpAssumption DEF TypeInv
<1>10. \A y \in Out \cup Jobs : y.t # "other" =>
          y.sid \in Nat /\ y.sid <= writes /\ (y.t = "latest" => y.seq \in Nat /\ y.seq <= writes)
  <2>1. ASSUME NEW y \in Out \cup Jobs, y.t # "other"
        PROVE  y \in Chunks \cup Real
    <3>1. \A k \in DOMAIN chain : chain[k] \in Transaction
      BY <1>3, ChainType
    <3>2. Out \cup Jobs \subseteq Transaction
      BY <3>1, <1>3 DEF Out, Jobs, TypeInv, Transaction, Active
    <3>. QED
      BY <3>2, <2>1 DEF Transaction, Other
  <2>. QED
    BY <2>1, <1>3, ChunkType, PointerType DEF NumberInv, Real, Sid
<1>11. NumberInv'
  <2>1. \A y \in Out \cup Jobs \cup {x} : y.t # "other" =>
           y.sid <= writes + 1 /\ (y.t = "latest" => y.seq <= writes + 1)
    BY <1>4, <1>9, <1>10
  <2>. QED
    BY <2>1, <1>1, <1>7 DEF NumberInv
<1>12. OwnerInv'
  <2>1. \A y \in Out \cup Jobs : y.t # "other" => y.sid # x.sid
    BY <1>4, <1>9, <1>10
  <2>2. \A y, z \in Out' \cup Jobs' :
           y.t # "other" /\ z.t # "other" /\ y.sid = z.sid => y.h = z.h
    BY <2>1, <1>3, <1>7 DEF OwnerInv
  <2>3. \A v \in Writers \ {w} : pc[v] # "idle" => job[v].sid # x.sid
    <3>1. \A v \in Writers : pc[v] # "idle" => job[v] \in Jobs /\ job[v].t = "latest"
      BY <1>3, PointerType DEF Jobs, Active, TypeInv
    <3>. QED
      BY <3>1, <2>1
  <2>4. \A u, v \in Writers :
           pc'[u] # "idle" /\ pc'[v] # "idle" /\ job'[u].sid = job'[v].sid => u = v
    BY <2>3, <1>3, <1>6 DEF OwnerInv, Active
  <2>. QED
    BY <2>2, <2>4 DEF OwnerInv, Active
<1>13. OnceInv'
  <2>1. \A y \in Out : y.t = "chunk" => y.sid # x.sid
    BY <1>4, <1>9, <1>10
  <2>2. \A v \in Writers : pc'[v] = "chunks" =>
           \A y \in Out : y.t = "chunk" /\ y.sid = job'[v].sid => y.i < sent'[v]
    BY <2>1, <1>3, <1>6 DEF OnceInv
  <2>. QED
    BY <2>2, <1>1, <1>3, <1>7 DEF OnceInv, SameChunk
<1>14. WholeInv'
  <2>1. Upto(chain, x, 0)
    BY DEF Upto
  <2>2. \A v \in Writers :
           /\ pc'[v] = "chunks" => Upto(chain, job'[v], sent'[v])
           /\ pc'[v] \in {"pointer", "readback"} => Upto(chain, job'[v], job'[v].h)
    BY <2>1, <1>3, <1>6 DEF WholeInv
  <2>3. \A y \in Out' : y.t = "latest" => Upto(chain, y, y.h)
    BY <1>3, <1>7 DEF WholeInv
  <2>4. chain' = chain
    BY <1>1
  <2>. QED
    BY <2>2, <2>3, <2>4 DEF WholeInv
<1>. QED
  BY <1>8, <1>11, <1>12, <1>13, <1>14 DEF Inv

\* A chunk or a pointer is confirmed.
LEMMA ConfirmedKeeps == ASSUME NEW w \in Writers PROVE Inv /\ Confirmed(w) => Inv'
<1>. SUFFICES ASSUME Inv, Confirmed(w) PROVE Inv'
  OBVIOUS
<1>. DEFINE r == Memo(w)
<1>1. TypeInv /\ NumberInv /\ OwnerInv /\ OnceInv /\ WholeInv
  BY DEF Inv
<1>2. /\ Sending(w) /\ pc[w] \in {"chunks", "pointer"} /\ Len(chain) < MaxChain
      /\ chain' = Append(chain, r)
      /\ sent' = [sent EXCEPT ![w] = IF pc[w] = "chunks" THEN @ + 1 ELSE @]
      /\ pc' = [pc EXCEPT ![w] = After(w)]
      /\ UNCHANGED <<inflight, writes, job, readback>>
  BY DEF Confirmed, Sending
<1>. HIDE DEF r
<1>3. /\ job[w] \in Real /\ job[w] \in Jobs /\ job[w].t = "latest"
      /\ job[w].n = job[w].h /\ job[w].h \in Nat /\ sent[w] \in Nat
      /\ r \in Chunks \cup Real /\ r.sid = job[w].sid /\ r.h = job[w].h
  BY <1>1, <1>2, MemoType DEF r
<1>4. pc[w] = "chunks" => /\ sent[w] < job[w].h
                          /\ r = Chunk(job[w].h, job[w].sid, sent[w], job[w].h)
                          /\ r.t = "chunk" /\ r.i = sent[w]
  BY <1>1, <1>2, MemoType DEF r
<1>5. pc[w] # "chunks" => pc[w] = "pointer" /\ r = job[w] /\ r.t = "latest"
  BY <1>1, <1>2, <1>3, MemoType DEF r
<1>. DEFINE N == Len(chain) + 1
<1>6. /\ chain' \in Seq(Transaction) /\ Len(chain') <= MaxChain
      /\ DOMAIN chain' = DOMAIN chain \cup {N} /\ N \notin DOMAIN chain
      /\ \A k \in DOMAIN chain : chain'[k] = chain[k]
      /\ chain'[N] = r
  BY <1>1, <1>2, <1>3, AppendType DEF Transaction
<1>. HIDE DEF N
<1>7. Out' = Out \cup {r}
  BY <1>2, <1>6 DEF Out
<1>8. /\ pc'[w] = "chunks" =>
            pc[w] = "chunks" /\ sent'[w] = sent[w] + 1 /\ sent[w] + 1 # job[w].h
      /\ pc'[w] = "pointer" =>
            pc[w] = "chunks" /\ sent'[w] = sent[w] + 1 /\ sent[w] + 1 = job[w].h
      /\ pc'[w] = "readback" => pc[w] = "pointer" /\ sent'[w] = sent[w]
      /\ pc'[w] \in {"chunks", "pointer", "readback"}
      /\ \A v \in Writers \ {w} : pc'[v] = pc[v] /\ sent'[v] = sent[v]
  BY <1>1, <1>2, <1>3 DEF After, TypeInv
<1>9. job' = job
  BY <1>2
<1>10. TypeInv'
  <2>1. /\ sent' \in [Writers -> Nat]
        /\ pc' \in [Writers -> {"idle", "chunks", "pointer", "readback"}]
    BY <1>1, <1>2 DEF After, TypeInv
  <2>2. sent'[w] <= job[w].n /\ (pc'[w] = "chunks" => sent'[w] < job[w].n)
    BY <1>1, <1>3, <1>4, <1>8 DEF TypeInv
  <2>3. \A v \in Writers \ {w} : /\ sent[v] <= job[v].n
                                 /\ pc[v] # "idle" => job[v] \in Real
                                 /\ pc[v] = "chunks" => sent[v] < job[v].n
    BY <1>1 DEF TypeInv
  <2>4. \A v \in Writers : /\ sent'[v] <= job'[v].n
                           /\ pc'[v] # "idle" => job'[v] \in Real
                           /\ pc'[v] = "chunks" => sent'[v] < job'[v].n
    BY <2>2, <2>3, <1>3, <1>8, <1>9
  <2>. QED
    BY <2>1, <2>4, <1>1, <1>2, <1>6 DEF TypeInv
<1>11. NumberInv' /\ OwnerInv'
  <2>1. \A v \in Writers : Active(v)' => Active(v)
    BY <1>2, <1>8 DEF Active
  <2>2. \A x \in Out' : \/ x \in Out \/ x = Other
                        \/ \E y \in Jobs : x = y
                        \/ x.t = "chunk" /\ \E y \in Jobs : x.sid = y.sid /\ x.h = y.h
    BY <1>2, <1>3, <1>4, <1>5, <1>7
  <2>. QED
    BY <2>1, <2>2, <1>1, <1>2, NoStart
<1>12. OnceInv'
  <2>1. \A x \in Out : ~SameChunk(x, r) /\ ~SameChunk(r, x)
    <3>1. \A x \in Out : pc[w] = "chunks" /\ x.t = "chunk" /\ x.sid = r.sid => x.i < r.i
      BY <1>1, <1>3, <1>4 DEF OnceInv
    <3>2. r.t = "chunk" => pc[w] = "chunks" /\ r.i \in Nat
      BY <1>3, <1>4, <1>5
    <3>. QED
      BY <3>1, <3>2 DEF SameChunk
  <2>2. \A k \in DOMAIN chain : chain[k] \in Out
    BY DEF Out
  <2>3. \A j, k \in DOMAIN chain' : SameChunk(chain'[j], chain'[k]) => j = k
    BY <2>1, <2>2, <1>1, <1>6 DEF OnceInv
  <2>4. \A k \in DOMAIN chain', x \in inflight' : ~SameChunk(chain'[k], x)
    <3>1. inflight \subseteq Out
      BY DEF Out
    <3>. QED
      BY <3>1, <2>1, <1>1, <1>2, <1>6 DEF OnceInv
  <2>5. \A v \in Writers : pc'[v] = "chunks" =>
           \A x \in Out' : x.t = "chunk" /\ x.sid = job'[v].sid => x.i < sent'[v]
    <3>1. ASSUME NEW v \in Writers, pc'[v] = "chunks", NEW x \in Out',
                 x.t = "chunk", x.sid = job[v].sid
          PROVE  x.i < sent'[v]
      <4>1. CASE v # w
        <5>1. pc[v] = "chunks" /\ sent'[v] = sent[v]
          BY <3>1, <4>1, <1>8
        <5>2. job[v].sid # job[w].sid
          BY <5>1, <4>1, <1>1, <1>2 DEF OwnerInv, Active
        <5>. QED
          BY <5>1, <5>2, <3>1, <1>1, <1>3, <1>7 DEF OnceInv
      <4>2. CASE v = w
        <5>1. pc[w] = "chunks" /\ sent'[w] = sent[w] + 1 /\ r.i = sent[w]
          BY <3>1, <4>2, <1>4, <1>8
        <5>2. CASE x \in Out
          <6>1. x.i < sent[w] /\ x.i \in Int
            <7>1. x \in Chunks
              BY <5>2, <3>1, <1>1, ChainType, RecordKind DEF Out, TypeInv, Transaction
            <7>2. x.i \in Int
              BY <7>1, ChunkType
            <7>. QED
              BY <7>2, <5>1, <5>2, <3>1, <4>2, <1>1 DEF OnceInv
          <6>. QED
            BY <6>1, <5>1, <4>2, <1>3
        <5>3. CASE x = r
          BY <5>1, <5>3, <4>2, <1>3
        <5>. QED
          BY <5>2, <5>3, <3>1, <1>7
      <4>. QED
        BY <4>1, <4>2
    <3>. QED
      BY <3>1, <1>9
  <2>. QED
    BY <2>3, <2>4, <2>5 DEF OnceInv
<1>13. WholeInv'
  <2>1. \A x, m : Upto(chain, x, m) => Upto(chain', x, m)
    BY <1>6 DEF Upto
  <2>2. \A x \in Out' : x.t = "latest" => Upto(chain', x, x.h)
    <3>1. r.t = "latest" => Upto(chain', r, r.h)
      BY <2>1, <1>1, <1>4, <1>5, <1>8 DEF WholeInv
    <3>. QED
      BY <3>1, <2>1, <1>1, <1>7 DEF WholeInv
  <2>3. pc[w] = "chunks" => Upto(chain', job[w], sent[w] + 1)
    <3>. SUFFICES ASSUME pc[w] = "chunks", NEW i \in 0..((sent[w] + 1) - 1)
                  PROVE  \E k \in DOMAIN chain' :
                            chain'[k] = Chunk(job[w].h, job[w].sid, i, job[w].h)
      BY DEF Upto
    <3>1. CASE i = sent[w]
      BY <3>1, <1>4, <1>6
    <3>2. CASE i # sent[w]
      <4>1. i \in 0..(sent[w] - 1)
        BY <3>2, <1>3
      <4>2. Upto(chain, job[w], sent[w])
        BY <1>1 DEF WholeInv
      <4>3. PICK k \in DOMAIN chain : chain[k] = Chunk(job[w].h, job[w].sid, i, job[w].h)
        BY <4>1, <4>2 DEF Upto
      <4>. QED
        BY <4>3, <1>6
    <3>. QED
      BY <3>1, <3>2
  <2>4. \A v \in Writers :
           /\ pc'[v] = "chunks" => Upto(chain', job'[v], sent'[v])
           /\ pc'[v] \in {"pointer", "readback"} => Upto(chain', job'[v], job'[v].h)
    <3>1. ASSUME NEW v \in Writers, v # w
          PROVE  /\ pc'[v] = "chunks" => Upto(chain', job[v], sent'[v])
                 /\ pc'[v] \in {"pointer", "readback"} => Upto(chain', job[v], job[v].h)
      BY <3>1, <2>1, <1>1, <1>8 DEF WholeInv
    <3>2. /\ pc'[w] = "chunks" => Upto(chain', job[w], sent'[w])
          /\ pc'[w] \in {"pointer", "readback"} => Upto(chain', job[w], job[w].h)
      BY <2>1, <2>3, <1>1, <1>8 DEF WholeInv
    <3>. QED
      BY <3>1, <3>2, <1>9
  <2>. QED
    BY <2>2, <2>4 DEF WholeInv
<1>. QED
  BY <1>10, <1>11, <1>12, <1>13 DEF Inv

\* A write is given up or has been read back.
LEMMA FailsKeeps ==
    ASSUME NEW w \in Writers, Inv, Fails(w), readback' \in [Writers -> Size],
           UNCHANGED <<chain, inflight, writes, job, sent>>
    PROVE  Inv'
<1>1. TypeInv /\ NumberInv /\ OwnerInv /\ OnceInv /\ WholeInv
  BY DEF Inv
<1>2. /\ chain' = chain /\ inflight' = inflight /\ writes' = writes /\ job' = job
      /\ sent' = sent
      /\ pc' \in [Writers -> {"idle", "chunks", "pointer", "readback"}]
      /\ \A v \in Writers : pc'[v] = pc[v] \/ pc'[v] = "idle"
  BY <1>1 DEF TypeInv, Fails
<1>3. Out' = Out
  BY <1>2 DEF Out
<1>4. TypeInv'
  <2>1. \A v \in Writers : /\ sent'[v] <= job'[v].n
                           /\ pc'[v] # "idle" => job'[v] \in Real
                           /\ pc'[v] = "chunks" => sent'[v] < job'[v].n
    BY <1>1, <1>2 DEF TypeInv
  <2>. QED
    BY <2>1, <1>1, <1>2 DEF TypeInv
<1>5. NumberInv' /\ OwnerInv'
  <2>1. \A v \in Writers : Active(v)' => Active(v)
    BY <1>2 DEF Active
  <2>. QED
    BY <2>1, <1>1, <1>2, <1>3, NoStart
<1>6. OnceInv'
  BY <1>1, <1>2, <1>3 DEF OnceInv
<1>7. WholeInv'
  BY <1>1, <1>2, <1>3 DEF WholeInv
<1>. QED
  BY <1>4, <1>5, <1>6, <1>7 DEF Inv

\* The readback.
LEMMA ReadbackKeeps == ASSUME NEW w \in Writers PROVE Inv /\ Readback(w) => Inv'
<1>. SUFFICES ASSUME Inv, Readback(w) PROVE Inv'
  OBVIOUS
<1>1. PICK found \in Scans(ReadWindow) :
         readback' = [readback EXCEPT ![w] = ReadSoul(found, "core")]
  BY DEF Readback
<1>2. found \in SUBSET DOMAIN chain
  BY DEF Scans, Window
<1>3. TypeInv
  BY DEF Inv
<1>4. ReadSoul(found, "core") \in Size
  <2>. DEFINE p == LatestForLane(found, "core")
  <2>1. p # 0 => p \in DOMAIN chain /\ chain[p] \in Real
    BY <1>2, <1>3, LatestType
  <2>. HIDE DEF p
  <2>2. p # 0 => chain[p].h \in Size
    BY <2>1, PointerType DEF Real
  <2>. QED
    BY <2>2 DEF ReadSoul, p, Size
<1>5. readback' \in [Writers -> Size]
  BY <1>1, <1>3, <1>4 DEF TypeInv
<1>. QED
  BY <1>5, FailsKeeps DEF Readback

\* A transaction is refused.
LEMMA RefusedKeeps == ASSUME NEW w \in Writers PROVE Inv /\ Refused(w) => Inv'
<1>. SUFFICES ASSUME Inv, Refused(w) PROVE Inv'
  OBVIOUS
<1>1. readback' \in [Writers -> Size]
  BY DEF Refused, Inv, TypeInv
<1>. QED
  BY <1>1, FailsKeeps DEF Refused

\* A transaction is out, unconfirmed.
LEMMA TimesOutKeeps == ASSUME NEW w \in Writers PROVE Inv /\ TimesOut(w) => Inv'
<1>. SUFFICES ASSUME Inv, TimesOut(w) PROVE Inv'
  OBVIOUS
<1>. DEFINE r == Memo(w)
<1>1. TypeInv /\ NumberInv /\ OwnerInv /\ OnceInv /\ WholeInv
  BY DEF Inv
<1>2. /\ Sending(w) /\ pc[w] \in {"chunks", "pointer"}
      /\ inflight' = inflight \cup {r}
      /\ pc' = [pc EXCEPT ![w] = "idle"]
      /\ chain' = chain /\ writes' = writes /\ job' = job /\ sent' = sent
      /\ readback' = readback
  BY DEF TimesOut, Sending, Fails
<1>. HIDE DEF r
<1>3. /\ job[w] \in Real /\ job[w] \in Jobs /\ job[w].t = "latest"
      /\ job[w].n = job[w].h /\ job[w].h \in Nat /\ sent[w] \in Nat
      /\ r \in Chunks \cup Real /\ r.sid = job[w].sid /\ r.h = job[w].h
  BY <1>1, <1>2, MemoType DEF r
<1>4. pc[w] = "chunks" => r.t = "chunk" /\ r.i = sent[w]
  BY <1>1, <1>2, MemoType DEF r
<1>5. pc[w] # "chunks" => pc[w] = "pointer" /\ r = job[w] /\ r.t = "latest"
  BY <1>1, <1>2, <1>3, MemoType DEF r
<1>6. /\ pc' \in [Writers -> {"idle", "chunks", "pointer", "readback"}]
      /\ pc'[w] = "idle"
      /\ \A v \in Writers \ {w} : pc'[v] = pc[v]
  BY <1>1, <1>2 DEF TypeInv
<1>7. Out' = Out \cup {r}
  BY <1>2 DEF Out
<1>8. TypeInv'
  <2>1. \A v \in Writers : /\ sent'[v] <= job'[v].n
                           /\ pc'[v] # "idle" => job'[v] \in Real
                           /\ pc'[v] = "chunks" => sent'[v] < job'[v].n
    BY <1>1, <1>2, <1>6 DEF TypeInv
  <2>2. inflight' \subseteq Chunks \cup Real
    BY <1>1, <1>2, <1>3 DEF TypeInv
  <2>. QED
    BY <2>1, <2>2, <1>1, <1>2, <1>6 DEF TypeInv
<1>9. NumberInv' /\ OwnerInv'
  <2>1. \A v \in Writers : Active(v)' => Active(v)
    BY <1>6 DEF Active
  <2>2. \A x \in Out' : \/ x \in Out \/ x = Other
                        \/ \E y \in Jobs : x = y
                        \/ x.t = "chunk" /\ \E y \in Jobs : x.sid = y.sid /\ x.h = y.h
    BY <1>2, <1>3, <1>4, <1>5, <1>7
  <2>. QED
    BY <2>1, <2>2, <1>1, <1>2, NoStart
<1>10. OnceInv'
  <2>1. \A k \in DOMAIN chain : ~SameChunk(chain[k], r)
    <3>1. ASSUME NEW k \in DOMAIN chain, SameChunk(chain[k], r) PROVE FALSE
      <4>1. pc[w] = "chunks" /\ chain[k].t = "chunk" /\ chain[k].sid = job[w].sid
            /\ chain[k].i = sent[w]
        BY <3>1, <1>3, <1>4, <1>5 DEF SameChunk
      <4>2. chain[k] \in Out
        BY DEF Out
      <4>. QED
        BY <4>1, <4>2, <1>1, <1>3 DEF OnceInv
    <3>. QED
      BY <3>1
  <2>2. \A k \in DOMAIN chain', x \in inflight' : ~SameChunk(chain'[k], x)
    BY <2>1, <1>1, <1>2 DEF OnceInv
  <2>3. \A v \in Writers : pc'[v] = "chunks" =>
           \A x \in Out' : x.t = "chunk" /\ x.sid = job'[v].sid => x.i < sent'[v]
    <3>1. ASSUME NEW v \in Writers, pc'[v] = "chunks"
          PROVE  v # w /\ pc[v] = "chunks" /\ job[v].sid # r.sid
      <4>1. v # w /\ pc[v] = "chunks"
        BY <3>1, <1>6
      <4>. QED
        BY <4>1, <1>1, <1>2, <1>3 DEF OwnerInv, Active
    <3>. QED
      BY <3>1, <1>1, <1>2, <1>7 DEF OnceInv
  <2>. QED
    BY <2>2, <2>3, <1>1, <1>2 DEF OnceInv
<1>11. WholeInv'
  <2>1. r.t = "latest" => Upto(chain, r, r.h)
    BY <1>1, <1>4, <1>5 DEF WholeInv
  <2>2. \A x \in Out' : x.t = "latest" => Upto(chain', x, x.h)
    BY <2>1, <1>1, <1>2, <1>7 DEF WholeInv
  <2>3. \A v \in Writers :
           /\ pc'[v] = "chunks" => Upto(chain', job'[v], sent'[v])
           /\ pc'[v] \in {"pointer", "readback"} => Upto(chain', job'[v], job'[v].h)
    BY <1>1, <1>2, <1>6 DEF WholeInv
  <2>. QED
    BY <2>2, <2>3 DEF WholeInv
<1>. QED
  BY <1>8, <1>9, <1>10, <1>11 DEF Inv

\* What a step of the chain leaves alone: the writers, and chunks already there.
LEMMA ChainStep ==
    ASSUME Inv, UNCHANGED <<writes, pc, job, sent, readback>>,
           DOMAIN chain \subseteq DOMAIN chain',
           \A k \in DOMAIN chain : chain'[k] = chain[k],
           chain' \in Seq(Transaction), Len(chain') <= MaxChain,
           inflight' \subseteq Chunks \cup Real,
           Out' \subseteq Out \cup {Other}
    PROVE  /\ TypeInv' /\ NumberInv' /\ OwnerInv' /\ WholeInv'
           /\ \A v \in Writers : pc'[v] = "chunks" =>
                 \A x \in Out' : x.t = "chunk" /\ x.sid = job'[v].sid => x.i < sent'[v]
<1>1. TypeInv /\ NumberInv /\ OwnerInv /\ OnceInv /\ WholeInv
  BY DEF Inv
<1>2. TypeInv'
  BY <1>1 DEF TypeInv
<1>3. NumberInv' /\ OwnerInv'
  <2>1. \A v \in Writers : Active(v)' => Active(v)
    BY DEF Active
  <2>. QED
    BY <2>1, <1>1, NoStart
<1>4. WholeInv'
  <2>1. \A x, m : Upto(chain, x, m) => Upto(chain', x, m)
    BY DEF Upto
  <2>2. \A x \in Out' : x.t = "latest" => Upto(chain', x, x.h)
    BY <2>1, <1>1 DEF WholeInv, Other
  <2>3. \A v \in Writers :
           /\ pc'[v] = "chunks" => Upto(chain', job'[v], sent'[v])
           /\ pc'[v] \in {"pointer", "readback"} => Upto(chain', job'[v], job'[v].h)
    BY <2>1, <1>1 DEF WholeInv
  <2>. QED
    BY <2>2, <2>3 DEF WholeInv
<1>5. \A v \in Writers : pc'[v] = "chunks" =>
         \A x \in Out' : x.t = "chunk" /\ x.sid = job'[v].sid => x.i < sent'[v]
  BY <1>1 DEF OnceInv, Other
<1>. QED
  BY <1>2, <1>3, <1>4, <1>5

\* A late transaction is included.
LEMMA LandKeeps == Inv /\ Land => Inv'
<1>. SUFFICES ASSUME Inv, Land PROVE Inv'
  OBVIOUS
<1>1. TypeInv /\ OwnerInv /\ OnceInv
  BY DEF Inv
<1>2. PICK r \in inflight : chain' = Append(chain, r) /\ inflight' = inflight \ {r}
  BY DEF Land
<1>3. Len(chain) < MaxChain /\ UNCHANGED <<writes, pc, job, sent, readback>>
  BY DEF Land
<1>4. r \in Chunks \cup Real /\ inflight \subseteq Chunks \cup Real
  BY <1>1 DEF TypeInv
<1>. DEFINE N == Len(chain) + 1
<1>5. /\ chain' \in Seq(Transaction) /\ Len(chain') <= MaxChain
      /\ DOMAIN chain' = DOMAIN chain \cup {N} /\ N \notin DOMAIN chain
      /\ \A k \in DOMAIN chain : chain'[k] = chain[k]
      /\ chain'[N] = r
  BY <1>1, <1>2, <1>3, <1>4, AppendType DEF Transaction
<1>. HIDE DEF N
<1>6. Out' \subseteq Out
  BY <1>2, <1>5 DEF Out
<1>7. /\ TypeInv' /\ NumberInv' /\ OwnerInv' /\ WholeInv'
      /\ \A v \in Writers : pc'[v] = "chunks" =>
            \A x \in Out' : x.t = "chunk" /\ x.sid = job'[v].sid => x.i < sent'[v]
  BY <1>2, <1>3, <1>4, <1>5, <1>6, ChainStep
<1>8. \A x \in inflight : SameChunk(r, x) => x = r
  <2>1. ASSUME NEW x \in inflight, SameChunk(r, x) PROVE x = r
    <3>1. x \in Chunks /\ r \in Chunks
      BY <2>1, <1>4, PointerType DEF SameChunk, Real
    <3>2. x.h = r.h
      BY <2>1, <1>1 DEF OwnerInv, SameChunk, Out
    <3>. QED
      BY <2>1, <3>1, <3>2, ChunkType DEF SameChunk
  <2>. QED
    BY <2>1
<1>9. \A k \in DOMAIN chain : ~SameChunk(chain[k], r) /\ ~SameChunk(r, chain[k])
  BY <1>1 DEF OnceInv, SameChunk
<1>10. \A j, k \in DOMAIN chain' : SameChunk(chain'[j], chain'[k]) => j = k
  BY <1>1, <1>5, <1>9 DEF OnceInv
<1>11. \A k \in DOMAIN chain', x \in inflight' : ~SameChunk(chain'[k], x)
  BY <1>1, <1>2, <1>5, <1>8 DEF OnceInv
<1>12. OnceInv'
  BY <1>7, <1>10, <1>11 DEF OnceInv
<1>. QED
  BY <1>7, <1>12 DEF Inv

\* A late transaction expires.
LEMMA ExpireKeeps == Inv /\ Expire => Inv'
<1>. SUFFICES ASSUME Inv, Expire PROVE Inv'
  OBVIOUS
<1>1. /\ inflight' \subseteq inflight /\ chain' = chain
      /\ UNCHANGED <<writes, pc, job, sent, readback>>
  BY DEF Expire
<1>2. TypeInv /\ OnceInv
  BY DEF Inv
<1>3. Out' \subseteq Out
  BY <1>1 DEF Out
<1>4. /\ TypeInv' /\ NumberInv' /\ OwnerInv' /\ WholeInv'
      /\ \A v \in Writers : pc'[v] = "chunks" =>
            \A x \in Out' : x.t = "chunk" /\ x.sid = job'[v].sid => x.i < sent'[v]
  <2>1. /\ chain' \in Seq(Transaction) /\ Len(chain') <= MaxChain
        /\ inflight' \subseteq Chunks \cup Real
    BY <1>1, <1>2 DEF TypeInv
  <2>. QED
    BY <2>1, <1>1, <1>3, ChainStep
<1>5. OnceInv'
  BY <1>1, <1>2, <1>4 DEF OnceInv
<1>. QED
  BY <1>4, <1>5 DEF Inv

\* Another transaction of the wallet.
LEMMA OtherKeeps == Inv /\ OtherTransaction => Inv'
<1>. SUFFICES ASSUME Inv, OtherTransaction PROVE Inv'
  OBVIOUS
<1>1. /\ Len(chain) < MaxChain /\ chain' = Append(chain, Other) /\ inflight' = inflight
      /\ UNCHANGED <<writes, pc, job, sent, readback>>
  BY DEF OtherTransaction
<1>2. TypeInv /\ OnceInv
  BY DEF Inv
<1>. DEFINE N == Len(chain) + 1
<1>3. /\ chain' \in Seq(Transaction) /\ Len(chain') <= MaxChain
      /\ DOMAIN chain' = DOMAIN chain \cup {N} /\ N \notin DOMAIN chain
      /\ \A k \in DOMAIN chain : chain'[k] = chain[k]
      /\ chain'[N] = Other
  BY <1>1, <1>2, AppendType DEF Transaction
<1>. HIDE DEF N
<1>4. Out' \subseteq Out \cup {Other}
  BY <1>1, <1>3 DEF Out
<1>5. inflight' \subseteq Chunks \cup Real
  BY <1>1, <1>2 DEF TypeInv
<1>6. /\ TypeInv' /\ NumberInv' /\ OwnerInv' /\ WholeInv'
      /\ \A v \in Writers : pc'[v] = "chunks" =>
            \A x \in Out' : x.t = "chunk" /\ x.sid = job'[v].sid => x.i < sent'[v]
  BY <1>1, <1>3, <1>4, <1>5, ChainStep
<1>7. \A x : ~SameChunk(Other, x) /\ ~SameChunk(x, Other)
  BY DEF SameChunk, Other
<1>8. \A j, k \in DOMAIN chain' : SameChunk(chain'[j], chain'[k]) => j = k
  BY <1>2, <1>3, <1>7 DEF OnceInv
<1>9. \A k \in DOMAIN chain', x \in inflight' : ~SameChunk(chain'[k], x)
  BY <1>1, <1>2, <1>3, <1>7 DEF OnceInv
<1>10. OnceInv'
  BY <1>6, <1>8, <1>9 DEF OnceInv
<1>. QED
  BY <1>6, <1>10 DEF Inv

-----------------------------------------------------------------------------
(* The theorems.                                                           *)

\* The initial states.
LEMMA InitInv == Init => Inv
<1>. SUFFICES ASSUME Init PROVE Inv
  OBVIOUS
<1>1. NoJob \in Pointers /\ NoJob.n = 0 /\ 0 \in Size /\ 0 \in 0..MaxChain
  BY HxmpAssumption DEF NoJob, Pointers, Size, Sid
<1>2. TypeInv
  BY <1>1, HxmpAssumption DEF Init, TypeInv
<1>3. Out = {} /\ Jobs = {} /\ \A w \in Writers : pc[w] = "idle"
  BY DEF Init, Out, Jobs, Active
<1>. QED
  BY <1>2, <1>3 DEF Init, Inv, NumberInv, OwnerInv, OnceInv, WholeInv, Active

\* A stutter.
LEMMA StutterKeeps == Inv /\ UNCHANGED vars => Inv'
<1>. SUFFICES ASSUME Inv, UNCHANGED vars PROVE Inv'
  OBVIOUS
<1>1. UNCHANGED <<chain, inflight, writes, pc, job, sent, readback>>
  BY DEF vars
<1>. QED
  BY <1>1 DEF Inv, TypeInv, NumberInv, OwnerInv, OnceInv, WholeInv, Out, Jobs, Active

\* The inductive invariant: snapshot ids have one owner, no chunk is there twice,
\* and no pointer precedes its chunks (writeSoul, sendMemo).
THEOREM Invariance == Spec => []Inv
<1>1. Inv /\ [Next]_vars => Inv'
  <2>. SUFFICES ASSUME Inv, [Next]_vars PROVE Inv'
    OBVIOUS
  <2>1. ASSUME NEW w \in Writers,
               Start(w) \/ Confirmed(w) \/ Refused(w) \/ TimesOut(w) \/ Readback(w)
        PROVE  Inv'
    BY <2>1, StartKeeps, ConfirmedKeeps, RefusedKeeps, TimesOutKeeps, ReadbackKeeps
  <2>. QED
    BY <2>1, LandKeeps, ExpireKeeps, OtherKeeps, StutterKeeps DEF Next
<1>. QED
  BY <1>1, InitInv, PTL DEF Spec

\* Every variable keeps to its type (write-soul and read-soul).
THEOREM TypeCorrect == Spec => []TypeOK
<1>1. Inv => TypeOK
  <2>. SUFFICES ASSUME TypeInv PROVE TypeOK
    BY DEF Inv
  <2>1. Len(chain) \in 0..MaxChain
    BY ChainType, HxmpAssumption DEF TypeInv
  <2>2. \A k \in DOMAIN chain : chain[k] \in Chunks \cup Pointers \cup {Other}
    BY ChainType DEF Transaction, Real
  <2>3. \A w \in Writers : sent[w] \in 0..job[w].n
    <3>1. \A w \in Writers : job[w].n \in Nat
      BY PointerType DEF TypeInv
    <3>. QED
      BY <3>1 DEF TypeInv
  <2>. QED
    BY <2>1, <2>2, <2>3 DEF TypeInv, TypeOK, Real
<1>. QED
  BY <1>1, Invariance, PTL

\* Whatever a scan misses, chunks that validate are one snapshot (readSoul,
\* validateSnapshotParts).
THEOREM ValidatedCorrect == Spec => []ValidatedIsWhole
<1>1. Inv => ValidatedIsWhole
  BY InvValidated DEF Inv
<1>. QED
  BY <1>1, Invariance, PTL

\* As long as the reader's window spans the wallet's transactions, a complete
\* scan returns the memory of the newest pointer of each lane, whatever writes
\* were given up or are half way (writeSoul, readSoul).
THEOREM RecoverableCorrect == ASSUME ReadWindow >= MaxChain PROVE Spec => []Recoverable
<1>1. Inv => Recoverable
  BY InvRecoverable
<1>. QED
  BY <1>1, Invariance, PTL

-----------------------------------------------------------------------------
(* Lanes.                                                                  *)

\* LastOf in the transactions c.
Before(c, lane, n) ==
    Max({0} \cup {i \in 1..n : c[i].t = "latest" /\ c[i].lane = lane})

\* x continues pointer q.
Follows(c, x, q) ==
    /\ c[q].t = "latest" /\ c[q].lane = x.lane
    /\ x.seq = c[q].seq + 1 /\ x.prev = c[q].h

\* x begins its lane anew or continues one of the first n.
Back(c, x, n) ==
    \/ x.seq = 1 /\ x.prev = 0
    \/ \E q \in 1..n : Follows(c, x, q)

\* x does either, and continues its lane as it was when its write began, as far as
\* the scan of that write missed nothing.
Links(c, x) ==
    /\ x.seen \in 0..Len(c) /\ Back(c, x, Len(c))
    /\ Before(c, x.lane, x.seen) # 0 => Follows(c, x, Before(c, x.lane, x.seen))

\* A pointer that is on the chain found what it continues below it.
Landed(c, p) == c[p].t = "latest" => c[p].seen <= p - 1 /\ Back(c, c[p], p - 1)

LinkInv ==
    /\ \A x \in Out \cup Jobs : x.t = "latest" => Links(chain, x)
    /\ \A p \in DOMAIN chain : Landed(chain, p)

\* The last pointer of a lane among the first n.
LEMMA BeforeType ==
    ASSUME NEW c, NEW lane, NEW n \in Nat
    PROVE  /\ Before(c, lane, n) \in 0..n
           /\ Before(c, lane, n) # 0 =>
                 c[Before(c, lane, n)].t = "latest" /\ c[Before(c, lane, n)].lane = lane
           /\ \A i \in 1..n : c[i].t = "latest" /\ c[i].lane = lane => i <= Before(c, lane, n)
<1>. DEFINE S == {i \in 1..n : c[i].t = "latest" /\ c[i].lane = lane}
<1>1. S \in SUBSET Nat /\ IsFiniteSet(S)
  <2>1. IsFiniteSet(1..n)
    BY FS_Interval
  <2>2. S \in SUBSET (1..n)
    OBVIOUS
  <2>. HIDE DEF S
  <2>3. IsFiniteSet(S)
    BY <2>1, <2>2, FS_Subset
  <2>. QED
    BY <2>2, <2>3
<1>2. Before(c, lane, n) = Max({0} \cup S)
  BY DEF Before
<1>3. \A i \in S : i \in 1..n /\ c[i].t = "latest" /\ c[i].lane = lane
  OBVIOUS
<1>4. \A i \in 1..n : c[i].t = "latest" /\ c[i].lane = lane => i \in S
  OBVIOUS
<1>. HIDE DEF S
<1>5. Before(c, lane, n) \in {0} \cup S /\ \A i \in {0} \cup S : i <= Before(c, lane, n)
  BY <1>1, <1>2, MaxPosition
<1>. QED
  BY <1>3, <1>4, <1>5

\* The last pointer before a position that lies after it is the last one before it.
LEMMA BeforeSame ==
    ASSUME NEW c, NEW lane, NEW m \in Nat, NEW n \in Nat, m <= n,
           Before(c, lane, n) <= m
    PROVE  Before(c, lane, m) = Before(c, lane, n)
<1>. DEFINE a == Before(c, lane, m)
            b == Before(c, lane, n)
<1>1. a \in 0..m /\ b \in 0..n
  BY BeforeType
<1>2. a <= b
  <2>1. a # 0 => a \in 1..n /\ c[a].t = "latest" /\ c[a].lane = lane
    BY <1>1, BeforeType
  <2>. HIDE DEF a
  <2>. QED
    BY <2>1, <1>1, BeforeType
<1>3. b <= a
  <2>1. b # 0 => b \in 1..m /\ c[b].t = "latest" /\ c[b].lane = lane
    BY <1>1, BeforeType
  <2>. HIDE DEF b
  <2>. QED
    BY <2>1, <1>1, BeforeType
<1>. QED
  BY <1>1, <1>2, <1>3

\* A longer chain keeps the links.
LEMMA LinksKept ==
    ASSUME NEW c, NEW d, Len(c) \in Nat, Len(d) \in Nat, Len(c) <= Len(d),
           \A k \in 1..Len(c) : d[k] = c[k],
           NEW x, Links(c, x)
    PROVE  Links(d, x)
<1>1. x.seen \in 0..Len(c)
  BY DEF Links
<1>2. {i \in 1..x.seen : c[i].t = "latest" /\ c[i].lane = x.lane}
        = {i \in 1..x.seen : d[i].t = "latest" /\ d[i].lane = x.lane}
  BY <1>1
<1>3. Before(d, x.lane, x.seen) = Before(c, x.lane, x.seen)
  BY <1>2 DEF Before
<1>4. Before(c, x.lane, x.seen) \in 0..x.seen
  BY <1>1, BeforeType
<1>5. \A q \in 1..Len(c) : Follows(d, x, q) <=> Follows(c, x, q)
  BY DEF Follows
<1>6. Back(d, x, Len(d))
  <2>1. Back(c, x, Len(c)) /\ \A q \in 1..Len(c) : q \in 1..Len(d)
    BY DEF Links
  <2>. QED
    BY <1>5, <2>1 DEF Back
<1>7. Before(c, x.lane, x.seen) # 0 => Follows(d, x, Before(c, x.lane, x.seen))
  BY <1>1, <1>4, <1>5 DEF Links
<1>. QED
  BY <1>1, <1>3, <1>6, <1>7 DEF Links

\* So does what has landed.
LEMMA LandedKept ==
    ASSUME NEW c, NEW d, Len(c) \in Nat, \A k \in 1..Len(c) : d[k] = c[k],
           NEW p \in 1..Len(c), Landed(c, p)
    PROVE  Landed(d, p)
<1>1. d[p] = c[p] /\ \A q \in 1..(p - 1) : d[q] = c[q]
  OBVIOUS
<1>2. \A q \in 1..(p - 1) : Follows(d, c[p], q) <=> Follows(c, c[p], q)
  BY <1>1 DEF Follows
<1>3. Back(c, c[p], p - 1) => Back(d, c[p], p - 1)
  BY <1>2 DEF Back
<1>. QED
  BY <1>1, <1>3 DEF Landed

\* Chained follows from the links.
LEMMA InvChained == Inv /\ LinkInv => Chained
<1>. SUFFICES ASSUME Inv, LinkInv, NEW p \in DOMAIN chain, chain[p].t = "latest"
              PROVE  /\ \/ chain[p].seq = 1 /\ chain[p].prev = 0
                        \/ \E q \in 1..(p - 1) : Continues(p, q)
                     /\ LET before == LastOf(chain[p].lane, p - 1)
                        IN before \in 1..chain[p].seen => Continues(p, before)
  BY DEF Chained
<1>. DEFINE x == chain[p]
            before == LastOf(x.lane, p - 1)
<1>1. p - 1 \in Nat /\ Links(chain, x) /\ x.seen <= p - 1 /\ Back(chain, x, p - 1)
  BY ChainType DEF Inv, LinkInv, Landed, Out
<1>2. x.seen \in Nat
  BY <1>1, ChainType DEF Links, Inv
<1>3. before = Before(chain, x.lane, p - 1)
  BY DEF LastOf, Before
<1>4. \A q : Follows(chain, x, q) <=> Continues(p, q)
  BY DEF Follows, Continues
<1>. HIDE DEF x, before
<1>5. ASSUME before \in 1..x.seen PROVE Continues(p, before)
  <2>1. Before(chain, x.lane, x.seen) = before
    BY <1>1, <1>2, <1>3, <1>5, BeforeSame
  <2>. QED
    BY <2>1, <1>1, <1>4, <1>5 DEF Links
<1>6. (x.seq = 1 /\ x.prev = 0) \/ \E q \in 1..(p - 1) : Continues(p, q)
  BY <1>1, <1>4 DEF Back
<1>. QED
  BY <1>5, <1>6 DEF x, before

\* Links survive when every pointer on its way was a job's.
LEMMA LinkStep ==
    ASSUME Inv, LinkInv,
           \/ chain' = chain
           \/ Len(chain) < MaxChain /\ \E r \in Out \cup Jobs \cup Chunks \cup {Other} :
                                           chain' = Append(chain, r),
           \A x \in Out' \cup Jobs' : x.t = "latest" => x \in Out \cup Jobs
    PROVE  LinkInv'
<1>1. TypeInv
  BY DEF Inv
<1>2. Len(chain) \in Nat /\ DOMAIN chain = 1..Len(chain)
  BY <1>1, ChainType
<1>3. Out \cup Jobs \subseteq Transaction
  BY <1>1, ChainType DEF Out, Jobs, TypeInv, Transaction, Active
<1>4. /\ Len(chain') \in Nat /\ Len(chain) <= Len(chain')
      /\ \A k \in 1..Len(chain) : chain'[k] = chain[k]
      /\ \A k \in DOMAIN chain' : Landed(chain', k)
  <2>1. CASE chain' = chain
    BY <2>1, <1>2 DEF LinkInv
  <2>2. CASE chain' # chain
    <3>1. Len(chain) < MaxChain
      BY <2>2
    <3>2. PICK r \in Out \cup Jobs \cup Chunks \cup {Other} : chain' = Append(chain, r)
      BY <2>2
    <3>3. r \in Transaction
      BY <3>2, <1>3 DEF Transaction
    <3>4. /\ Len(chain') = Len(chain) + 1
          /\ DOMAIN chain' = DOMAIN chain \cup {Len(chain) + 1}
          /\ \A k \in DOMAIN chain : chain'[k] = chain[k]
          /\ chain'[Len(chain) + 1] = r
      BY <3>1, <3>2, <3>3, <1>1, AppendType
    <3>5. \A k \in DOMAIN chain : Landed(chain', k)
      BY <3>4, <1>2, LandedKept DEF LinkInv
    <3>6. Landed(chain', Len(chain) + 1)
      <4>. SUFFICES ASSUME r.t = "latest"
                    PROVE  r.seen <= Len(chain) /\ Back(chain', r, Len(chain))
        BY <3>4, <1>2 DEF Landed
      <4>1. r \in Out \cup Jobs
        BY <3>2, ChunkType DEF Other
      <4>2. r.seen \in 0..Len(chain) /\ Back(chain, r, Len(chain))
        BY <4>1 DEF LinkInv, Links
      <4>3. \A q \in 1..Len(chain) : Follows(chain', r, q) <=> Follows(chain, r, q)
        BY <3>4, <1>2 DEF Follows
      <4>. QED
        BY <4>2, <4>3, <1>2 DEF Back
    <3>. QED
      BY <3>4, <3>5, <3>6, <1>2
  <2>. QED
    BY <2>1, <2>2
<1>5. ASSUME NEW x \in Out' \cup Jobs', x.t = "latest" PROVE Links(chain', x)
  <2>1. Links(chain, x)
    BY <1>5 DEF LinkInv
  <2>. QED
    BY <2>1, <1>2, <1>4, LinksKept
<1>. QED
  BY <1>4, <1>5 DEF LinkInv

\* Whatever scans miss and however lanes move, a pointer begins a lane anew or
\* continues an earlier one; the newest before it, when its write's scan missed
\* nothing and the lane did not move while it was written (nextMemoryMeta).
THEOREM ChainedCorrect == Spec => []Chained
<1>1. Init => LinkInv
  BY DEF Init, LinkInv, Out, Jobs, Active
<1>2. Inv /\ LinkInv /\ [Next]_vars => LinkInv'
  <2>. SUFFICES ASSUME Inv, LinkInv, [Next]_vars PROVE LinkInv'
    OBVIOUS
  <2>1. TypeInv /\ Len(chain) \in Nat /\ DOMAIN chain = 1..Len(chain)
    BY ChainType DEF Inv
  <2>2. ASSUME NEW w \in Writers, Start(w) PROVE LinkInv'
    <3>1. /\ chain' = chain /\ inflight' = inflight
          /\ \A v \in Writers \ {w} : pc'[v] = pc[v]
      BY <2>1, <2>2 DEF Start, TypeInv
    <3>2. PICK h \in Memories, lane \in Lanes,
               found \in Scans(WriteWindow) \cup (IF Losable THEN {{}} ELSE {}) :
                  job' = [job EXCEPT ![w] = NextPointer(found, h, writes', lane)]
      BY <2>2 DEF Start
    <3>. DEFINE x == NextPointer(found, h, writes', lane)
                last == LatestForLane(found, lane)
                seen == IF found = DOMAIN chain THEN Len(chain) ELSE 0
    <3>3. Links(chain, x)
      <4>1. found \in SUBSET DOMAIN chain
        BY DEF Scans, Window
      <4>2. x = IF last = 0
                  THEN Pointer(h, writes', lane, 1, 0, seen)
                  ELSE Pointer(h, writes', lane, chain[last].seq + 1, chain[last].h, seen)
        BY DEF NextPointer
      <4>3. last # 0 =>
               last \in 1..Len(chain) /\ chain[last].t = "latest" /\ chain[last].lane = lane
        BY <2>1, <4>1, LatestType, PointerType DEF Real
      <4>4. found = DOMAIN chain => last = Before(chain, lane, Len(chain))
        BY <2>1 DEF LatestForLane, PointersIn, Before
      <4>5. Before(chain, lane, 0) = 0
        BY BeforeType
      <4>6. seen \in 0..Len(chain) /\ (Before(chain, lane, seen) # 0 =>
                                          Before(chain, lane, seen) = last)
        BY <2>1, <4>4, <4>5
      <4>. HIDE DEF x, last, seen
      <4>7. x.lane = lane /\ x.seen = seen
        BY <4>2 DEF Pointer
      <4>8. /\ last = 0 => x.seq = 1 /\ x.prev = 0
            /\ last # 0 => x.seq = chain[last].seq + 1 /\ x.prev = chain[last].h
        BY <4>2 DEF Pointer
      <4>9. last # 0 => Follows(chain, x, last)
        BY <4>3, <4>7, <4>8 DEF Follows
      <4>. QED
        BY <4>3, <4>6, <4>7, <4>8, <4>9 DEF Links, Back
    <3>. HIDE DEF x, last, seen
    <3>4. job' = [job EXCEPT ![w] = x]
      BY <3>2 DEF x
    <3>5. Out' = Out /\ Jobs' \subseteq Jobs \cup {x}
      BY <3>1, <3>4, <2>1 DEF Out, Jobs, Active, TypeInv
    <3>. QED
      BY <3>1, <3>3, <3>5 DEF LinkInv
  <2>3. ASSUME NEW w \in Writers, Confirmed(w) PROVE LinkInv'
    <3>1. Sending(w) /\ Len(chain) < MaxChain /\ chain' = Append(chain, Memo(w))
      BY <2>3 DEF Confirmed, Sending
    <3>2. Memo(w) \in Jobs \cup Chunks
      <4>1. /\ job[w] \in Jobs
            /\ pc[w] # "chunks" => Memo(w) = job[w]
            /\ Memo(w) \in Chunks \cup Real
            /\ pc[w] = "chunks" => Memo(w).t = "chunk"
        BY <3>1, <2>1, MemoType
      <4>2. Memo(w) \in Real => Memo(w).t = "latest"
        BY PointerType DEF Real
      <4>. QED
        BY <4>1, <4>2
    <3>3. Out' \subseteq Out \cup {Memo(w)}
      <4>1. Memo(w) \in Transaction
        BY <3>1, <2>1, MemoType DEF Transaction
      <4>2. /\ DOMAIN chain' = DOMAIN chain \cup {Len(chain) + 1}
            /\ \A k \in DOMAIN chain : chain'[k] = chain[k]
            /\ chain'[Len(chain) + 1] = Memo(w)
        BY <4>1, <3>1, <2>1, AppendType
      <4>. QED
        BY <4>2, <2>3 DEF Out, Confirmed
    <3>4. Jobs' \subseteq Jobs
      BY <2>1, <2>3 DEF Jobs, Active, Confirmed, Sending, TypeInv
    <3>5. \A x \in Out' \cup Jobs' : x.t = "latest" => x \in Out \cup Jobs
      BY <3>2, <3>3, <3>4, ChunkType
    <3>. QED
      BY <3>1, <3>2, <3>5, LinkStep
  <2>4. ASSUME NEW w \in Writers, TimesOut(w) PROVE LinkInv'
    <3>1. Sending(w) /\ chain' = chain
      BY <2>4 DEF TimesOut
    <3>2. Memo(w) \in Jobs \cup Chunks
      <4>1. /\ job[w] \in Jobs
            /\ pc[w] # "chunks" => Memo(w) = job[w]
            /\ Memo(w) \in Chunks \cup Real
            /\ pc[w] = "chunks" => Memo(w).t = "chunk"
        BY <3>1, <2>1, MemoType
      <4>2. Memo(w) \in Real => Memo(w).t = "latest"
        BY PointerType DEF Real
      <4>. QED
        BY <4>1, <4>2
    <3>3. Out' \subseteq Out \cup {Memo(w)}
      BY <2>4 DEF Out, TimesOut
    <3>4. Jobs' \subseteq Jobs
      BY <2>1, <2>4 DEF Jobs, Active, TimesOut, Fails, TypeInv
    <3>5. \A x \in Out' \cup Jobs' : x.t = "latest" => x \in Out \cup Jobs
      BY <3>2, <3>3, <3>4, ChunkType
    <3>. QED
      BY <3>1, <3>5, LinkStep
  <2>5. ASSUME NEW w \in Writers, Refused(w) \/ Readback(w) PROVE LinkInv'
    <3>1. chain' = chain /\ Out' = Out
      BY <2>5 DEF Out, Refused, Readback
    <3>2. Jobs' \subseteq Jobs
      BY <2>1, <2>5 DEF Jobs, Active, Refused, Readback, Fails, TypeInv
    <3>. QED
      BY <3>1, <3>2, LinkStep
  <2>6. CASE Land
    <3>1. PICK r \in inflight : chain' = Append(chain, r) /\ inflight' = inflight \ {r}
      BY <2>6 DEF Land
    <3>2. r \in Transaction /\ r \in Out /\ Len(chain) < MaxChain
      BY <3>1, <2>1, <2>6 DEF TypeInv, Transaction, Out, Land
    <3>3. /\ DOMAIN chain' = DOMAIN chain \cup {Len(chain) + 1}
          /\ \A k \in DOMAIN chain : chain'[k] = chain[k]
          /\ chain'[Len(chain) + 1] = r
      BY <3>1, <3>2, <2>1, AppendType
    <3>4. Out' \subseteq Out /\ Jobs' = Jobs
      BY <3>1, <3>2, <3>3, <2>6 DEF Out, Jobs, Active, Land
    <3>. QED
      BY <3>1, <3>2, <3>4, LinkStep
  <2>7. CASE Expire
    <3>1. chain' = chain /\ Out' \subseteq Out /\ Jobs' = Jobs
      BY <2>7 DEF Out, Jobs, Active, Expire
    <3>. QED
      BY <3>1, LinkStep
  <2>8. CASE OtherTransaction
    <3>1. Len(chain) < MaxChain /\ chain' = Append(chain, Other)
      BY <2>8 DEF OtherTransaction
    <3>2. /\ DOMAIN chain' = DOMAIN chain \cup {Len(chain) + 1}
          /\ \A k \in DOMAIN chain : chain'[k] = chain[k]
          /\ chain'[Len(chain) + 1] = Other
      BY <3>1, <2>1, AppendType DEF Transaction
    <3>3. Out' \subseteq Out \cup {Other} /\ Jobs' = Jobs
      BY <3>2, <2>8 DEF Out, Jobs, Active, OtherTransaction
    <3>4. \A x \in Out' \cup Jobs' : x.t = "latest" => x \in Out \cup Jobs
      BY <3>3 DEF Other
    <3>. QED
      BY <3>1, <3>4, LinkStep
  <2>9. CASE UNCHANGED vars
    <3>1. chain' = chain /\ Out' = Out /\ Jobs' = Jobs
      BY <2>9 DEF vars, Out, Jobs, Active
    <3>. QED
      BY <3>1, LinkStep
  <2>. QED
    BY <2>2, <2>3, <2>4, <2>5, <2>6, <2>7, <2>8, <2>9 DEF Next
<1>3. Inv /\ LinkInv => Chained
  BY InvChained
<1>. QED
  BY <1>1, <1>2, <1>3, Invariance, PTL DEF Spec

-----------------------------------------------------------------------------
(***************************************************************************)
(* MetricsStore.                                                           *)
(***************************************************************************)

-----------------------------------------------------------------------------
(* The invariant.                                                          *)

\* The part of the types that the other invariants rest on.
StoreInv ==
    /\ now \in Time
    /\ snaps \in Seq(Snap)
    /\ doing \in [Threads -> {"idle", "write", "snaps", "imports"}]
    /\ request \in [Threads -> Request]
    /\ point \in [Threads -> Time \cup {Never}]

\* A thread about to store a throttled observation lies Interval after the rows it
\* has stored itself; rows of other threads may have come since it asked.
DueInv ==
    \A t \in Threads : doing[t] = "write" /\ request[t].kind = "profile" =>
        \A i \in DOMAIN snaps :
            Interval > 0 /\ snaps[i].by = t => request[t].at >= snaps[i].ts + Interval

-----------------------------------------------------------------------------
(* Operators.                                                              *)

\* Times and requests are numbers.
LEMMA TimeType ==
    /\ Time \in SUBSET Nat /\ IsFiniteSet(Time) /\ 0 \in Time
    /\ Interval \in Nat /\ Slack \in Nat /\ Period \in Nat /\ Slack < Period
    /\ \A r \in Request : r.at \in Time /\ r.price \in Price /\ r.sure \in BOOLEAN
                             /\ r.kind \in {"none", "profile", "window"}
    /\ \A s \in Snap : s.ts \in Time
<1>1. Time \in SUBSET Nat /\ 0 \in Time
  BY StoreAssumption DEF Time
<1>2. IsFiniteSet(Time)
  BY StoreAssumption, FS_Interval DEF Time
<1>. QED
  BY <1>1, <1>2, StoreAssumption DEF Request, Snap

\* The least of a set of times is in it.
LEMMA LeastTime ==
    ASSUME NEW S \in SUBSET Time, S # {}
    PROVE  Min(S) \in S
<1>1. S \in SUBSET Nat
  BY TimeType
<1>2. \E k \in S : \A j \in S : k <= j
  BY <1>1, LeastNatural
<1>. QED
  BY <1>2 DEF Min

\* The nearest point is a time within Slack, if there is one.
LEMMA NearestType ==
    ASSUME NEW points, NEW target \in Int
    PROVE  /\ Nearest(points, target) \in Time \cup {Never}
           /\ Nearest(points, target) # Never =>
                 Distance(Nearest(points, target), target) <= Slack
<1>. DEFINE times == {ts \in Time : points[ts] # NULL /\ Distance(ts, target) <= Slack}
            best == {ts \in times : \A u \in times : Distance(ts, target) <= Distance(u, target)}
<1>1. Nearest(points, target) = IF best = {} THEN Never ELSE Min(best)
  BY DEF Nearest
<1>2. best \in SUBSET Time /\ \A ts \in best : Distance(ts, target) <= Slack
  OBVIOUS
<1>. HIDE DEF best
<1>3. best # {} => Min(best) \in best
  BY <1>2, LeastTime
<1>. QED
  BY <1>1, <1>2, <1>3

\* The time of the last snapshot is that of none of them, or none is later.
LEMMA LatestTimeType ==
    ASSUME StoreInv
    PROVE  /\ Latest \in Time \cup {Never}
           /\ \A i \in DOMAIN snaps : snaps[i].ts \in Time /\ snaps[i].ts <= Latest
           /\ DOMAIN snaps # {} => Latest # Never
<1>. DEFINE S == {Never} \cup {snaps[i].ts : i \in DOMAIN snaps}
            f == [x \in S |-> x]
<1>1. \A i \in DOMAIN snaps : snaps[i] \in Snap /\ snaps[i].ts \in Time
  BY TimeType DEF StoreInv
<1>2. S \in SUBSET (Time \cup {Never}) /\ S # {}
  BY <1>1
<1>3. IsFiniteSet(Time \cup {Never})
  BY TimeType, FS_AddElement
<1>4. IsFiniteSet(S)
  BY <1>2, <1>3, FS_Subset
<1>5. S \in SUBSET Int /\ \A x \in S : f[x] = x /\ f[x] \in Int
  <2>1. Time \cup {Never} \in SUBSET Int
    BY TimeType DEF Never
  <2>2. \A x \in S : f[x] = x
    OBVIOUS
  <2>. HIDE DEF S, f
  <2>. QED
    BY <2>1, <2>2, <1>2
<1>6. \A i \in DOMAIN snaps : snaps[i].ts \in S
  OBVIOUS
<1>7. Latest = Max(S)
  BY DEF Latest
<1>. HIDE DEF S, f
<1>8. \E k \in S : \A j \in S : f[j] <= f[k]
  BY <1>2, <1>4, <1>5, GreatestMeasure
<1>9. \E k \in S : \A j \in S : k >= j
  BY <1>5, <1>8
<1>10. Max(S) \in S /\ \A j \in S : Max(S) >= j
  BY <1>9 DEF Max
<1>11. \A i \in DOMAIN snaps : snaps[i].ts \in Nat /\ snaps[i].ts <= Latest
  BY <1>1, <1>5, <1>6, <1>7, <1>10, TimeType
<1>12. Latest \in Time \cup {Never}
  BY <1>2, <1>7, <1>10
<1>13. \A i \in DOMAIN snaps : Latest # Never
  BY <1>11 DEF Never
<1>. QED
  BY <1>1, <1>11, <1>12, <1>13

-----------------------------------------------------------------------------
(* Steps.                                                                  *)

LEMMA StoreStep == StoreInv /\ [StoreNext]_storeVars => StoreInv'
<1>. SUFFICES ASSUME StoreInv, [StoreNext]_storeVars PROVE StoreInv'
  OBVIOUS
<1>1. ASSUME NEW t \in Threads, Profile(t) PROVE StoreInv'
  <2>1. PICK at \in Time, price \in Price :
           request' = [request EXCEPT ![t] = [kind |-> "profile", at |-> at,
                                              price |-> price, sure |-> TRUE]]
    BY <1>1 DEF Profile
  <2>2. [kind |-> "profile", at |-> at, price |-> price, sure |-> TRUE] \in Request
    BY DEF Request
  <2>3. request' \in [Threads -> Request]
    BY <2>1, <2>2 DEF StoreInv
  <2>4. doing' \in [Threads -> {"idle", "write", "snaps", "imports"}]
    BY <1>1 DEF Profile, StoreInv
  <2>. QED
    BY <2>3, <2>4, <1>1 DEF Profile, StoreInv
<1>2. ASSUME NEW t \in Threads, Compare(t) PROVE StoreInv'
  <2>1. PICK price \in Prices, sure \in BOOLEAN :
           request' = [request EXCEPT ![t] = [kind |-> "window", at |-> now,
                                              price |-> price, sure |-> sure]]
    BY <1>2 DEF Compare
  <2>2. [kind |-> "window", at |-> now, price |-> price, sure |-> sure] \in Request
    BY DEF Request, Price, StoreInv
  <2>3. request' \in [Threads -> Request]
    BY <2>1, <2>2 DEF StoreInv
  <2>. QED
    BY <2>3, <1>2 DEF Compare, StoreInv
<1>3. ASSUME NEW t \in Threads, Record(t) PROVE StoreInv'
  <2>1. request[t] \in Request
    BY DEF StoreInv
  <2>2. /\ request[t].at \in Time /\ request[t].price \in Price
        /\ request[t].sure \in BOOLEAN
        /\ (request[t].kind = "profile") \in BOOLEAN
    BY <2>1, TimeType
  <2>3. RowOf(t) \in Snap
    BY <2>2 DEF RowOf, Snap
  <2>4. snaps' \in Seq(Snap)
    BY <1>3, <2>3 DEF Record, StoreInv
  <2>. QED
    BY <2>4, <1>3 DEF Record, StoreInv
<1>4. ASSUME NEW t \in Threads, ReadSnaps(t) PROVE StoreInv'
  <2>1. [request[t] EXCEPT !.at = now] \in Request
    BY DEF StoreInv, Request
  <2>2. request' \in [Threads -> Request]
    BY <2>1, <1>4 DEF ReadSnaps, StoreInv
  <2>. QED
    BY <2>2, <1>4 DEF ReadSnaps, StoreInv
<1>5. ASSUME NEW t \in Threads, ReadImports(t) PROVE StoreInv'
  <2>1. request[t].at - Period \in Int
    <3>1. request[t].at \in Time
      BY TimeType DEF StoreInv
    <3>2. request[t].at \in Nat /\ Period \in Nat
      BY <3>1, TimeType
    <3>. QED
      BY <3>2
  <2>2. Nearest(series'[t], request[t].at - Period) \in Time \cup {Never}
    BY <2>1, NearestType
  <2>3. point' \in [Threads -> Time \cup {Never}]
    BY <2>2, <1>5 DEF ReadImports, StoreInv
  <2>. QED
    BY <2>3, <1>5 DEF ReadImports, StoreInv
<1>6. CASE Backfill
  BY <1>6 DEF Backfill, StoreInv
<1>7. CASE Tick
  <2>1. now' \in Time
    BY <1>7, StoreAssumption DEF Tick, StoreInv, Time
  <2>. QED
    BY <2>1, <1>7 DEF Tick, StoreInv
<1>8. CASE UNCHANGED storeVars
  BY <1>8 DEF storeVars, StoreInv
<1>. QED
  BY <1>1, <1>2, <1>3, <1>4, <1>5, <1>6, <1>7, <1>8 DEF StoreNext

LEMMA StoreInitInv == StoreInit => StoreInv
<1>. SUFFICES ASSUME StoreInit PROVE StoreInv
  OBVIOUS
<1>1. NoRequest \in Request
  BY TimeType DEF NoRequest, Request, Price
<1>. QED
  BY <1>1, TimeType DEF StoreInit, StoreInv

-----------------------------------------------------------------------------
(* The theorems.                                                           *)

\* A comparison never takes the observation it has just recorded for the historical
\* one, whoever stores and imports what meanwhile (historical_value_at).
THEOREM PastCorrect == StoreSpec => []ComparesWithPast
<1>1. StoreInit => ComparesWithPast
  BY DEF StoreInit, ComparesWithPast
<1>2. StoreInv /\ ComparesWithPast /\ [StoreNext]_storeVars => ComparesWithPast'
  <2>. SUFFICES ASSUME StoreInv, ComparesWithPast, [StoreNext]_storeVars,
                       NEW t \in Threads, doing'[t] = "idle", point'[t] # Never
                PROVE  /\ Distance(point'[t], request'[t].at - Period) <= Slack
                       /\ point'[t] < request'[t].at
    BY DEF ComparesWithPast
  <2>1. CASE doing[t] = "idle" /\ point'[t] = point[t] /\ request'[t] = request[t]
    BY <2>1 DEF ComparesWithPast
  <2>2. CASE ReadImports(t)
    <3>1. request'[t] = request[t] /\ request[t].at \in Nat /\ request[t].at - Period \in Int
      <4>1. request[t].at \in Time /\ request'[t] = request[t]
        BY <2>2, TimeType DEF StoreInv, ReadImports
      <4>2. request[t].at \in Nat /\ Period \in Nat
        BY <4>1, TimeType
      <4>. QED
        BY <4>1, <4>2
    <3>2. point'[t] = Nearest(series'[t], request[t].at - Period)
      BY <2>2 DEF ReadImports, StoreInv
    <3>3. /\ point'[t] \in Nat
          /\ Distance(point'[t], request[t].at - Period) <= Slack
      BY <3>1, <3>2, NearestType, TimeType
    <3>. QED
      BY <3>1, <3>3, TimeType DEF Distance
  <2>3. ASSUME NEW u \in Threads, u # t,
               Profile(u) \/ Compare(u) \/ Record(u) \/ ReadSnaps(u) \/ ReadImports(u)
        PROVE  doing[t] = "idle" /\ point'[t] = point[t] /\ request'[t] = request[t]
    BY <2>3 DEF Profile, Compare, Record, ReadSnaps, ReadImports, StoreInv
  <2>4. ASSUME Profile(t) \/ Compare(t) \/ Record(t) \/ ReadSnaps(t) PROVE FALSE
    BY <2>4 DEF Profile, Compare, Record, ReadSnaps, StoreInv
  <2>5. ASSUME Backfill \/ Tick \/ UNCHANGED storeVars
        PROVE  doing[t] = "idle" /\ point'[t] = point[t] /\ request'[t] = request[t]
    BY <2>5 DEF Backfill, Tick, storeVars
  <2>. QED
    BY <2>1, <2>2, <2>3, <2>4, <2>5 DEF StoreNext
<1>. QED
  BY <1>1, <1>2, StoreInitInv, StoreStep, PTL DEF StoreSpec

\* A throttled snapshot keeps its distance from all that the same thread stored
\* before it, for any number of threads and however late observations arrive
\* (record_snapshot_if_due).
THEOREM ThrottleCorrect == StoreSpec => []ThrottledEach
<1>1. StoreInit => DueInv /\ ThrottledEach
  BY DEF StoreInit, DueInv, ThrottledEach
<1>2. StoreInv /\ DueInv /\ ThrottledEach /\ [StoreNext]_storeVars => DueInv' /\ ThrottledEach'
  <2>. SUFFICES ASSUME StoreInv, DueInv, ThrottledEach, [StoreNext]_storeVars
                PROVE  DueInv' /\ ThrottledEach'
    OBVIOUS
  <2>1. ASSUME NEW t \in Threads, Profile(t) PROVE DueInv' /\ ThrottledEach'
    <3>1. snaps' = snaps
      BY <2>1 DEF Profile
    <3>2. ASSUME doing'[t] = "write", Interval > 0, NEW i \in DOMAIN snaps
          PROVE  request'[t].at >= snaps[i].ts + Interval
      <4>1. Due(request'[t].at) /\ request'[t].at \in Time
        BY <2>1, <3>2 DEF Profile, StoreInv
      <4>2. snaps[i].ts \in Nat /\ snaps[i].ts <= Latest /\ Latest # Never /\ Latest \in Nat
        BY LatestTimeType, TimeType
      <4>3. request'[t].at \in Nat
        BY <4>1, TimeType
      <4>. QED
        BY <4>1, <4>2, <4>3, <3>2, TimeType DEF Due
    <3>3. \A u \in Threads : u # t => doing'[u] = doing[u] /\ request'[u] = request[u]
      BY <2>1 DEF Profile, StoreInv
    <3>. QED
      BY <3>1, <3>2, <3>3 DEF DueInv, ThrottledEach
  <2>2. ASSUME NEW t \in Threads, Compare(t) PROVE DueInv' /\ ThrottledEach'
    <3>1. request'[t].kind = "window" /\ snaps' = snaps
      BY <2>2 DEF Compare, StoreInv
    <3>2. \A u \in Threads : u # t => doing'[u] = doing[u] /\ request'[u] = request[u]
      BY <2>2 DEF Compare, StoreInv
    <3>. QED
      BY <3>1, <3>2 DEF DueInv, ThrottledEach
  <2>3. ASSUME NEW t \in Threads, Record(t) PROVE DueInv' /\ ThrottledEach'
    <3>1. /\ doing[t] = "write" /\ doing'[t] = "snaps" /\ request' = request
          /\ snaps' = Append(snaps, RowOf(t))
          /\ \A u \in Threads : u # t => doing'[u] = doing[u]
      BY <2>3 DEF Record, StoreInv
    <3>2. /\ Len(snaps) \in Nat /\ DOMAIN snaps = 1..Len(snaps)
          /\ DOMAIN snaps' = 1..(Len(snaps) + 1)
          /\ \A i \in 1..Len(snaps) : snaps'[i] = snaps[i]
          /\ snaps'[Len(snaps) + 1] = RowOf(t)
      <4>1. snaps \in Seq(Snap)
        BY DEF StoreInv
      <4>. QED
        BY <4>1, <3>1
    <3>3. RowOf(t).by = t /\ RowOf(t).ts = request[t].at
          /\ RowOf(t).due = (request[t].kind = "profile")
      BY DEF RowOf
    <3>4. DueInv'
      <4>1. ASSUME NEW u \in Threads, doing'[u] = "write", request'[u].kind = "profile",
                   NEW i \in DOMAIN snaps', Interval > 0, snaps'[i].by = u
            PROVE  request'[u].at >= snaps'[i].ts + Interval
        <5>1. u # t /\ doing[u] = "write" /\ request'[u] = request[u]
          BY <3>1, <4>1
        <5>2. i \in 1..Len(snaps) /\ snaps'[i] = snaps[i]
          BY <3>2, <3>3, <4>1, <5>1
        <5>. QED
          BY <5>1, <5>2, <4>1, <3>2 DEF DueInv
      <4>. QED
        BY <4>1 DEF DueInv
    <3>5. ThrottledEach'
      <4>1. ASSUME NEW i \in DOMAIN snaps', NEW j \in DOMAIN snaps', Interval > 0, i < j,
                   snaps'[j].due, snaps'[i].by = snaps'[j].by
            PROVE  snaps'[j].ts >= snaps'[i].ts + Interval
        <5>1. CASE j \in 1..Len(snaps)
          BY <5>1, <4>1, <3>2 DEF ThrottledEach
        <5>2. CASE j = Len(snaps) + 1
          <6>1. i \in 1..Len(snaps) /\ snaps'[i] = snaps[i] /\ snaps'[j] = RowOf(t)
            BY <5>2, <4>1, <3>2
          <6>2. request[t].kind = "profile" /\ snaps[i].by = t
            BY <6>1, <4>1, <3>3
          <6>3. request[t].at >= snaps[i].ts + Interval
            BY <6>1, <6>2, <3>1, <3>2, <4>1 DEF DueInv
          <6>. QED
            BY <6>1, <6>3, <3>3
        <5>. QED
          BY <5>1, <5>2, <3>2
      <4>. QED
        BY <4>1 DEF ThrottledEach
    <3>. QED
      BY <3>4, <3>5
  <2>4. ASSUME NEW t \in Threads, ReadSnaps(t) \/ ReadImports(t) PROVE DueInv' /\ ThrottledEach'
    <3>1. doing'[t] # "write" /\ snaps' = snaps
      BY <2>4 DEF ReadSnaps, ReadImports, StoreInv
    <3>2. \A u \in Threads : u # t => doing'[u] = doing[u] /\ request'[u] = request[u]
      BY <2>4 DEF ReadSnaps, ReadImports, StoreInv
    <3>. QED
      BY <3>1, <3>2 DEF DueInv, ThrottledEach
  <2>5. CASE Backfill \/ Tick \/ UNCHANGED storeVars
    <3>1. doing' = doing /\ request' = request /\ snaps' = snaps
      BY <2>5 DEF Backfill, Tick, storeVars
    <3>. QED
      BY <3>1 DEF DueInv, ThrottledEach
  <2>. QED
    BY <2>1, <2>2, <2>3, <2>4, <2>5 DEF StoreNext
<1>. QED
  BY <1>1, <1>2, StoreInitInv, StoreStep, PTL DEF StoreSpec

-----------------------------------------------------------------------------
(* The types of the store.                                                 *)

\* The other tables, and what the threads have read.  Every row offered of which
\* the key and time are new is stored, so there are no more rows than offers.
TableInv ==
    /\ Len(snaps) \in 0..MaxSnaps
    /\ imports \in Seq(Import)
    /\ offered \subseteq Import /\ IsFiniteSet(offered)
    /\ Len(imports) <= Cardinality(offered) /\ Cardinality(offered) <= MaxOffers
    /\ \A row \in offered :
          \E i \in DOMAIN imports : imports[i].ts = row.ts /\ imports[i].key = row.key
    /\ held \in [Threads -> Seq(Snap)]
    /\ series \in [Threads -> [Time -> Price \cup Quotes]]

\* The first and last of some places of a table.
LEMMA PlacesType ==
    ASSUME NEW n \in Nat, NEW S \in SUBSET (1..n), S # {}
    PROVE  Min(S) \in S /\ Max(S) \in S
<1>. DEFINE f == [x \in S |-> x]
<1>1. IsFiniteSet(S)
  <2>1. IsFiniteSet(1..n)
    BY FS_Interval
  <2>. QED
    BY <2>1, FS_Subset
<1>2. \E k \in S : \A j \in S : k <= j
  BY LeastNatural
<1>3. \A x \in S : f[x] = x /\ f[x] \in Int
  OBVIOUS
<1>. HIDE DEF f
<1>4. \E k \in S : \A j \in S : f[j] <= f[k]
  BY <1>1, <1>3, GreatestMeasure
<1>5. \E k \in S : \A j \in S : k >= j
  BY <1>3, <1>4
<1>. QED
  BY <1>2, <1>5 DEF Min, Max

\* What a series has for a time is a price of either table.
LEMMA MergedType ==
    ASSUME imports \in Seq(Import), NEW rows \in Seq(Snap), NEW ts
    PROVE  Merged(rows, ts) \in Price \cup Quotes
<1>1. ASSUME PricedAt(rows, ts) # {} PROVE rows[Max(PricedAt(rows, ts))].price \in Price
  <2>1. PricedAt(rows, ts) \in SUBSET (1..Len(rows)) /\ Len(rows) \in Nat
    BY DEF PricedAt
  <2>2. Max(PricedAt(rows, ts)) \in 1..Len(rows)
    BY <1>1, <2>1, PlacesType
  <2>3. rows[Max(PricedAt(rows, ts))] \in Snap
    BY <2>2
  <2>. QED
    BY <2>3 DEF Snap
<1>2. ASSUME Usable(ts) PROVE FirstAt(ts) \in Quotes
  <2>1. ImportsAt(ts) \in SUBSET (1..Len(imports)) /\ Len(imports) \in Nat /\ ImportsAt(ts) # {}
    BY <1>2 DEF ImportsAt, Usable
  <2>2. Min(ImportsAt(ts)) \in 1..Len(imports)
    BY <2>1, PlacesType
  <2>3. imports[Min(ImportsAt(ts))] \in Import
    BY <2>2
  <2>. QED
    BY <2>3 DEF Import, FirstAt
<1>. QED
  BY <1>1, <1>2 DEF Merged, Price

\* An import stores at most one row more than was stored.
LEMMA BackfillStep == TableInv /\ Backfill => TableInv'
<1>. SUFFICES ASSUME TableInv, Backfill PROVE TableInv'
  OBVIOUS
<1>1. PICK row \in Import :
          /\ offered' = offered \cup {row}
          /\ Cardinality(offered') <= MaxOffers
          /\ imports' =
                IF \E i \in DOMAIN imports : imports[i].ts = row.ts /\ imports[i].key = row.key
                  THEN imports ELSE Append(imports, row)
  BY DEF Backfill
<1>2. /\ imports \in Seq(Import) /\ Len(imports) \in Nat
      /\ IsFiniteSet(offered) /\ Cardinality(offered) \in Nat
      /\ Len(imports) <= Cardinality(offered)
  BY FS_CardinalityType DEF TableInv
<1>3. /\ IsFiniteSet(offered')
      /\ Cardinality(offered') = IF row \in offered THEN Cardinality(offered) ELSE Cardinality(offered) + 1
  BY <1>1, <1>2, FS_AddElement
<1>4. CASE \E i \in DOMAIN imports : imports[i].ts = row.ts /\ imports[i].key = row.key
  <2>1. imports' = imports
    BY <1>1, <1>4
  <2>2. Len(imports') <= Cardinality(offered')
    BY <2>1, <1>2, <1>3
  <2>3. \A r \in offered' :
           \E i \in DOMAIN imports' : imports'[i].ts = r.ts /\ imports'[i].key = r.key
    BY <2>1, <1>1, <1>4 DEF TableInv
  <2>. QED
    BY <2>1, <2>2, <2>3, <1>1, <1>3 DEF TableInv, Backfill
<1>5. CASE ~\E i \in DOMAIN imports : imports[i].ts = row.ts /\ imports[i].key = row.key
  <2>1. imports' = Append(imports, row)
    BY <1>1, <1>5
  <2>2. /\ imports' \in Seq(Import) /\ Len(imports') = Len(imports) + 1
        /\ DOMAIN imports' = 1..(Len(imports) + 1) /\ DOMAIN imports = 1..Len(imports)
        /\ \A i \in 1..Len(imports) : imports'[i] = imports[i]
        /\ imports'[Len(imports) + 1] = row
    BY <2>1, <1>2
  <2>3. row \notin offered
    BY <1>5 DEF TableInv
  <2>4. Len(imports') <= Cardinality(offered')
    BY <2>2, <2>3, <1>2, <1>3
  <2>5. ASSUME NEW r \in offered'
        PROVE  \E i \in DOMAIN imports' : imports'[i].ts = r.ts /\ imports'[i].key = r.key
    <3>1. CASE r = row
      <4>1. Len(imports) + 1 \in DOMAIN imports'
        BY <2>2, <1>2
      <4>. QED
        BY <4>1, <3>1, <2>2
    <3>2. CASE r \in offered
      <4>1. PICK i \in DOMAIN imports : imports[i].ts = r.ts /\ imports[i].key = r.key
        BY <3>2 DEF TableInv
      <4>2. i \in DOMAIN imports' /\ imports'[i] = imports[i]
        BY <2>2, <1>2
      <4>. QED
        BY <4>1, <4>2
    <3>. QED
      BY <3>1, <3>2, <1>1
  <2>. QED
    BY <2>2, <2>4, <2>5, <1>1, <1>3 DEF TableInv, Backfill
<1>. QED
  BY <1>4, <1>5

\* The other steps.
LEMMA TableStep == StoreInv /\ TableInv /\ [StoreNext]_storeVars => TableInv'
<1>. SUFFICES ASSUME StoreInv, TableInv, [StoreNext]_storeVars PROVE TableInv'
  OBVIOUS
<1>1. ASSUME NEW t \in Threads, Profile(t) \/ Compare(t) PROVE TableInv'
  BY <1>1 DEF Profile, Compare, TableInv
<1>2. ASSUME NEW t \in Threads, Record(t) PROVE TableInv'
  <2>1. Len(snaps') = Len(snaps) + 1 /\ Len(snaps) \in Nat /\ Len(snaps) < MaxSnaps
    BY <1>2 DEF Record, StoreInv
  <2>2. Len(snaps') \in 0..MaxSnaps
    BY <2>1, StoreAssumption
  <2>. QED
    BY <2>2, <1>2 DEF Record, TableInv
<1>3. ASSUME NEW t \in Threads, ReadSnaps(t) PROVE TableInv'
  <2>1. held' \in [Threads -> Seq(Snap)]
    BY <1>3 DEF ReadSnaps, TableInv, StoreInv
  <2>. QED
    BY <2>1, <1>3 DEF ReadSnaps, TableInv
<1>4. ASSUME NEW t \in Threads, ReadImports(t) PROVE TableInv'
  <2>1. \A ts \in Time : Merged(held[t], ts) \in Price \cup Quotes
    BY MergedType DEF TableInv
  <2>2. [ts \in Time |-> Merged(held[t], ts)] \in [Time -> Price \cup Quotes]
    BY <2>1
  <2>3. series' \in [Threads -> [Time -> Price \cup Quotes]]
    BY <2>2, <1>4 DEF ReadImports, TableInv
  <2>. QED
    BY <2>3, <1>4 DEF ReadImports, TableInv
<1>5. CASE Backfill
  BY <1>5, BackfillStep
<1>6. CASE Tick \/ UNCHANGED storeVars
  BY <1>6 DEF Tick, storeVars, TableInv
<1>. QED
  BY <1>1, <1>2, <1>3, <1>4, <1>5, <1>6 DEF StoreNext

\* Nothing is stored at first.
LEMMA TableInit == StoreInit => TableInv
<1>. SUFFICES ASSUME StoreInit PROVE TableInv
  OBVIOUS
<1>1. IsFiniteSet(offered) /\ Cardinality(offered) = 0
  BY FS_EmptySet DEF StoreInit
<1>2. Empty \in [Time -> Price \cup Quotes]
  BY DEF Empty, Price
<1>3. 0 \in 0..MaxSnaps /\ 0 <= MaxOffers
  BY StoreAssumption
<1>. QED
  BY <1>1, <1>2, <1>3 DEF StoreInit, TableInv

\* The tables and what the threads hold are of their types; the import, which offers
\* its rows again and again, never stores more of them than there are
\* (record_verified_price_observation, INSERT OR IGNORE).
THEOREM StoreTypeCorrect == StoreSpec => []StoreTypeOK
<1>1. StoreInv /\ TableInv => StoreTypeOK
  <2>. SUFFICES ASSUME StoreInv, TableInv PROVE StoreTypeOK
    OBVIOUS
  <2>1. Len(imports) \in 0..MaxOffers
    BY FS_CardinalityType, StoreAssumption DEF TableInv
  <2>. QED
    BY <2>1 DEF StoreInv, TableInv, StoreTypeOK
<1>. QED
  BY <1>1, StoreInitInv, StoreStep, TableInit, TableStep, PTL DEF StoreSpec

-----------------------------------------------------------------------------
(* Answers.                                                                *)

\* What was answered from the provider's rows is the first row of its time, still.
FirstInv ==
    \A t \in Threads, ts \in Time :
        Imported(t, ts) => ImportsAt(ts) # {} /\ series[t][ts] = FirstAt(ts)

\* The first row of a time stays the first.
LEMMA FirstStays ==
    ASSUME TableInv, Backfill, NEW ts, ImportsAt(ts) # {}
    PROVE  ImportsAt(ts)' # {} /\ FirstAt(ts)' = FirstAt(ts)
<1>1. /\ imports \in Seq(Import) /\ Len(imports) \in Nat
      /\ DOMAIN imports = 1..Len(imports)
  BY DEF TableInv
<1>2. CASE imports' = imports
  BY <1>2 DEF ImportsAt, FirstAt
<1>3. ASSUME NEW row \in Import, imports' = Append(imports, row)
      PROVE  ImportsAt(ts)' # {} /\ FirstAt(ts)' = FirstAt(ts)
  <2>. DEFINE old == ImportsAt(ts)
              new == ImportsAt(ts)'
              n == Len(imports) + 1
  <2>1. /\ DOMAIN imports' = 1..n /\ \A i \in 1..Len(imports) : imports'[i] = imports[i]
        /\ n \in Nat
    BY <1>1, <1>3
  <2>2. old \in SUBSET (1..Len(imports)) /\ new \in SUBSET (1..n)
        /\ old \subseteq new /\ \A i \in new : i \in old \/ i = n
    <3>1. old = {i \in 1..Len(imports) : imports[i].ts = ts}
      BY <1>1 DEF ImportsAt
    <3>2. new = {i \in 1..n : imports'[i].ts = ts}
      BY <2>1 DEF ImportsAt
    <3>. HIDE DEF old, new
    <3>. QED
      BY <3>1, <3>2, <2>1, <1>1
  <2>. HIDE DEF old, new
  <2>3. old # {}
    BY DEF old
  <2>4. new # {} /\ new \in SUBSET Nat /\ old \in SUBSET Nat
    <3>1. 1..Len(imports) \in SUBSET Nat /\ 1..n \in SUBSET Nat
      BY <1>1
    <3>. HIDE DEF n
    <3>. QED
      BY <2>2, <2>3, <3>1
  <2>5. PICK k \in old : \A j \in old : k <= j
    BY <2>3, <2>4, LeastNatural
  <2>6. Min(old) = k
    <3>1. Min(old) \in old /\ \A j \in old : Min(old) <= j
      BY <2>5 DEF Min
    <3>2. Min(old) \in Nat /\ k \in Nat /\ Min(old) <= k /\ k <= Min(old)
      BY <3>1, <2>4, <2>5
    <3>. QED
      BY <3>2
  <2>7. k \in new /\ \A j \in new : k <= j
    BY <2>2, <2>5, <1>1
  <2>8. Min(new) = k
    <3>1. Min(new) \in new /\ \A j \in new : Min(new) <= j
      BY <2>7 DEF Min
    <3>2. Min(new) \in Nat /\ k \in Nat /\ Min(new) <= k /\ k <= Min(new)
      BY <3>1, <2>4, <2>7
    <3>. QED
      BY <3>2
  <2>9. FirstAt(ts)' = imports'[Min(new)].price /\ FirstAt(ts) = imports[Min(old)].price
    BY DEF FirstAt, new, old
  <2>10. k \in 1..Len(imports)
    BY <2>2
  <2>. QED
    BY <2>1, <2>4, <2>6, <2>8, <2>9, <2>10 DEF new
<1>. QED
  BY <1>2, <1>3 DEF Backfill

\* Every step keeps what was answered.
LEMMA FirstStep == TableInv /\ StoreInv /\ FirstInv /\ [StoreNext]_storeVars => FirstInv'
<1>. SUFFICES ASSUME TableInv, StoreInv, FirstInv, [StoreNext]_storeVars,
                     NEW t \in Threads, NEW ts \in Time, Imported(t, ts)'
              PROVE  ImportsAt(ts)' # {} /\ series'[t][ts] = FirstAt(ts)'
  BY DEF FirstInv
<1>1. ASSUME ~ReadImports(t), ~ReadSnaps(t) PROVE series'[t] = series[t] /\ held'[t] = held[t]
  BY <1>1 DEF StoreNext, Profile, Compare, Record, ReadSnaps, ReadImports, Backfill, Tick,
        storeVars, TableInv
<1>2. ASSUME ~ReadImports(t) PROVE doing'[t] = doing[t] \/ doing[t] # "imports"
  BY <1>2 DEF StoreNext, Profile, Compare, Record, ReadSnaps, ReadImports, Backfill, Tick,
        storeVars, StoreInv
<1>3. CASE ReadImports(t)
  <2>1. imports' = imports /\ held' = held /\ series'[t][ts] = Merged(held[t], ts)
    BY <1>3 DEF ReadImports, TableInv
  <2>2. series'[t][ts] # NULL /\ PricedAt(held'[t], ts) = {}
    BY DEF Imported
  <2>3. Usable(ts) /\ series'[t][ts] = FirstAt(ts)
    BY <2>1, <2>2 DEF Merged
  <2>. QED
    BY <2>1, <2>3 DEF Usable, ImportsAt, FirstAt
<1>4. CASE ReadSnaps(t)
  <2>1. doing'[t] = "imports"
    BY <1>4 DEF ReadSnaps, StoreInv
  <2>. QED
    BY <2>1 DEF Imported
<1>5. CASE ~ReadImports(t) /\ ~ReadSnaps(t)
  <2>1. Imported(t, ts) /\ series'[t] = series[t]
    BY <1>1, <1>2, <1>5 DEF Imported
  <2>2. ImportsAt(ts) # {} /\ series[t][ts] = FirstAt(ts)
    BY <2>1 DEF FirstInv
  <2>3. CASE Backfill
    BY <2>1, <2>2, <2>3, FirstStays
  <2>4. CASE ~Backfill
    <3>1. imports' = imports
      BY <2>4 DEF StoreNext, Profile, Compare, Record, ReadSnaps, ReadImports, Tick, storeVars
    <3>. QED
      BY <3>1, <2>1, <2>2 DEF ImportsAt, FirstAt
  <2>. QED
    BY <2>3, <2>4
<1>. QED
  BY <1>3, <1>4, <1>5

\* Answers from the provider's rows stand, for any number of threads and whatever is
\* imported between and after the two reads (historical_series,
\* record_verified_price_observation).
THEOREM AnswersCorrect == StoreSpec => []AnswersStand
<1>1. StoreInit => FirstInv
  BY DEF StoreInit, FirstInv, Imported, Empty
<1>2. FirstInv => AnswersStand
  BY DEF FirstInv, AnswersStand
<1>. QED
  BY <1>1, <1>2, StoreInitInv, StoreStep, TableInit, TableStep, FirstStep, PTL DEF StoreSpec
=============================================================================
