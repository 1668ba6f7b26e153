------------------------ MODULE TaskExecutorProofs ------------------------
(***************************************************************************)
(* Proofs about cpu_task_executor for every finite pool, every set of      *)
(* counts and grains and any number of dispatches.                         *)
(***************************************************************************)
EXTENDS TaskExecutor, FiniteSetTheorems, TLAPS

-----------------------------------------------------------------------------
(* The inductive invariant                                                 *)

ClosedPC == {"notifyStop", "joinWorkers", "destroyed"}
OutsidePC == {"idle", "inline", "leave"} \union ClosedPC
DispatchPC == DrainPC \union {"notify", "join", "blocked"}
ServingPC == DrainPC \union {"start", "finish"}

(* m_stopping is set exactly by the destructor, and only it ends a worker. *)
StopInv == /\ m_stopping <=> pc[Caller] \in ClosedPC
           /\ \A w \in Worker : pc[w] = "exited" => m_stopping

(* A worker in the drain serves the current generation.                    *)
GenerationInv == \A w \in Worker :
  pc[w] \in DrainPC \union {"finish"} => observed[w] = m_generation

(* Between calls nobody is left to join.                                   *)
JoinInv == /\ pc[Caller] \in {"idle", "inline", "leave"} => m_remaining_workers = 0
           /\ pc[Caller] \in {"join", "blocked"} => m_count <= m_next

(* A running thread owns a nonempty part of [0, m_next) nobody visited.    *)
ChunkInv == \A t \in Thread : pc[t] = "run" =>
  /\ chunk[t].first < chunk[t].last
  /\ chunk[t].last <= m_count
  /\ chunk[t].last <= m_next
  /\ \A i \in Index(total) : InChunk(t, i) => hits[i] = 0

(* Chunks being run do not overlap.                                        *)
DisjointInv == \A t, u \in Thread :
  (pc[t] = "run" /\ pc[u] = "run" /\ t # u) =>
    chunk[t].last <= chunk[u].first \/ chunk[u].last <= chunk[t].first

(* While a job is out: an index below m_next was visited once or is being  *)
(* visited, an index above was not visited.                                *)
CoverInv == pc[Caller] \in DispatchPC =>
  /\ total = m_count
  /\ \A i \in Index(total) :
       /\ hits[i] \in {0, 1}
       /\ m_next <= i => hits[i] = 0
       /\ (i < m_next /\ hits[i] = 0) =>
            \E t \in Thread : pc[t] = "run" /\ InChunk(t, i)

InlineInv ==
  /\ pc[Caller] = "inline" => total > 0 /\ \A i \in Index(total) : hits[i] = 0
  /\ pc[Caller] = "leave" => \A i \in Index(total) : hits[i] = 1

SyncInv == /\ TypeOK /\ StopInv /\ GenerationInv /\ JoinInv
           /\ JoinCountExact /\ NoWorkerOutlivesCall
CoverAll == ChunkInv /\ DisjointInv /\ CoverInv /\ InlineInv
IndInv == SyncInv /\ CoverAll

-----------------------------------------------------------------------------
(* The workers still to be joined form a finite set, empty exactly when    *)
(* the join counter, being their number, is zero.                          *)
LEMMA OwingFinite ==
  /\ IsFiniteSet(Owing)
  /\ Cardinality(Owing) \in Nat
  /\ Cardinality(Owing) = 0 <=> Owing = {}
<1>1. Owing \in SUBSET Worker
  BY DEF Owing
<1>2. IsFiniteSet(Owing)
  BY <1>1, FS_Subset, WorkerAssumption
<1>3. QED
  BY <1>2, FS_CardinalityType, FS_EmptySet

(* The constructor starts with nobody to join and nothing to run.          *)
LEMMA SyncInit == Init => SyncInv
<1> SUFFICES ASSUME Init PROVE SyncInv
  OBVIOUS
<1> USE DEF Init, Thread, DrainPC, WorkerPC, CallerPC, ClosedPC
<1>1. TypeOK
  <2>1. chunk \in [Thread -> [first : Nat, last : Nat]]
    BY DEF NoChunk
  <2>2. /\ pc \in [Thread -> WorkerPC \union CallerPC]
        /\ pc[Caller] \in CallerPC
        /\ \A w \in Worker : pc[w] \in WorkerPC
    BY WorkerAssumption
  <2>3. hits \in [Index(total) -> Nat]
    OBVIOUS
  <2>4. /\ m_count \in Nat /\ m_grain \in Nat \ {0} /\ m_next \in Nat
        /\ m_remaining_workers \in Nat /\ m_generation \in Nat
        /\ m_task_count \in Nat /\ m_parallel_dispatch_count \in Nat
        /\ observed \in [Worker -> Nat] /\ total \in Nat /\ expected \in Nat
    OBVIOUS
  <2>5. m_stopping \in BOOLEAN
    OBVIOUS
  <2> HIDE DEF Init, Thread, WorkerPC, CallerPC, DrainPC
  <2> QED
    BY <2>1, <2>2, <2>3, <2>4, <2>5 DEF TypeOK
<1>2. Owing = {}
  BY <1>1, WorkerAssumption DEF Owing
<1>3. StopInv /\ GenerationInv /\ JoinInv /\ NoWorkerOutlivesCall
  BY WorkerAssumption DEF StopInv, GenerationInv, JoinInv, NoWorkerOutlivesCall
<1>4. JoinCountExact
  BY <1>2, FS_EmptySet DEF JoinCountExact
<1> QED
  BY <1>1, <1>3, <1>4 DEF SyncInv

(* A chunk lies within the range of the call it is run for.                *)
LEMMA RunChunkHits ==
  ASSUME SyncInv, CoverAll, NEW t \in Thread, RunChunk(t)
  PROVE  hits' = [i \in Index(total) |-> IF InChunk(t, i) THEN hits[i] + 1 ELSE hits[i]]
<1>1. /\ pc[Caller] \in CallerPC /\ hits \in [Index(total) -> Nat] /\ total \in Nat
      /\ chunk[t].first \in Nat /\ chunk[t].last \in Nat /\ pc[t] = "run"
  BY DEF SyncInv, TypeOK, RunChunk
<1>2. pc[Caller] \in DispatchPC
  BY <1>1 DEF SyncInv, NoWorkerOutlivesCall, CallerPC, DrainPC, DispatchPC, Thread
<1>3. chunk[t].last <= total
  BY <1>1, <1>2 DEF CoverAll, ChunkInv, CoverInv
<1>4. DOMAIN hits = Index(total) /\ Visited(t) \subseteq Index(total)
  BY <1>1, <1>3 DEF Visited, Index
<1>5. \A i \in Index(total) : hits[i] \in Nat
  BY <1>1
<1> QED
  BY <1>4, <1>5 DEF RunChunk

(* A range has a number of chunks.                                         *)
LEMMA ChunksNat ==
  ASSUME NEW n \in Nat, NEW g \in Nat \ {0}
  PROVE  Chunks(n, g) \in Nat
<1>1. n + g - 1 \in Nat
  OBVIOUS
<1> QED
  BY <1>1 DEF Chunks

(* Every step of the caller or of a worker keeps the synchronisation part  *)
(* of the invariant.                                                       *)
LEMMA SyncStep == SyncInv /\ CoverAll /\ [Next]_vars => SyncInv'
<1> SUFFICES ASSUME SyncInv, CoverAll, [Next]_vars PROVE SyncInv'
  OBVIOUS
<1> USE WorkerAssumption, JobAssumption, OwingFinite
    DEF SyncInv, Thread, DrainPC, WorkerPC, CallerPC, ClosedPC,
        StopInv, GenerationInv, JoinInv, NoWorkerOutlivesCall, Goto
<1>1. ASSUME NEW count \in Counts, NEW grain \in Grains, ExecuteInline(count, grain)
      PROVE  SyncInv'
  <2> USE <1>1 DEF ExecuteInline, BeginCall, jobVars, statVars
  <2>1. TypeOK'
    BY DEF TypeOK, Index
  <2>2. Owing' = Owing
    BY DEF TypeOK, Owing
  <2> QED
    BY <2>1, <2>2 DEF TypeOK, JoinCountExact
<1>2. ASSUME NEW count \in Counts, NEW grain \in Grains, Dispatch(count, grain)
      PROVE  SyncInv'
  <2> USE <1>2 DEF Dispatch, BeginCall, EffectiveGrain
  <2>1. Owing = {}
    BY DEF JoinCountExact
  <2>2. \A w \in Worker : pc[w] \in {"ready", "asleep"} /\ observed[w] = m_generation
    BY <2>1 DEF Owing, TypeOK
  <2>3. TypeOK'
    <3>1. Cardinality(Worker) \in Nat
      BY FS_CardinalityType
    <3>2. Chunks(count, EffectiveGrain(grain)) \in Nat
      <4>0. count \in Nat /\ grain \in Nat
        BY JobAssumption, Zenon
      <4>1. count \in Nat /\ EffectiveGrain(grain) \in Nat \ {0}
        BY ONLY <4>0 DEF EffectiveGrain
      <4> HIDE DEF EffectiveGrain
      <4> QED BY ONLY <4>1, ChunksNat
    <3>3. expected' \in Nat /\ m_remaining_workers' \in Nat
      BY <3>1, <3>2 DEF TypeOK, WorkersToJoin
    <3>4. /\ pc' \in [Thread -> WorkerPC \union CallerPC] /\ pc'[Caller] \in CallerPC
          /\ \A w \in Worker : pc'[w] \in WorkerPC
      BY DEF TypeOK
    <3> QED
      BY <3>3, <3>4 DEF TypeOK, Index
  <2>4. Owing' = Worker
    BY <2>2 DEF Owing, TypeOK
  <2> QED
    BY <2>2, <2>3, <2>4 DEF TypeOK, JoinCountExact, WorkersToJoin
<1>3. CASE RunInline
  <2> USE <1>3 DEF RunInline, jobVars, statVars
  <2>1. TypeOK'
    BY DEF TypeOK
  <2>2. Owing' = Owing
    BY DEF TypeOK, Owing
  <2> QED
    BY <2>1, <2>2 DEF TypeOK, JoinCountExact
<1>4. CASE LeaveInline
  <2> USE <1>4 DEF LeaveInline, jobVars, statVars
  <2>1. TypeOK'
    BY DEF TypeOK
  <2>2. Owing' = Owing
    BY DEF TypeOK, Owing
  <2> QED
    BY <2>1, <2>2 DEF TypeOK, JoinCountExact
<1>5. CASE NotifyJob
  <2> USE <1>5 DEF NotifyJob, WakeWorkers, jobVars, statVars
  <2>1. TypeOK'
    BY DEF TypeOK
  <2>2. Owing' = Owing
    BY DEF TypeOK, Owing
  <2> QED
    BY <2>1, <2>2 DEF TypeOK, JoinCountExact
<1>6. CASE Join
  <2> USE <1>6 DEF Join, jobVars, statVars
  <2>1. TypeOK'
    BY DEF TypeOK
  <2>2. Owing' = Owing
    BY DEF TypeOK, Owing
  <2>3. m_remaining_workers = 0 => \A w \in Worker : pc[w] \notin ServingPC
    BY DEF JoinCountExact, Owing, ServingPC
  <2> QED
    BY <2>1, <2>2, <2>3 DEF TypeOK, JoinCountExact, ServingPC
<1>7. ASSUME NEW t \in Thread, LoadNext(t)
      PROVE  SyncInv'
  <2> USE <1>7 DEF LoadNext, AfterDrain, jobVars, statVars
  <2>1. TypeOK'
    BY DEF TypeOK
  <2>2. Owing' = Owing
    BY DEF TypeOK, Owing
  <2> QED
    BY <2>1, <2>2 DEF TypeOK, JoinCountExact
<1>8. ASSUME NEW t \in Thread, FetchAdd(t)
      PROVE  SyncInv'
  <2> USE <1>8 DEF FetchAdd, jobVars, statVars
  <2>1. TypeOK'
    BY DEF TypeOK, ChunkEnd
  <2>2. Owing' = Owing
    BY DEF TypeOK, Owing
  <2> QED
    BY <2>1, <2>2 DEF TypeOK, JoinCountExact
<1>9. ASSUME NEW t \in Thread, RunChunk(t)
      PROVE  SyncInv'
  <2>0. hits' = [i \in Index(total) |-> IF InChunk(t, i) THEN hits[i] + 1 ELSE hits[i]]
    BY <1>9, RunChunkHits
  <2> USE <1>9 DEF RunChunk, NoChunk, jobVars, statVars
  <2>1. TypeOK'
    BY <2>0 DEF TypeOK
  <2>2. Owing' = Owing
    BY DEF TypeOK, Owing
  <2> QED
    BY <2>1, <2>2 DEF TypeOK, JoinCountExact
<1>10. ASSUME NEW w \in Worker, WorkerWait(w)
       PROVE  SyncInv'
  <2> USE <1>10 DEF WorkerWait, JobAvailable, jobVars, statVars
  <2>1. TypeOK'
    BY DEF TypeOK
  <2>2. ~m_stopping => Owing' = Owing
    BY DEF TypeOK, Owing
  <2>3. m_stopping => pc'[w] = "exited"
    BY DEF TypeOK
  <2>4. ~m_stopping /\ observed[w] # m_generation => m_remaining_workers # 0
    BY DEF TypeOK, Owing, JoinCountExact
  <2> QED
    BY <2>1, <2>2, <2>3, <2>4 DEF TypeOK, JoinCountExact
<1>11. ASSUME NEW w \in Worker, WorkerStart(w)
       PROVE  SyncInv'
  <2> USE <1>11 DEF WorkerStart, jobVars, statVars
  <2>1. TypeOK'
    BY DEF TypeOK
  <2>2. Owing' = Owing
    BY DEF TypeOK, Owing
  <2> QED
    BY <2>1, <2>2 DEF TypeOK, JoinCountExact
<1>12. ASSUME NEW w \in Worker, WorkerFinish(w)
       PROVE  SyncInv'
  <2> USE <1>12 DEF WorkerFinish, jobVars, statVars
  <2>1. /\ ~m_stopping
        /\ w \in Owing
        /\ m_remaining_workers \in Nat \ {0}
    BY DEF TypeOK, Owing, JoinCountExact
  <2>2. TypeOK'
    BY <2>1 DEF TypeOK
  <2>3. Owing' = Owing \ {w}
    BY DEF TypeOK, Owing
  <2>4. Cardinality(Owing') = Cardinality(Owing) - 1
    BY <2>1, <2>3, FS_RemoveElement
  <2> QED
    BY <2>1, <2>2, <2>4 DEF TypeOK, JoinCountExact
<1>13. ASSUME NEW w \in Worker, SpuriousWakeup(w)
       PROVE  SyncInv'
  <2> USE <1>13 DEF SpuriousWakeup, jobVars, statVars
  <2>1. TypeOK'
    BY DEF TypeOK
  <2>2. Owing' = Owing
    BY DEF TypeOK, Owing
  <2> QED
    BY <2>1, <2>2 DEF TypeOK, JoinCountExact
<1>14. CASE SpuriousCallerWakeup
  <2> USE <1>14 DEF SpuriousCallerWakeup, jobVars, statVars
  <2>1. TypeOK'
    BY DEF TypeOK
  <2>2. Owing' = Owing
    BY DEF TypeOK, Owing
  <2> QED
    BY <2>1, <2>2 DEF TypeOK, JoinCountExact
<1>15. CASE ResetStatistics
  <2> USE <1>15 DEF ResetStatistics, jobVars
  <2>1. TypeOK'
    BY DEF TypeOK
  <2>2. Owing' = Owing
    BY DEF Owing
  <2> QED
    BY <2>1, <2>2 DEF JoinCountExact
<1>16. CASE BeginDestroy
  <2> USE <1>16 DEF BeginDestroy, statVars
  <2>1. TypeOK'
    BY DEF TypeOK
  <2> QED
    BY <2>1 DEF TypeOK, JoinCountExact
<1>17. CASE NotifyStop
  <2> USE <1>17 DEF NotifyStop, WakeWorkers, jobVars, statVars
  <2>1. TypeOK'
    BY DEF TypeOK
  <2> QED
    BY <2>1 DEF TypeOK, JoinCountExact
<1>18. CASE JoinWorkers
  <2> USE <1>18 DEF JoinWorkers, jobVars, statVars
  <2>1. TypeOK'
    BY DEF TypeOK
  <2> QED
    BY <2>1 DEF TypeOK, JoinCountExact
<1>19. CASE UNCHANGED vars
  BY <1>19 DEF vars, TypeOK, JoinCountExact, Owing, Index
<1> QED
  BY <1>1, <1>2, <1>3, <1>4, <1>5, <1>6, <1>7, <1>8, <1>9, <1>10, <1>11, <1>12,
     <1>13, <1>14, <1>15, <1>16, <1>17, <1>18, <1>19
     DEF Next, Execute, CallerStep, WorkerStep, DrainStep, Destroyed

-----------------------------------------------------------------------------
(* Which chunks are run, and what they cover                               *)

(* A step that moves no thread into or out of its chunk and leaves the job *)
(* alone keeps the coverage part of the invariant.                         *)
LEMMA CoverFrame ==
  ASSUME CoverAll,
         UNCHANGED <<chunk, hits, total, m_count, m_next>>,
         \A t \in Thread : pc'[t] = "run" <=> pc[t] = "run",
         pc'[Caller] \in DispatchPC => pc[Caller] \in DispatchPC,
         pc'[Caller] \notin {"inline", "leave"}
  PROVE  CoverAll'
<1>1. ChunkInv' /\ DisjointInv'
  BY DEF CoverAll, ChunkInv, DisjointInv, InChunk, Index
<1>2. CoverInv'
  BY DEF CoverAll, CoverInv, InChunk, Index
<1>3. InlineInv'
  BY DEF InlineInv
<1> QED
  BY <1>1, <1>2, <1>3 DEF CoverAll

(* Every step keeps the coverage part of the invariant.                    *)
LEMMA CoverStep == SyncInv /\ CoverAll /\ [Next]_vars => CoverAll'
<1> SUFFICES ASSUME SyncInv, CoverAll, [Next]_vars PROVE CoverAll'
  OBVIOUS
<1> USE WorkerAssumption, JobAssumption DEF Thread, DrainPC, DispatchPC, Goto
<1>a. TypeOK /\ NoWorkerOutlivesCall /\ SyncInv'
  BY SyncStep DEF SyncInv
<1>1. ASSUME NEW count \in Counts, NEW grain \in Grains, ExecuteInline(count, grain)
      PROVE  CoverAll'
  <2> USE <1>1 DEF ExecuteInline, BeginCall
  <2>1. \A t \in Thread : pc'[t] # "run"
    BY <1>a DEF NoWorkerOutlivesCall, TypeOK
  <2>2. pc'[Caller] = "inline"
    BY <1>a DEF TypeOK
  <2>3. ChunkInv' /\ DisjointInv'
    BY <2>1 DEF ChunkInv, DisjointInv
  <2>4. CoverInv'
    BY <2>2 DEF CoverInv
  <2>5. total' > 0 /\ \A i \in Index(total') : hits'[i] = 0
    BY DEF Index
  <2>6. InlineInv'
    BY <2>2, <2>5 DEF InlineInv
  <2> QED
    BY <2>3, <2>4, <2>6 DEF CoverAll
<1>2. ASSUME NEW count \in Counts, NEW grain \in Grains, Dispatch(count, grain)
      PROVE  CoverAll'
  <2> USE <1>2 DEF Dispatch, BeginCall
  <2>1. \A t \in Thread : pc'[t] # "run"
    BY <1>a DEF NoWorkerOutlivesCall, TypeOK
  <2>2. pc'[Caller] = "notify"
    BY <1>a DEF TypeOK
  <2> QED
    BY <2>1, <2>2 DEF CoverAll, ChunkInv, DisjointInv, CoverInv, InlineInv, Index
<1>3. CASE RunInline
  <2> USE <1>3 DEF RunInline, jobVars
  <2>1. \A t \in Thread : pc'[t] # "run"
    BY <1>a DEF NoWorkerOutlivesCall, TypeOK
  <2>2. pc'[Caller] = "leave"
    BY <1>a DEF TypeOK
  <2> QED
    BY <2>1, <2>2 DEF CoverAll, ChunkInv, DisjointInv, CoverInv, InlineInv, Index
<1>4. CASE LeaveInline
  <2> USE <1>4 DEF LeaveInline, jobVars
  <2>1. \A t \in Thread : pc'[t] # "run"
    BY <1>a DEF NoWorkerOutlivesCall, TypeOK
  <2>2. pc'[Caller] = "idle"
    BY <1>a DEF TypeOK
  <2> QED
    BY <2>1, <2>2 DEF CoverAll, ChunkInv, DisjointInv, CoverInv, InlineInv
<1>5. CASE NotifyJob \/ NotifyStop
  BY <1>5, <1>a, CoverFrame DEF NotifyJob, NotifyStop, WakeWorkers, jobVars, TypeOK
<1>6. CASE Join \/ SpuriousCallerWakeup \/ BeginDestroy \/ JoinWorkers
  BY <1>6, <1>a, CoverFrame
     DEF Join, SpuriousCallerWakeup, BeginDestroy, JoinWorkers, jobVars, TypeOK
<1>7. ASSUME NEW t \in Thread, LoadNext(t)
      PROVE  CoverAll'
  BY <1>7, <1>a, CoverFrame
     DEF LoadNext, AfterDrain, jobVars, TypeOK, NoWorkerOutlivesCall
<1>8. ASSUME NEW t \in Thread, FetchAdd(t)
      PROVE  CoverAll'
  <2> USE <1>8 DEF FetchAdd, jobVars
  <2>1. /\ pc[Caller] \in DispatchPC /\ pc'[Caller] \in DispatchPC
        /\ total = m_count /\ total' = m_count'
        /\ m_next \in Nat /\ m_grain \in Nat \ {0} /\ m_count \in Nat
        /\ chunk \in [Thread -> [first : Nat, last : Nat]]
        /\ hits \in [Index(total) -> Nat] /\ hits' = hits
    BY <1>a DEF NoWorkerOutlivesCall, TypeOK, CoverAll, CoverInv, CallerPC
  <2>2. CASE m_next < m_count
    <3>1. /\ chunk'[t].first = m_next
          /\ chunk'[t].last = ChunkEnd(m_next)
          /\ \A u \in Thread \ {t} : chunk'[u] = chunk[u]
          /\ \A u \in Thread : pc'[u] = "run" <=> (u = t \/ pc[u] = "run")
      BY <2>1, <2>2, <1>a DEF TypeOK
    <3>2. /\ m_next < ChunkEnd(m_next)
          /\ ChunkEnd(m_next) <= m_count
          /\ ChunkEnd(m_next) <= m_next'
          /\ \A i \in Index(total) : m_next <= i /\ i < m_next' => i < ChunkEnd(m_next)
      BY <2>1, <2>2 DEF ChunkEnd, Index
    <3>3. \A u \in Thread \ {t} : pc'[u] = "run" => pc[u] = "run" /\ chunk[u].last <= m_next
      BY <3>1 DEF CoverAll, ChunkInv
    <3>4. ChunkInv'
      <4>1. ASSUME NEW u \in Thread, pc'[u] = "run"
            PROVE  /\ chunk'[u].first < chunk'[u].last
                   /\ chunk'[u].last <= m_count'
                   /\ chunk'[u].last <= m_next'
                   /\ \A i \in Index(total') : InChunk(u, i)' => hits'[i] = 0
        <5>1. CASE u = t
          BY <5>1, <2>1, <3>1, <3>2 DEF InChunk, CoverAll, CoverInv, Index
        <5>2. CASE u # t
          BY <5>2, <4>1, <2>1, <3>1, <3>3 DEF InChunk, CoverAll, ChunkInv
        <5> QED
          BY <5>1, <5>2
      <4> QED
        BY <4>1 DEF ChunkInv
    <3>5. DisjointInv'
      BY <2>1, <3>1, <3>2, <3>3 DEF DisjointInv, CoverAll
    <3>6. CoverInv'
      <4>1. ASSUME NEW i \in Index(total)
            PROVE  /\ hits[i] \in {0, 1}
                   /\ m_next' <= i => hits[i] = 0
                   /\ (i < m_next' /\ hits[i] = 0) =>
                        \E u \in Thread : pc'[u] = "run" /\ InChunk(u, i)'
        <5>1. CASE i < m_next
          <6>1. hits[i] = 0 => \E u \in Thread : pc[u] = "run" /\ InChunk(u, i)
            BY <5>1, <2>1 DEF CoverAll, CoverInv
          <6>2. \A u \in Thread : pc[u] = "run" => u # t /\ chunk'[u] = chunk[u]
            BY <3>1
          <6>3. \A u \in Thread : pc[u] = "run" /\ InChunk(u, i) => pc'[u] = "run" /\ InChunk(u, i)'
            BY <6>2, <3>1 DEF InChunk
          <6> QED
            BY <5>1, <6>1, <6>3, <2>1 DEF CoverAll, CoverInv, Index
        <5>2. CASE m_next <= i
          <6>1. i < m_next' => InChunk(t, i)' /\ pc'[t] = "run"
            BY <5>2, <3>1, <3>2 DEF InChunk
          <6> QED
            BY <5>2, <6>1, <2>1 DEF CoverAll, CoverInv
        <5> QED
          BY <5>1, <5>2, <2>1 DEF Index
      <4> QED
        BY <4>1, <2>1 DEF CoverInv
    <3>7. InlineInv'
      BY <2>1 DEF InlineInv
    <3> QED
      BY <3>4, <3>5, <3>6, <3>7 DEF CoverAll
  <2>3. CASE ~(m_next < m_count)
    <3>1. \A u \in Thread : pc'[u] = "run" <=> pc[u] = "run"
      BY <2>3, <1>a DEF TypeOK
    <3>2. chunk' = chunk /\ m_count' = m_count /\ total' = total
      BY <2>3
    <3>3. ChunkInv' /\ DisjointInv'
      BY <2>1, <2>3, <3>1, <3>2 DEF CoverAll, ChunkInv, DisjointInv, InChunk
    <3>4. CoverInv'
      <4>1. ASSUME NEW i \in Index(total)
            PROVE  /\ hits[i] \in {0, 1}
                   /\ i < m_next /\ i < m_next'
                   /\ hits[i] = 0 => \E u \in Thread : pc'[u] = "run" /\ InChunk(u, i)'
        BY <2>1, <2>3, <3>1, <3>2 DEF CoverAll, CoverInv, InChunk, Index
      <4> QED
        BY <4>1, <2>1, <2>3 DEF CoverInv, Index
    <3>5. InlineInv'
      BY <2>1 DEF InlineInv
    <3> QED
      BY <3>3, <3>4, <3>5 DEF CoverAll
  <2> QED
    BY <2>2, <2>3
<1>9. ASSUME NEW t \in Thread, RunChunk(t)
      PROVE  CoverAll'
  <2>0. hits' = [i \in Index(total) |-> IF InChunk(t, i) THEN hits[i] + 1 ELSE hits[i]]
    BY <1>9, RunChunkHits
  <2>1. /\ pc[Caller] \in DispatchPC /\ pc'[Caller] \in DispatchPC
        /\ total = m_count /\ total' = total /\ m_next' = m_next /\ m_count' = m_count
        /\ m_next \in Nat /\ m_count \in Nat
        /\ chunk \in [Thread -> [first : Nat, last : Nat]]
        /\ hits \in [Index(total) -> Nat]
    BY <1>9, <1>a DEF RunChunk, jobVars, NoWorkerOutlivesCall, TypeOK, CoverAll, CoverInv,
       CallerPC
  <2>2. /\ \A u \in Thread : pc'[u] = "run" <=> (u # t /\ pc[u] = "run")
        /\ \A u \in Thread \ {t} : chunk'[u] = chunk[u]
        /\ pc[t] = "run"
    BY <1>9, <1>a DEF RunChunk, TypeOK
  <2>3. \A i \in Index(total) : hits'[i] = IF InChunk(t, i) THEN 1 ELSE hits[i]
    BY <2>0, <2>1, <2>2 DEF CoverAll, ChunkInv
  <2>4. ChunkInv'
    <3>1. ASSUME NEW u \in Thread, pc'[u] = "run"
          PROVE  /\ chunk'[u].first < chunk'[u].last
                 /\ chunk'[u].last <= m_count'
                 /\ chunk'[u].last <= m_next'
                 /\ \A i \in Index(total') : InChunk(u, i)' => hits'[i] = 0
      <4>1. u # t /\ pc[u] = "run" /\ chunk'[u] = chunk[u]
        BY <3>1, <2>2
      <4>2. \A i \in Index(total) : InChunk(u, i) => ~InChunk(t, i)
        BY <4>1, <2>1, <2>2 DEF CoverAll, DisjointInv, InChunk, Index
      <4> QED
        BY <4>1, <4>2, <2>1, <2>3 DEF CoverAll, ChunkInv, InChunk
    <3> QED
      BY <3>1 DEF ChunkInv
  <2>5. DisjointInv'
    BY <2>2 DEF CoverAll, DisjointInv
  <2>6. CoverInv'
    <3>1. ASSUME NEW i \in Index(total)
          PROVE  /\ hits'[i] \in {0, 1}
                 /\ m_next <= i => hits'[i] = 0
                 /\ (i < m_next /\ hits'[i] = 0) =>
                      \E u \in Thread : pc'[u] = "run" /\ InChunk(u, i)'
      <4>1. CASE InChunk(t, i)
        BY <4>1, <2>1, <2>2, <2>3 DEF InChunk, CoverAll, ChunkInv, Index
      <4>2. CASE ~InChunk(t, i)
        <5>1. hits'[i] = hits[i]
          BY <4>2, <2>3
        <5>2. \A u \in Thread : pc[u] = "run" /\ InChunk(u, i) => pc'[u] = "run" /\ InChunk(u, i)'
          BY <4>2, <2>2 DEF InChunk
        <5> QED
          BY <5>1, <5>2, <2>1 DEF CoverAll, CoverInv
      <4> QED
        BY <4>1, <4>2
    <3> QED
      BY <3>1, <2>1 DEF CoverInv
  <2>7. InlineInv'
    BY <2>1 DEF InlineInv
  <2> QED
    BY <2>4, <2>5, <2>6, <2>7 DEF CoverAll
<1>10. ASSUME NEW w \in Worker,
              WorkerWait(w) \/ WorkerStart(w) \/ WorkerFinish(w) \/ SpuriousWakeup(w)
       PROVE  CoverAll'
  <2>1. UNCHANGED <<chunk, hits, total, m_count, m_next>>
    BY <1>10 DEF WorkerWait, WorkerStart, WorkerFinish, SpuriousWakeup, jobVars
  <2>2. \A t \in Thread : pc'[t] = "run" <=> pc[t] = "run"
    BY <1>10, <1>a DEF WorkerWait, WorkerStart, WorkerFinish, SpuriousWakeup, TypeOK
  <2>3. pc'[Caller] = pc[Caller] \/ (pc[Caller] = "blocked" /\ pc'[Caller] = "join")
    BY <1>10, <1>a DEF WorkerWait, WorkerStart, WorkerFinish, SpuriousWakeup, TypeOK
  <2>4. CASE pc'[Caller] \notin {"inline", "leave"}
    BY <2>1, <2>2, <2>3, <2>4, CoverFrame
  <2>5. CASE pc'[Caller] \in {"inline", "leave"}
    BY <2>1, <2>2, <2>3, <2>5
       DEF CoverAll, ChunkInv, DisjointInv, CoverInv, InlineInv, InChunk, Index
  <2> QED
    BY <2>4, <2>5
<1>11. CASE ResetStatistics
  BY <1>11, CoverFrame DEF ResetStatistics, jobVars
<1>12. CASE UNCHANGED vars
  BY <1>12 DEF vars, CoverAll, ChunkInv, DisjointInv, CoverInv, InlineInv, InChunk, Index
<1> QED
  BY <1>1, <1>2, <1>3, <1>4, <1>5, <1>6, <1>7, <1>8, <1>9, <1>10, <1>11, <1>12
     DEF Next, Execute, CallerStep, WorkerStep, DrainStep, Destroyed

-----------------------------------------------------------------------------
(* The invariant holds in every reachable state of the executor.           *)
THEOREM ExecutorInvariant == Spec => []IndInv
<1>1. Init => IndInv
  <2> SUFFICES ASSUME Init PROVE IndInv
    OBVIOUS
  <2>1. SyncInv
    BY SyncInit
  <2>2. \A t \in Thread : pc[t] # "run"
    BY DEF Init
  <2>3. pc[Caller] = "idle"
    BY WorkerAssumption DEF Init, Thread
  <2>4. CoverAll
    BY <2>2, <2>3
       DEF CoverAll, ChunkInv, DisjointInv, CoverInv, InlineInv, DispatchPC, DrainPC
  <2> QED
    BY <2>1, <2>4 DEF IndInv
<1>2. IndInv /\ [Next]_vars => IndInv'
  BY SyncStep, CoverStep DEF IndInv
<1> QED
  BY <1>1, <1>2, PTL DEF Spec

(* Types of every field and thread-local of the executor.                  *)
THEOREM ExecutorTypes == Spec => []TypeOK
<1>1. IndInv => TypeOK
  BY DEF IndInv, SyncInv
<1> QED
  BY <1>1, ExecutorInvariant, PTL

(* m_remaining_workers always equals the number of workers that owe this   *)
(* generation a decrement.                                                 *)
THEOREM JoinCounterCorrect == Spec => []JoinCountExact
<1>1. IndInv => JoinCountExact
  BY DEF IndInv, SyncInv
<1> QED
  BY <1>1, ExecutorInvariant, PTL

(* No worker is in a job while the caller is outside execute, so the next  *)
(* job's fields are written, and the context is freed, without a race.     *)
THEOREM JobFieldsRaceFree == Spec => []NoWorkerOutlivesCall
<1>1. IndInv => NoWorkerOutlivesCall
  BY DEF IndInv, SyncInv
<1> QED
  BY <1>1, ExecutorInvariant, PTL

-----------------------------------------------------------------------------
(* What the statistics count                                               *)

(* The threads that run a chunk, and the chunks nobody has claimed yet.    *)
Running == {t \in Thread : pc[t] = "run"}
Left == IF m_next < m_count THEN Chunks(m_count - m_next, m_grain) ELSE 0

QuietPC == {"idle", "inline", "leave"}

(* While a job is out, every chunk of it is counted, being run or          *)
(* unclaimed; between calls all of them are counted.                       *)
CountInv ==
  /\ pc[Caller] \in DispatchPC =>
       m_task_count + Cardinality(Running) + Left = expected
  /\ pc[Caller] \in QuietPC => m_task_count = expected

(* A range no longer than the grain is one chunk.                          *)
LEMMA ChunksOne ==
  ASSUME NEW n \in Nat \ {0}, NEW g \in Nat \ {0}, n <= g
  PROVE  Chunks(n, g) = 1
<1> DEFINE q == (n + g - 1) \div g
<1>1. /\ q \in Int
      /\ n + g - 1 = g * q + ((n + g - 1) % g)
      /\ (n + g - 1) % g \in 0..(g - 1)
  OBVIOUS
<1>2. 0 < g * q + 1 /\ g * q < 2 * g
  BY <1>1
<1>3. q < 2
  BY <1>1, <1>2
<1>4. q > 0
  BY <1>1, <1>2
<1> QED
  BY <1>1, <1>3, <1>4 DEF Chunks

(* A longer range has one chunk more than what is left after the first.    *)
LEMMA ChunksMore ==
  ASSUME NEW n \in Nat \ {0}, NEW g \in Nat \ {0}, n > g
  PROVE  Chunks(n, g) = 1 + Chunks(n - g, g)
<1> DEFINE m == n - g + g - 1
<1>1. m \in Nat /\ n + g - 1 = m + g
  OBVIOUS
<1>2. ASSUME NEW k \in Nat PROVE (k + g) \div g = 1 + k \div g
  OBVIOUS
<1> HIDE DEF m
<1>3. (m + g) \div g = 1 + m \div g
  BY <1>1, <1>2
<1> QED
  BY <1>1, <1>3 DEF Chunks, m

(* The caller and a finite pool are finitely many threads.                 *)
LEMMA RunningFinite ==
  /\ IsFiniteSet(Running)
  /\ Cardinality(Running) \in Nat
  /\ Running = {} => Cardinality(Running) = 0
<1>1. IsFiniteSet(Thread)
  BY WorkerAssumption, FS_AddElement DEF Thread
<1>2. Running \in SUBSET Thread
  BY DEF Running
<1>3. IsFiniteSet(Running)
  BY <1>1, <1>2, FS_Subset
<1> QED
  BY <1>3, FS_CardinalityType, FS_EmptySet

(* A step that claims, runs and counts no chunk keeps the count.           *)
LEMMA CountFrame ==
  ASSUME CountInv,
         UNCHANGED <<m_task_count, expected, m_next, m_count, m_grain>>,
         \A t \in Thread : pc'[t] = "run" <=> pc[t] = "run",
         pc'[Caller] \in DispatchPC => pc[Caller] \in DispatchPC,
         pc'[Caller] \in QuietPC => pc[Caller] \in QuietPC
  PROVE  CountInv'
<1>1. Running' = Running
  BY DEF Running, Thread
<1>2. Left' = Left
  BY DEF Left, Chunks
<1> QED
  BY <1>1, <1>2 DEF CountInv

(* Every step keeps the count of chunks.                                   *)
LEMMA CountStep == IndInv /\ CountInv /\ [Next]_vars => CountInv'
<1> SUFFICES ASSUME IndInv, CountInv, [Next]_vars PROVE CountInv'
  OBVIOUS
<1> USE WorkerAssumption, JobAssumption DEF Thread, DrainPC, DispatchPC, QuietPC, Goto
<1>a. /\ TypeOK /\ NoWorkerOutlivesCall /\ JoinCountExact /\ StopInv /\ JoinInv
  BY DEF IndInv, SyncInv
<1>1. ASSUME NEW count \in Counts, NEW grain \in Grains, ExecuteInline(count, grain)
      PROVE  CountInv'
  BY <1>1, <1>a, CountFrame
     DEF ExecuteInline, BeginCall, jobVars, statVars, TypeOK
<1>2. ASSUME NEW count \in Counts, NEW grain \in Grains, Dispatch(count, grain)
      PROVE  CountInv'
  <2> DEFINE g == EffectiveGrain(grain)
  <2>1. pc[Caller] = "idle" /\ pc'[Caller] = "notify"
    BY <1>2, <1>a DEF Dispatch, BeginCall, TypeOK
  <2>2. Running' = {}
    BY <1>2, <1>a DEF Running, Dispatch, BeginCall, NoWorkerOutlivesCall, TypeOK
  <2>3. Cardinality(Running') = 0
    BY <2>2, FS_EmptySet
  <2>4. /\ m_count' = count /\ m_grain' = g /\ m_next' = 0 /\ count # 0 /\ count \in Nat
        /\ m_task_count' = m_task_count /\ expected' = expected + Chunks(count, g)
        /\ g \in Nat \ {0}
    BY <1>2 DEF Dispatch, BeginCall, EffectiveGrain
  <2>5. Chunks(count, g) \in Nat
    BY <2>4, ChunksNat
  <2>6. Left' = Chunks(count, g)
    BY <2>4 DEF Left
  <2>7. m_task_count = expected /\ m_task_count \in Nat
    BY <2>1, <1>a DEF CountInv, TypeOK
  <2> QED
    BY <2>1, <2>3, <2>4, <2>5, <2>6, <2>7 DEF CountInv
<1>3. CASE RunInline \/ LeaveInline
  BY <1>3, <1>a, CountFrame DEF RunInline, LeaveInline, jobVars, statVars, TypeOK
<1>4. CASE NotifyJob \/ NotifyStop
  BY <1>4, <1>a, CountFrame
     DEF NotifyJob, NotifyStop, WakeWorkers, jobVars, statVars, TypeOK
<1>5. CASE Join
  <2>1. CASE m_remaining_workers = 0
    <3>1. Owing = {} /\ ~m_stopping
      BY <2>1, <1>5, <1>a, OwingFinite DEF Join, JoinCountExact, StopInv, ClosedPC
    <3>2. Running = {}
      BY <3>1, <1>5 DEF Owing, Join, Running
    <3>3. Left = 0
      BY <1>5, <1>a DEF Join, JoinInv, Left, TypeOK
    <3>4. m_task_count = expected
      BY <3>2, <3>3, <1>5, <1>a, RunningFinite DEF Join, CountInv, TypeOK
    <3>5. pc'[Caller] = "idle" /\ m_task_count' = m_task_count /\ expected' = expected
      BY <2>1, <1>5, <1>a DEF Join, statVars, TypeOK
    <3> QED
      BY <3>4, <3>5 DEF CountInv
  <2>2. CASE m_remaining_workers # 0
    BY <2>2, <1>5, <1>a, CountFrame DEF Join, jobVars, statVars, TypeOK
  <2> QED
    BY <2>1, <2>2
<1>6. ASSUME NEW t \in Thread, LoadNext(t)
      PROVE  CountInv'
  BY <1>6, <1>a, CountFrame
     DEF LoadNext, AfterDrain, jobVars, statVars, TypeOK, NoWorkerOutlivesCall
<1>7. ASSUME NEW t \in Thread, FetchAdd(t)
      PROVE  CountInv'
  <2>1. /\ pc[Caller] \in DispatchPC /\ pc'[Caller] \in DispatchPC
        /\ m_next \in Nat /\ m_grain \in Nat \ {0} /\ m_count \in Nat
        /\ m_next' = m_next + m_grain /\ m_count' = m_count /\ m_grain' = m_grain
        /\ m_task_count' = m_task_count /\ expected' = expected
        /\ m_task_count \in Nat /\ expected \in Nat
    BY <1>7, <1>a DEF FetchAdd, jobVars, statVars, NoWorkerOutlivesCall, TypeOK, CallerPC
  <2>2. CASE m_next < m_count
    <3>1. Running' = Running \union {t} /\ t \notin Running
      BY <2>2, <1>7, <1>a DEF Running, FetchAdd, TypeOK
    <3>2. Cardinality(Running') = Cardinality(Running) + 1
      BY <3>1, RunningFinite, FS_AddElement
    <3>3. Left = 1 + Left' /\ Left' \in Nat
      <4>1. CASE m_count - m_next <= m_grain
        BY <4>1, <2>1, <2>2, ChunksOne DEF Left
      <4>2. CASE m_count - m_next > m_grain
        <5> DEFINE n == m_count - m_next
        <5>1. n \in Nat \ {0} /\ n > m_grain
          BY <4>2, <2>1, <2>2
        <5>2. Chunks(n, m_grain) = 1 + Chunks(n - m_grain, m_grain)
          BY <5>1, <2>1, ChunksMore
        <5>3. n - m_grain = m_count' - m_next' /\ m_next' < m_count'
          BY <5>1, <2>1
        <5>4. Chunks(n - m_grain, m_grain) \in Nat
          BY <5>1, <2>1, ChunksNat
        <5>5. Left = Chunks(n, m_grain)
          BY <2>2 DEF Left
        <5>6. Left' = Chunks(n - m_grain, m_grain)
          BY <5>3, <2>1 DEF Left
        <5> QED
          BY <5>2, <5>4, <5>5, <5>6
      <4> QED
        BY <4>1, <4>2, <2>1
    <3> QED
      BY <2>1, <3>2, <3>3, RunningFinite DEF CountInv
  <2>3. CASE ~(m_next < m_count)
    <3>1. Running' = Running
      BY <2>3, <1>7, <1>a DEF Running, FetchAdd, TypeOK
    <3>2. Left = 0 /\ Left' = 0
      BY <2>1, <2>3 DEF Left
    <3> QED
      BY <2>1, <3>1, <3>2 DEF CountInv
  <2> QED
    BY <2>2, <2>3
<1>8. ASSUME NEW t \in Thread, RunChunk(t)
      PROVE  CountInv'
  <2>1. /\ pc[Caller] \in DispatchPC /\ pc'[Caller] \in DispatchPC
        /\ m_next' = m_next /\ m_count' = m_count /\ m_grain' = m_grain
        /\ m_task_count' = m_task_count + 1 /\ expected' = expected
        /\ m_task_count \in Nat /\ expected \in Nat
        /\ m_next \in Nat /\ m_grain \in Nat \ {0} /\ m_count \in Nat
    BY <1>8, <1>a DEF RunChunk, jobVars, NoWorkerOutlivesCall, TypeOK, CallerPC
  <2>2. Running' = Running \ {t} /\ t \in Running
    BY <1>8, <1>a DEF Running, RunChunk, TypeOK
  <2>3. Cardinality(Running') = Cardinality(Running) - 1
    BY <2>2, RunningFinite, FS_RemoveElement
  <2>4. Left' = Left /\ Left \in Nat
    <3>1. Left' = Left
      BY <2>1 DEF Left
    <3>2. m_next < m_count => Chunks(m_count - m_next, m_grain) \in Nat
      BY <2>1, ChunksNat
    <3> QED
      BY <3>1, <3>2 DEF Left
  <2> QED
    BY <2>1, <2>3, <2>4, RunningFinite DEF CountInv
<1>9. ASSUME NEW w \in Worker,
             WorkerWait(w) \/ WorkerStart(w) \/ WorkerFinish(w) \/ SpuriousWakeup(w)
      PROVE  CountInv'
  <2>1. UNCHANGED <<m_task_count, expected, m_next, m_count, m_grain>>
    BY <1>9 DEF WorkerWait, WorkerStart, WorkerFinish, SpuriousWakeup, jobVars, statVars
  <2>2. \A t \in Thread : pc'[t] = "run" <=> pc[t] = "run"
    BY <1>9, <1>a DEF WorkerWait, WorkerStart, WorkerFinish, SpuriousWakeup, TypeOK
  <2>3. pc'[Caller] = pc[Caller] \/ (pc[Caller] = "blocked" /\ pc'[Caller] = "join")
    BY <1>9, <1>a DEF WorkerWait, WorkerStart, WorkerFinish, SpuriousWakeup, TypeOK
  <2> QED
    BY <2>1, <2>2, <2>3, CountFrame
<1>10. CASE SpuriousCallerWakeup \/ BeginDestroy \/ JoinWorkers
  BY <1>10, <1>a, CountFrame
     DEF SpuriousCallerWakeup, BeginDestroy, JoinWorkers, jobVars, statVars, TypeOK
<1>11. CASE ResetStatistics
  BY <1>11 DEF ResetStatistics, CountInv
<1>12. CASE UNCHANGED vars
  BY <1>12, CountFrame DEF vars
<1> QED
  BY <1>1, <1>2, <1>3, <1>4, <1>5, <1>6, <1>7, <1>8, <1>9, <1>10, <1>11, <1>12
     DEF Next, Execute, CallerStep, WorkerStep, DrainStep, Destroyed

(* Whenever the caller can read last_statistics, m_task_count is the       *)
(* number of chunks of all jobs dispatched since reset_statistics.         *)
THEOREM StatisticsCorrect == Spec => []StatisticsExact
<1>1. Init => CountInv
  <2> SUFFICES ASSUME Init PROVE CountInv
    OBVIOUS
  <2>1. pc[Caller] = "idle" /\ m_task_count = expected
    BY WorkerAssumption DEF Init, Thread
  <2> QED
    BY <2>1 DEF CountInv, DispatchPC, DrainPC
<1>2. CountInv => StatisticsExact
  BY DEF CountInv, QuietPC, StatisticsExact
<1> QED
  BY <1>1, <1>2, CountStep, ExecutorInvariant, PTL DEF Spec

-----------------------------------------------------------------------------
(* Every step of the executor is a step of ParallelFor or a stutter.       *)
LEMMA RefinementStep == IndInv /\ [Next]_vars => [For!ForNext]_(For!forVars)
<1> SUFFICES ASSUME IndInv, [Next]_vars
             PROVE  For!ForNext \/ UNCHANGED For!forVars
  OBVIOUS
<1> USE WorkerAssumption, JobAssumption
    DEF Thread, DrainPC, Goto, For!ForNext, For!forVars
<1>a. /\ TypeOK /\ NoWorkerOutlivesCall /\ JoinCountExact /\ StopInv /\ JoinInv
      /\ ChunkInv /\ CoverInv /\ InlineInv
  BY DEF IndInv, SyncInv, CoverAll
<1>b. pc \in [Thread -> WorkerPC \union CallerPC] /\ pc[Caller] \in CallerPC
  BY <1>a DEF TypeOK
<1>1. ASSUME NEW count \in Counts, NEW grain \in Grains,
             ExecuteInline(count, grain) \/ Dispatch(count, grain)
      PROVE  For!Begin
  BY <1>1, <1>b DEF ExecuteInline, Dispatch, BeginCall, For!Begin, For!Index, Index
<1>2. CASE RunInline
  <2>1. /\ pc[Caller] = "inline" /\ pc'[Caller] = "leave"
        /\ total' = total /\ total \in Nat /\ total > 0
        /\ \A i \in Index(total) : hits[i] = 0
        /\ hits' = [i \in Index(total) |-> hits[i] + 1]
    BY <1>2, <1>a, <1>b DEF RunInline, InlineInv, TypeOK
  <2>2. hits' = [i \in Index(total) |-> IF i \in 0..(total - 1) THEN 1 ELSE hits[i]]
    BY <2>1 DEF Index
  <2>3. 0 \in 0..total /\ total \in 0..total
    BY <2>1
  <2> QED
    BY <2>1, <2>2, <2>3 DEF For!Visit, For!Index, Index
<1>3. CASE LeaveInline
  BY <1>3, <1>a, <1>b DEF LeaveInline, InlineInv, For!Return, For!Index, Index
<1>4. CASE Join
  <2>1. CASE m_remaining_workers = 0
    <3>1. Owing = {} /\ ~m_stopping
      BY <2>1, <1>4, <1>a, OwingFinite DEF Join, JoinCountExact, StopInv, ClosedPC
    <3>2. \A t \in Thread : pc[t] # "run"
      BY <3>1, <1>4 DEF Owing, Join
    <3>3. \A i \in Index(total) : hits[i] = 1
      BY <3>2, <1>4, <1>a DEF Join, JoinInv, CoverInv, DispatchPC, Index, TypeOK
    <3> QED
      BY <2>1, <3>3, <1>4, <1>b DEF Join, For!Return, For!Index, Index
  <2>2. CASE m_remaining_workers # 0
    BY <2>2, <1>4, <1>b DEF Join
  <2> QED
    BY <2>1, <2>2
<1>5. ASSUME NEW t \in Thread, RunChunk(t)
      PROVE  For!Visit
  <2>1. /\ pc[Caller] \in DispatchPC /\ pc'[Caller] \in DispatchPC
        /\ total' = total /\ total = m_count /\ total \in Nat
        /\ chunk[t].first \in Nat /\ chunk[t].last \in Nat
        /\ hits \in [Index(total) -> Nat]
    BY <1>5, <1>a, <1>b
       DEF RunChunk, NoWorkerOutlivesCall, TypeOK, CoverInv, DispatchPC, CallerPC
  <2>2. /\ chunk[t].first < chunk[t].last /\ chunk[t].last <= total
        /\ \A i \in Index(total) : InChunk(t, i) => hits[i] = 0
    BY <1>5, <1>a, <2>1 DEF RunChunk, ChunkInv
  <2>3. \A i \in Index(total) : InChunk(t, i) <=> i \in chunk[t].first..(chunk[t].last - 1)
    BY <2>1 DEF InChunk, Index
  <2>4. hits' = [i \in Index(total) |->
                   IF i \in chunk[t].first..(chunk[t].last - 1) THEN 1 ELSE hits[i]]
    <3>1. hits' = [i \in Index(total) |-> IF InChunk(t, i) THEN hits[i] + 1 ELSE hits[i]]
      BY <1>5, RunChunkHits DEF IndInv
    <3> QED
      BY <3>1, <2>1, <2>2, <2>3
  <2>5. \A i \in chunk[t].first..(chunk[t].last - 1) : i \in Index(total) /\ hits[i] = 0
    BY <2>1, <2>2, <2>3 DEF Index
  <2>6. chunk[t].first \in 0..total /\ chunk[t].last \in 0..total
    BY <2>1, <2>2
  <2> QED
    BY <2>1, <2>2, <2>4, <2>5, <2>6 DEF For!Visit, For!Index, Index, DispatchPC
<1>6. ASSUME NEW t \in Thread, LoadNext(t) \/ FetchAdd(t)
      PROVE  UNCHANGED For!forVars
  BY <1>6, <1>a, <1>b
     DEF LoadNext, FetchAdd, AfterDrain, NoWorkerOutlivesCall, TypeOK
<1>7. CASE NotifyJob \/ NotifyStop
  BY <1>7, <1>b DEF NotifyJob, NotifyStop, WakeWorkers
<1>8. CASE BeginDestroy
  BY <1>8, <1>b DEF BeginDestroy, For!Close
<1>9. CASE ResetStatistics \/ SpuriousCallerWakeup \/ JoinWorkers
  BY <1>9, <1>b DEF ResetStatistics, SpuriousCallerWakeup, JoinWorkers
<1>10. ASSUME NEW w \in Worker,
              WorkerWait(w) \/ WorkerStart(w) \/ WorkerFinish(w) \/ SpuriousWakeup(w)
       PROVE  UNCHANGED For!forVars
  BY <1>10, <1>b DEF WorkerWait, WorkerStart, WorkerFinish, SpuriousWakeup
<1>11. CASE UNCHANGED vars
  BY <1>11 DEF vars
<1> QED
  BY <1>1, <1>2, <1>3, <1>4, <1>5, <1>6, <1>7, <1>8, <1>9, <1>10, <1>11
     DEF Next, Execute, CallerStep, WorkerStep, DrainStep, Destroyed

(* The pool with its generations, chunk counter and two condition          *)
(* variables runs every call like a sequential loop that visits each index *)
(* of [0, count) exactly once before execute returns.                      *)
THEOREM ExecutorImplementsParallelFor == Spec => ImplementsParallelFor
<1>1. Init => For!ForInit
  BY WorkerAssumption DEF Init, Thread, For!ForInit, For!Index, Index
<1> QED
  BY <1>1, RefinementStep, ExecutorInvariant, PTL
     DEF Spec, ImplementsParallelFor, For!ForSpec
=============================================================================
