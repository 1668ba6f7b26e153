--------------------------- MODULE TaskExecutor ---------------------------
(***************************************************************************)
(* cpu_task_executor (src/cpu_task_executor.cpp): one calling thread and a *)
(* fixed pool of workers that drain one job at a time.                     *)
(*                                                                         *)
(* A step is a region under m_mutex, one atomic load or fetch_add, one     *)
(* notification, or one call of the job's function.  The two condition     *)
(* variables are modelled by their waiters: a thread that found its        *)
(* predicate false is "asleep" (a worker, on m_job_available) or "blocked" *)
(* (the caller, on m_job_finished) until it is notified or wakes           *)
(* spuriously, and then tests the predicate again.  The caller is one      *)
(* thread: the executor may not be used reentrantly (docs/transforms.md).  *)
(***************************************************************************)
EXTENDS Integers, FiniteSets

CONSTANTS Worker,        \* the threads of m_workers; may be empty
          Caller,        \* the thread that calls execute and the destructor
          Counts,        \* counts execute is called with
          Grains,        \* minimum_grain arguments, 0 included
          MaxDispatches  \* bound: parallel dispatches in one lifetime

ASSUME WorkerAssumption == IsFiniteSet(Worker) /\ Caller \notin Worker
ASSUME JobAssumption == Counts \subseteq Nat /\ Grains \subseteq Nat
ASSUME BoundAssumption == MaxDispatches \in Nat

VARIABLES
  m_count, m_grain, m_next, m_remaining_workers, m_generation, m_stopping,
  m_task_count, m_parallel_dispatch_count,
  pc,        \* where each thread is
  chunk,     \* the range [first, last) a thread is running the function on
  observed,  \* observed_generation of each worker
  total,     \* the count argument of the caller's latest call
  hits,      \* how often the function visited each index in that call
  expected   \* chunks that make up the jobs dispatched since the last reset

jobVars == <<m_count, m_grain, m_generation, m_stopping>>
statVars == <<m_task_count, m_parallel_dispatch_count, expected>>
vars == <<m_count, m_grain, m_next, m_remaining_workers, m_generation,
          m_stopping, m_task_count, m_parallel_dispatch_count, pc, chunk,
          observed, total, hits, expected>>

Thread == Worker \union {Caller}
DrainPC == {"check", "fetch", "run"}
WorkerPC == DrainPC \union {"ready", "asleep", "start", "finish", "exited"}
CallerPC == DrainPC \union {"idle", "inline", "leave", "notify", "join",
                            "blocked", "notifyStop", "joinWorkers", "destroyed"}
Index(n) == 0..(n - 1)
NoChunk == [first |-> 0, last |-> 0]

Init ==
  /\ m_count = 0 /\ m_grain = 1 /\ m_next = 0
  /\ m_remaining_workers = 0 /\ m_generation = 0 /\ m_stopping = FALSE
  /\ m_task_count = 0 /\ m_parallel_dispatch_count = 0
  /\ pc = [t \in Thread |-> IF t = Caller THEN "idle" ELSE "ready"]
  /\ chunk = [t \in Thread |-> NoChunk]
  /\ observed = [w \in Worker |-> 0]
  /\ total = 0 /\ hits = [i \in Index(0) |-> 0] /\ expected = 0

Goto(t, label) == pc' = [pc EXCEPT ![t] = label]

-----------------------------------------------------------------------------
(* execute                                                                 *)

EffectiveGrain(grain) == IF grain = 0 THEN 1 ELSE grain
RunsInline(count, grain) == Worker = {} \/ count \div grain < 2
Chunks(count, grain) == (count + grain - 1) \div grain

(* The caller enters execute; a call with count 0 returns at once and has  *)
(* no effect.  total, hits and expected only record the call.              *)
BeginCall(count) == /\ pc[Caller] = "idle"
                    /\ count # 0
                    /\ total' = count
                    /\ hits' = [i \in Index(count) |-> 0]

ExecuteInline(count, grain) ==
  /\ BeginCall(count)
  /\ RunsInline(count, EffectiveGrain(grain))
  /\ Goto(Caller, "inline")
  /\ UNCHANGED <<jobVars, m_next, m_remaining_workers, statVars, chunk, observed>>

RunInline ==
  /\ pc[Caller] = "inline"
  /\ hits' = [i \in Index(total) |-> hits[i] + 1]
  /\ Goto(Caller, "leave")
  /\ UNCHANGED <<jobVars, m_next, m_remaining_workers, statVars, chunk,
                 observed, total>>

LeaveInline ==
  /\ pc[Caller] = "leave"
  /\ Goto(Caller, "idle")
  /\ UNCHANGED <<jobVars, m_next, m_remaining_workers, statVars, chunk,
                 observed, total, hits>>

(* The region under the lock that publishes a job.                         *)
RemainingWithoutCaller == Cardinality(Worker) - 1
WorkersToJoin == Cardinality(Worker)

Dispatch(count, grain) ==
  LET g == EffectiveGrain(grain) IN
  /\ m_generation < MaxDispatches
  /\ BeginCall(count)
  /\ ~RunsInline(count, g)
  /\ m_count' = count
  /\ m_grain' = g
  /\ m_next' = 0
  /\ m_remaining_workers' = WorkersToJoin
  /\ m_generation' = m_generation + 1
  /\ m_parallel_dispatch_count' = m_parallel_dispatch_count + 1
  /\ expected' = expected + Chunks(count, g)
  /\ Goto(Caller, "notify")
  /\ UNCHANGED <<m_stopping, m_task_count, chunk, observed>>

(* notify_all on m_job_available, after the lock was released.             *)
WakeWorkers(next) ==
  pc' = [t \in Thread |-> IF t = Caller THEN next
                          ELSE IF pc[t] = "asleep" THEN "ready" ELSE pc[t]]

NotifyJob ==
  /\ pc[Caller] = "notify"
  /\ WakeWorkers("check")
  /\ UNCHANGED <<jobVars, m_next, m_remaining_workers, statVars, chunk,
                 observed, total, hits>>

(* m_job_finished.wait: return when every worker finished, else block.     *)
Join ==
  /\ pc[Caller] = "join"
  /\ Goto(Caller, IF m_remaining_workers = 0 THEN "idle" ELSE "blocked")
  /\ UNCHANGED <<jobVars, m_next, m_remaining_workers, statVars, chunk,
                 observed, total, hits>>

-----------------------------------------------------------------------------
(* drain_job, run by the caller and by every worker                        *)

AfterDrain(t) == IF t = Caller THEN "join" ELSE "finish"

(* The predicate of take_while: m_next.load() < m_count.                   *)
LoadNext(t) ==
  /\ pc[t] = "check"
  /\ Goto(t, IF m_next < m_count THEN "fetch" ELSE AfterDrain(t))
  /\ UNCHANGED <<jobVars, m_next, m_remaining_workers, statVars, chunk,
                 observed, total, hits>>

(* The end of the chunk that starts at first: min(first + grain, count).   *)
ChunkEndUnclamped(first) == first + m_grain
ChunkEnd(first) ==
  IF first + m_grain < m_count THEN first + m_grain ELSE m_count

(* A fetch_add split into a load and a store: both threads may claim it.   *)
FetchTorn(t) ==
  /\ pc[t] = "fetch"
  /\ m_next' \in {m_next, m_next + m_grain}
  /\ IF m_next < m_count
       THEN /\ chunk' = [chunk EXCEPT ![t] =
                           [first |-> m_next, last |-> ChunkEnd(m_next)]]
            /\ Goto(t, "run")
       ELSE /\ Goto(t, "check")
            /\ UNCHANGED chunk
  /\ UNCHANGED <<jobVars, m_remaining_workers, statVars, observed, total, hits>>

(* m_next.fetch_add(m_grain), and the test of the value it returned.       *)
FetchAdd(t) ==
  /\ pc[t] = "fetch"
  /\ m_next' = m_next + m_grain
  /\ IF m_next < m_count
       THEN /\ chunk' = [chunk EXCEPT ![t] =
                           [first |-> m_next, last |-> ChunkEnd(m_next)]]
            /\ Goto(t, "run")
       ELSE /\ Goto(t, "check")
            /\ UNCHANGED chunk
  /\ UNCHANGED <<jobVars, m_remaining_workers, statVars, observed, total, hits>>

InChunk(t, i) == chunk[t].first <= i /\ i < chunk[t].last
Visited(t) == chunk[t].first .. (chunk[t].last - 1)

(* The function runs over the chunk; m_task_count counts it.  An index     *)
(* outside the call's range would become one of hits too.                  *)
RunChunk(t) ==
  /\ pc[t] = "run"
  /\ hits' = [i \in DOMAIN hits \union Visited(t) |->
                (IF i \in DOMAIN hits THEN hits[i] ELSE 0)
                  + (IF InChunk(t, i) THEN 1 ELSE 0)]
  /\ m_task_count' = m_task_count + 1
  /\ chunk' = [chunk EXCEPT ![t] = NoChunk]
  /\ Goto(t, "check")
  /\ UNCHANGED <<jobVars, m_next, m_remaining_workers,
                 m_parallel_dispatch_count, expected, observed, total>>

-----------------------------------------------------------------------------
(* worker_main                                                             *)

JobAvailable(w) == m_stopping \/ m_generation # observed[w]

(* m_job_available.wait under the lock: leave the loop when stopping, take *)
(* the job, or sleep.  The lock is released before "start".                *)
WorkerWait(w) ==
  /\ pc[w] = "ready"
  /\ Goto(w, IF ~JobAvailable(w) THEN "asleep"
             ELSE IF m_stopping THEN "exited" ELSE "start")
  /\ UNCHANGED <<jobVars, m_next, m_remaining_workers, statVars, chunk,
                 observed, total, hits>>

(* std::condition_variable may wake a waiter without a notification.       *)
SpuriousWakeup(w) ==
  /\ pc[w] = "asleep"
  /\ Goto(w, "ready")
  /\ UNCHANGED <<jobVars, m_next, m_remaining_workers, statVars, chunk,
                 observed, total, hits>>

SpuriousCallerWakeup ==
  /\ pc[Caller] = "blocked"
  /\ Goto(Caller, "join")
  /\ UNCHANGED <<jobVars, m_next, m_remaining_workers, statVars, chunk,
                 observed, total, hits>>

(* The second lock region: remember the generation, then drain.            *)
WorkerStart(w) ==
  /\ pc[w] = "start"
  /\ observed' = [observed EXCEPT ![w] = m_generation]
  /\ Goto(w, "check")
  /\ UNCHANGED <<jobVars, m_next, m_remaining_workers, statVars, chunk,
                 total, hits>>

(* The decrement without m_job_finished.notify_one().                      *)
WorkerFinishSilent(w) ==
  /\ pc[w] = "finish"
  /\ m_remaining_workers' = m_remaining_workers - 1
  /\ Goto(w, "ready")
  /\ UNCHANGED <<jobVars, m_next, statVars, chunk, observed, total, hits>>

(* The third lock region: the last worker notifies the caller.             *)
WorkerFinish(w) ==
  /\ pc[w] = "finish"
  /\ m_remaining_workers' = m_remaining_workers - 1
  /\ pc' = [pc EXCEPT ![w] = "ready",
                      ![Caller] = IF m_remaining_workers' = 0 /\ @ = "blocked"
                                  THEN "join" ELSE @]
  /\ UNCHANGED <<jobVars, m_next, statVars, chunk, observed, total, hits>>

-----------------------------------------------------------------------------
(* reset_statistics and the destructor                                     *)

ResetStatistics ==
  /\ pc[Caller] = "idle"
  /\ m_task_count' = 0
  /\ m_parallel_dispatch_count' = 0
  /\ expected' = 0
  /\ UNCHANGED <<jobVars, m_next, m_remaining_workers, pc, chunk, observed,
                 total, hits>>

BeginDestroy ==
  /\ pc[Caller] = "idle"
  /\ m_stopping' = TRUE
  /\ m_generation' = m_generation + 1
  /\ Goto(Caller, "notifyStop")
  /\ UNCHANGED <<m_count, m_grain, m_next, m_remaining_workers, statVars,
                 chunk, observed, total, hits>>

NotifyStop ==
  /\ pc[Caller] = "notifyStop"
  /\ WakeWorkers("joinWorkers")
  /\ UNCHANGED <<jobVars, m_next, m_remaining_workers, statVars, chunk,
                 observed, total, hits>>

JoinWorkers ==
  /\ pc[Caller] = "joinWorkers"
  /\ \A w \in Worker : pc[w] = "exited"
  /\ Goto(Caller, "destroyed")
  /\ UNCHANGED <<jobVars, m_next, m_remaining_workers, statVars, chunk,
                 observed, total, hits>>

(* The executor is gone: the only state in which nothing more happens.     *)
Destroyed == pc[Caller] = "destroyed" /\ UNCHANGED vars

-----------------------------------------------------------------------------
DrainStep(t) == LoadNext(t) \/ FetchAdd(t) \/ RunChunk(t)

WorkerStep(w) == WorkerWait(w) \/ WorkerStart(w) \/ DrainStep(w) \/ WorkerFinish(w)

(* What the caller does without a new decision of the program using it.    *)
CallerStep == \/ RunInline \/ LeaveInline \/ NotifyJob \/ DrainStep(Caller)
              \/ Join \/ NotifyStop \/ JoinWorkers

Execute == \E count \in Counts, grain \in Grains :
             ExecuteInline(count, grain) \/ Dispatch(count, grain)

Next == \/ Execute
        \/ ResetStatistics
        \/ BeginDestroy
        \/ CallerStep
        \/ \E w \in Worker : WorkerStep(w) \/ SpuriousWakeup(w)
        \/ SpuriousCallerWakeup
        \/ Destroyed

Spec == Init /\ [][Next]_vars

(* A thread that can run is eventually scheduled; nothing is assumed of    *)
(* the program's calls or of spurious wakeups.                             *)
Fairness == WF_vars(CallerStep) /\ \A w \in Worker : WF_vars(WorkerStep(w))

FairSpec == Spec /\ Fairness

-----------------------------------------------------------------------------
(* Types of every field and thread-local.                                  *)
TypeOK ==
  /\ m_count \in Nat /\ m_grain \in Nat \ {0} /\ m_next \in Nat
  /\ m_remaining_workers \in Nat /\ m_generation \in Nat
  /\ m_stopping \in BOOLEAN
  /\ m_task_count \in Nat /\ m_parallel_dispatch_count \in Nat
  /\ pc \in [Thread -> WorkerPC \union CallerPC]
  /\ pc[Caller] \in CallerPC
  /\ \A w \in Worker : pc[w] \in WorkerPC
  /\ chunk \in [Thread -> [first : Nat, last : Nat]]
  /\ observed \in [Worker -> Nat]
  /\ total \in Nat
  /\ hits \in [Index(total) -> Nat]
  /\ expected \in Nat

(* Workers that have not yet finished the current generation's job: a      *)
(* worker between its wait and its decrement, or one that has not noticed  *)
(* the generation yet.                                                     *)
Owing == {w \in Worker : \/ pc[w] \in DrainPC \union {"start", "finish"}
                         \/ /\ pc[w] \in {"ready", "asleep"}
                            /\ observed[w] # m_generation}

(* The join counter is exact: m_remaining_workers is the number of workers *)
(* that still owe a decrement for this generation, so the caller's wait    *)
(* (cpu_task_executor.cpp:79) is a barrier and never counts a worker twice.*)
JoinCountExact == ~m_stopping => m_remaining_workers = Cardinality(Owing)

(* No worker touches the job (m_count, m_grain, m_function and the         *)
(* caller's context) while the caller is outside execute: the next job can *)
(* be written, the context destroyed, without a race.                      *)
NoWorkerOutlivesCall ==
  pc[Caller] \in {"idle", "inline", "leave", "notifyStop", "joinWorkers", "destroyed"}
    => \A w \in Worker : pc[w] \notin DrainPC \union {"start", "finish"}

(* last_statistics is exact whenever the caller can read it: one task per  *)
(* chunk of every job dispatched since reset_statistics, none lost.        *)
StatisticsExact == pc[Caller] = "idle" => m_task_count = expected

(* The executor implements the thread-free promise.                        *)
For == INSTANCE ParallelFor
         WITH phase <- IF pc[Caller] = "idle" THEN "idle"
                       ELSE IF pc[Caller] \in {"notifyStop", "joinWorkers", "destroyed"}
                       THEN "closed" ELSE "busy"
ImplementsParallelFor == For!ForSpec

(* Every call of execute returns, and so does the destructor: no lost      *)
(* wakeup, no worker that never decrements, none that misses m_stopping    *)
(* and is joined forever.                                                  *)
CallsReturn ==
  /\ (pc[Caller] \in DrainPC \union {"inline", "leave", "notify", "join", "blocked"})
       ~> (pc[Caller] = "idle")
  /\ m_stopping ~> (pc[Caller] = "destroyed")
=============================================================================
