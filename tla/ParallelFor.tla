---------------------------- MODULE ParallelFor ----------------------------
(***************************************************************************)
(* What cpu_task_executor promises its caller, without threads: a call     *)
(* execute(count, ...) runs the callback over pairwise disjoint ranges     *)
(* that together are exactly [0, count), and it returns only after the     *)
(* last of them ("Executes [0, count) synchronously",                      *)
(* include/scene_polytree/cpu_task_executor.hpp).  Nothing runs before the *)
(* call, after its return, or after the executor was destroyed.            *)
(***************************************************************************)
EXTENDS Integers

CONSTANT Counts                  \* the counts execute is called with

VARIABLES phase,                 \* "idle", "busy" in execute, "closed"
          total,                 \* the count of the latest call
          hits                   \* how often each index was visited

forVars == <<phase, total, hits>>

Index(n) == 0..(n - 1)

ForInit == /\ phase = "idle"
           /\ total = 0
           /\ hits = [i \in Index(0) |-> 0]

(* The caller enters execute.                                              *)
Begin == /\ phase = "idle"
         /\ phase' = "busy"
         /\ total' \in Counts \ {0}
         /\ hits' = [i \in Index(total') |-> 0]

(* The callback runs over [first, last), none of which was visited yet.    *)
Visit == /\ phase = "busy"
         /\ \E first, last \in 0..total :
              /\ first < last
              /\ \A i \in first..(last - 1) : hits[i] = 0
              /\ hits' = [i \in Index(total) |->
                            IF i \in first..(last - 1) THEN 1 ELSE hits[i]]
         /\ UNCHANGED <<phase, total>>

(* execute returns: every index was visited exactly once.                  *)
Return == /\ phase = "busy"
          /\ \A i \in Index(total) : hits[i] = 1
          /\ phase' = "idle"
          /\ UNCHANGED <<total, hits>>

(* The destructor starts; no call can follow.                              *)
Close == /\ phase = "idle"
         /\ phase' = "closed"
         /\ UNCHANGED <<total, hits>>

ForNext == Begin \/ Visit \/ Return \/ Close

ForSpec == ForInit /\ [][ForNext]_forVars
=============================================================================
