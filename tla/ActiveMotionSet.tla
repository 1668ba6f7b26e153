---------------------------- MODULE ActiveMotionSet ----------------------------
(***************************************************************************)
(* active_motion_set of the motion extension: the records of the moving    *)
(* nodes in a vector sorted by node handle, changed one node at a time or  *)
(* by a batch, and a generation that tells the holder of a span of records *)
(* whether the span still shows the set.  Both overloads of apply_updates  *)
(* are modelled: the one that calls set for each update, and the one that  *)
(* sorts the batch into a workspace and merges it with the records.        *)
(***************************************************************************)
EXTENDS Integers, SequencesExt

CONSTANTS
    NodeCount,      \* the handles 0 .. NodeCount - 1 are the topology's nodes
    MotionState,    \* the states a client may give to a node
    Stationary,     \* those the motion policy takes for standing still
    Still,          \* the motion of a node the set holds no record of
    MaxBatch,       \* bound: the longest batch of updates explored
    MaxGeneration   \* bound: mutations explored

ASSUME MotionAssumption ==
    /\ NodeCount \in Nat
    /\ Stationary \subseteq MotionState
    /\ Still \notin MotionState

VARIABLES
    m_records,              \* the records, in the order of the vector
    m_mutation_generation,
    span                    \* a records() span a client keeps, and its generation

vars == <<m_records, m_mutation_generation, span>>

Node == 0 .. NodeCount - 1
Handle == 0 .. NodeCount                 \* NodeCount stands for an invalid one
Record == [node : Handle, state : MotionState]
Batch == UNION {[1 .. length -> Record] : length \in 0 .. MaxBatch}

This == [records |-> m_records, generation |-> m_mutation_generation]
Become(s) == m_records' = s.records /\ m_mutation_generation' = s.generation

is_stationary(state) == state \in Stationary

lower_bound(records, node) == 1 + Len(SelectSeq(records, LAMBDA r : r.node < node))

exists(records, node) ==
    LET position == lower_bound(records, node)
    IN  position <= Len(records) /\ records[position].node = node

Mutated(s, records) == [records |-> records, generation |-> s.generation + 1]

(* erase(position), the part set and deactivate share.                       *)
Erase(s, node) ==
    IF exists(s.records, node)
    THEN Mutated(s, RemoveAt(s.records, lower_bound(s.records, node)))
    ELSE s

(* A replaced state that does not count as a mutation.                     *)
StaleReplaceSet(s, update) ==
    LET position == lower_bound(s.records, update.node)
    IN  IF is_stationary(update.state) THEN Erase(s, update.node)
        ELSE IF exists(s.records, update.node)
        THEN [s EXCEPT !.records = ReplaceAt(s.records, position, update)]
        ELSE Mutated(s, InsertAt(s.records, position, update))

Set(s, update) ==
    LET position == lower_bound(s.records, update.node)
    IN  IF is_stationary(update.state) THEN Erase(s, update.node)
        ELSE Mutated(s, IF exists(s.records, update.node)
                        THEN ReplaceAt(s.records, position, update)
                        ELSE InsertAt(s.records, position, update))

(* A sort that puts the earliest update of a node first.                     *)
FirstInputWins(batch) ==
    LET sorted == SetToSortSeq(DOMAIN batch,
                      LAMBDA i, j : \/ batch[i].node < batch[j].node
                                    \/ batch[i].node = batch[j].node /\ i < j)
    IN  FoldLeft(LAMBDA kept, i :
                     IF kept # <<>> /\ Last(kept).node = batch[i].node THEN kept
                     ELSE Append(kept, batch[i]), <<>>, sorted)

(* The batch sorted by node, the latest update of a node first, and all but  *)
(* the first of each node dropped.                                           *)
normalized(batch) ==
    LET sorted == SetToSortSeq(DOMAIN batch,
                      LAMBDA i, j : \/ batch[i].node < batch[j].node
                                    \/ batch[i].node = batch[j].node /\ i > j)
    IN  FoldLeft(LAMBDA kept, i :
                     IF kept # <<>> /\ Last(kept).node = batch[i].node THEN kept
                     ELSE Append(kept, batch[i]), <<>>, sorted)

(* The merge of the records and the normalized updates, both sorted.         *)
merged(records, updates) ==
    LET same_node(i, j) == i <= Len(records) /\ records[i].node = updates[j].node
        m[i \in 1 .. Len(records) + 1, j \in 1 .. Len(updates) + 1] ==
            IF i > Len(records) /\ j > Len(updates) THEN <<>>
            ELSE IF \/ j > Len(updates)
                    \/ i <= Len(records) /\ records[i].node < updates[j].node
            THEN <<records[i]>> \o m[i + 1, j]
            ELSE (IF is_stationary(updates[j].state) THEN <<>> ELSE <<updates[j]>>)
                 \o m[IF same_node(i, j) THEN i + 1 ELSE i, j + 1]
    IN  m[1, 1]

(* The merge changed the set: some update moved a node or stopped one the    *)
(* set held.                                                                 *)
mutated(records, updates) ==
    \E j \in DOMAIN updates :
        ~is_stationary(updates[j].state) \/ exists(records, updates[j].node)

apply_each(s, batch) == FoldLeft(Set, s, batch)

apply_merged(s, batch) ==
    LET updates == normalized(batch)
    IN  IF mutated(s.records, updates) THEN Mutated(s, merged(s.records, updates)) ELSE s

--------------------------------------------------------------------------------
Init == m_records = <<>> /\ m_mutation_generation = 0 /\ span = This

set(update) ==
    /\ update.node < NodeCount
    /\ Become(Set(This, update))
    /\ UNCHANGED span

deactivate(node) ==
    /\ node < NodeCount
    /\ Become(Erase(This, node))
    /\ UNCHANGED span

(* Either overload; a batch that names an invalid node is refused whole.     *)
apply_updates(batch, workspace) ==
    /\ \A i \in DOMAIN batch : batch[i].node < NodeCount
    /\ Become(IF workspace THEN apply_merged(This, batch) ELSE apply_each(This, batch))
    /\ UNCHANGED span

clear ==
    /\ m_records # <<>>
    /\ Become(Mutated(This, <<>>))
    /\ UNCHANGED span

(* A client reads the records and remembers the generation they belong to.   *)
records == span' = This /\ UNCHANGED <<m_records, m_mutation_generation>>

Next ==
    /\ m_mutation_generation < MaxGeneration
    /\ \/ \E update \in Record : set(update)
       \/ \E node \in Handle : deactivate(node)
       \/ \E batch \in Batch, workspace \in BOOLEAN : apply_updates(batch, workspace)
       \/ clear
       \/ records

Spec == Init /\ [][Next]_vars

--------------------------------------------------------------------------------
(* The generation exposes every stale span: a client that finds the          *)
(* generation it remembered holds a span of the current records.             *)
SpansDetectable == span.generation = m_mutation_generation => span.records = m_records

(* The motion a client finds for a node in a set of records.                 *)
MotionIn(list, node) ==
    LET held == {i \in DOMAIN list : list[i].node = node}
    IN  IF held = {} THEN Still ELSE list[CHOOSE i \in held : TRUE].state

(* The motion a node should have after a batch: that of its last update,     *)
(* Still when that one is stationary, its old one when there is none.        *)
MotionAfter(batch, node) ==
    LET named == {i \in DOMAIN batch : batch[i].node = node}
        state == batch[CHOOSE i \in named : \A j \in named : j <= i].state
    IN  IF named = {} THEN MotionIn(m_records, node)
        ELSE IF is_stationary(state) THEN Still ELSE state

(* Sorting, deduplicating and merging in the workspace overload, and the     *)
(* binary searches of the other one, both compute the plain meaning of a     *)
(* batch: for every valid batch, on every set that calls can build, the last *)
(* update of each node wins and no other node moves.                         *)
LastUpdateWins ==
    \A batch \in Batch :
        (\A i \in DOMAIN batch : batch[i].node < NodeCount) =>
            \A node \in Node :
                /\ MotionIn(apply_merged(This, batch).records, node) = MotionAfter(batch, node)
                /\ MotionIn(apply_each(This, batch).records, node) = MotionAfter(batch, node)
================================================================================
