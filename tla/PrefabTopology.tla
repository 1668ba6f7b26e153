---------------------------- MODULE PrefabTopology ----------------------------
(***************************************************************************)
(* How a prefab becomes a topology: ExtractEntityHierarchy infers nodes    *)
(* from entities and names each by its escaped path from the root,         *)
(* ValidateAndNormalizeTopology does the same for configured nodes, and    *)
(* PreparePrefabInstance matches a spawned instance, whose entities come   *)
(* with other ids and in any order, with the topology of its prefab and    *)
(* places it.                                                              *)
(*                                                                         *)
(* A string is a sequence of character codes.  A transform is an atom or   *)
(* the sequence of the atoms it is composed of.                            *)
(***************************************************************************)
EXTENDS Integers, SequencesExt, FiniteSetsExt

CONSTANTS
    NoId,                \* the invalid EntityId
    Absent, NonFinite,   \* no TransformComponent; a local that is not finite
    Placement,           \* where instances are placed
    Prefabs,             \* sequences of entities [id, transform, parent, name]
    Configurations,      \* sequences of nodes [id, parent, local]
    Edited(_),           \* what may have become of a spawned prefab's entities
    Renamed(_)           \* their ids in the instance

VARIABLES
    input,     \* the prefab or the configuration
    result,    \* what was made of it
    live,      \* the entities of an instance
    prepared   \* the instance: its failure, or where its entities were placed

vars == <<input, result, live, prepared>>

Failed(code) == [code |-> code, nodes |-> <<>>, entities |-> <<>>]
None == Failed("none")
Pending == [code |-> "none", worlds |-> <<>>]

Init ==
    /\ \/ \E prefab \in Prefabs : input = [kind |-> "prefab", of |-> prefab]
       \/ \E nodes \in Configurations : input = [kind |-> "nodes", of |-> nodes]
    /\ result = None /\ live = <<>> /\ prepared = Pending

--------------------------------------------------------------------------------
(* Strings.                                                                 *)

Percent == 37
Slash == 47

(* Escaping of the separator alone.                                         *)
EscapeSlash(name) == FlattenSeq([i \in DOMAIN name |->
    IF name[i] = Slash THEN <<Percent, 50, 70>> ELSE <<name[i]>>])

EscapePathSegment(name) == FlattenSeq([i \in DOMAIN name |->
    CASE name[i] = Percent -> <<Percent, 50, 53>>
      [] name[i] = Slash -> <<Percent, 50, 70>>
      [] OTHER -> <<name[i]>>])

NameLess(s, t) ==
    \/ IsStrictPrefix(s, t)
    \/ \E k \in DOMAIN s \intersect DOMAIN t :
        SubSeq(s, 1, k - 1) = SubSeq(t, 1, k - 1) /\ s[k] < t[k]

--------------------------------------------------------------------------------
(* Links: a function from each index to its parent's index, 0 for none.     *)
(* The k-th ancestor of i, 0 beyond the root.                               *)
Ancestor(links, i) ==
    LET up[k \in 0 .. Len(links)] ==
            IF k = 0 THEN i ELSE IF up[k - 1] = 0 THEN 0 ELSE links[up[k - 1]]
    IN  up

Depth(links, i) == Max({k \in 0 .. Len(links) : Ancestor(links, i)[k] # 0})

Path(links, names, i) ==
    LET up == Ancestor(links, i)
        path[k \in 0 .. Depth(links, i)] ==
            IF k = Depth(links, i) THEN EscapePathSegment(names[up[k]])
            ELSE path[k + 1] \o <<Slash>> \o EscapePathSegment(names[up[k]])
    IN  path[0]

--------------------------------------------------------------------------------
(* ExtractEntityHierarchy.                                                  *)

(* The entities with a transform, and the last thing wrong with one; an     *)
(* entity that is refused is not one of those seen.                         *)
Inferred(entities) == SelectSeq(entities, LAMBDA e : e.transform # Absent)

Taken(ents, i) ==
    LET taken[k \in 0 .. Len(ents)] ==
            IF k = 0 THEN {}
            ELSE IF ents[k].id \in {NoId} \union taken[k - 1] \/ ents[k].transform = NonFinite
                 THEN taken[k - 1] ELSE taken[k - 1] \union {ents[k].id}
    IN  taken[i - 1]

EntityFault(ents, i) ==
    IF ents[i].id \in {NoId} \union Taken(ents, i) THEN "InvalidBinding"
    ELSE IF ents[i].transform = NonFinite THEN "InvalidTransform" ELSE "Success"

EntityFailure(ents) ==
    LET faults == {i \in DOMAIN ents : EntityFault(ents, i) # "Success"}
    IN  IF faults = {} THEN "Success" ELSE EntityFault(ents, Max(faults))

IndexOf(ents, id) == Min({j \in DOMAIN ents : ents[j].id = id})
Dangling(ents) == {i \in DOMAIN ents : ents[i].parent \notin {NoId} \union {ents[j].id : j \in DOMAIN ents}}
LinksOf(ents) == [i \in DOMAIN ents |-> IF ents[i].parent = NoId THEN 0 ELSE IndexOf(ents, ents[i].parent)]

(* buildPath climbs from an entity to the first ancestor that is nameless   *)
(* or that it has met.  What earlier climbs accepted has no such ancestor.  *)
PathFault(ents, links, i) ==
    LET up == Ancestor(links, i)
        met(k) == \E j \in 0 .. k - 1 : up[j] = up[k]
        stops == {k \in 0 .. Len(ents) : up[k] # 0 /\ (met(k) \/ ents[up[k]].name = <<>>)}
    IN  IF stops = {} THEN "Success"
        ELSE IF met(Min(stops)) THEN "Cycle" ELSE "InvalidBinding"

Before(a, b) == a.depth < b.depth \/ (a.depth = b.depth /\ NameLess(a.path, b.path))

ParentPath(sorted, node) ==
    IF node.link = 0 THEN <<>>
    ELSE sorted[Min({j \in DOMAIN sorted : sorted[j].entity.id = node.entity.parent})].path

SortedNodes(ents, links) ==
    SortSeq([i \in DOMAIN ents |->
        [entity |-> ents[i], link |-> links[i], depth |-> Depth(links, i),
         path |-> Path(links, [j \in DOMAIN ents |-> ents[j].name], i)]], Before)

TopologyOf(sorted) ==
    IF \E i \in 1 .. Len(sorted) - 1 : sorted[i].path = sorted[i + 1].path
    THEN Failed("DuplicateBindingId")
    ELSE [code |-> "Success",
          nodes |-> [i \in DOMAIN sorted |-> [id |-> sorted[i].path,
                        parent |-> ParentPath(sorted, sorted[i]), local |-> sorted[i].entity.transform]],
          entities |-> [i \in DOMAIN sorted |-> sorted[i].entity.id]]

HierarchyOf(ents) ==
    LET links == LinksOf(ents)
        faults == {i \in DOMAIN ents : PathFault(ents, links, i) # "Success"}
    IN  IF faults # {} THEN Failed(PathFault(ents, links, Min(faults)))
        ELSE TopologyOf(SortedNodes(ents, links))

ExtractEntityHierarchy(entities) ==
    LET ents == Inferred(entities)
    IN  IF EntityFailure(ents) # "Success" THEN Failed(EntityFailure(ents))
        ELSE IF ents = <<>> THEN Failed("EmptyPrefabHierarchy")
        ELSE IF Dangling(ents) # {} THEN Failed("DanglingParent")
        ELSE HierarchyOf(ents)

--------------------------------------------------------------------------------
(* ValidateAndNormalizeTopology.                                            *)

ConfiguredLinks(nodes) == [i \in DOMAIN nodes |->
    IF nodes[i].parent = <<>> THEN 0 ELSE Min({j \in DOMAIN nodes : nodes[j].id = nodes[i].parent})]

Cyclic(links) == \E i \in DOMAIN links : Ancestor(links, i)[Len(links)] # 0

Normalized(nodes) ==
    LET links == ConfiguredLinks(nodes)
        depth(node) == Depth(links, Min({i \in DOMAIN nodes : nodes[i] = node}))
    IN  SortSeq(nodes, LAMBDA a, b : depth(a) < depth(b) \/ (depth(a) = depth(b) /\ NameLess(a.id, b.id)))

ValidateAndNormalizeTopology(given) ==
    LET invalid == {i \in DOMAIN given : given[i].id = <<>> \/ given[i].local = NonFinite}
        nodes == SortSeq(given, LAMBDA a, b : NameLess(a.id, b.id))
        ids == {nodes[i].id : i \in DOMAIN nodes}
    IN  IF given = <<>> THEN Failed("EmptyPrefabHierarchy")
        ELSE IF invalid # {}
             THEN Failed(IF given[Min(invalid)].id = <<>> THEN "InvalidBinding" ELSE "InvalidTransform")
        ELSE IF Cardinality(ids) < Len(nodes) THEN Failed("DuplicateBindingId")
        ELSE IF \E i \in DOMAIN nodes : nodes[i].parent \notin {<<>>} \union ids THEN Failed("DanglingParent")
        ELSE IF Cyclic(ConfiguredLinks(nodes)) THEN Failed("Cycle")
        ELSE [code |-> "Success", nodes |-> Normalized(nodes), entities |-> <<>>]

--------------------------------------------------------------------------------
(* PreparePrefabInstance: the instance must have the nodes of the topology; *)
(* each entity is placed below the world of its logical parent, which is    *)
(* the one computed at the parent's index.                                  *)

Mismatch(topology, nodes) ==
    \/ Len(nodes) # Len(topology)
    \/ \E i \in DOMAIN topology : nodes[i].id # topology[i].id \/ nodes[i].parent # topology[i].parent

LogicalWorlds(topology, nodes) ==
    LET world[i \in DOMAIN nodes] ==
            Append(IF nodes[i].parent = <<>> THEN <<Placement>>
                   ELSE world[Min({j \in DOMAIN topology : topology[j].id = nodes[i].parent})],
                   nodes[i].local)
    IN  world

Placed(topology, hierarchy) ==
    [code |-> "Success",
     worlds |-> [id \in ToSet(hierarchy.entities) |->
        LogicalWorlds(topology, hierarchy.nodes)[Min({i \in DOMAIN hierarchy.entities :
                                                      hierarchy.entities[i] = id})]]]
Refused(error) == [code |-> error, worlds |-> <<>>]

(* What the spawn is told of a prefab that no longer yields a hierarchy.    *)
HierarchyFailure(code) ==
    CASE code = "DuplicateBindingId" -> "DuplicateBinding"
      [] code \in {"InvalidTransform", "InvalidBinding"} -> code
      [] OTHER -> "HierarchyMismatch"

(* Matching by the number of nodes alone.                                   *)
PreparedBySize(topology, hierarchy) ==
    IF hierarchy.code # "Success" THEN Refused(HierarchyFailure(hierarchy.code))
    ELSE IF Len(hierarchy.nodes) # Len(topology) THEN Refused("HierarchyMismatch")
    ELSE Placed(hierarchy.nodes, hierarchy)

Prepared(topology, hierarchy) ==
    IF hierarchy.code # "Success" THEN Refused(HierarchyFailure(hierarchy.code))
    ELSE IF Mismatch(topology, hierarchy.nodes) THEN Refused("HierarchyMismatch")
    ELSE Placed(topology, hierarchy)

--------------------------------------------------------------------------------
ExtractPrefabTopology ==
    /\ input.kind = "prefab" /\ result = None
    /\ result' = ExtractEntityHierarchy(input.of)
    /\ UNCHANGED <<input, live, prepared>>

NormalizeConfiguration ==
    /\ input.kind = "nodes" /\ result = None
    /\ result' = ValidateAndNormalizeTopology(input.of)
    /\ UNCHANGED <<input, live, prepared>>

(* The spawner only instantiates prefabs it has extracted.                  *)
PreparePrefabInstance ==
    /\ input.kind = "prefab" /\ result.code = "Success" /\ prepared = Pending
    /\ \E entities \in Edited(input.of) : \E order \in Permutations(DOMAIN entities) :
        /\ live' = Renamed([i \in DOMAIN entities |-> entities[order[i]]])
        /\ prepared' = Prepared(result.nodes, ExtractEntityHierarchy(live'))
    /\ UNCHANGED <<input, result>>

Next == ExtractPrefabTopology \/ NormalizeConfiguration \/ PreparePrefabInstance

Spec == Init /\ [][Next]_vars

--------------------------------------------------------------------------------
(* The reference: forests of named things, by their raw names.              *)

Things(entities) == ToSet(Inferred(entities))
ParentsIn(T, t) == {p \in T : p.id = t.parent}

(* The lines of descent of t: sequences from a root to t, each the parent   *)
(* of the next.                                                             *)
Descent(T, t) ==
    {s \in SeqOf(T, Cardinality(T)) :
        /\ s # <<>> /\ s[Len(s)] = t /\ s[1].parent = NoId
        /\ \A i \in 1 .. Len(s) - 1 : s[i + 1].parent = s[i].id /\ s[i].id # NoId}

RawPath(T, t) == LET s == CHOOSE d \in Descent(T, t) : TRUE IN [i \in DOMAIN s |-> s[i].name]

WellFormed(entities) ==
    LET T == Things(entities)
    IN  /\ T # {} /\ Cardinality({t.id : t \in T}) = Len(Inferred(entities))
        /\ \A t \in T : t.id # NoId /\ t.transform # NonFinite /\ t.name # <<>>
        /\ \A t \in T : Descent(T, t) # {}
        /\ \A t, u \in T : t # u => RawPath(T, t) # RawPath(T, u)

(* A prefab is accepted exactly when it is a forest whose raw name paths    *)
(* differ, whatever the names hold ("path boundaries stay unambiguous"),    *)
(* and then has one node for each entity with a transform, aligned with it, *)
(* named uniquely and after its parent.                                     *)
ExtractionExact ==
    input.kind = "prefab" /\ result # None =>
        /\ result.code = "Success" <=> WellFormed(input.of)
        /\ result.code = "Cycle" => \E t \in Things(input.of) : Descent(Things(input.of), t) = {}
        /\ result.code = "Success" =>
            LET T == Things(input.of)
                n == result.nodes
                at(t) == Min({i \in DOMAIN n : result.entities[i] = t.id})
            IN  /\ Len(n) = Cardinality(T) /\ Len(result.entities) = Len(n)
                /\ Cardinality({n[i].id : i \in DOMAIN n}) = Len(n)
                /\ \A t \in T : /\ result.entities[at(t)] = t.id /\ n[at(t)].local = t.transform
                                /\ t.parent = NoId <=> n[at(t)].parent = <<>>
                                /\ \A p \in ParentsIn(T, t) : n[at(t)].parent = n[at(p)].id /\ at(p) < at(t)

(* What extraction makes is what validation would leave alone, and a        *)
(* configuration is accepted exactly when each of its nodes is finite, has  *)
(* a name of its own and descends from a root; it keeps its nodes.          *)
DescendsIn(nodes, node) ==
    \E s \in SeqOf(ToSet(nodes), Len(nodes)) :
        /\ s # <<>> /\ s[Len(s)] = node /\ s[1].parent = <<>>
        /\ \A i \in 1 .. Len(s) - 1 : s[i + 1].parent = s[i].id

NormalizationExact ==
    /\ input.kind = "prefab" /\ result.code = "Success" =>
        ValidateAndNormalizeTopology(result.nodes).nodes = result.nodes
    /\ input.kind = "nodes" /\ result # None =>
        /\ result.code = "Success" <=>
            /\ input.of # <<>>
            /\ \A i \in DOMAIN input.of : /\ input.of[i].id # <<>> /\ input.of[i].local # NonFinite
                                          /\ DescendsIn(input.of, input.of[i])
                                          /\ \A j \in DOMAIN input.of : input.of[i].id = input.of[j].id => i = j
        /\ result.code = "Success" =>
            /\ ToSet(result.nodes) = ToSet(input.of) /\ Len(result.nodes) = Len(input.of)
            /\ ValidateAndNormalizeTopology(result.nodes).nodes = result.nodes

(* Both together: every way into a topology accepts just the forests, and   *)
(* loses, doubles or renames nothing.                                       *)
TopologyExact == ExtractionExact /\ NormalizationExact

(* A spawned instance is accepted exactly when its entities have the raw    *)
(* name paths of the prefab, in whatever order they come, and each entity   *)
(* is placed below all of its ancestors.                                    *)
PlacedExactly ==
    prepared # Pending =>
        LET T == Things(live)
            P == Things(input.of)
        IN  /\ prepared.code = "Success" <=>
                /\ WellFormed(live)
                /\ {RawPath(T, t) : t \in T} = {RawPath(P, t) : t \in P}
            /\ prepared.code = "Success" =>
                /\ DOMAIN prepared.worlds = {t.id : t \in T}
                /\ \A t \in T : \E s \in Descent(T, t) :
                    prepared.worlds[t.id] = <<Placement>> \o [i \in DOMAIN s |-> s[i].transform]
================================================================================
