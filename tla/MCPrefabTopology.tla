--------------------------- MODULE MCPrefabTopology ---------------------------
(* Up to three entities, whose names are empty or "a", "a/a" and "a%2Fa"    *)
(* (the last is how "a/a" is escaped), and up to three configured nodes.    *)
EXTENDS PrefabTopology

a == <<97>>
asa == <<97, 47, 97>>
escaped == <<97, 37, 50, 70, 97>>

Entity(id, parents, names) ==
    [id : {id}, transform : {<<"t1", "t2", "t3">>[id]}, parent : parents, name : names]

(* Named trees, cycles and forests; and pairs with every fault of a single  *)
(* entity.                                                                  *)
Trees(n) == {s \in [1 .. n -> UNION {Entity(i, 0 .. n, {<<>>, a, asa, escaped}) : i \in 1 .. n}] :
                \A i \in 1 .. n : s[i].id = i}
Faulty == [id : {0, 1, 2}, transform : {"none", "nan", "t1"}, parent : {0, 1, 3}, name : {<<>>, a}]
MCPrefabs == {<<>>} \union UNION {Trees(n) : n \in 1 .. 3} \union [1 .. 2 -> Faulty]

Configured == [id : {a, asa, <<98>>}, parent : {<<>>, a, asa, <<98>>, <<99>>}, local : {"t1"}]
FaultyNodes == [id : {<<>>, a}, parent : {<<>>, a}, local : {"t1", "nan"}]
MCConfigurations == {<<>>} \union UNION {[1 .. n -> Configured] : n \in 1 .. 3} \union [1 .. 2 -> FaultyNodes]

(* The instance as spawned, one entity gone, or one with another parent.    *)
MCEdited(entities) ==
    {entities} \union {RemoveAt(entities, i) : i \in DOMAIN entities}
    \union {[entities EXCEPT ![i].parent = p] : i \in DOMAIN entities, p \in 0 .. 3}
MCRenamed(entities) == [i \in DOMAIN entities |->
    [entities[i] EXCEPT !.id = 7 - @, !.parent = IF @ = 0 THEN 0 ELSE 7 - @]]
================================================================================
